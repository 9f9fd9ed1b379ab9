------------------------------ MODULE Tools_proofs ------------------------------
(***************************************************************************)
(* Proofs about the tools around the devices: the event streams and case5, *)
(* the OTG monitor, the cases on the phone, the pressure downloads and the *)
(* editor of custom tests.  The components have no variable in common;     *)
(* each one has its types, its inductive invariant in layers, and then the *)
(* theorems.                                                               *)
(***************************************************************************)
EXTENDS CustomEditing, Downloads, MobileCases, OtgMonitor, DeviceEvents, AppTest,
        FiniteSetTheorems, SequenceTheorems, TLAPS

(***************************************************************************)
(* The event streams and case5.                                            *)
(***************************************************************************)

\* Where case5 is, before and after the user's confirmation.
BeforeConfirmation == Waiting \cup {"activate", "challenge"}
AfterConfirmation == {"token", "heartbeat"}

AuthStates == [round : 1..AuthRounds, attempt : Nat, cancel : BOOLEAN,
               at : BeforeConfirmation \cup AfterConfirmation \cup {"passed", "failed", "cancelled"}]
WaitStates == [now : Nat, quiet : Nat, kept : BOOLEAN]
FeedStates == [at : {"connect", "reading", "raised", "ended", "exhausted"}, reconnects : Nat, cursor : Nat]
CameraStates == [last : Nat, down : BOOLEAN]
Seen5States == [confirmed : Nat, proved : Nat, connections : Nat, power : BOOLEAN, afterPower : BOOLEAN]

EventTypes ==
  /\ auth \in AuthStates /\ wait \in WaitStates /\ feed \in FeedStates
  /\ camera \in CameraStates /\ seen5 \in Seen5States

\* The longest way to the present silence: nothing, the connection, or the connection and
\* the headers.  While events arrive the deadline is not over, so only the last silence
\* comes on top.
WaitInv ==
  auth.at \in Waiting =>
    /\ wait.quiet <= IF auth.at = "connect" THEN ConnectTimeout ELSE AuthTimeout
    /\ ~wait.kept =>
         /\ auth.at = "connect" => wait.now <= wait.quiet
         /\ auth.at = "headers" => wait.now <= ConnectTimeout + wait.quiet
         /\ auth.at = "events" => wait.now <= ConnectTimeout + AuthTimeout + wait.quiet

\* Every connection but the first one has its reconnect.
FeedInv ==
  /\ feed.at = "connect" => seen5.connections <= feed.reconnects
  /\ seen5.connections <= feed.reconnects + 1
  /\ feed.at # "exhausted" => feed.reconnects <= MaxReconnects
  /\ seen5.connections <= MaxReconnects + 1
  /\ seen5.power => feed.at = "ended"
  /\ ~seen5.afterPower

\* One confirmation and one proof for each iteration that is over.
AuthInv ==
  /\ auth.at \in BeforeConfirmation => seen5.confirmed = auth.round - 1
  /\ auth.at \in AfterConfirmation => seen5.confirmed = auth.round
  /\ auth.at \in BeforeConfirmation \cup AfterConfirmation => seen5.proved = auth.round - 1
  /\ auth.at = "passed" => seen5.confirmed = AuthRounds /\ seen5.proved = AuthRounds

EventInv == EventTypes /\ WaitInv /\ FeedInv /\ AuthInv

LEMMA EventInvInit == DeviceEventsInit => EventInv
<1> SUFFICES ASSUME DeviceEventsInit PROVE EventInv
  OBVIOUS
<1>1. 1 \in 1..AuthRounds /\ 1 \in Nat /\ 0 \in Nat
  BY DeviceEventsAssumption
<1>2. EventTypes
  BY <1>1, Zenon DEF DeviceEventsInit, EventTypes, AuthStates, WaitStates, FeedStates, CameraStates,
     Seen5States, NotWaiting, BeforeConfirmation, AfterConfirmation
<1>3. WaitInv /\ FeedInv /\ AuthInv
  BY DeviceEventsAssumption DEF DeviceEventsInit, WaitInv, FeedInv, AuthInv, NotWaiting,
     BeforeConfirmation, AfterConfirmation, Waiting
<1> QED
  BY <1>2, <1>3 DEF EventInv

\* What the steps count.
LEMMA EventNumbers ==
  ASSUME EventTypes
  PROVE  /\ auth.attempt \in Nat /\ auth.round \in 1..AuthRounds /\ auth.round \in Nat /\ auth.round >= 1
         /\ wait.now \in Nat /\ wait.quiet \in Nat
         /\ feed.reconnects \in Nat /\ camera.last \in Nat
         /\ seen5.confirmed \in Nat /\ seen5.proved \in Nat /\ seen5.connections \in Nat
  BY DeviceEventsAssumption DEF EventTypes, AuthStates, WaitStates, FeedStates, CameraStates, Seen5States

LEMMA EventTypesNext == EventTypes /\ DeviceEventsNext => EventTypes'
<1> SUFFICES ASSUME EventTypes, DeviceEventsNext PROVE EventTypes'
  OBVIOUS
<1> DEFINE longer == Ticks(wait.now)
<1>1. /\ auth.attempt + 1 \in Nat /\ 1 \in Nat /\ 0 \in Nat
      /\ auth.round < AuthRounds => auth.round + 1 \in 1..AuthRounds
      /\ wait.quiet + 1 \in Nat /\ longer \in Nat
      /\ feed.reconnects + 1 \in Nat /\ camera.last + 1 \in Nat
      /\ seen5.confirmed + 1 \in Nat /\ seen5.proved + 1 \in Nat /\ seen5.connections + 1 \in Nat
  BY DeviceEventsAssumption, EventNumbers DEF Ticks
<1> HIDE DEF longer
<1> USE DEF EventTypes, AuthStates, WaitStates, FeedStates, CameraStates, Seen5States,
        BeforeConfirmation, AfterConfirmation
<1> DEFINE Places == BeforeConfirmation \cup AfterConfirmation \cup {"passed", "failed", "cancelled"}
<1>10. \A at \in Places : [auth EXCEPT !.at = at] \in AuthStates
  BY Zenon
<1>11. Case5Fails => auth' \in AuthStates
  BY <1>10, Zenon DEF Case5Fails
<1>2. CASE Activate
  <2>1. \/ auth' = [auth EXCEPT !.at = "cancelled"] \/ Case5Fails
        \/ auth' = [auth EXCEPT !.attempt = auth.attempt + 1]
        \/ auth' = [auth EXCEPT !.at = "challenge", !.attempt = 1]
    BY <1>2, Zenon DEF Activate
  <2>2. auth' \in AuthStates
    BY <1>1, <1>11, <2>1, Zenon
  <2> QED
    BY <1>2, <2>2, Zenon DEF Activate
<1>3. CASE Challenge
  <2>1. auth' \in AuthStates
    BY <1>3, <1>10, <1>11, Zenon DEF Challenge, Waiting
  <2>2. wait' \in WaitStates
    <3>1. NotWaiting \in WaitStates
      BY <1>1, Zenon DEF NotWaiting
    <3>2. wait' \in {wait, NotWaiting}
      BY <1>3, Zenon DEF Challenge
    <3> QED
      BY <3>1, <3>2, Zenon
  <2> QED
    BY <1>3, <2>1, <2>2, Zenon DEF Challenge
<1>12. CASE CancelCase5
  BY <1>12, Zenon DEF CancelCase5
<1>4. CASE Tick
  BY <1>1, <1>4, Zenon DEF Tick, longer
<1>5. CASE WaitTimesOut \/ KeptAlive \/ OtherEvent \/ Confirmed \/ NotConfirmed
  BY <1>1, <1>5, Zenon DEF WaitTimesOut, KeptAlive, OtherEvent, Confirmed, NotConfirmed, Case5Fails
<1>13. CASE Connected \/ Opened
  <2>1. "headers" \in Places /\ "events" \in Places
    BY DEF Waiting
  <2>2. auth' = [auth EXCEPT !.at = "headers"] \/ auth' = [auth EXCEPT !.at = "events"]
    BY <1>13, Zenon DEF Connected, Opened
  <2>3. auth' \in AuthStates
    BY <1>10, <2>1, <2>2, Zenon
  <2>4. wait' = [wait EXCEPT !.quiet = 0]
    BY <1>13, Zenon DEF Connected, Opened
  <2>5. wait' \in WaitStates
    BY <1>1, <2>4, Zenon
  <2> QED
    BY <1>13, <2>3, <2>5, Zenon DEF Connected, Opened
<1>6. CASE PostAuth \/ Heartbeat
  <2>1. \/ Case5Fails \/ \E at \in Places : auth' = [auth EXCEPT !.at = at]
        \/ auth.round < AuthRounds /\ auth' = [auth EXCEPT !.round = auth.round + 1, !.at = "activate"]
    BY <1>6, Zenon DEF PostAuth, Heartbeat
  <2>4. \A n \in 1..AuthRounds : [auth EXCEPT !.round = n, !.at = "activate"] \in AuthStates
    BY Zenon
  <2>2. auth' \in AuthStates
    BY <1>1, <1>10, <1>11, <2>1, <2>4, Zenon
  <2>3. seen5' \in Seen5States
    BY <1>1, <1>6, Zenon DEF PostAuth, Heartbeat
  <2> QED
    BY <1>6, <2>2, <2>3, Zenon DEF PostAuth, Heartbeat
<1>7. CASE FeedConnect
  BY <1>1, <1>7, Zenon DEF FeedConnect, Dropped
<1>8. CASE FeedEvent \/ FeedDropped \/ FeedPower
  BY <1>1, <1>8, Zenon DEF FeedEvent, FeedDropped, FeedPower, Dropped
<1>9. CASE GoesDown \/ ComesBack
  BY <1>9, Zenon DEF GoesDown, ComesBack
<1> QED
  BY <1>2, <1>3, <1>4, <1>5, <1>6, <1>7, <1>8, <1>9, <1>12, <1>13
     DEF DeviceEventsNext, Case5, WaitForConfirmation, Feed

LEMMA WaitInvNext == EventTypes /\ WaitInv /\ DeviceEventsNext => WaitInv'
<1> SUFFICES ASSUME EventTypes, WaitInv, DeviceEventsNext PROVE WaitInv'
  OBVIOUS
<1> USE DeviceEventsAssumption, EventNumbers DEF EventTypes, AuthStates, WaitStates, WaitInv, Waiting
<1>1. CASE Challenge
  BY <1>1 DEF Challenge, NotWaiting, Case5Fails
<1>2. CASE Tick
  BY <1>2 DEF Tick, Ticks, Listening, Patience
<1>3. CASE Connected
  BY <1>3 DEF Connected, Listening, Patience
<1>4. CASE Opened
  BY <1>4 DEF Opened, Listening, Patience
<1>5. CASE KeptAlive
  BY <1>5 DEF KeptAlive
<1>6. CASE OtherEvent
  BY <1>6 DEF OtherEvent, Case5Fails
<1>7. ASSUME auth'.at = auth.at \/ auth'.at \notin Waiting, UNCHANGED wait PROVE WaitInv'
  BY <1>7
<1>8. CASE Activate
  BY <1>7, <1>8 DEF Activate, Case5Fails
<1>9. CASE CancelCase5 \/ WaitTimesOut \/ Confirmed \/ NotConfirmed \/ PostAuth \/ Heartbeat
  BY <1>7, <1>9 DEF CancelCase5, WaitTimesOut, Confirmed, NotConfirmed, PostAuth, Heartbeat, Case5Fails
<1>10. ASSUME UNCHANGED <<auth, wait>> PROVE WaitInv'
  BY <1>10
<1> QED
  BY <1>1, <1>2, <1>3, <1>4, <1>5, <1>6, <1>8, <1>9, <1>10 DEF DeviceEventsNext, Case5,
     WaitForConfirmation, Feed, FeedConnect, FeedEvent, FeedDropped, FeedPower, GoesDown, ComesBack

LEMMA FeedInvNext == EventTypes /\ FeedInv /\ DeviceEventsNext => FeedInv'
<1> SUFFICES ASSUME EventTypes, FeedInv, DeviceEventsNext PROVE FeedInv'
  OBVIOUS
<1> USE DeviceEventsAssumption, EventNumbers DEF EventTypes, FeedStates, Seen5States, FeedInv
<1>1. CASE FeedConnect
  <2>1. /\ seen5'.connections = seen5.connections + 1
        /\ seen5'.power = seen5.power /\ seen5'.afterPower = (seen5.afterPower \/ seen5.power)
    BY <1>1 DEF FeedConnect
  <2>2. ~seen5.power
    BY <1>1 DEF FeedConnect
  <2>3. CASE feed' = [feed EXCEPT !.at = "reading"] \/ feed' = [feed EXCEPT !.at = "raised"]
    BY <1>1, <2>1, <2>2, <2>3 DEF FeedConnect
  <2>4. CASE Dropped
    BY <1>1, <2>1, <2>2, <2>4 DEF FeedConnect, Dropped
  <2> QED
    BY <1>1, <2>3, <2>4 DEF FeedConnect
<1>2. CASE FeedEvent
  BY <1>2 DEF FeedEvent
<1>3. CASE FeedDropped
  BY <1>3 DEF FeedDropped, Dropped
<1>4. CASE FeedPower
  BY <1>4 DEF FeedPower
<1>5. ASSUME UNCHANGED feed, UNCHANGED <<seen5.connections, seen5.power, seen5.afterPower>> PROVE FeedInv'
  BY <1>5
<1>6. CASE Confirmed \/ Heartbeat
  BY <1>5, <1>6 DEF Confirmed, Heartbeat
<1>7. ASSUME UNCHANGED <<feed, seen5>> PROVE FeedInv'
  BY <1>7
<1> QED
  BY <1>1, <1>2, <1>3, <1>4, <1>6, <1>7 DEF DeviceEventsNext, Case5, WaitForConfirmation, Feed,
     Activate, Challenge, CancelCase5, Tick, WaitTimesOut, Connected, Opened, KeptAlive, OtherEvent,
     NotConfirmed, PostAuth, GoesDown, ComesBack

LEMMA AuthInvNext == EventTypes /\ AuthInv /\ DeviceEventsNext => AuthInv'
<1> SUFFICES ASSUME EventTypes, AuthInv, DeviceEventsNext PROVE AuthInv'
  OBVIOUS
<1> USE DeviceEventsAssumption, EventNumbers
    DEF EventTypes, AuthStates, Seen5States, AuthInv, BeforeConfirmation, AfterConfirmation, Waiting
<1>1. CASE Activate
  BY <1>1 DEF Activate, Case5Fails
<1>2. CASE Challenge
  BY <1>2 DEF Challenge, Case5Fails
<1>3. CASE Confirmed
  BY <1>3 DEF Confirmed
<1>4. CASE PostAuth
  BY <1>4 DEF PostAuth, Case5Fails
<1>5. CASE Heartbeat
  <2>1. CASE Case5Fails /\ UNCHANGED seen5
    BY <2>1 DEF Case5Fails
  <2>2. ASSUME seen5' = [seen5 EXCEPT !.proved = @ + 1], auth.at = "heartbeat",
               auth.round < AuthRounds, auth' = [auth EXCEPT !.round = @ + 1, !.at = "activate"]
        PROVE  AuthInv'
    BY <2>2
  <2>3. ASSUME seen5' = [seen5 EXCEPT !.proved = @ + 1], auth.at = "heartbeat",
               ~(auth.round < AuthRounds), auth' = [auth EXCEPT !.at = "passed"]
        PROVE  AuthInv'
    BY <2>3
  <2> QED
    BY <1>5, <2>1, <2>2, <2>3 DEF Heartbeat
<1>6. CASE Case5Fails /\ UNCHANGED seen5
  BY <1>6 DEF Case5Fails
<1>7. CASE CancelCase5
  BY <1>7 DEF CancelCase5
<1>8. ASSUME UNCHANGED <<auth, seen5.confirmed, seen5.proved>> PROVE AuthInv'
  BY <1>8
<1>9. CASE FeedConnect \/ FeedPower
  BY <1>8, <1>9 DEF FeedConnect, FeedPower
<1>10. ASSUME UNCHANGED <<auth, seen5>> PROVE AuthInv'
  BY <1>10
<1>11. CASE Connected \/ Opened
  BY <1>11 DEF Connected, Opened
<1> QED
  BY <1>1, <1>2, <1>3, <1>4, <1>5, <1>6, <1>7, <1>9, <1>10, <1>11 DEF DeviceEventsNext, Case5,
     WaitForConfirmation, Feed, Tick, WaitTimesOut, KeptAlive, OtherEvent, NotConfirmed, FeedEvent,
     FeedDropped, GoesDown, ComesBack

\* The wait for the user's confirmation is bounded over its connection, headers and events,
\* the iterator of events opens no connection after a power event and no more than its
\* limit, and a case5 that passes was confirmed and proved once for each iteration; for
\* every timeout, limit and number of iterations.
THEOREM EventsKeepBounds == DeviceEventsSpec => []StreamsAndAuth
<1>1. DeviceEventsInit => EventInv
  BY EventInvInit
<1>2. EventInv /\ [DeviceEventsNext]_eventVars => EventInv'
  <2>1. EventInv /\ UNCHANGED eventVars => EventInv'
    BY DEF EventInv, EventTypes, WaitInv, FeedInv, AuthInv, eventVars
  <2> QED
    BY <2>1, EventTypesNext, WaitInvNext, FeedInvNext, AuthInvNext DEF EventInv
<1>3. EventInv => StreamsAndAuth
  BY EventNumbers, DeviceEventsAssumption DEF EventInv, WaitInv, FeedInv, AuthInv,
     StreamsAndAuth, WaitBounded, ReconnectsBounded, AuthorizedInFull, Waiting, Longest
<1> QED
  BY <1>1, <1>2, <1>3, PTL DEF DeviceEventsSpec

-----------------------------------------------------------------------------
(***************************************************************************)
(* The OTG monitor.                                                        *)
(***************************************************************************)

ServiceStates == [at : {"none", "look", "copy", "history", "summary", "nap", "gone"},
                  stop : BOOLEAN, removal : BOOLEAN, count : Nat]

OtgTypes ==
  /\ service \in [1..Services -> ServiceStates]
  /\ section \in [known : 0..Services, joining : 0..Services, starts : 0..Services]
  /\ report \in [history : [Numbers -> Nat], summary : {"whole", "torn"}, last : Nat]
  /\ excused \in BOOLEAN

\* What a thread that has written its history entry and not yet the summary is ahead of it.
Ahead(s) == service[s].at \in {"history", "summary"}

\* Without an excuse one thread runs at most, the one the section knows, and counts on from
\* the summary; the history is ahead of the summary only while that thread is writing it.
OneMonitor == \A s \in 1..Services : ServiceAlive(s) => s = section.known
CountsOn ==
  \A s \in 1..Services :
    ServiceAlive(s) => service[s].count = report.last + (IF Ahead(s) THEN 1 ELSE 0)
HistoryOnce ==
  \A n \in Numbers :
    /\ report.history[n] <= 1
    /\ report.history[n] # 0 =>
         \/ n <= report.last
         \/ n = report.last + 1 /\ \E s \in 1..Services : service[s].at = "summary"

OtgInv ==
  /\ OtgTypes
  /\ section.joining \in {0, section.known}
  /\ ~excused => report.summary = "whole" /\ OneMonitor /\ CountsOn /\ HistoryOnce

\* What a step of the thread of service s does to it, and to the report.
ServiceBecomes(s, rec) ==
  LET w == service[s]
      unwritten == UNCHANGED <<report, excused>> /\ rec.count = w.count IN
  /\ service' = [service EXCEPT ![s] = rec]
  /\ \/ w.at = "look" /\ rec.at \in {"gone", "copy", "nap"} /\ unwritten
     \/ w.at \in {"copy", "nap"} /\ rec.at \in {"look", "nap"} /\ unwritten
     \/ w.at = "copy" /\ rec.at = "history" /\ rec.count = w.count + 1 /\ UNCHANGED <<report, excused>>
     \/ /\ w.at = "history" /\ rec.at = "summary" /\ rec.count = w.count
        /\ report' = [report EXCEPT !.history[w.count] = @ + 1] /\ UNCHANGED excused
     \/ /\ w.at = "summary" /\ rec.at = "nap" /\ rec.count = w.count
        /\ report' = [report EXCEPT !.summary = "whole", !.last = w.count] /\ UNCHANGED excused
     \/ /\ excused' = TRUE
        /\ report' \in {report, [report EXCEPT !.summary = "torn"]}

LEMMA OtgInvInit == OtgInit => OtgInv
<1> SUFFICES ASSUME OtgInit PROVE OtgInv
  OBVIOUS
<1>1. 0 \in Nat /\ 0 \in 0..Services
  BY OtgAssumption
<1>2. NoService \in ServiceStates
  BY <1>1, Zenon DEF NoService, ServiceStates
<1>3. OtgTypes
  BY <1>1, <1>2, Zenon DEF OtgInit, OtgTypes
<1>4. \A s \in 1..Services : ~ServiceAlive(s)
  BY DEF OtgInit, ServiceAlive, NoService
<1> QED
  BY <1>3, <1>4 DEF OtgInit, OtgInv, OneMonitor, CountsOn, HistoryOnce

\* The steps of a thread have such an effect.
LEMMA MonitorEffect ==
  ASSUME OtgTypes, NEW s \in 1..Services, Monitor(s)
  PROVE  UNCHANGED section /\ \E rec \in ServiceStates : ServiceBecomes(s, rec)
<1> DEFINE w == service[s]
<1>1. w \in ServiceStates
  BY DEF OtgTypes
<1>2. w.count \in Nat /\ w.count + 1 \in Nat
  BY <1>1 DEF ServiceStates
<1> DEFINE looked == [w EXCEPT !.at = IF w.stop THEN "gone" ELSE IF drive.in
     /\ ~w.removal THEN "copy" ELSE "nap",
                              !.removal = IF w.stop THEN w.removal ELSE w.removal /\ drive.in]
           to(at) == [w EXCEPT !.at = at]
           failed == [w EXCEPT !.at = "nap", !.removal = TRUE]
           copied == [w EXCEPT !.at = "history", !.count = w.count + 1]
<1>3. \A at \in {"summary", "look"} : to(at) \in ServiceStates /\ to(at).at = at /\ to(at).count = w.count
  BY <1>1, Zenon DEF ServiceStates
<1>4. failed \in ServiceStates /\ failed.at = "nap" /\ failed.count = w.count
  BY <1>1, Zenon DEF ServiceStates
<1>5. copied \in ServiceStates /\ copied.at = "history" /\ copied.count = w.count + 1
  BY <1>1, <1>2, Zenon DEF ServiceStates
<1>6. looked \in ServiceStates /\ looked.at \in {"gone", "copy", "nap"} /\ looked.count = w.count
  <2>1. CASE w.stop
    BY <1>1, <2>1, Zenon DEF ServiceStates
  <2>2. CASE ~w.stop /\ drive.in /\ ~w.removal
    BY <1>1, <2>2, Zenon DEF ServiceStates
  <2>3. CASE ~w.stop /\ ~(drive.in /\ ~w.removal)
    BY <1>1, <2>3, Zenon DEF ServiceStates
  <2> QED
    BY <2>1, <2>2, <2>3, Zenon
<1>7. CASE Look(s)
  <2>1. /\ service' = [service EXCEPT ![s] = looked] /\ w.at = "look"
        /\ UNCHANGED <<section, report, excused>>
    BY <1>7, Zenon DEF Look
  <2> HIDE DEF looked
  <2> QED
    BY <1>6, <2>1, Zenon DEF ServiceBecomes
<1>8. CASE CopyFile(s)
  <2>1. /\ service' = [service EXCEPT ![s] = copied] \/ service' = [service EXCEPT ![s] = failed]
        /\ w.at = "copy" /\ UNCHANGED <<section, report, excused>>
    BY <1>8, Zenon DEF CopyFile, TransferFails
  <2> HIDE DEF copied, failed
  <2>2. CASE service' = [service EXCEPT ![s] = copied]
    BY <1>5, <2>1, <2>2, Zenon DEF ServiceBecomes
  <2>3. CASE service' = [service EXCEPT ![s] = failed]
    BY <1>4, <2>1, <2>3, Zenon DEF ServiceBecomes
  <2> QED
    BY <2>1, <2>2, <2>3
<1>9. CASE WriteHistory(s)
  <2>1. /\ w.at = "history" /\ UNCHANGED section
        /\ \/ /\ service' = [service EXCEPT ![s] = to("summary")] /\ UNCHANGED excused
              /\ report' = [report EXCEPT !.history[w.count] = @ + 1]
           \/ service' = [service EXCEPT ![s] = failed] /\ excused' = TRUE /\ UNCHANGED report
    BY <1>9, Zenon DEF WriteHistory, Set, TransferFails
  <2> HIDE DEF to, failed
  <2>2. CASE service' = [service EXCEPT ![s] = failed] /\ excused' = TRUE /\ UNCHANGED report
    BY <1>4, <2>1, <2>2, Zenon DEF ServiceBecomes
  <2> QED
    BY <1>3, <2>1, <2>2, Zenon DEF ServiceBecomes
<1>10. CASE WriteSummary(s)
  <2>1. /\ service' = [service EXCEPT ![s] = failed] /\ w.at = "summary" /\ UNCHANGED section
        /\ \/ report' = [report EXCEPT !.summary = "whole", !.last = w.count] /\ UNCHANGED excused
           \/ report' \in {report, [report EXCEPT !.summary = "torn"]} /\ excused' = TRUE
    BY <1>10, Zenon DEF WriteSummary, TransferFails
  <2> HIDE DEF failed
  <2> QED
    BY <1>4, <2>1, Zenon DEF ServiceBecomes
<1>11. CASE Nap(s)
  <2>1. /\ service' = [service EXCEPT ![s] = to("look")] /\ w.at = "nap"
        /\ UNCHANGED <<section, report, excused>>
    BY <1>11, Zenon DEF Nap, Set
  <2> HIDE DEF to
  <2> QED
    BY <1>3, <2>1, Zenon DEF ServiceBecomes
<1> QED
  BY <1>7, <1>8, <1>9, <1>10, <1>11 DEF Monitor

LEMMA OtgInvMonitor ==
  ASSUME OtgInv, NEW s \in 1..Services, Monitor(s)
  PROVE  OtgInv'
<1>0. OtgTypes
  BY DEF OtgInv
<1>1. PICK rec \in ServiceStates : ServiceBecomes(s, rec)
  BY <1>0, MonitorEffect
<1>2. UNCHANGED section
  BY <1>0, MonitorEffect
<1>3. /\ service' \in [1..Services -> ServiceStates] /\ service'[s] = rec
      /\ \A t \in 1..Services : t # s => service'[t] = service[t]
  BY <1>0, <1>1, Zenon DEF ServiceBecomes, OtgTypes
<1>4. service[s].count \in Nat /\ \A n \in Numbers : report.history[n] \in Nat
     /\ report.history[n] + 1 \in Nat
  BY <1>0 DEF OtgTypes, ServiceStates
<1>5. OtgTypes'
  <2>1. report' \in [history : [Numbers -> Nat], summary : {"whole", "torn"}, last : Nat]
    <3>1. CASE report' = [report EXCEPT !.history[service[s].count] = @ + 1]
      <4> DEFINE written == [report.history EXCEPT ![service[s].count] = @ + 1]
      <4>1. written \in [Numbers -> Nat]
        BY <1>0, <1>4 DEF OtgTypes
      <4>2. report' = [report EXCEPT !.history = written]
        BY <3>1
      <4> HIDE DEF written
      <4> QED
        BY <1>0, <4>1, <4>2 DEF OtgTypes
    <3>2. CASE report' = [report EXCEPT !.summary = "whole", !.last = service[s].count]
      BY <1>0, <1>4, <3>2, Zenon DEF OtgTypes
    <3>3. CASE report' \in {report, [report EXCEPT !.summary = "torn"]}
      BY <1>0, <3>3, Zenon DEF OtgTypes
    <3> QED
      BY <1>1, <3>1, <3>2, <3>3 DEF ServiceBecomes
  <2>2. excused' \in BOOLEAN
    BY <1>0, <1>1 DEF OtgTypes, ServiceBecomes
  <2> QED
    BY <1>0, <1>2, <1>3, <2>1, <2>2 DEF OtgTypes
<1> USE <1>0, <1>1, <1>2, <1>3
<1>6. SUFFICES ASSUME ~excused'
              PROVE  report'.summary = "whole" /\ OneMonitor' /\ CountsOn' /\ HistoryOnce'
  BY <1>5 DEF OtgInv
<1>7. ~excused /\ report.summary = "whole" /\ OneMonitor /\ CountsOn /\ HistoryOnce
  BY <1>6 DEF OtgInv, ServiceBecomes, OtgTypes
<1>8. s = section.known /\ s # 0
  BY <1>6, <1>7 DEF OneMonitor, ServiceBecomes, ServiceAlive
<1>9. \A t \in 1..Services : t # s => ~ServiceAlive(t) /\ ~ServiceAlive(t)'
  BY <1>7, <1>8 DEF OneMonitor, ServiceAlive
<1>10. OneMonitor'
  BY <1>8, <1>9 DEF OneMonitor
<1>11. service[s].count = report.last + (IF Ahead(s) THEN 1 ELSE 0) /\ report.last \in Nat
  BY <1>6, <1>7, <1>8 DEF CountsOn, OneMonitor, ServiceBecomes, ServiceAlive, OtgTypes
<1>12. ASSUME CountsOn' \/ rec.at = "gone" \/ rec.count = report'.last + (IF Ahead(s)' THEN 1 ELSE 0)
       PROVE  CountsOn'
  BY <1>9, <1>12 DEF CountsOn, ServiceAlive
<1>13. CASE UNCHANGED report /\ service[s].at \notin {"history", "summary"} /\ rec.at # "summary"
  <2>1. HistoryOnce'
    BY <1>7, <1>13 DEF HistoryOnce
  <2>2. CountsOn'
    BY <1>11, <1>12, <1>13, <1>6 DEF ServiceBecomes, Ahead, ServiceStates
  <2> QED
    BY <1>7, <1>10, <1>13, <2>1, <2>2
<1>14. CASE /\ service[s].at = "history" /\ rec.at = "summary" /\ rec.count = service[s].count
            /\ report' = [report EXCEPT !.history[service[s].count] = @ + 1]
  <2>1. /\ report'.last = report.last /\ report'.summary = report.summary
        /\ \A n \in Numbers :
             report'.history[n] = IF n = service[s].count THEN report.history[n] + 1 ELSE report.history[n]
    <3> DEFINE written == [report.history EXCEPT ![service[s].count] = @ + 1]
    <3>1. report' = [report EXCEPT !.history = written]
      BY <1>14
    <3>2. \A n \in Numbers :
             written[n] = IF n = service[s].count THEN report.history[n] + 1 ELSE report.history[n]
      BY DEF OtgTypes
    <3> HIDE DEF written
    <3> QED
      BY <3>1, <3>2 DEF OtgTypes
  <2>2. CountsOn'
    BY <1>11, <1>12, <1>14, <2>1 DEF Ahead
  <2>3. \A t \in 1..Services : service[t].at # "summary"
    BY <1>9, <1>14 DEF ServiceAlive
  <2>4. service[s].count = report.last + 1
    BY <1>11, <1>14 DEF Ahead
  <2>5. HistoryOnce'
    <3> SUFFICES ASSUME NEW n \in Numbers
                 PROVE  /\ report'.history[n] <= 1
                        /\ report'.history[n] # 0 =>
                             \/ n <= report'.last
                             \/ n = report'.last + 1 /\ \E t \in 1..Services : service'[t].at = "summary"
      BY DEF HistoryOnce
    <3>1. n \in Nat
      BY OtgAssumption DEF Numbers
    <3>2. report.history[n] \in Nat /\ report.history[n] <= 1 /\ (report.history[n] # 0 => n <= report.last)
      BY <1>4, <1>7, <2>3 DEF HistoryOnce
    <3>3. service'[s].at = "summary"
      BY <1>14
    <3> QED
      BY <1>11, <2>1, <2>4, <3>1, <3>2, <3>3
  <2> QED
    BY <1>7, <1>10, <2>1, <2>2, <2>5
<1>15. CASE /\ service[s].at = "summary" /\ rec.at = "nap" /\ rec.count = service[s].count
            /\ report' = [report EXCEPT !.summary = "whole", !.last = service[s].count]
  <2>1. report'.history = report.history /\ report'.last = service[s].count /\ report'.summary = "whole"
    BY <1>15 DEF OtgTypes
  <2>2. service[s].count = report.last + 1
    BY <1>11, <1>15 DEF Ahead
  <2>3. CountsOn'
    BY <1>12, <1>15, <1>4, <2>1 DEF Ahead
  <2>4. HistoryOnce'
    BY <1>7, <1>11, <2>1, <2>2, OtgAssumption DEF HistoryOnce, Numbers
  <2> QED
    BY <1>10, <2>1, <2>3, <2>4
<1> QED
  BY <1>6, <1>13, <1>14, <1>15 DEF ServiceBecomes

\* The drive, the section and a restart.
LEMMA OtgInvSection ==
  ASSUME OtgInv, Plug \/ StartMonitor \/ StopMonitor \/ Joined \/ Restart
  PROVE  OtgInv'
<1>1. CASE Plug
  BY <1>1 DEF Plug, OtgInv, OtgTypes, OneMonitor, CountsOn, HistoryOnce, ServiceAlive, Ahead
<1>2. CASE StartMonitor
  <2> DEFINE s == section.starts + 1
             new == [NoService EXCEPT !.at = "look", !.count = PreviousCount]
  <2>1. s \in 1..Services /\ s \in 0..Services /\ PreviousCount \in Nat
    BY <1>2, OtgAssumption DEF StartMonitor, OtgInv, OtgTypes, PreviousCount
  <2>2. new \in ServiceStates /\ new.at = "look" /\ new.count = PreviousCount
    BY <2>1, Zenon DEF NoService, ServiceStates
  <2>3. /\ service' = [service EXCEPT ![s] = new] /\ UNCHANGED <<report, excused>>
        /\ section' = [known |-> s, joining |-> 0, starts |-> s]
    BY <1>2 DEF StartMonitor
  <2>4. section.joining = 0 /\ ~ServiceAlive(section.known)
    BY <1>2 DEF StartMonitor
  <2> HIDE DEF s, new
  <2>5. /\ service' \in [1..Services -> ServiceStates] /\ service'[s] = new
        /\ \A t \in 1..Services : t # s => service'[t] = service[t]
    BY <2>1, <2>2, <2>3, Zenon DEF OtgInv, OtgTypes
  <2>6. OtgTypes' /\ section'.joining = 0 /\ section'.known = s
    BY <2>1, <2>3, <2>5, OtgAssumption DEF OtgInv, OtgTypes
  <2>7. ASSUME ~excused PROVE report.summary = "whole" /\ OneMonitor' /\ CountsOn' /\ HistoryOnce'
    <3>1. report.summary = "whole" /\ OneMonitor /\ HistoryOnce
      BY <2>7 DEF OtgInv
    <3>2. \A t \in 1..Services : ~ServiceAlive(t)
      BY <3>1, <2>4 DEF OneMonitor
    <3>3. \A t \in 1..Services : t # s => ~ServiceAlive(t)'
      BY <3>2, <2>5 DEF ServiceAlive
    <3>4. OneMonitor'
      BY <3>3, <2>6 DEF OneMonitor
    <3>5. CountsOn'
      BY <3>1, <3>3, <2>2, <2>3, <2>5 DEF CountsOn, PreviousCount, Ahead, OtgInv, OtgTypes
    <3>6. HistoryOnce'
      BY <3>1, <3>2, <2>3 DEF HistoryOnce, ServiceAlive
    <3> QED
      BY <3>1, <3>4, <3>5, <3>6
  <2> QED
    BY <2>3, <2>6, <2>7 DEF OtgInv
<1>3. CASE StopMonitor
  <2> DEFINE s == section.known
             told == [service[s] EXCEPT !.stop = TRUE]
  <2>1. s \in 1..Services
    BY <1>3 DEF StopMonitor, ServiceAlive, OtgInv, OtgTypes
  <2>2. told \in ServiceStates /\ told.at = service[s].at /\ told.count = service[s].count
    BY <2>1, Zenon DEF ServiceStates, OtgInv, OtgTypes
  <2>3. /\ service' = [service EXCEPT ![s] = told] /\ UNCHANGED <<report, excused>>
        /\ section' = [section EXCEPT !.joining = s]
    BY <1>3, Zenon DEF StopMonitor
  <2> HIDE DEF told
  <2>4. /\ service' \in [1..Services -> ServiceStates]
        /\ \A t \in 1..Services : service'[t].at = service[t].at /\ service'[t].count = service[t].count
    BY <2>1, <2>2, <2>3 DEF OtgInv, OtgTypes
  <2>5. section'.joining = s /\ section'.known = s /\ OtgTypes'
    BY <2>1, <2>3, <2>4 DEF OtgInv, OtgTypes
  <2> QED
    BY <2>3, <2>4, <2>5 DEF OtgInv, OneMonitor, CountsOn, HistoryOnce, ServiceAlive, Ahead
<1>4. CASE Joined
  <2>1. section'.joining = 0 /\ section'.known = 0 /\ OtgTypes' /\ UNCHANGED <<service, report>>
    <3>1. 0 \in 0..Services
      BY OtgAssumption
    <3>2. section' \in [known : 0..Services, joining : 0..Services, starts : 0..Services]
      BY <1>4, <3>1, Zenon DEF Joined, OtgInv, OtgTypes
    <3>3. section'.joining = 0 /\ section'.known = 0 /\ excused' \in BOOLEAN
      BY <1>4 DEF Joined, OtgInv, OtgTypes
    <3> QED
      BY <1>4, <3>2, <3>3 DEF Joined, OtgInv, OtgTypes
  <2>2. excused' = (excused \/ ServiceAlive(section.joining)) /\ section.joining = section.known
    BY <1>4 DEF Joined, OtgInv
  <2>3. ~excused' => ~excused /\ \A t \in 1..Services : ~ServiceAlive(t)
    BY <2>2 DEF OtgInv, OneMonitor
  <2> QED
    BY <2>1, <2>3 DEF OtgInv, OneMonitor, CountsOn, HistoryOnce, ServiceAlive, Ahead
<1>5. CASE Restart
  <2> DEFINE torn == \E s \in DOMAIN service : service[s].at \in {"history", "summary"}
             dead(s) == [service[s] EXCEPT !.at = "gone"]
  <2>1. /\ service' = [s \in DOMAIN service |-> IF ServiceAlive(s) THEN dead(s) ELSE service[s]]
        /\ section' = [section EXCEPT !.known = 0, !.joining = 0]
        /\ excused' = (excused \/ torn)
        /\ report' \in {report, IF torn THEN [report EXCEPT !.summary = "torn"] ELSE report}
    BY <1>5, Zenon DEF Restart
  <2>2. \A s \in 1..Services : dead(s) \in ServiceStates /\ dead(s).at = "gone"
    BY Zenon DEF OtgInv, OtgTypes, ServiceStates
  <2> HIDE DEF dead
  <2>3. /\ service' \in [1..Services -> ServiceStates]
        /\ \A s \in 1..Services : ~ServiceAlive(s)'
    BY <2>1, <2>2 DEF OtgInv, OtgTypes, ServiceAlive
  <2>4. 0 \in 0..Services
    BY OtgAssumption
  <2>5. section' \in [known : 0..Services, joining : 0..Services, starts : 0..Services]
    BY <2>1, <2>4, Zenon DEF OtgInv, OtgTypes
  <2>6. report' \in [history : [Numbers -> Nat], summary : {"whole", "torn"}, last : Nat]
    BY <2>1, Zenon DEF OtgInv, OtgTypes
  <2>7. section'.joining = 0 /\ OtgTypes'
    BY <2>1, <2>3, <2>5, <2>6 DEF OtgInv, OtgTypes
  <2>8. ~excused' => ~excused /\ ~torn /\ report' = report
    BY <2>1
  <2>9. ~torn => \A s \in 1..Services : service[s].at # "summary"
    BY DEF OtgInv, OtgTypes
  <2> QED
    BY <2>3, <2>7, <2>8, <2>9 DEF OtgInv, OneMonitor, CountsOn, HistoryOnce
<1> QED
  BY <1>1, <1>2, <1>3, <1>4, <1>5

\* The numbers in the history are unique over any number of starts, stops, insertions and
\* restarts, without one of the excuses.
THEOREM NumbersStayUnique == OtgSpec => []NumbersUnique
<1>1. OtgInit => OtgInv
  BY OtgInvInit
<1>2. OtgInv /\ [OtgNext]_otgVars => OtgInv'
  <2>1. OtgInv /\ UNCHANGED otgVars => OtgInv'
    BY DEF OtgInv, OtgTypes, OneMonitor, CountsOn, HistoryOnce, ServiceAlive, Ahead, otgVars
  <2> QED
    BY <2>1, OtgInvMonitor, OtgInvSection DEF OtgNext
<1>3. OtgInv => NumbersUnique
  BY DEF OtgInv, OtgTypes, HistoryOnce, NumbersUnique
<1> QED
  BY <1>1, <1>2, <1>3, PTL DEF OtgSpec

-----------------------------------------------------------------------------
(***************************************************************************)
(* The cases on the phone.                                                 *)
(***************************************************************************)

\* A number has one rest.
LEMMA OneRest ==
  ASSUME NEW a \in Nat, NEW m \in Nat \ {0}, NEW q \in Int, NEW k \in 0..(m - 1), a = m * q + k
  PROVE  a % m = k
  OBVIOUS

\* The rest of the next number.
LEMMA NextRest ==
  ASSUME NEW a \in Nat, NEW m \in Nat \ {0}
  PROVE  /\ a % m \in 0..(m - 1)
         /\ (a + 1) % m = IF a % m = m - 1 THEN 0 ELSE (a % m) + 1
         /\ a < m => a % m = a
<1>1. a % m \in 0..(m - 1) /\ a = m * (a \div m) + (a % m) /\ a \div m \in Int
  OBVIOUS
<1>2. CASE a % m = m - 1
  <2>1. a + 1 = m * ((a \div m) + 1) + 0 /\ a + 1 \in Nat /\ (a \div m) + 1 \in Int /\ 0 \in 0..(m - 1)
    BY <1>1, <1>2
  <2>2. (a + 1) % m = 0
    BY <1>1, <2>1, OneRest, Zenon
  <2> QED
    BY <1>1, <1>2, <2>2
<1>3. CASE a % m # m - 1
  <2>1. a + 1 = m * (a \div m) + ((a % m) + 1) /\ a + 1 \in Nat /\ (a % m) + 1 \in 0..(m - 1)
    BY <1>1, <1>3
  <2>2. (a + 1) % m = (a % m) + 1
    BY <1>1, <2>1, OneRest, Zenon
  <2> QED
    BY <1>1, <1>3, <2>2
<1>4. a < m => a % m = a
  OBVIOUS
<1> QED
  BY <1>1, <1>2, <1>3, <1>4

Steps == {"album", "device", "download", "select", "verify", "preview", "settings", "card", "tag",
          "pick", "final", "over"}
UiaStates == [case : Cases, round : 1..Rounds, at : Steps, exit : 0..3, read : [baseline : Nat],
              count : Nat \ {0, 1}]
PhoneStates == [local : Nat, loading : Nat, deleting : BOOLEAN, link : {"none", "target", "other"},
                crashed : BOOLEAN]
PastStates == [local : Nat, misread : BOOLEAN, video : 1..Videos, watched : SUBSET (1..Videos),
               lost : Nat, astray : BOOLEAN]

MobileTypes == uia \in UiaStates /\ phone \in PhoneStates /\ past \in PastStates

\* What there is on the phone, with what is still to come, at each step of case1: as when
\* the run began, with one download more from its tap until a deletion has happened.
AsBefore == phone.local + phone.loading = past.local /\ ~phone.deleting
OneMore == phone.local + phone.loading = past.local + 1
LocalInv ==
  uia.case = "case1" /\ ~past.misread =>
    /\ uia.at = "album" => AsBefore
    /\ uia.at = "device" => AsBefore /\ uia.read.baseline <= phone.local
    /\ uia.at = "download" => OneMore /\ ~phone.deleting /\ uia.read.baseline <= phone.local
    /\ uia.at = "select" => OneMore /\ ~phone.deleting /\ uia.read.baseline < phone.local
    /\ uia.at = "verify" => \/ AsBefore /\ uia.read.baseline <= phone.local
                            \/ OneMore /\ uia.read.baseline < phone.local
    /\ uia.at = "over" /\ uia.exit = 0 => AsBefore

\* The video the script is at when no swipe is lost: to the last one and back, for ever.
Turn(round, count) == (round - 1) % ((count - 1) * 2)
VideoOf(round, count) ==
  IF Turn(round, count) <= count - 1 THEN Turn(round, count) + 1
  ELSE 2 * (count - 1) - Turn(round, count) + 1

\* case2 is never farther from that video than swipes were lost: an end of the list brings it
\* nearer.  Behind the video shown all are watched, and at first the script only goes on.
PreviewInv ==
  uia.case = "case2" /\ uia.count <= Videos =>
    /\ past.astray => past.lost > 0
    /\ uia.at = "preview" =>
         /\ past.video <= VideoOf(uia.round, uia.count) + past.lost
         /\ VideoOf(uia.round, uia.count) <= past.video + past.lost
         /\ \A v \in 1..Videos : v < past.video => v \in past.watched
         /\ \A v \in 1..Videos : v + past.lost <= uia.count /\ v + past.lost < uia.round => v \in past.watched
    /\ uia.at = "over" /\ uia.exit = 0 =>
         \A v \in 1..Videos : v + past.lost <= uia.count /\ v + past.lost <= Rounds => v \in past.watched

MobileInv == MobileTypes /\ LocalInv /\ PreviewInv

\* The swipe of an iteration leads to the video of the next one, and the first videos are
\* those of the first iterations.
LEMMA VideosInTurn ==
  ASSUME NEW round \in Nat \ {0}, NEW count \in Nat \ {0, 1}
  PROVE  /\ VideoOf(round, count) \in 1..count
         /\ VideoOf(round + 1, count) \in 1..count
         /\ VideoOf(round + 1, count) =
              VideoOf(round, count) + (IF NavigationAction(round, count) = "next" THEN 1 ELSE -1)
         /\ round <= count => VideoOf(round, count) = round
<1> DEFINE m == (count - 1) * 2
           k == (round - 1) % m
<1>1. m \in Nat \ {0} /\ count - 1 \in Nat \ {0} /\ m = 2 * (count - 1)
  OBVIOUS
<1>2. /\ k \in 0..(m - 1)
      /\ round % m = IF k = m - 1 THEN 0 ELSE k + 1
      /\ round - 1 < m => k = round - 1
  <2>1. round - 1 \in Nat /\ (round - 1) + 1 = round
    OBVIOUS
  <2> QED
    BY <1>1, <2>1, NextRest
<1>3. Turn(round, count) = k /\ Turn(round + 1, count) = round % m
  <2>1. (round + 1) - 1 = round
    OBVIOUS
  <2> QED
    BY <2>1 DEF Turn
<1>4. NavigationAction(round, count) = IF k < count - 1 THEN "next" ELSE "previous"
  BY DEF NavigationAction
<1> HIDE DEF k, m
<1>5. round <= count => round - 1 < m
  BY <1>1
<1>6. VideoOf(round, count) = IF k <= count - 1 THEN k + 1 ELSE 2 * (count - 1) - k + 1
  BY <1>3 DEF VideoOf
<1>7. VideoOf(round + 1, count) = IF round % m <= count - 1 THEN (round % m) + 1
                                  ELSE 2 * (count - 1) - (round % m) + 1
  BY <1>3 DEF VideoOf
<1>8. VideoOf(round, count) \in 1..count /\ (round <= count => VideoOf(round, count) = round)
  BY <1>1, <1>2, <1>5, <1>6
<1>9. CASE k = m - 1
  BY <1>1, <1>2, <1>4, <1>6, <1>7, <1>8, <1>9
<1>10. CASE k # m - 1
  BY <1>1, <1>2, <1>4, <1>6, <1>7, <1>8, <1>10
<1> QED
  BY <1>9, <1>10

LEMMA MobileInvInit == MobileInit => MobileInv
<1> SUFFICES ASSUME MobileInit PROVE MobileInv
  OBVIOUS
<1>1. /\ 1 \in 1..Rounds /\ 1 \in 1..Videos /\ 3 \in 0..3 /\ 0 \in Nat /\ 1 \in Nat
      /\ \A n, m \in 0..1 : n \in Nat /\ m \in Nat /\ n + m \in Nat
      /\ \A c \in Counted : c \in Nat \ {0, 1}
  BY MobileCasesAssumption DEF Counted
<1>2. PICK case \in Cases, count \in Counted :
        uia = [case |-> case, round |-> 1, at |-> FirstStep[case], exit |-> 3,
               read |-> Unread, count |-> count]
  BY Zenon DEF MobileInit
<1>3. PICK link \in {"none", "target", "other"}, n \in 0..1, m \in 0..1 :
        /\ phone = [local |-> n, loading |-> m, deleting |-> FALSE, link |-> link, crashed |-> FALSE]
        /\ past = [local |-> n + m, misread |-> FALSE,
                   video |-> 1, watched |-> {}, lost |-> 0, astray |-> FALSE]
  BY Zenon DEF MobileInit
<1>4. /\ FirstStep[case] \in Steps /\ FirstStep[case] # "over"
      /\ case = "case1" => FirstStep[case] = "album"
  BY DEF Cases, FirstStep, Steps
<1>5. uia \in UiaStates
  BY <1>1, <1>2, <1>4, Zenon DEF UiaStates, Unread
<1>6. phone \in PhoneStates
  BY <1>1, <1>3, Zenon DEF PhoneStates
<1>7. past \in PastStates
  BY <1>1, <1>3, Zenon DEF PastStates
<1>8. LocalInv
  BY <1>2, <1>3, <1>4 DEF LocalInv, AsBefore
<1>9. PreviewInv
  <2>1. VideoOf(1, count) = 1
    BY <1>1, VideosInTurn
  <2> QED
    BY <1>1, <1>2, <1>3, <1>4, <2>1 DEF PreviewInv
<1> QED
  BY <1>5, <1>6, <1>7, <1>8, <1>9 DEF MobileInv, MobileTypes

\* What Pass does: the next iteration at its first step, or the end of the loop.
LEMMA PassTypes ==
  ASSUME uia \in UiaStates, NEW read \in [baseline : Nat], NEW last \in {"over", "final"}, Pass(read, last)
  PROVE  uia' \in UiaStates
<1>1. /\ uia.round < Rounds => uia.round + 1 \in 1..Rounds
      /\ FirstStep[uia.case] \in Steps /\ 0 \in 0..3 /\ "over" \in Steps /\ last \in Steps
  BY MobileCasesAssumption DEF UiaStates, Cases, FirstStep, Steps
<1>2. CASE uia.round < Rounds
  BY <1>1, <1>2, Zenon DEF Pass, UiaStates
<1>3. CASE ~(uia.round < Rounds)
  BY <1>1, <1>3, Zenon DEF Pass, UiaStates
<1> QED
  BY <1>2, <1>3

LEMMA MobileTypesNext == MobileTypes /\ MobileNext => MobileTypes'
<1> SUFFICES ASSUME MobileTypes, MobileNext PROVE MobileTypes'
  OBVIOUS
<1>1. /\ phone.local \in Nat /\ phone.loading \in Nat /\ past.video \in 1..Videos /\ past.lost + 1 \in Nat
      /\ phone.local + 1 \in Nat /\ phone.loading + 1 \in Nat
      /\ phone.local > 0 => phone.local - 1 \in Nat
      /\ phone.loading > 0 => phone.loading - 1 \in Nat
      /\ 0 \in Nat /\ \A e \in {0, 1, 2} : e \in 0..3
  BY DEF MobileTypes, PhoneStates, PastStates
<1>2. \A at \in Steps : [uia EXCEPT !.at = at] \in UiaStates
  BY Zenon DEF MobileTypes, UiaStates
<1>3. \A e \in {0, 1, 2} : [uia EXCEPT !.at = "over", !.exit = e] \in UiaStates
  BY <1>1, Zenon DEF MobileTypes, UiaStates, Steps
<1>4. Unread \in [baseline : Nat] /\ uia.read \in [baseline : Nat]
  BY <1>1, Zenon DEF Unread, MobileTypes, UiaStates
<1>5. \A step \in Steps : Go(step) => uia' \in UiaStates
  BY <1>2, Zenon DEF Go
<1>6. /\ \A link \in {"none", "target", "other"} : [phone EXCEPT !.link = link] \in PhoneStates
      /\ \A b \in BOOLEAN : /\ [phone EXCEPT !.deleting = b] \in PhoneStates
                            /\ [phone EXCEPT !.crashed = b] \in PhoneStates
  BY Zenon DEF MobileTypes, PhoneStates
<1>7. CASE CancelRun \/ NodeMissing
  BY <1>3, <1>7, Zenon DEF CancelRun, NodeMissing, Fail, MobileTypes
<1>8. CASE PhoneMoves
  <2>1. ASSUME phone.loading > 0, phone' = [phone EXCEPT !.loading = @ - 1, !.local = @ + 1]
        PROVE  phone' \in PhoneStates
    <3>1. phone.loading - 1 \in Nat
      BY <1>1, <2>1
    <3>2. \A m, n \in Nat : [phone EXCEPT !.loading = m, !.local = n] \in PhoneStates
      BY Zenon DEF MobileTypes, PhoneStates
    <3>3. phone' = [phone EXCEPT !.loading = phone.loading - 1, !.local = phone.local + 1]
      BY <2>1, Zenon
    <3> QED
      BY <1>1, <3>1, <3>2, <3>3, Zenon
  <2>2. ASSUME phone.local > 0, phone' = [phone EXCEPT !.deleting = FALSE, !.local = @ - 1]
        PROVE  phone' \in PhoneStates
    <3>1. phone.local - 1 \in Nat
      BY <1>1, <2>2
    <3>2. \A n \in Nat : [phone EXCEPT !.deleting = FALSE, !.local = n] \in PhoneStates
      BY Zenon DEF MobileTypes, PhoneStates
    <3>3. phone' = [phone EXCEPT !.deleting = FALSE, !.local = phone.local - 1]
      BY <2>2, Zenon
    <3> QED
      BY <3>1, <3>2, <3>3, Zenon
  <2> QED
    BY <1>6, <1>8, <2>1, <2>2, Zenon DEF PhoneMoves, MobileTypes
<1>18. \A n : Read(n) => past' \in PastStates
  BY Zenon DEF Read, MobileTypes, PastStates
<1>9. CASE ReadBaseline
  <2>1. PICK n \in OnPage : Read(n) /\ uia' = [uia EXCEPT !.at = "device", !.read = [baseline |-> n]]
    BY <1>9, Zenon DEF ReadBaseline
  <2>2. n \in Nat
    BY <2>1, MobileCasesAssumption DEF OnPage
  <2>3. uia' \in UiaStates
    BY <2>1, <2>2, Zenon DEF MobileTypes, UiaStates, Steps
  <2> QED
    BY <1>9, <1>18, <2>1, <2>3, Zenon DEF ReadBaseline, MobileTypes
<1>10. CASE TapDownload
  <2>1. phone' \in PhoneStates
    BY <1>1, <1>10, Zenon DEF TapDownload, MobileTypes, PhoneStates
  <2> QED
    BY <1>5, <1>10, <2>1 DEF TapDownload, MobileTypes, Steps
<1>11. CASE SawDownload
  <2>1. past' \in PastStates
    BY <1>11, <1>18, Zenon DEF SawDownload
  <2> QED
    BY <1>5, <1>11, <2>1 DEF SawDownload, MobileTypes, Steps
<1>12. CASE TapDelete
  <2>1. phone' \in PhoneStates
    BY <1>6, <1>12, Zenon DEF TapDelete
  <2> QED
    BY <1>5, <1>12, <2>1 DEF TapDelete, MobileTypes, Steps
<1>13. CASE SawDelete
  <2>1. uia' \in UiaStates
    BY <1>4, <1>13, PassTypes DEF SawDelete, MobileTypes
  <2>2. past' \in PastStates
    BY <1>13, <1>18, Zenon DEF SawDelete
  <2> QED
    BY <1>13, <2>1, <2>2 DEF SawDelete, MobileTypes
<1>14. CASE Previewed
  <2>1. uia' \in UiaStates
    BY <1>4, <1>14, PassTypes DEF Previewed, MobileTypes
  <2> DEFINE seen == [past EXCEPT !.watched = @ \cup {past.video}]
  <2>2. seen \in PastStates
    BY <1>1, Zenon DEF MobileTypes, PastStates
  <2>3. \/ past' = seen \/ past' = [seen EXCEPT !.lost = past.lost + 1]
        \/ \E to \in 1..Videos : past' = [seen EXCEPT !.video = to]
        \/ past' = [seen EXCEPT !.astray = TRUE]
    <3>1. seen.lost = past.lost
      BY DEF MobileTypes, PastStates
    <3> DEFINE step == past.video + (IF NavigationAction(uia.round, uia.count) = "next" THEN 1 ELSE -1)
    <3>2. \/ past' = seen \/ past' = [seen EXCEPT !.lost = @ + 1]
          \/ step \in 1..Videos /\ past' = [seen EXCEPT !.video = step]
          \/ past' = [seen EXCEPT !.astray = TRUE]
      BY <1>14, Zenon DEF Previewed
    <3> HIDE DEF step, seen
    <3> QED
      BY <3>1, <3>2, Zenon
  <2> HIDE DEF seen
  <2>4. past' \in PastStates
    BY <1>1, <2>2, <2>3, Zenon DEF PastStates
  <2> QED
    BY <1>14, <2>1, <2>4 DEF Previewed, MobileTypes
<1>15. CASE UnlinkFirst \/ Connect
  <2>1. phone' \in PhoneStates
    BY <1>6, <1>15, Zenon DEF UnlinkFirst, Connect, MobileTypes
  <2> QED
    BY <1>5, <1>15, <2>1 DEF UnlinkFirst, Connect, MobileTypes, Steps
<1>16. CASE Disconnect \/ Tap
  <2>1. phone' \in PhoneStates
    <3>1. CASE Disconnect
      BY <1>6, <3>1, Zenon DEF Disconnect, MobileTypes
    <3>2. CASE Tap
      BY <1>6, <3>2, Zenon DEF Tap, MobileTypes, PhoneStates
    <3> QED
      BY <1>16, <3>1, <3>2
  <2> QED
    BY <1>4, <1>16, <2>1, PassTypes DEF Disconnect, Tap, MobileTypes
<1>17. CASE FinalCheck
  BY <1>3, <1>6, <1>17, Zenon DEF FinalCheck, Fail, MobileTypes
<1> QED
  BY <1>7, <1>8, <1>9, <1>10, <1>11, <1>12, <1>13, <1>14, <1>15, <1>16, <1>17
     DEF MobileNext, Case1, Case6

\* The case and what was counted for it stay.
LEMMA SameCase == MobileTypes /\ MobileNext => uia'.case = uia.case /\ uia'.count = uia.count
BY DEF MobileTypes, UiaStates, MobileNext, CancelRun, NodeMissing, PhoneMoves, Case1, ReadBaseline,
   TapDownload, SawDownload, TapDelete, SawDelete, Previewed, Case6, UnlinkFirst, Connect, Disconnect,
   Tap, FinalCheck, Go, Fail, Pass

\* case1 leaves what it found.
LEMMA LocalInvNext == MobileTypes /\ LocalInv /\ MobileNext => LocalInv'
<1> SUFFICES ASSUME MobileTypes, LocalInv, MobileNext, uia'.case = "case1", ~past'.misread PROVE LocalInv'
  BY DEF LocalInv
<1> USE DEF MobileTypes, UiaStates, PhoneStates, PastStates
<1>1. uia.case = "case1"
  BY SameCase
<1>2. CASE CancelRun \/ NodeMissing
  <2>1. \E e \in {1, 2} : uia' = [uia EXCEPT !.at = "over", !.exit = e]
    BY <1>2, Zenon DEF CancelRun, NodeMissing, Fail
  <2>2. uia'.at = "over" /\ uia'.exit # 0
    BY <2>1
  <2> QED
    BY <2>2 DEF LocalInv
<1>3. CASE PhoneMoves
  <2>1. ~past.misread /\ UNCHANGED <<uia, past>> /\ uia.at # "over" /\ past.local \in Nat
    BY <1>3 DEF PhoneMoves
  <2>2. phone.local \in Nat /\ phone.loading \in Nat /\ uia.read.baseline \in Nat
    OBVIOUS
  <2>3. \/ /\ phone'.loading = phone.loading - 1 /\ phone'.local = phone.local + 1
           /\ phone'.deleting = phone.deleting
        \/ /\ phone.deleting /\ ~phone'.deleting
           /\ phone'.local = phone.local - 1 /\ phone'.loading = phone.loading
        \/ UNCHANGED <<phone.local, phone.loading, phone.deleting>>
    BY <1>3 DEF PhoneMoves
  <2>4. AsBefore => AsBefore' /\ phone'.local >= phone.local
    BY <2>1, <2>2, <2>3 DEF AsBefore
  <2>5. OneMore => \/ OneMore' /\ phone'.local >= phone.local /\ (phone'.deleting => phone.deleting)
                   \/ phone.deleting /\ AsBefore' /\ phone'.local = phone.local - 1
    BY <2>1, <2>2, <2>3 DEF AsBefore, OneMore
  <2>6. /\ uia.at = "album" => AsBefore
        /\ uia.at = "device" => AsBefore /\ uia.read.baseline <= phone.local
        /\ uia.at = "download" => OneMore /\ ~phone.deleting /\ uia.read.baseline <= phone.local
        /\ uia.at = "select" => OneMore /\ ~phone.deleting /\ uia.read.baseline < phone.local
        /\ uia.at = "verify" => \/ AsBefore /\ uia.read.baseline <= phone.local
                                \/ OneMore /\ uia.read.baseline < phone.local
    BY <1>1, <2>1 DEF LocalInv
  <2>7. phone'.local \in Int
    BY <2>2, <2>3
  <2>8. uia.at \in {"album", "device", "download", "select"} => LocalInv'
    BY <2>1, <2>2, <2>4, <2>5, <2>6, <2>7 DEF LocalInv
  <2>9. uia.at = "verify" => LocalInv'
    BY <2>1, <2>2, <2>4, <2>5, <2>6, <2>7 DEF LocalInv
  <2>10. uia.at \notin {"album", "device", "download", "select", "verify"} => LocalInv'
    BY <2>1 DEF LocalInv
  <2> QED
    BY <2>8, <2>9, <2>10
<1>4. CASE ReadBaseline
  <2>1. PICK n \in OnPage : Read(n) /\ uia' = [uia EXCEPT !.at = "device", !.read = [baseline |-> n]]
    BY <1>4 DEF ReadBaseline
  <2>2. n = phone.local /\ ~past.misread /\ past'.local = past.local /\ UNCHANGED phone
    BY <1>4, <2>1 DEF ReadBaseline, Read
  <2>3. AsBefore
    BY <1>1, <1>4, <2>2 DEF ReadBaseline, At, LocalInv
  <2>4. uia'.at = "device" /\ uia'.read.baseline = n
    BY <2>1
  <2> QED
    BY <2>2, <2>3, <2>4 DEF LocalInv, AsBefore
<1>5. CASE TapDownload
  BY <1>1, <1>5 DEF TapDownload, Go, At, LocalInv, AsBefore, OneMore
<1>6. CASE SawDownload
  BY <1>1, <1>6 DEF SawDownload, Read, Go, At, LocalInv, OneMore
<1>7. CASE TapDelete
  BY <1>1, <1>7 DEF TapDelete, Go, At, LocalInv, OneMore
<1>8. CASE SawDelete
  <2>1. ~past.misread /\ uia.read.baseline = phone.local /\ UNCHANGED phone /\ past'.local = past.local
    BY <1>8 DEF SawDelete, Read
  <2>2. AsBefore
    BY <1>1, <1>8, <2>1 DEF SawDelete, At, LocalInv
  <2>3. AsBefore'
    BY <2>1, <2>2 DEF AsBefore
  <2>4. uia'.at \in {"album", "over"}
    BY <1>1, <1>8 DEF SawDelete, Pass, FirstStep
  <2> QED
    BY <2>3, <2>4 DEF LocalInv
<1> QED
  BY <1>1, <1>2, <1>3, <1>4, <1>5, <1>6, <1>7, <1>8
     DEF MobileNext, Case1, Previewed, Case6, UnlinkFirst, Connect, Disconnect, Tap, FinalCheck, At

\* case2 goes through the list and back.
LEMMA PreviewInvNext == MobileTypes /\ PreviewInv /\ MobileNext => PreviewInv'
<1> SUFFICES ASSUME MobileTypes, PreviewInv, MobileNext, uia'.case = "case2", uia'.count <= Videos
             PROVE  PreviewInv'
  BY DEF PreviewInv
<1> USE DEF MobileTypes, UiaStates
<1>1. uia.case = "case2" /\ uia'.count = uia.count /\ uia.count <= Videos
  BY SameCase
<1>2. CASE CancelRun \/ NodeMissing \/ PhoneMoves
  <2>1. CASE PhoneMoves
    BY <1>1, <2>1 DEF PhoneMoves, PreviewInv
  <2>2. CASE CancelRun \/ NodeMissing
    <3>1. \E e \in {1, 2} : uia' = [uia EXCEPT !.at = "over", !.exit = e] /\ UNCHANGED past
      BY <2>2, Zenon DEF CancelRun, NodeMissing, Fail
    <3>2. uia'.exit # 0
      BY <3>1
    <3> QED
      BY <1>1, <3>1, <3>2 DEF PreviewInv
  <2> QED
    BY <1>2, <2>1, <2>2
<1>3. CASE Previewed
  <2> DEFINE round == uia.round
             count == uia.count
             now == VideoOf(round, count)
             next == VideoOf(round + 1, count)
             to == past.video + (IF NavigationAction(round, count) = "next" THEN 1 ELSE -1)
             dir == IF NavigationAction(round, count) = "next" THEN 1 ELSE -1
  <2>1. /\ round \in 1..Rounds /\ round \in Nat \ {0} /\ Rounds \in Nat /\ Videos \in Nat
        /\ count \in Nat \ {0, 1} /\ count <= Videos
        /\ past.lost \in Nat /\ past.video \in 1..Videos
    BY <1>1, MobileCasesAssumption DEF PastStates
  <2>2. /\ uia.at = "preview" /\ past.video <= now + past.lost /\ now <= past.video + past.lost
        /\ past.astray => past.lost > 0
        /\ \A v \in 1..Videos : v < past.video => v \in past.watched
        /\ \A v \in 1..Videos : v + past.lost <= count /\ v + past.lost < round => v \in past.watched
    BY <1>1, <1>3 DEF Previewed, At, PreviewInv
  <2>3. /\ now \in 1..count /\ next \in 1..count /\ next = now + dir
        /\ round <= count => now = round
    BY <2>1, VideosInTurn
  <2>4. dir \in {1, -1} /\ to = past.video + dir
    OBVIOUS
  <2>5. past'.watched = past.watched \cup {past.video} /\ past'.lost \in {past.lost, past.lost + 1}
    BY <1>3, <2>1 DEF Previewed, PastStates
  <2>6. CASE round = Rounds
    <3>1. past'.lost = past.lost /\ past'.astray = past.astray
      BY <1>3, <2>6 DEF Previewed, PastStates
    <3>2. uia'.at = "over"
      BY <1>3, <2>1, <2>6 DEF Previewed, Pass
    <3>3. ASSUME NEW v \in 1..Videos, v + past.lost <= count, v + past.lost <= Rounds
          PROVE  v \in past'.watched
      BY <2>1, <2>2, <2>3, <2>5, <2>6, <3>3
    <3> QED
      BY <1>1, <2>2, <3>1, <3>2, <3>3 DEF PreviewInv
  <2>7. CASE round # Rounds
    <3>1. uia'.round = round + 1 /\ uia'.at = "preview"
      BY <1>1, <1>3, <2>1, <2>7 DEF Previewed, Pass, FirstStep
    <3>2. \/ past'.lost = past.lost + 1 /\ past'.video = past.video /\ past'.astray = past.astray
          \/ /\ to \in 1..Videos /\ past'.video = to
             /\ past'.lost = past.lost /\ past'.astray = past.astray
          \/ /\ to \notin 1..Videos /\ past'.video = past.video
             /\ past'.lost = past.lost /\ past'.astray
      BY <1>3, <2>7 DEF Previewed, PastStates
    <3>3. ASSUME NEW v \in 1..Videos, v + past'.lost <= count, v + past'.lost < round + 1
          PROVE  v \in past'.watched
      <4>1. v + past.lost <= count /\ v + past.lost <= round
        BY <2>1, <2>5, <3>3
      <4>2. CASE v + past.lost < round
        BY <2>2, <2>5, <4>1, <4>2
      <4>3. CASE v + past.lost = round
        <5>1. v <= past.video
          BY <2>1, <2>2, <2>3, <4>1, <4>3
        <5> QED
          BY <2>1, <2>2, <2>5, <5>1
      <4> QED
        BY <2>1, <4>1, <4>2, <4>3
    <3> HIDE DEF to, dir, now, next
    <3>4. /\ past'.video <= next + past'.lost /\ next <= past'.video + past'.lost
          /\ past'.astray => past'.lost > 0
      BY <2>1, <2>2, <2>3, <2>4, <3>2
    <3>5. \A v \in 1..Videos : v < past'.video => v \in past'.watched
      BY <2>1, <2>2, <2>4, <2>5, <3>2
    <3> QED
      BY <1>1, <3>1, <3>3, <3>4, <3>5 DEF PreviewInv, next
  <2> QED
    BY <2>6, <2>7
<1> QED
  BY <1>1, <1>2, <1>3 DEF MobileNext, Case1, ReadBaseline, TapDownload, SawDownload, TapDelete,
     SawDelete, Case6, UnlinkFirst, Connect, Disconnect, Tap, FinalCheck, At

\* A case1 that passes leaves as many local videos as it found, and a case2 has watched the
\* videos it counted but for the swipes that were lost; for any number of iterations and
\* videos, however downloads, deletions and swipes are delayed or lost.
THEOREM PassingRunsAreDone == MobileSpec => []PassedMeansDone
<1>1. MobileInit => MobileInv
  BY MobileInvInit
<1>2. MobileInv /\ [MobileNext]_mobileVars => MobileInv'
  <2>1. MobileInv /\ UNCHANGED mobileVars => MobileInv'
    BY DEF MobileInv, MobileTypes, LocalInv, AsBefore, OneMore, PreviewInv, mobileVars
  <2> QED
    BY <2>1, MobileTypesNext, LocalInvNext, PreviewInvNext DEF MobileInv
<1>3. MobileInv => PassedMeansDone
  <2> SUFFICES ASSUME MobileInv, uia.at = "over", uia.exit = 0 PROVE PassedMeansDone
    BY DEF PassedMeansDone
  <2>1. uia.case = "case1" /\ ~past.misread => AsBefore
    BY DEF MobileInv, LocalInv
  <2>2. ASSUME uia.case = "case2", uia.count <= Videos, Rounds >= uia.count,
               NEW v \in 1..Videos, v + past.lost <= uia.count
        PROVE  v \in past.watched
    <3>1. v + past.lost <= Rounds
      BY <2>2, MobileCasesAssumption DEF MobileInv, MobileTypes, UiaStates, PastStates
    <3> QED
      BY <2>2, <3>1 DEF MobileInv, PreviewInv
  <2> QED
    BY <2>1, <2>2 DEF MobileInv, PreviewInv, PassedMeansDone, AsBefore
<1> QED
  BY <1>1, <1>2, <1>3, PTL DEF MobileSpec

-----------------------------------------------------------------------------
(***************************************************************************)
(* The pressure downloads.                                                 *)
(***************************************************************************)

TaskStates == [at : {"none", "queued", "asking", "reading", "fetched", "failed", "cancelled", "revoked"},
               attempt : Nat, file : {"none", "intact", "altered"}]
PoolStates == [next : 1..Total + 1, pending : SUBSET Iterations, completed : Nat,
               failed : SUBSET Iterations, last : 0..Total, stopFirst : BOOLEAN]

DownloadTypes ==
  /\ task \in [Iterations -> TaskStates] /\ row \in [Iterations -> {"none", "ok", "error"}]
  /\ pool \in PoolStates /\ stopped \in BOOLEAN

\* What a download has come to, and what it shows.
TasksInv ==
  \A i \in Iterations :
    /\ task[i].at = "cancelled" => stopped
    /\ task[i].at = "revoked" => stopped \/ pool.failed # {}
    /\ task[i].at = "fetched" =>
         phase # "metadata" /\ row[i] = "ok" /\ (expect.digest => task[i].file = "intact")

\* The downloads that were collected are over, and the failed ones are known.
CollectedInv ==
  \A i \in Iterations :
    i < pool.next /\ i \notin pool.pending =>
      Finished(i) /\ (task[i].at = "failed" => i \in pool.failed)

\* What was submitted is pending or counted.
CountInv ==
  /\ \A i \in pool.pending : i < pool.next
  /\ pool.completed + Cardinality(pool.pending) = pool.next - 1

\* The pool ends when it must stop or when all is collected; and what an accepted case was
\* accepted for.
PhaseInv ==
  /\ phase = "metadata" =>
       /\ pool.next = 1 /\ pool.pending = {} /\ pool.completed = 0 /\ pool.failed = {} /\ pool.last = 0
       /\ \A i \in Iterations : task[i].at = "none"
  /\ phase = "join" => stopped \/ pool.failed # {} \/ (pool.pending = {} /\ pool.next = Total + 1)
  /\ phase = "accepted" =>
       ~stopped /\ pool.failed = {} /\ pool.last # 0 /\ pool.pending = {} /\ pool.next = Total + 1

DownloadInv == DownloadTypes /\ TasksInv /\ CollectedInv /\ CountInv /\ PhaseInv

LEMMA IterationsFinite ==
  /\ IsFiniteSet(Iterations)
  /\ \A S \in SUBSET Iterations : IsFiniteSet(S) /\ Cardinality(S) \in Nat
<1>1. IsFiniteSet(Iterations)
  BY FS_Interval, DownloadsAssumption DEF Iterations
<1> QED
  BY <1>1, FS_Subset, FS_CardinalityType

LEMMA DownloadInvInit == DownloadsInit => DownloadInv
<1> SUFFICES ASSUME DownloadsInit PROVE DownloadInv
  OBVIOUS
<1>1. /\ 1 \in 1..Total + 1 /\ 0 \in Nat /\ 0 \in 0..Total /\ {} \in SUBSET Iterations
  BY DownloadsAssumption
<1>2. NotSubmitted \in TaskStates
  BY <1>1, Zenon DEF NotSubmitted, TaskStates
<1>3. pool \in PoolStates
  <2>1. PICK s \in BOOLEAN : pool = [next |-> 1, pending |-> {}, completed |-> 0, failed |-> {},
                                    last |-> 0, stopFirst |-> s]
    BY DEF DownloadsInit
  <2> QED
    BY <1>1, <2>1, Zenon DEF PoolStates
<1>4. DownloadTypes
  BY <1>2, <1>3 DEF DownloadsInit, DownloadTypes
<1>5. Cardinality({}) = 0
  BY FS_EmptySet
<1>6. \A i \in Iterations : task[i].at = "none"
  BY DEF DownloadsInit, NotSubmitted
<1>7. /\ pool.next = 1 /\ pool.pending = {} /\ pool.completed = 0 /\ pool.failed = {} /\ pool.last = 0
  BY DEF DownloadsInit
<1> QED
  BY <1>4, <1>5, <1>6, <1>7
     DEF DownloadsInit, DownloadInv, TasksInv, CollectedInv, CountInv, PhaseInv, Iterations

\* What a step of a download does.
TaskBecomes(i, rec) ==
  /\ task[i].at \in {"queued", "asking", "reading"}
  /\ task' = [task EXCEPT ![i] = rec]
  /\ rec.at \notin {"none", "revoked"}
  /\ rec.at = "cancelled" => stopped
  /\ rec.at = "fetched" => (expect.digest => rec.file = "intact")
  /\ \/ row' = row /\ rec.at # "fetched"
     \/ row' = [row EXCEPT ![i] = IF rec.at = "fetched" THEN "ok" ELSE "error"]

LEMMA DownloadEffect ==
  ASSUME DownloadTypes, NEW i \in Iterations, Download(i)
  PROVE  UNCHANGED <<expect, phase, pool, stopped>> /\ \E rec \in TaskStates : TaskBecomes(i, rec)
<1> DEFINE w == task[i]
           to(at) == [w EXCEPT !.at = at]
           tried(at, n) == [w EXCEPT !.at = at, !.attempt = n]
           retried(n) == [w EXCEPT !.attempt = n]
           fetched(file) == [w EXCEPT !.at = "fetched", !.file = file]
<1>1. w \in TaskStates /\ w.attempt + 1 \in Nat /\ 1 \in Nat
  BY DEF DownloadTypes, TaskStates
<1>2. \A at \in {"failed", "reading", "cancelled"} : to(at) \in TaskStates /\ to(at).at = at
  BY <1>1, Zenon DEF TaskStates
<1>3. \A at \in {"cancelled", "asking"} : tried(at, 1) \in TaskStates /\ tried(at, 1).at = at
  BY <1>1, Zenon DEF TaskStates
<1>4. retried(w.attempt + 1) \in TaskStates /\ retried(w.attempt + 1).at = w.at
  BY <1>1, Zenon DEF TaskStates
<1>5. \A file \in {"intact", "altered"} :
        fetched(file) \in TaskStates /\ fetched(file).at = "fetched" /\ fetched(file).file = file
  BY <1>1, Zenon DEF TaskStates
<1>6. CASE Picked(i)
  <2>1. /\ w.at = "queued" /\ UNCHANGED <<expect, phase, pool, row, stopped>>
        /\ \/ stopped /\ task' = [task EXCEPT ![i] = tried("cancelled", 1)]
           \/ task' = [task EXCEPT ![i] = tried("asking", 1)]
    BY <1>6, Zenon DEF Picked
  <2> HIDE DEF tried
  <2>2. CASE stopped /\ task' = [task EXCEPT ![i] = tried("cancelled", 1)]
    BY <1>3, <2>1, <2>2 DEF TaskBecomes
  <2>3. CASE task' = [task EXCEPT ![i] = tried("asking", 1)]
    BY <1>3, <2>1, <2>3 DEF TaskBecomes
  <2> QED
    BY <2>1, <2>2, <2>3
<1>7. CASE Attempt(i)
  <2>1. /\ w.at = "asking" /\ UNCHANGED <<expect, phase, pool, stopped>>
        /\ \/ task' = [task EXCEPT ![i] = retried(w.attempt + 1)] /\ UNCHANGED row
           \/ task' = [task EXCEPT ![i] = to("failed")] /\ row' = [row EXCEPT ![i] = "error"]
           \/ task' = [task EXCEPT ![i] = to("reading")] /\ UNCHANGED row
    BY <1>7, Zenon DEF Attempt, To, Row
  <2> HIDE DEF retried, to
  <2>2. CASE task' = [task EXCEPT ![i] = retried(w.attempt + 1)] /\ UNCHANGED row
    BY <1>4, <2>1, <2>2 DEF TaskBecomes
  <2>3. CASE task' = [task EXCEPT ![i] = to("failed")] /\ row' = [row EXCEPT ![i] = "error"]
    BY <1>2, <2>1, <2>3 DEF TaskBecomes
  <2>4. CASE task' = [task EXCEPT ![i] = to("reading")] /\ UNCHANGED row
    BY <1>2, <2>1, <2>4 DEF TaskBecomes
  <2> QED
    BY <2>1, <2>2, <2>3, <2>4
<1>8. CASE Arrives(i)
  <2>1. /\ w.at = "reading" /\ UNCHANGED <<expect, phase, pool, stopped>>
        /\ \/ /\ stopped /\ task' = [task EXCEPT ![i] = to("cancelled")]
              /\ row' = [row EXCEPT ![i] = "error"]
           \/ task' = [task EXCEPT ![i] = to("failed")] /\ row' = [row EXCEPT ![i] = "error"]
           \/ \E file \in {"intact", "altered"} :
                /\ expect.digest => file = "intact"
                /\ task' = [task EXCEPT ![i] = fetched(file)] /\ row' = [row EXCEPT ![i] = "ok"]
    BY <1>8, Zenon DEF Arrives, To, Row
  <2> HIDE DEF to, fetched
  <2>2. CASE /\ stopped /\ task' = [task EXCEPT ![i] = to("cancelled")]
             /\ row' = [row EXCEPT ![i] = "error"]
    BY <1>2, <2>1, <2>2 DEF TaskBecomes
  <2>3. CASE task' = [task EXCEPT ![i] = to("failed")] /\ row' = [row EXCEPT ![i] = "error"]
    BY <1>2, <2>1, <2>3 DEF TaskBecomes
  <2>4. CASE \E file \in {"intact", "altered"} :
                /\ expect.digest => file = "intact"
                /\ task' = [task EXCEPT ![i] = fetched(file)] /\ row' = [row EXCEPT ![i] = "ok"]
    BY <1>5, <2>1, <2>4 DEF TaskBecomes
  <2> QED
    BY <2>1, <2>2, <2>3, <2>4
<1> QED
  BY <1>6, <1>7, <1>8 DEF Download

LEMMA DownloadInvDownload ==
  ASSUME DownloadInv, NEW i \in Iterations, Download(i)
  PROVE  DownloadInv'
<1>1. DownloadTypes
  BY DEF DownloadInv
<1>2. PICK rec \in TaskStates : TaskBecomes(i, rec)
  BY <1>1, DownloadEffect
<1>3. UNCHANGED <<expect, phase, pool, stopped>>
  BY <1>1, DownloadEffect
<1>4. /\ task' \in [Iterations -> TaskStates] /\ task'[i] = rec
      /\ \A j \in Iterations : j # i => task'[j] = task[j]
  BY <1>1, <1>2, Zenon DEF DownloadTypes, TaskBecomes
<1>5. /\ row' \in [Iterations -> {"none", "ok", "error"}]
      /\ rec.at = "fetched" => row'[i] = "ok"
      /\ \A j \in Iterations : j # i => row'[j] = row[j]
  BY <1>1, <1>2 DEF DownloadTypes, TaskBecomes
<1>6. DownloadTypes'
  BY <1>1, <1>3, <1>4, <1>5 DEF DownloadTypes
<1>7. phase # "metadata"
  BY <1>2 DEF DownloadInv, PhaseInv, TaskBecomes
<1>8. TasksInv'
  <2> SUFFICES ASSUME NEW j \in Iterations
               PROVE  /\ task'[j].at = "cancelled" => stopped
                      /\ task'[j].at = "revoked" => stopped \/ pool.failed # {}
                      /\ task'[j].at = "fetched" =>
                           row'[j] = "ok" /\ (expect.digest => task'[j].file = "intact")
    BY <1>3, <1>7 DEF TasksInv
  <2>1. CASE j = i
    BY <1>2, <1>4, <1>5, <2>1 DEF TaskBecomes
  <2>2. CASE j # i
    BY <1>4, <1>5, <2>2 DEF DownloadInv, TasksInv
  <2> QED
    BY <2>1, <2>2
<1>9. ~Finished(i)
  BY <1>2 DEF TaskBecomes, Finished
<1>10. CollectedInv'
  BY <1>3, <1>4, <1>9 DEF DownloadInv, CollectedInv, Finished
<1>11. CountInv' /\ PhaseInv'
  BY <1>3, <1>7 DEF DownloadInv, CountInv, PhaseInv
<1> QED
  BY <1>6, <1>8, <1>10, <1>11 DEF DownloadInv

\* The first downloads.
LEMMA DownloadInvBegin == DownloadInv /\ Begin => DownloadInv'
<1> SUFFICES ASSUME DownloadInv, Begin PROVE DownloadInv'
  OBVIOUS
<1>1. /\ phase = "metadata" /\ UNCHANGED <<row, stopped>> /\ DownloadTypes
      /\ pool \in PoolStates /\ pool.next = 1 /\ pool.completed = 0 /\ pool.failed = {} /\ pool.last = 0
      /\ \A i \in Iterations : task[i].at = "none"
  BY DEF Begin, DownloadInv, DownloadTypes, PhaseInv
<1>2. CASE phase' = "failed" /\ UNCHANGED <<expect, pool, task>>
  <2>1. TasksInv'
    BY <1>1, <1>2 DEF TasksInv
  <2> QED
    BY <1>1, <1>2, <2>1 DEF DownloadInv, DownloadTypes, CollectedInv, CountInv, PhaseInv, Finished
<1>3. CASE phase' = "pool"
  <2> DEFINE first == 1..WorkerCount
             queued == [NotSubmitted EXCEPT !.at = "queued"]
  <2>1. /\ pool' = [pool EXCEPT !.next = WorkerCount + 1, !.pending = first]
        /\ task' = [i \in Iterations |-> IF i <= WorkerCount THEN queued ELSE NotSubmitted]
    BY <1>1, <1>3 DEF Begin
  <2>2. WorkerCount \in Nat /\ WorkerCount + 1 \in 1..Total + 1 /\ first \in SUBSET Iterations
    BY DownloadsAssumption DEF WorkerCount, Iterations
  <2>3. Cardinality(first) = WorkerCount
    BY <2>2, FS_Interval DEF WorkerCount
  <2>4. queued \in TaskStates /\ NotSubmitted \in TaskStates /\ queued.at = "queued"
       /\ NotSubmitted.at = "none"
    <3>1. 0 \in Nat
      OBVIOUS
    <3> QED
      BY <3>1, Zenon DEF NotSubmitted, TaskStates
  <2> HIDE DEF queued, first
  <2>5. pool' \in PoolStates
    BY <1>1, <2>1, <2>2, Zenon DEF PoolStates
  <2>6. /\ pool'.next = WorkerCount + 1 /\ pool'.pending = first /\ pool'.completed = 0
        /\ pool'.failed = {}
    BY <1>1, <2>1 DEF PoolStates
  <2>7. /\ task' \in [Iterations -> TaskStates]
        /\ \A i \in Iterations : task'[i].at \in {"none", "queued"}
    BY <2>1, <2>4
  <2>8. DownloadTypes' /\ TasksInv'
    BY <1>1, <2>5, <2>7 DEF DownloadTypes, TasksInv
  <2>9. \A i \in Iterations : i < WorkerCount + 1 <=> i \in first
    BY <2>2 DEF first, Iterations
  <2>10. CollectedInv' /\ CountInv'
    BY <2>2, <2>3, <2>6, <2>9 DEF CollectedInv, CountInv
  <2> QED
    BY <1>3, <2>8, <2>10 DEF DownloadInv, PhaseInv
<1> QED
  BY <1>2, <1>3 DEF Begin

LEMMA DownloadInvStopJoin == DownloadInv /\ (Stop \/ Join) => DownloadInv'
<1> SUFFICES ASSUME DownloadInv, Stop \/ Join PROVE DownloadInv'
  OBVIOUS
<1>1. CASE Stop
  BY <1>1 DEF Stop, DownloadInv, DownloadTypes, TasksInv, CollectedInv, CountInv, PhaseInv, Finished
<1>2. CASE Join
  <2>1. phase = "join" /\ phase' = Verdict /\ UNCHANGED <<expect, pool, task, row, stopped>>
    BY <1>2 DEF Join
  <2>2. phase' \in {"cancelled", "failed", "accepted"}
    BY <2>1 DEF Verdict
  <2>3. PhaseInv'
    BY <2>1 DEF Verdict, DownloadInv, PhaseInv
  <2> QED
    BY <2>1, <2>2, <2>3 DEF DownloadInv, DownloadTypes, TasksInv, CollectedInv, CountInv, Finished
<1> QED
  BY <1>1, <1>2

\* What is collected leaves the pending ones and is counted; what is submitted again is new.
LEMMA RefillCounts ==
  ASSUME DownloadInv, NEW done \in SUBSET pool.pending, done # {}, NEW failed
  PROVE  LET more == Refill(done, failed) IN
           /\ Cardinality(done) \in Nat
           /\ Cardinality(pool.pending \ done) = Cardinality(pool.pending) - Cardinality(done)
           /\ Cardinality(pool.pending) \in Nat
           /\ more.next \in 1..Total + 1 /\ more.next >= pool.next
           /\ more.new = pool.next..more.next - 1 /\ more.new \subseteq Iterations
           /\ more.pending = (pool.pending \ done) \cup more.new
           /\ Cardinality(more.pending) =
                Cardinality(pool.pending) - Cardinality(done) + (more.next - pool.next)
           /\ more.pending = {} => more.next = Total + 1
<1> DEFINE n == Cardinality(done)
           left == pool.pending \ done
           last == IF pool.next + n - 1 > Total THEN Total ELSE pool.next + n - 1
           new == pool.next..last
<1>1. /\ pool.pending \in SUBSET Iterations /\ pool.next \in 1..Total + 1
      /\ \A i \in pool.pending : i < pool.next
  BY DEF DownloadInv, DownloadTypes, PoolStates, CountInv
<1>2. IsFiniteSet(pool.pending) /\ IsFiniteSet(done) /\ Cardinality(pool.pending) \in Nat /\ n \in Nat
  BY <1>1, IterationsFinite
<1>3. n # 0
  BY <1>2, FS_EmptySet
<1>4. IsFiniteSet(left) /\ Cardinality(left) = Cardinality(pool.pending) - n /\ Cardinality(left) \in Nat
  <2>1. pool.pending \cap done = done
    OBVIOUS
  <2> QED
    BY <1>2, <2>1, FS_Difference, FS_CardinalityType
<1>5. /\ last \in 0..Total /\ last >= pool.next - 1 /\ new \subseteq Iterations
      /\ last = pool.next - 1 => last = Total
  BY <1>1, <1>2, <1>3, DownloadsAssumption DEF Iterations
<1> HIDE DEF n, left, last
<1>6. IsFiniteSet(new) /\ Cardinality(new) = last - pool.next + 1
  <2>1. pool.next \in Int /\ last \in Int /\ last >= pool.next - 1
    BY <1>1, <1>5, DownloadsAssumption
  <2>2. /\ IsFiniteSet(new)
        /\ Cardinality(new) = IF pool.next > last THEN 0 ELSE last - pool.next + 1
    BY <2>1, FS_Interval
  <2> QED
    BY <2>1, <2>2
<1>7. left \cap new = {}
  BY <1>1, <1>5 DEF left, Iterations
<1>8. Cardinality(left \cup new) = Cardinality(left) + (last - pool.next + 1)
  <2>1. Cardinality(left \cup new) = Cardinality(left) + Cardinality(new) - Cardinality(left \cap new)
    BY <1>4, <1>6, FS_Union
  <2> QED
    <3>1. Cardinality(left \cap new) = 0
      BY <1>7, FS_EmptySet
    <3>2. Cardinality(left) \in Nat /\ last - pool.next + 1 \in Int
      BY <1>1, <1>4, <1>5, DownloadsAssumption
    <3> QED
      BY <1>6, <2>1, <3>1, <3>2
<1>9. left \cup new = {} => last = Total
  BY <1>1, <1>5
<1>10. /\ Refill(done, failed).next = last + 1 /\ Refill(done, failed).new = new
       /\ Refill(done, failed).pending = left \cup new
  BY DEF Refill, n, left, last
<1>11. (last + 1) - 1 = last /\ last + 1 \in 1..Total + 1 /\ last + 1 >= pool.next
  BY <1>1, <1>5, DownloadsAssumption
<1> QED
  BY <1>1, <1>2, <1>4, <1>5, <1>8, <1>9, <1>10, <1>11 DEF n, left

LEMMA DownloadInvCollect == DownloadInv /\ Collect => DownloadInv'
<1> SUFFICES ASSUME DownloadInv, Collect PROVE DownloadInv'
  OBVIOUS
<1> DEFINE done == {i \in pool.pending : Finished(i)}
           fetched == {i \in done : task[i].at = "fetched"}
           failed == pool.failed \cup {i \in done : task[i].at = "failed"}
           more == Refill(done, failed)
           count == pool.completed + Cardinality(done)
           stopping(last) ==
             /\ pool' = [pool EXCEPT !.pending = @ \ done, !.completed = @ + Cardinality(done),
                                     !.failed = failed, !.last = last]
             /\ task' = [i \in Iterations |-> IF i \in pool.pending /\ task[i].at = "queued"
                                              THEN [task[i] EXCEPT !.at = "revoked"] ELSE task[i]]
             /\ phase' = "join" /\ ShouldStop(failed)
           going(last) ==
             /\ pool' = [pool EXCEPT !.pending = more.pending, !.next = more.next, !.failed = failed,
                                     !.completed = @ + Cardinality(done), !.last = last]
             /\ task' = [i \in Iterations |-> IF i \in more.new
                                              THEN [NotSubmitted EXCEPT !.at = "queued"] ELSE task[i]]
             /\ phase' = IF more.pending = {} THEN "join" ELSE "pool"
<1>1. /\ DownloadTypes /\ TasksInv /\ CollectedInv /\ CountInv
      /\ pool \in PoolStates /\ pool.pending \in SUBSET Iterations /\ pool.completed \in Nat
      /\ pool.next \in 1..Total + 1 /\ pool.next \in Nat /\ pool.failed \in SUBSET Iterations
      /\ \A i \in pool.pending : i < pool.next
  BY DownloadsAssumption DEF DownloadInv, DownloadTypes, PoolStates, CountInv
<1>2. /\ phase = "pool" /\ done # {} /\ UNCHANGED <<expect, row, stopped>>
      /\ \E last \in IF fetched = {} THEN {pool.last} ELSE fetched : stopping(last) \/ going(last)
  BY Zenon DEF Collect
<1>3. PICK last \in 0..Total : stopping(last) \/ going(last)
  <2>1. fetched \subseteq 0..Total /\ pool.last \in 0..Total
    BY <1>1, DownloadsAssumption DEF PoolStates, Iterations
  <2> QED
    BY <1>2, <2>1
<1>4. done \in SUBSET pool.pending /\ failed \in SUBSET Iterations
  BY <1>1
<1>5. /\ Cardinality(done) \in Nat /\ Cardinality(pool.pending) \in Nat
      /\ Cardinality(pool.pending \ done) = Cardinality(pool.pending) - Cardinality(done)
      /\ more.next \in 1..Total + 1 /\ more.next >= pool.next
      /\ more.new = pool.next..more.next - 1 /\ more.new \subseteq Iterations
      /\ more.pending = (pool.pending \ done) \cup more.new
      /\ Cardinality(more.pending) =
           Cardinality(pool.pending) - Cardinality(done) + (more.next - pool.next)
      /\ more.pending = {} => more.next = Total + 1
  BY <1>2, <1>4, RefillCounts
<1>6. count \in Nat /\ pool.pending \ done \in SUBSET Iterations /\ more.pending \in SUBSET Iterations
      /\ more.next \in Nat
  <2> HIDE DEF done, failed, more
  <2> QED
    BY <1>1, <1>5, DownloadsAssumption
<1>7. /\ \A i \in done : Finished(i) /\ (task[i].at = "failed" => i \in failed)
      /\ \A i \in pool.pending \ done : ~Finished(i)
      /\ pool.failed \subseteq failed
  OBVIOUS
<1>8. ASSUME stopping(last) PROVE DownloadInv'
  <2>1. pool' = [pool EXCEPT !.pending = pool.pending \ done, !.completed = count,
                             !.failed = failed, !.last = last]
    BY <1>8, Zenon
  <2> HIDE DEF done, failed, fetched, count
  <2>2. pool' \in PoolStates
    BY <1>1, <1>4, <1>6, <2>1, Zenon DEF PoolStates
  <2>3. /\ pool'.pending = pool.pending \ done /\ pool'.completed = count /\ pool'.failed = failed
        /\ pool'.next = pool.next
    BY <1>1, <2>1, Zenon DEF PoolStates
  <2> DEFINE revoked(i) == [task[i] EXCEPT !.at = "revoked"]
  <2>4. \A i \in Iterations : revoked(i) \in TaskStates /\ revoked(i).at = "revoked"
    BY <1>1, Zenon DEF DownloadTypes, TaskStates
  <2>5. task' = [i \in Iterations |-> IF i \in pool.pending /\ task[i].at = "queued"
                                      THEN revoked(i) ELSE task[i]]
    BY <1>8
  <2> HIDE DEF revoked
  <2>6. /\ task' \in [Iterations -> TaskStates]
        /\ \A i \in Iterations : \/ task'[i] = task[i]
                                 \/ i \in pool.pending /\ task'[i].at = "revoked"
    BY <1>1, <2>4, <2>5 DEF DownloadTypes
  <2>7. stopped \/ failed # {}
    BY <1>8 DEF ShouldStop
  <2>8. DownloadTypes'
    BY <1>1, <1>2, <2>2, <2>6 DEF DownloadTypes
  <2>9. TasksInv'
    BY <1>1, <1>2, <1>7, <1>8, <2>3, <2>6, <2>7 DEF TasksInv
  <2>10. CollectedInv'
    <3> SUFFICES ASSUME NEW i \in Iterations, i < pool.next, i \notin pool.pending \ done
                 PROVE  Finished(i)' /\ (task'[i].at = "failed" => i \in failed)
      BY <2>3 DEF CollectedInv
    <3>1. Finished(i) /\ (task[i].at = "failed" => i \in failed)
      BY <1>1, <1>7 DEF CollectedInv
    <3> QED
      BY <2>6, <3>1 DEF Finished
  <2>11. CountInv'
    BY <1>1, <1>5, <2>3 DEF CountInv, count
  <2>12. PhaseInv'
    BY <1>2, <1>8, <2>3, <2>7 DEF PhaseInv
  <2> QED
    BY <2>8, <2>9, <2>10, <2>11, <2>12 DEF DownloadInv
<1>9. ASSUME going(last) PROVE DownloadInv'
  <2>1. pool' = [pool EXCEPT !.pending = more.pending, !.next = more.next, !.failed = failed,
                             !.completed = count, !.last = last]
    BY <1>9, Zenon
  <2> HIDE DEF done, failed, fetched, count, more
  <2>2. pool' \in PoolStates
    BY <1>1, <1>4, <1>5, <1>6, <2>1, Zenon DEF PoolStates
  <2>3. /\ pool'.pending = more.pending /\ pool'.completed = count /\ pool'.failed = failed
        /\ pool'.next = more.next
    BY <1>1, <2>1, Zenon DEF PoolStates
  <2> DEFINE queued == [NotSubmitted EXCEPT !.at = "queued"]
  <2>4. queued \in TaskStates /\ queued.at = "queued"
    <3>1. 0 \in Nat
      OBVIOUS
    <3> QED
      BY <3>1, Zenon DEF NotSubmitted, TaskStates
  <2>5. task' = [i \in Iterations |-> IF i \in more.new THEN queued ELSE task[i]]
    BY <1>9
  <2> HIDE DEF queued
  <2>6. /\ task' \in [Iterations -> TaskStates]
        /\ \A i \in Iterations : task'[i] = IF i \in more.new THEN queued ELSE task[i]
    BY <1>1, <2>4, <2>5 DEF DownloadTypes
  <2>7. DownloadTypes'
    BY <1>1, <1>2, <2>2, <2>6 DEF DownloadTypes
  <2>8. phase' \in {"join", "pool"}
    BY <1>9
  <2>9. TasksInv'
    BY <1>1, <1>2, <1>7, <2>3, <2>4, <2>6, <2>8 DEF TasksInv
  <2>10. CollectedInv'
    <3> SUFFICES ASSUME NEW i \in Iterations, i < more.next, i \notin more.pending
                 PROVE  Finished(i)' /\ (task'[i].at = "failed" => i \in failed)
      BY <2>3 DEF CollectedInv
    <3>1. i \notin more.new /\ i < pool.next /\ i \notin pool.pending \ done
      BY <1>1, <1>5 DEF Iterations
    <3>2. Finished(i) /\ (task[i].at = "failed" => i \in failed)
      BY <1>1, <1>7, <3>1 DEF CollectedInv
    <3> QED
      BY <2>6, <3>1, <3>2 DEF Finished
  <2>11. CountInv'
    <3>1. \A i \in more.pending : i < more.next
      <4> SUFFICES ASSUME NEW i \in more.pending PROVE i < more.next
        OBVIOUS
      <4>1. pool.next \in Nat /\ more.next \in Nat /\ more.next >= pool.next
        BY <1>1, <1>5, <1>6
      <4>2. CASE i \in pool.pending
        <5>1. i < pool.next /\ i \in Nat
          BY <1>1, <4>2 DEF Iterations
        <5> QED
          BY <4>1, <5>1
      <4>3. CASE i \in more.new
        <5>1. i \in pool.next..more.next - 1
          BY <1>5, <4>3
        <5> QED
          BY <4>1, <5>1
      <4> QED
        BY <1>5, <4>2, <4>3
    <3>2. count + Cardinality(more.pending) = more.next - 1
      <4>1. pool.completed + Cardinality(pool.pending) = pool.next - 1
        BY <1>1 DEF CountInv
      <4>2. Cardinality(more.pending) =
              Cardinality(pool.pending) - Cardinality(done) + (more.next - pool.next)
        BY <1>5
      <4>3. /\ pool.completed \in Nat /\ Cardinality(done) \in Nat /\ Cardinality(pool.pending) \in Nat
            /\ pool.next \in Nat /\ more.next \in Nat
        BY <1>1, <1>5, <1>6
      <4>4. count = pool.completed + Cardinality(done)
        BY DEF count
      <4> QED
        BY <4>1, <4>2, <4>3, <4>4
    <3> QED
      BY <2>3, <3>1, <3>2 DEF CountInv
  <2>12. PhaseInv'
    BY <1>5, <1>9, <2>3 DEF PhaseInv
  <2> QED
    BY <2>7, <2>9, <2>10, <2>11, <2>12 DEF DownloadInv
<1> QED
  BY <1>3, <1>8, <1>9

\* A case that passes has downloaded the file as often as it was asked to and found every
\* one as it knew it to be, for any number of downloads, threads and attempts.
THEOREM PassedIsComplete == DownloadsSpec => []PassedMeansAll
<1>1. DownloadsInit => DownloadInv
  BY DownloadInvInit
<1>2. DownloadInv /\ [DownloadsNext]_downloadVars => DownloadInv'
  <2>1. DownloadInv /\ UNCHANGED downloadVars => DownloadInv'
    BY DEF DownloadInv, DownloadTypes, TasksInv, CollectedInv, CountInv, PhaseInv, Finished, downloadVars
  <2> QED
    BY <2>1, DownloadInvBegin, DownloadInvStopJoin, DownloadInvCollect, DownloadInvDownload
       DEF DownloadsNext
<1>3. DownloadInv => PassedMeansAll
  <2> SUFFICES ASSUME DownloadInv, phase = "accepted"
               PROVE  /\ pool.completed = Total /\ pool.last \in Iterations
                      /\ \A i \in Iterations :
                           /\ task[i].at = "fetched" /\ row[i] = "ok"
                           /\ expect.digest => task[i].file = "intact"
    BY DEF PassedMeansAll
  <2>1. /\ ~stopped /\ pool.failed = {} /\ pool.last # 0 /\ pool.pending = {} /\ pool.next = Total + 1
        /\ pool.completed \in Nat /\ pool.last \in 0..Total
    BY DEF DownloadInv, PhaseInv, DownloadTypes, PoolStates
  <2>2. pool.completed = Total /\ pool.last \in Iterations
    BY <2>1, DownloadsAssumption, FS_EmptySet DEF DownloadInv, CountInv, Iterations
  <2>3. \A i \in Iterations : Finished(i) /\ task[i].at # "failed"
    BY <2>1, DownloadsAssumption DEF DownloadInv, CollectedInv, Iterations
  <2>4. \A i \in Iterations : task[i].at = "fetched"
    BY <2>1, <2>3 DEF DownloadInv, TasksInv, Finished
  <2> QED
    BY <2>2, <2>4 DEF DownloadInv, TasksInv
<1> QED
  BY <1>1, <1>2, <1>3, PTL DEF DownloadsSpec

-----------------------------------------------------------------------------
(***************************************************************************)
(* The editor of custom tests.                                             *)
(***************************************************************************)

MaybeConfig == Configs \cup {NoConfig}
Purposes == {"other", "capabilities", "load", "refresh", "save", "verify"}
WorkerStates == [at : {"free", "running", "silent"}, purpose : Purposes, base : Nat,
                 config : MaybeConfig, shown : SUBSET Nat, cancelled : BOOLEAN]
AnswerStates == [outcome : {"ok", "error", "invalid", "bad", "conflict", "unsaved"}, revision : Nat,
                 config : MaybeConfig]
SignalStates == [kind : {"answer"}, from : Runtimes, purpose : Purposes, answer : AnswerStates]
                \cup [kind : {"ended"}, from : Runtimes]
EditorStates == [open : BOOLEAN, busy : BOOLEAN, revision : Nat, draft : MaybeConfig,
                 shown : SUBSET Nat, gaveUp : BOOLEAN]
BoxStates == [what : {"none", "overwrite", "new", "conflict"}, config : MaybeConfig, run : BOOLEAN,
              revision : Nat]

\* The thread of an object is free only as it was in the beginning.
FreeRests == \A r \in Runtimes : worker[r].at = "free" => worker[r] = Resting

CommandTypes ==
  /\ device \in [revision : Nat, config : MaybeConfig]
  /\ runtime \in 0..MaxObjects /\ online \in BOOLEAN
  /\ worker \in [Runtimes -> WorkerStates] /\ signals \in Seq(SignalStates)
WindowTypes ==
  /\ refreshAfter \in BOOLEAN /\ runAfter \in BOOLEAN /\ verifyAfter \in Nat
  /\ editor \in EditorStates /\ box \in BoxStates
  /\ wish \in [config : MaybeConfig, run : BOOLEAN]
  /\ hurried \in BOOLEAN

\* The revision an open editor is based on has been shown in it; the overwrite question is the
\* editor's.
EditorShows ==
  /\ editor.open => editor.revision \in editor.shown
  /\ box.what = "overwrite" => editor.open

EditTypes == CommandTypes /\ WindowTypes /\ FreeRests /\ EditorShows

LEMMA RestingTypes ==
  /\ Resting \in WorkerStates /\ NoEditor \in EditorStates /\ NoBox \in BoxStates
  /\ NoWish \in [config : MaybeConfig, run : BOOLEAN]
<1>1. 0 \in Nat /\ {} \in SUBSET Nat /\ NoConfig \in MaybeConfig
  BY DEF MaybeConfig
<1> QED
  BY <1>1, Zenon DEF Resting, NoEditor, NoBox, NoWish, WorkerStates, EditorStates, BoxStates, Purposes

LEMMA EditTypesInit == EditingInit => EditTypes
<1> SUFFICES ASSUME EditingInit PROVE EditTypes
  OBVIOUS
<1>1. NoConfig \in MaybeConfig /\ 0 \in Nat /\ 1 \in 0..MaxObjects
  BY EditingAssumption DEF MaybeConfig
<1>2. device \in [revision : Nat, config : MaybeConfig]
  BY <1>1, Zenon DEF EditingInit
<1>3. signals \in Seq(SignalStates)
  BY DEF EditingInit
<1>4. EditorShows
  BY DEF EditingInit, EditorShows, NoEditor, NoBox
<1> QED
  BY <1>1, <1>2, <1>3, <1>4, RestingTypes, Zenon DEF EditingInit, EditTypes, CommandTypes, WindowTypes,
     FreeRests

-----------------------------------------------------------------------------
(* What the steps do to the commands: whether they run, and their signals. *)

commandVars == <<device, runtime, online, worker, signals, loadAfter, verifyAfter, runAfter, wish, hurried>>

\* A command is started on the link's free object.
Launched(purposes) ==
  /\ runtime \in Runtimes /\ worker[runtime] = Resting
  /\ \E w \in WorkerStates :
       w.at = "running" /\ w.purpose \in purposes /\ worker' = [worker EXCEPT ![runtime] = w]

OtherPurposes == Purposes \ {"save"}

\* A save is started: the editor's, with the revision it has.
SaveSent ==
  \E config \in MaybeConfig, run \in BOOLEAN :
    /\ editor.open /\ online /\ runtime \in Runtimes /\ worker[runtime] = Resting
    /\ worker' = [worker EXCEPT ![runtime] = [at |-> "running", purpose |-> "save",
                    base |-> editor.revision, config |-> config, shown |-> editor.shown,
                    cancelled |-> FALSE]]
    /\ wish' = [config |-> config, run |-> run] /\ runAfter' = run
    /\ hurried' = (hurried \/ SignalDue)
    /\ UNCHANGED <<device, runtime, online, signals, loadAfter, verifyAfter>>

\* A signal is handled: which, and what that changes for a later readback.
Handled == signals # <<>> /\ signals' = Tail(signals) /\ UNCHANGED <<device, runtime, wish, hurried>>
StaleHandled == Handled /\ First.from # runtime /\ UNCHANGED <<online, worker, loadAfter, verifyAfter,
     runAfter>>
AnswerHandled ==
  /\ Handled /\ UNCHANGED worker /\ online' \in BOOLEAN
  /\ First.kind = "answer" /\ First.from = runtime
  /\ \/ verifyAfter' \in {verifyAfter, 0} /\ runAfter' \in {runAfter, FALSE}
     \/ /\ First.purpose = "save" /\ Answer.outcome = "ok"
        /\ verifyAfter' = Answer.revision /\ UNCHANGED runAfter
EndHandled ==
  /\ Handled /\ First.kind = "ended" /\ First.from = runtime
  /\ UNCHANGED <<online, verifyAfter, runAfter>> /\ ~loadAfter'
  /\ \/ Launched(OtherPurposes) /\ (verifyAfter = 0 => worker'[runtime].purpose # "verify")
     \/ UNCHANGED worker /\ (verifyAfter = 0 \/ worker[runtime] # Resting)

CommandStep ==
  \/ UNCHANGED commandVars
  \/ OtherSaves \/ LinkGone \/ LinkBack
  \/ /\ Launched(OtherPurposes) /\ worker'[runtime].purpose # "verify"
     /\ UNCHANGED <<device, runtime, online, signals, loadAfter, verifyAfter, runAfter, wish, hurried>>
  \/ SaveSent
  \/ StaleHandled \/ AnswerHandled \/ EndHandled
  \/ \E r \in Runtimes : Network(r)

LEMMA StartLaunches ==
  ASSUME EditTypes, runtime \in Runtimes, NEW purpose \in OtherPurposes, Start(purpose, 0, NoConfig)
  PROVE  \/ Launched({purpose})
         \/ UNCHANGED worker /\ worker[runtime] # Resting
<1>1. CASE worker[runtime] # Resting
  BY <1>1 DEF Start
<1>2. CASE worker[runtime] = Resting
  <2> DEFINE w == [at |-> "running", purpose |-> purpose, base |-> 0, config |-> NoConfig,
                   shown |-> editor.shown, cancelled |-> FALSE]
  <2>1. editor.shown \in SUBSET Nat /\ 0 \in Nat /\ NoConfig \in MaybeConfig
    BY DEF EditTypes, WindowTypes, EditorStates, MaybeConfig
  <2>2. w \in WorkerStates /\ w.at = "running" /\ w.purpose = purpose
    BY <2>1, Zenon DEF WorkerStates, OtherPurposes
  <2>3. worker' = [worker EXCEPT ![runtime] = w]
    BY <1>2 DEF Start
  <2> HIDE DEF w
  <2>4. w.purpose \in {purpose}
    BY <2>2
  <2>5. Launched({purpose})
    BY <1>2, <2>2, <2>3, <2>4, Zenon DEF Launched
  <2> QED
    BY <1>2, <2>5
<1> QED
  BY <1>1, <1>2

\* What is unchanged when nothing happens to the commands.
LEMMA SaveSteps ==
  ASSUME EditTypes, editor.open, NEW config \in MaybeConfig, NEW run \in BOOLEAN, Save(config, run),
         UNCHANGED <<device, runtime, online, signals, loadAfter, verifyAfter>>
  PROVE  UNCHANGED commandVars \/ SaveSent
<1>1. CASE UNCHANGED <<worker, runAfter, wish, hurried>>
  BY <1>1 DEF commandVars
<1>2. CASE /\ runtime # 0 /\ online /\ capable /\ worker[runtime] = Resting
           /\ runAfter' = run /\ Start("save", Base, config)
           /\ wish' = [config |-> config, run |-> run] /\ hurried' = (hurried \/ SignalDue)
  <2>1. runtime \in Runtimes
    BY <1>2, EditingAssumption DEF EditTypes, CommandTypes, Runtimes
  <2> QED
    BY <1>2, <2>1, Zenon DEF SaveSent, Start, Base
<1> QED
  BY <1>1, <1>2, Zenon DEF Save

LEMMA CommandStepNext == EditTypes /\ EditingNext => CommandStep
<1> SUFFICES ASSUME EditTypes, EditingNext PROVE CommandStep
  OBVIOUS
<1>1. runtime # 0 => runtime \in Runtimes
  BY EditingAssumption DEF EditTypes, CommandTypes, Runtimes
<1>2. editor.draft \in MaybeConfig /\ box.config \in MaybeConfig /\ box.run \in BOOLEAN
     /\ TRUE \in BOOLEAN /\ FALSE \in BOOLEAN
  BY Zenon DEF EditTypes, WindowTypes, EditorStates, BoxStates
<1>3. "other" \in OtherPurposes /\ "capabilities" \in OtherPurposes /\ "load" \in OtherPurposes
      /\ "refresh" \in OtherPurposes /\ "verify" \in OtherPurposes
  BY DEF OtherPurposes, Purposes
<1>4. ASSUME NEW purpose \in OtherPurposes, Launched({purpose})
      PROVE  Launched(OtherPurposes) /\ worker'[runtime].purpose = purpose
  <2>1. PICK w \in WorkerStates :
          w.at = "running" /\ w.purpose = purpose /\ worker' = [worker EXCEPT ![runtime] = w]
    BY <1>4, Zenon DEF Launched
  <2>2. Launched(OtherPurposes)
    BY <1>4, Zenon DEF Launched
  <2> QED
    BY <2>1, <2>2 DEF Launched, EditTypes, CommandTypes
<1>5. CASE OtherSaves \/ LinkGone \/ LinkBack \/ \E r \in Runtimes : Network(r)
  BY <1>5 DEF CommandStep
<1>6. CASE AnotherCommand
  <2>1. Launched({"other"}) \/ UNCHANGED worker
    BY <1>1, <1>3, <1>6, StartLaunches DEF AnotherCommand
  <2> QED
    BY <1>3, <1>4, <1>6, <2>1 DEF AnotherCommand, CommandStep, commandVars, sayVars, afterVars
<1>7. CASE OpenEditor
  <2>1. Launched({"capabilities"}) \/ UNCHANGED worker
    BY <1>1, <1>3, <1>7, StartLaunches DEF OpenEditor
  <2> QED
    BY <1>3, <1>4, <1>7, <2>1 DEF OpenEditor, CommandStep, commandVars, sayVars
<1>8. CASE EditDraft \/ CloseEditor \/ BusyTimeout \/ AnswerNew
  BY <1>8 DEF EditDraft, CloseEditor, BusyTimeout, AnswerNew, CommandStep, commandVars, sayVars, afterVars
<1>9. CASE AnswerConflict
  BY <1>9 DEF AnswerConflict, CommandStep, commandVars, sayVars
<1>10. ASSUME NEW run \in BOOLEAN, PressSave(run) PROVE CommandStep
  <2>1. UNCHANGED <<device, runtime, online, signals, loadAfter, verifyAfter>> /\ editor.open
    BY <1>10 DEF PressSave
  <2>2. Save(editor.draft, run) \/ UNCHANGED <<worker, runAfter, wish, hurried>>
    BY <1>10 DEF PressSave
  <2> QED
    BY <1>2, <2>1, <2>2, SaveSteps DEF CommandStep, commandVars
<1>11. CASE AnswerOverwrite
  <2>1. UNCHANGED <<device, runtime, online, signals, loadAfter, verifyAfter>> /\ editor.open
    BY <1>11 DEF AnswerOverwrite, EditTypes, EditorShows
  <2>2. Save(box.config, box.run) \/ UNCHANGED <<worker, runAfter, wish, hurried>>
    BY <1>11 DEF AnswerOverwrite
  <2> QED
    BY <1>2, <2>1, <2>2, SaveSteps DEF CommandStep, commandVars
<1>12. CASE StaleSignal
  BY <1>12 DEF StaleSignal, CommandStep, StaleHandled, Handled, sayVars, afterVars
<1>13. CASE OnOther \/ OnCapabilities \/ OnNotCapable \/ OnLoad \/ OnRefresh \/ OnConflict
     \/ OnSaveFailed \/ OnVerified
  <2>1. /\ Handled /\ UNCHANGED worker /\ online' \in BOOLEAN /\ First.kind = "answer" /\ First.from = runtime
        /\ verifyAfter' \in {verifyAfter, 0} /\ runAfter' \in {runAfter, FALSE}
    BY <1>13 DEF OnOther, OnCapabilities, OnNotCapable, OnLoad, OnRefresh, OnConflict, OnSaveFailed,
       OnVerified, From, Handled, sayVars, afterVars
  <2> QED
    BY <2>1 DEF CommandStep, AnswerHandled
<1>14. CASE OnSaved
  BY <1>14 DEF OnSaved, From, Handled, AnswerHandled, CommandStep, sayVars
<1>15. CASE OnEnded
  <2>1. /\ Handled /\ First.kind = "ended" /\ First.from = runtime
        /\ UNCHANGED <<online, verifyAfter, runAfter>> /\ ~loadAfter'
    BY <1>15 DEF OnEnded, Handled
  <2>2. runtime \in Runtimes
    <3>1. First \in SignalStates
      BY <2>1, HeadTailProperties DEF Handled, EditTypes, CommandTypes, First
    <3> QED
      BY <2>1, <3>1 DEF SignalStates
  <2>3. \/ \E p \in {"load", "refresh"} : Start(p, 0, NoConfig)
        \/ verifyAfter # 0 /\ Start("verify", 0, NoConfig)
        \/ UNCHANGED worker /\ verifyAfter = 0
    BY <1>15, Zenon DEF OnEnded
  <2>4. \/ Launched(OtherPurposes) /\ (verifyAfter = 0 => worker'[runtime].purpose # "verify")
        \/ UNCHANGED worker /\ (verifyAfter = 0 \/ worker[runtime] # Resting)
    BY <1>3, <1>4, <2>2, <2>3, StartLaunches
  <2> QED
    BY <2>1, <2>4 DEF CommandStep, EndHandled
<1> QED
  BY <1>5, <1>6, <1>7, <1>8, <1>9, <1>10, <1>11, <1>12, <1>13, <1>14, <1>15
     DEF EditingNext, UserEdits, UserAnswers, HandleSignal

-----------------------------------------------------------------------------
(* What a command does to the device, and what its answer says.            *)

Saved(r) == [revision |-> device.revision + 1, config |-> worker[r].config]
Reply(r, answer) ==
  [kind |-> "answer", from |-> r, purpose |-> worker[r].purpose, answer |-> answer]

Requested(r) ==
  /\ worker[r].at = "running" /\ worker' = [worker EXCEPT ![r].at = "silent"]
  /\ UNCHANGED <<runtime, online, verifyAfter, runAfter, wish, hurried>>
  /\ \/ device' \in {device, Saved(r)} /\ UNCHANGED signals
     \/ \E a \in AnswerStates :
          /\ signals' = Append(signals, Reply(r, a))
          /\ \/ a.outcome # "ok" /\ device' \in {device, Saved(r)}
             \/ /\ worker[r].purpose # "save" /\ UNCHANGED device
                /\ a.revision = device.revision /\ a.config = device.config
             \/ /\ worker[r].purpose = "save" /\ device' = Saved(r)
                /\ a.revision = device'.revision /\ a.config = worker[r].config

LEMMA AnswersGiven ==
  ASSUME EditTypes, NEW r \in Runtimes, NEW a \in Answers(worker[r])
  PROVE  /\ a \in AnswerStates
         /\ a.outcome = "ok" /\ worker[r].purpose = "save"
              => /\ worker[r].base = device.revision /\ device.revision < MaxRevision
                 /\ a.revision = device.revision + 1 /\ a.config = worker[r].config
         /\ a.outcome = "ok" /\ worker[r].purpose # "save"
              => a.revision = device.revision /\ a.config = device.config
<1> DEFINE w == worker[r]
           taken == w.base = device.revision /\ device.revision < MaxRevision
           no(o) == [outcome |-> o, revision |-> 0, config |-> NoConfig]
           ok == [outcome |-> "ok", revision |-> device.revision, config |-> device.config]
           done == [outcome |-> "ok", revision |-> device.revision + 1, config |-> w.config]
<1>1. /\ w \in WorkerStates /\ w.config \in MaybeConfig
      /\ device.revision \in Nat /\ device.revision + 1 \in Nat /\ device.config \in MaybeConfig
  <2>1. w \in WorkerStates /\ device.revision \in Nat /\ device.config \in MaybeConfig
    BY DEF EditTypes, CommandTypes
  <2>2. w.config \in MaybeConfig
    BY <2>1, Zenon DEF WorkerStates
  <2> QED
    BY <2>1, <2>2
<1>2. \A o \in {"error", "invalid", "bad", "conflict", "unsaved"} :
        no(o) \in AnswerStates /\ no(o).outcome # "ok"
  <2>1. 0 \in Nat /\ NoConfig \in MaybeConfig
    BY DEF MaybeConfig
  <2> SUFFICES ASSUME NEW o \in {"error", "invalid", "bad", "conflict", "unsaved"}
               PROVE  no(o) \in AnswerStates /\ no(o).outcome # "ok"
    OBVIOUS
  <2>2. o \in {"ok", "error", "invalid", "bad", "conflict", "unsaved"} /\ o # "ok"
    OBVIOUS
  <2> QED
    BY <2>1, <2>2, Zenon DEF AnswerStates
<1>3. ok \in AnswerStates /\ done \in AnswerStates
  BY <1>1, Zenon DEF AnswerStates
<1>4. \/ a \in {no(o) : o \in {"error", "invalid", "bad"}}
      \/ w.purpose = "save" /\ taken /\ a = done
      \/ w.purpose = "save" /\ a = no("conflict")
      \/ w.purpose # "save" /\ a = no("unsaved")
      \/ w.purpose # "save" /\ a = ok
  BY DEF Answers
<1> HIDE DEF no
<1>5. CASE \E o \in {"error", "invalid", "bad", "conflict", "unsaved"} : a = no(o)
  BY <1>2, <1>5
<1>6. CASE w.purpose = "save" /\ taken /\ a = done
  BY <1>3, <1>6
<1>7. CASE w.purpose # "save" /\ a = ok
  BY <1>3, <1>7
<1> QED
  BY <1>4, <1>5, <1>6, <1>7

LEMMA RequestIsRequested ==
  ASSUME EditTypes, NEW r \in Runtimes, Request(r)
  PROVE  Requested(r)
<1> DEFINE w == worker[r]
           applies(a, got) == w.purpose = "save" /\ (a.outcome = "ok" \/ (got /\ a.outcome = "error"))
                              /\ w.base = device.revision /\ device.revision < MaxRevision
<1>1. PICK a \in Answers(worker[r]), got \in BOOLEAN :
        /\ got => a.outcome = "error" /\ w.purpose = "save"
        /\ device' = IF applies(a, got) THEN Saved(r) ELSE device
        /\ signals' = IF w.cancelled THEN signals ELSE Append(signals, Reply(r, a))
  BY Zenon DEF Request, Saved, Reply
<1>2. /\ worker[r].at = "running" /\ worker' = [worker EXCEPT ![r].at = "silent"]
      /\ UNCHANGED <<runtime, online, verifyAfter, runAfter, wish, hurried>>
  BY DEF Request, Running, afterVars
<1>3. device' \in {device, Saved(r)}
  BY <1>1
<1>4. CASE w.cancelled
  BY <1>1, <1>2, <1>3, <1>4 DEF Requested
<1>5. CASE ~w.cancelled
  <2>1. signals' = Append(signals, Reply(r, a)) /\ a \in AnswerStates
    BY <1>1, <1>5, AnswersGiven
  <2>2. CASE a.outcome # "ok"
    BY <1>2, <1>3, <2>1, <2>2, Zenon DEF Requested
  <2>3. CASE a.outcome = "ok" /\ w.purpose # "save"
    <3>1. UNCHANGED device /\ a.revision = device.revision /\ a.config = device.config
      BY <1>1, <2>3, AnswersGiven
    <3> QED
      BY <1>2, <2>1, <2>3, <3>1, Zenon DEF Requested
  <2>4. CASE a.outcome = "ok" /\ w.purpose = "save"
    <3>1. device' = Saved(r) /\ a.revision = device.revision + 1 /\ a.config = worker[r].config
      BY <1>1, <2>4, AnswersGiven
    <3>2. a.revision = device'.revision
      BY <3>1 DEF Saved
    <3> QED
      BY <1>2, <2>1, <2>4, <3>1, <3>2, Zenon DEF Requested
  <2> QED
    BY <2>2, <2>3, <2>4
<1> QED
  BY <1>4, <1>5

LEMMA CommandTypesNext == EditTypes /\ CommandStep => CommandTypes' /\ FreeRests'
<1> SUFFICES ASSUME EditTypes, CommandStep PROVE CommandTypes' /\ FreeRests'
  OBVIOUS
<1>1. /\ worker \in [Runtimes -> WorkerStates] /\ signals \in Seq(SignalStates)
      /\ device \in [revision : Nat, config : MaybeConfig]
      /\ runtime \in 0..MaxObjects /\ online \in BOOLEAN
  BY DEF EditTypes, CommandTypes
<1>2. ASSUME NEW r \in Runtimes, NEW w \in WorkerStates, w.at = "free" => w = Resting,
             worker' = [worker EXCEPT ![r] = w]
      PROVE  worker' \in [Runtimes -> WorkerStates] /\ FreeRests'
  BY <1>1, <1>2 DEF EditTypes, FreeRests
<1>3. UNCHANGED worker => worker' \in [Runtimes -> WorkerStates] /\ FreeRests'
  BY <1>1 DEF EditTypes, FreeRests
<1>4. ASSUME NEW purposes, Launched(purposes)
      PROVE  worker' \in [Runtimes -> WorkerStates] /\ FreeRests'
  <2>1. PICK w \in WorkerStates : w.at = "running" /\ worker' = [worker EXCEPT ![runtime] = w]
    BY <1>4, Zenon DEF Launched
  <2>2. runtime \in Runtimes
    BY <1>4 DEF Launched
  <2> QED
    BY <1>2, <2>1, <2>2
<1>5. Handled => signals' \in Seq(SignalStates)
  BY <1>1, HeadTailProperties DEF Handled
<1>6. CASE UNCHANGED commandVars
  BY <1>1, <1>3, <1>6 DEF commandVars, CommandTypes
<1>7. CASE OtherSaves
  <2>1. PICK c \in Configs : device' = [revision |-> device.revision + 1, config |-> c]
    BY <1>7 DEF OtherSaves
  <2>2. device.revision + 1 \in Nat /\ c \in MaybeConfig
    BY <1>1 DEF MaybeConfig
  <2>3. device' \in [revision : Nat, config : MaybeConfig]
    BY <2>1, <2>2, Zenon
  <2> QED
    BY <1>1, <1>3, <1>7, <2>3 DEF OtherSaves, CommandTypes
<1>8. CASE LinkGone
  <2> DEFINE w == [worker[runtime] EXCEPT !.cancelled = worker[runtime].cancelled
       \/ worker[runtime] # Resting]
  <2>1. worker' = [worker EXCEPT ![runtime] = w] /\ UNCHANGED <<device, signals>>
        /\ runtime' = 0 /\ online' = FALSE
    BY <1>8, Zenon DEF LinkGone
  <2>2. runtime \in Runtimes
    BY <1>1, <1>8, EditingAssumption DEF LinkGone, Runtimes
  <2>3. worker[runtime] \in WorkerStates /\ (worker[runtime].at = "free" => worker[runtime] = Resting)
    BY <1>1, <2>2 DEF EditTypes, FreeRests
  <2>4. w \in WorkerStates
    BY <2>3, Zenon DEF WorkerStates
  <2>5. w.at = worker[runtime].at
    BY <2>3, Zenon DEF WorkerStates
  <2>6. w.at = "free" => w = Resting
    <3>1. Resting.cancelled = FALSE
      BY DEF Resting
    <3>2. CASE worker[runtime] = Resting
      <4>1. (worker[runtime].cancelled \/ worker[runtime] # Resting) = worker[runtime].cancelled
        <5>1. worker[runtime].cancelled = FALSE
          BY <3>1, <3>2
        <5>2. (FALSE \/ worker[runtime] # Resting) = FALSE
          BY <3>2
        <5> QED
          BY <5>1, <5>2, Zenon
      <4>2. [worker[runtime] EXCEPT !.cancelled = worker[runtime].cancelled] = worker[runtime]
        BY <2>3, Zenon DEF WorkerStates
      <4> QED
        BY <3>2, <4>1, <4>2
    <3> QED
      BY <2>3, <2>5, <3>2
  <2> HIDE DEF w
  <2>7. worker' \in [Runtimes -> WorkerStates] /\ FreeRests'
    BY <1>2, <2>1, <2>2, <2>4, <2>6
  <2> QED
    <3>1. 0 \in 0..MaxObjects
      BY EditingAssumption
    <3>2. FALSE \in BOOLEAN
      OBVIOUS
    <3> QED
      BY <1>1, <2>1, <2>7, <3>1, <3>2, Zenon DEF CommandTypes
<1>9. CASE LinkBack
  <2>1. PICK r \in Runtimes : runtime' = r
    BY <1>9 DEF LinkBack
  <2> QED
    BY <1>1, <1>3, <1>9, <2>1, EditingAssumption DEF LinkBack, CommandTypes, Runtimes
<1>10. CASE Launched(OtherPurposes) /\ UNCHANGED <<device, runtime, online, signals, loadAfter,
     verifyAfter, runAfter, wish, hurried>>
  BY <1>1, <1>4, <1>10 DEF CommandTypes
<1>11. CASE SaveSent
  <2>1. PICK config \in MaybeConfig : worker' = [worker EXCEPT ![runtime] =
          [at |-> "running", purpose |-> "save", base |-> editor.revision, config |-> config,
           shown |-> editor.shown, cancelled |-> FALSE]]
    BY <1>11, Zenon DEF SaveSent
  <2> DEFINE w == [at |-> "running", purpose |-> "save", base |-> editor.revision, config |-> config,
                   shown |-> editor.shown, cancelled |-> FALSE]
  <2>2. editor.revision \in Nat /\ editor.shown \in SUBSET Nat
    BY DEF EditTypes, WindowTypes, EditorStates
  <2>3. w \in WorkerStates
    BY <2>2, Zenon DEF WorkerStates, Purposes
  <2>4. w.at # "free"
    OBVIOUS
  <2> HIDE DEF w
  <2>5. worker' \in [Runtimes -> WorkerStates] /\ FreeRests'
    BY <1>2, <1>11, <2>1, <2>3, <2>4 DEF SaveSent, w
  <2> QED
    BY <1>1, <1>11, <2>5 DEF SaveSent, CommandTypes
<1>12. CASE StaleHandled
  BY <1>1, <1>3, <1>5, <1>12 DEF StaleHandled, Handled, CommandTypes
<1>13. CASE AnswerHandled
  BY <1>1, <1>3, <1>5, <1>13 DEF AnswerHandled, Handled, CommandTypes
<1>14. CASE EndHandled
  <2>1. worker' \in [Runtimes -> WorkerStates] /\ FreeRests'
    BY <1>3, <1>4, <1>14, Zenon DEF EndHandled
  <2> QED
    BY <1>1, <1>5, <1>14, <2>1 DEF EndHandled, Handled, CommandTypes
<1>15. ASSUME NEW r \in Runtimes, Request(r) PROVE CommandTypes' /\ FreeRests'
  <2>1. Requested(r)
    BY <1>15, RequestIsRequested
  <2> DEFINE w == [worker[r] EXCEPT !.at = "silent"]
  <2>2. worker[r] \in WorkerStates
    BY <1>1
  <2>3. w \in WorkerStates /\ w.at = "silent" /\ worker[r].purpose \in Purposes
       /\ worker[r].config \in MaybeConfig
    BY <2>2, Zenon DEF WorkerStates
  <2>4. worker' = [worker EXCEPT ![r] = w]
    BY <2>1, Zenon DEF Requested
  <2>5. w.at # "free"
    BY <2>3
  <2> HIDE DEF w
  <2>6. worker' \in [Runtimes -> WorkerStates] /\ FreeRests'
    BY <1>2, <2>3, <2>4, <2>5
  <2>7. Saved(r) \in [revision : Nat, config : MaybeConfig]
    <3>1. device.revision + 1 \in Nat
      BY <1>1
    <3> QED
      BY <2>3, <3>1, Zenon DEF Saved
  <2>8. device' \in {device, Saved(r)}
    BY <2>1 DEF Requested
  <2>9. \A a \in AnswerStates : Reply(r, a) \in SignalStates
    <3>1. \A a \in AnswerStates : Reply(r, a) \in [kind : {"answer"}, from : Runtimes,
         purpose : Purposes, answer : AnswerStates]
      BY <2>3, Zenon DEF Reply
    <3> QED
      BY <3>1 DEF SignalStates
  <2>10. signals' \in Seq(SignalStates)
    BY <1>1, <2>1, <2>9, AppendProperties DEF Requested
  <2> QED
    BY <1>1, <2>1, <2>6, <2>7, <2>8, <2>10 DEF Requested, CommandTypes
<1>16. ASSUME NEW r \in Runtimes, ThreadEnds(r) PROVE CommandTypes' /\ FreeRests'
  <2>1. worker' \in [Runtimes -> WorkerStates] /\ FreeRests'
    BY <1>2, <1>16, RestingTypes DEF ThreadEnds
  <2>2. [kind |-> "ended", from |-> r] \in SignalStates
    BY DEF SignalStates
  <2>3. signals' \in Seq(SignalStates)
    BY <1>1, <1>16, <2>2, AppendProperties DEF ThreadEnds
  <2> QED
    BY <1>1, <1>16, <2>1, <2>3 DEF ThreadEnds, CommandTypes
<1> QED
  BY <1>6, <1>7, <1>8, <1>9, <1>10, <1>11, <1>12, <1>13, <1>14, <1>15, <1>16 DEF CommandStep, Network

-----------------------------------------------------------------------------
(* The editor and the message boxes.                                       *)

\* What an editor can become: shows is its revision being one it has shown.
Shows(e) == e \in EditorStates /\ (e.open => e.revision \in e.shown)

LEMMA EditorChanges ==
  ASSUME EditTypes
  PROVE  /\ Shows(editor) /\ Shows(EditorReleased) /\ EditorReleased.open = editor.open
         /\ \A b, g \in BOOLEAN :
              LET e == [editor EXCEPT !.busy = b]  h == [editor EXCEPT !.busy = b, !.gaveUp = g] IN
                Shows(e) /\ e.open = editor.open /\ Shows(h) /\ h.open = editor.open
         /\ \A c \in MaybeConfig :
              LET e == [editor EXCEPT !.draft = c] IN Shows(e) /\ e.open = editor.open
<1>1. editor \in EditorStates /\ (editor.open => editor.revision \in editor.shown)
  BY DEF EditTypes, WindowTypes, EditorShows
<1>2. ASSUME NEW b \in BOOLEAN, NEW g \in BOOLEAN
      PROVE  LET e == [editor EXCEPT !.busy = b]  h == [editor EXCEPT !.busy = b, !.gaveUp = g] IN
               Shows(e) /\ e.open = editor.open /\ Shows(h) /\ h.open = editor.open
  <2> DEFINE e == [editor EXCEPT !.busy = b]
             h == [editor EXCEPT !.busy = b, !.gaveUp = g]
  <2>1. e \in EditorStates /\ h \in EditorStates
    BY <1>1, Zenon DEF EditorStates
  <2>2. /\ e.open = editor.open /\ e.revision = editor.revision /\ e.shown = editor.shown
        /\ h.open = editor.open /\ h.revision = editor.revision /\ h.shown = editor.shown
    BY <1>1, Zenon DEF EditorStates
  <2> HIDE DEF e, h
  <2>3. Shows(e) /\ e.open = editor.open /\ Shows(h) /\ h.open = editor.open
    BY <1>1, <2>1, <2>2 DEF Shows
  <2> QED
    BY <2>3 DEF e, h
<1>3. ASSUME NEW c \in MaybeConfig
      PROVE  LET e == [editor EXCEPT !.draft = c] IN Shows(e) /\ e.open = editor.open
  <2> DEFINE e == [editor EXCEPT !.draft = c]
  <2>1. e \in EditorStates
    BY <1>1, Zenon DEF EditorStates
  <2>2. e.open = editor.open /\ e.revision = editor.revision /\ e.shown = editor.shown
    BY <1>1, Zenon DEF EditorStates
  <2> HIDE DEF e
  <2>3. Shows(e) /\ e.open = editor.open
    BY <1>1, <2>1, <2>2 DEF Shows
  <2> QED
    BY <2>3 DEF e
<1>4. Shows(EditorReleased) /\ EditorReleased.open = editor.open
  BY <1>2 DEF EditorReleased
<1> QED
  BY <1>1, <1>2, <1>3, <1>4 DEF Shows

LEMMA EditorRevisions ==
  ASSUME EditTypes, NEW revision \in Nat, NEW config \in MaybeConfig
  PROVE  /\ Shows(Shown(revision, config))
         /\ Shows(RevisionShown(revision)) /\ RevisionShown(revision).open = editor.open
         /\ LET e == [RevisionShown(revision) EXCEPT !.draft = config] IN
              Shows(e) /\ e.open = editor.open
<1>1. editor \in EditorStates /\ (editor.open => editor.revision \in editor.shown)
  BY DEF EditTypes, WindowTypes, EditorShows
<1>2. Shows(Shown(revision, config))
  <2> DEFINE e == Shown(revision, config)
  <2>1. {revision} \in SUBSET Nat
    OBVIOUS
  <2>2. e \in EditorStates
    BY <2>1, RestingTypes, Zenon DEF Shown, EditorStates
  <2>3. e.revision = revision /\ e.shown = {revision}
    BY RestingTypes, Zenon DEF Shown, EditorStates
  <2> QED
    BY <2>2, <2>3 DEF Shows
<1>3. Shows(RevisionShown(revision)) /\ RevisionShown(revision).open = editor.open
  <2> DEFINE set == editor.shown \cup {revision}
             e == [editor EXCEPT !.revision = revision, !.busy = FALSE, !.shown = set]
  <2>1. set \in SUBSET Nat /\ revision \in set
    BY <1>1 DEF EditorStates
  <2> HIDE DEF set
  <2>2. e \in EditorStates
    BY <1>1, <2>1, Zenon DEF EditorStates
  <2>3. e.revision = revision /\ e.shown = set /\ e.open = editor.open
    BY <1>1, Zenon DEF EditorStates
  <2>4. RevisionShown(revision) = IF editor.open THEN e ELSE editor
    BY Zenon DEF RevisionShown, set
  <2> HIDE DEF e
  <2> QED
    BY <1>1, <2>1, <2>2, <2>3, <2>4 DEF Shows
<1>4. LET e == [RevisionShown(revision) EXCEPT !.draft = config] IN
        Shows(e) /\ e.open = editor.open
  <2> DEFINE d == RevisionShown(revision)
             e == [d EXCEPT !.draft = config]
  <2>1. d \in EditorStates /\ (d.open => d.revision \in d.shown) /\ d.open = editor.open
    BY <1>3 DEF Shows
  <2> HIDE DEF d
  <2>2. e \in EditorStates
    BY <2>1, Zenon DEF EditorStates
  <2>3. e.open = d.open /\ e.revision = d.revision /\ e.shown = d.shown
    BY <2>1, Zenon DEF EditorStates
  <2> HIDE DEF e
  <2>4. Shows(e) /\ e.open = editor.open
    BY <2>1, <2>2, <2>3 DEF Shows
  <2> QED
    BY <2>4 DEF e, d
<1> QED
  BY <1>2, <1>3, <1>4

\* A handled answer is one of a command.
LEMMA AnswerTypes ==
  ASSUME EditTypes, NEW purpose, NEW outcomes, From(purpose, outcomes)
  PROVE  /\ First \in SignalStates /\ runtime \in Runtimes
         /\ Answer \in AnswerStates /\ Answer.revision \in Nat /\ Answer.config \in MaybeConfig
<1>1. First \in SignalStates /\ First.kind = "answer" /\ First.from = runtime
  BY HeadTailProperties DEF From, EditTypes, CommandTypes, First
<1>2. First \in [kind : {"answer"}, from : Runtimes, purpose : Purposes, answer : AnswerStates]
  BY <1>1 DEF SignalStates
<1>3. Answer \in AnswerStates /\ runtime \in Runtimes
  BY <1>1, <1>2 DEF Answer
<1> QED
  BY <1>1, <1>3 DEF AnswerStates

\* The editor and the box after a step.
EditorStep ==
  /\ Shows(editor')
  /\ \/ UNCHANGED box /\ (editor.open /\ box # NoBox => editor'.open)
     \/ /\ box' \in BoxStates
        /\ box'.what = "overwrite" => editor'.open

LEMMA EditorStepNext == EditTypes /\ EditingNext => EditorStep
<1> SUFFICES ASSUME EditTypes, EditingNext PROVE EditorStep
  OBVIOUS
<1> DEFINE kept == Shows(editor') /\ editor'.open = editor.open
<1>1. editor.draft \in MaybeConfig /\ box.config \in MaybeConfig /\ box.revision \in Nat
      /\ refreshAfter \in BOOLEAN /\ editor.open \in BOOLEAN /\ box \in BoxStates
  BY DEF EditTypes, CommandTypes, WindowTypes, EditorStates, BoxStates
<1>2. UNCHANGED editor => kept
  BY EditorChanges
<1>3. editor' = EditorReleased => kept
  BY EditorChanges
<1>4. ASSUME NEW b \in BOOLEAN, editor' = [editor EXCEPT !.busy = b] PROVE kept
  BY <1>4, EditorChanges
<1>5. ASSUME NEW b \in BOOLEAN, NEW g \in BOOLEAN, editor' = [editor EXCEPT !.busy = b, !.gaveUp = g]
      PROVE  kept
  BY <1>5, EditorChanges
<1>6. kept /\ UNCHANGED box => EditorStep
  BY DEF EditorStep
<1>7. ASSUME NEW config \in MaybeConfig, NEW run \in BOOLEAN, NEW what \in {"overwrite", "new", "conflict"}
      PROVE  [what |-> what, config |-> config, run |-> run, revision |-> 0] \in BoxStates
  BY DEF BoxStates
<1>8. ASSUME NEW config, NEW run, Save(config, run) PROVE kept
  <2> DEFINE given == refreshAfter \/ config # editor.draft
  <2>1. TRUE \in BOOLEAN /\ FALSE \in BOOLEAN /\ given \in BOOLEAN
    OBVIOUS
  <2>2. \/ editor' = [editor EXCEPT !.busy = FALSE]
        \/ editor' = [editor EXCEPT !.busy = TRUE, !.gaveUp = given]
        \/ editor' = [editor EXCEPT !.busy = TRUE]
    BY <1>8, Zenon DEF Save
  <2> HIDE DEF kept, given
  <2> QED
    BY <1>4, <1>5, <2>1, <2>2
<1>9. NoBox \in BoxStates /\ NoBox.what = "none" /\ NoBox.config \in MaybeConfig /\ NoBox.run \in BOOLEAN
  <2>1. NoBox.what = "none" /\ NoBox.config = NoConfig /\ NoBox.run = FALSE
    BY DEF NoBox
  <2> QED
    BY <2>1, RestingTypes DEF MaybeConfig
<1> HIDE DEF kept
<1>10. CASE OtherSaves \/ AnotherCommand \/ LinkGone \/ LinkBack \/ OpenEditor
  BY <1>2, <1>6, <1>10 DEF OtherSaves, AnotherCommand, LinkGone, LinkBack, OpenEditor
<1>11. CASE EditDraft
  <2>1. kept
    BY <1>11, EditorChanges, Zenon DEF EditDraft, MaybeConfig, kept
  <2> QED
    BY <1>6, <1>11, <2>1 DEF EditDraft
<1>12. CASE CloseEditor
  <2>1. Shows(editor') /\ box = NoBox /\ UNCHANGED box
    <3>1. ~NoEditor.open
      BY DEF NoEditor
    <3> QED
      BY <1>12, <3>1, RestingTypes DEF CloseEditor, Free, Shows
  <2> QED
    BY <2>1 DEF EditorStep
<1>13. ASSUME NEW run \in BOOLEAN, PressSave(run) PROVE EditorStep
  <2>1. CASE editor.revision = 0
    BY <1>6, <1>8, <1>13, <2>1 DEF PressSave
  <2>2. CASE editor.revision # 0
    <3>1. box' = [what |-> "overwrite", config |-> editor.draft, run |-> run, revision |-> 0]
          /\ UNCHANGED editor /\ editor.open
      BY <1>13, <2>2 DEF PressSave
    <3> QED
      BY <1>1, <1>2, <1>7, <3>1 DEF EditorStep, kept
  <2> QED
    BY <2>1, <2>2
<1>14. CASE AnswerOverwrite
  <2>1. kept /\ box' = NoBox
    BY <1>2, <1>8, <1>14, Zenon DEF AnswerOverwrite
  <2> QED
    BY <1>9, <2>1 DEF EditorStep, kept
<1>15. CASE AnswerNew
  <2>1. Shows(editor') /\ box' = NoBox
    BY <1>1, <1>15, EditorChanges, EditorRevisions DEF AnswerNew
  <2> QED
    BY <1>9, <2>1 DEF EditorStep
<1>16. CASE AnswerConflict
  <2>1. kept /\ box' = NoBox
    BY <1>1, <1>3, <1>4, <1>16, Zenon DEF AnswerConflict
  <2> QED
    BY <1>9, <2>1 DEF EditorStep, kept
<1>17. CASE BusyTimeout
  <2>1. TRUE \in BOOLEAN /\ FALSE \in BOOLEAN
    OBVIOUS
  <2>2. kept
    BY <1>5, <1>17, <2>1, Zenon DEF BusyTimeout
  <2> QED
    BY <1>6, <1>17, <2>2 DEF BusyTimeout
<1>18. CASE StaleSignal \/ OnOther \/ OnNotCapable \/ OnSaved
  BY <1>2, <1>6, <1>18 DEF StaleSignal, OnOther, OnNotCapable, OnSaved
<1>19. CASE OnCapabilities
  <2>1. Answer.revision \in Nat
    BY <1>19, AnswerTypes DEF OnCapabilities
  <2>2. CASE UNCHANGED <<editor, box>>
    BY <1>2, <1>6, <2>2
  <2>3. CASE UNCHANGED box /\ \E c \in Configs : editor' = Shown(Answer.revision, c)
    <3>1. PICK c \in Configs : editor' = Shown(Answer.revision, c)
      BY <2>3
    <3>2. c \in MaybeConfig
      BY DEF MaybeConfig
    <3>3. Shows(editor') /\ editor'.open
      <4>1. Shown(Answer.revision, c).open
        BY RestingTypes, Zenon DEF Shown, EditorStates
      <4> QED
        BY <2>1, <3>1, <3>2, <4>1, EditorRevisions
    <3> QED
      BY <2>3, <3>3 DEF EditorStep
  <2>4. CASE UNCHANGED editor /\ \E c \in Configs :
             box' = [NoBox EXCEPT !.what = "new", !.config = c, !.revision = Answer.revision]
    <3>1. PICK c \in Configs :
            box' = [NoBox EXCEPT !.what = "new", !.config = c, !.revision = Answer.revision]
      BY <2>4
    <3>2. c \in MaybeConfig
      BY DEF MaybeConfig
    <3>3. box' \in BoxStates
      BY <1>9, <2>1, <3>1, <3>2, Zenon DEF BoxStates
    <3>4. box'.what = "new"
      BY <1>9, <3>1, Zenon DEF BoxStates
    <3> QED
      BY <1>2, <2>4, <3>3, <3>4 DEF EditorStep, kept
  <2> QED
    BY <1>19, <2>2, <2>3, <2>4, Zenon DEF OnCapabilities
<1>20. CASE OnLoad
  <2>1. Answer.revision \in Nat /\ Answer.config \in MaybeConfig /\ 0 \in Nat /\ Configs \subseteq MaybeConfig
    BY <1>20, AnswerTypes DEF OnLoad, MaybeConfig
  <2>2. UNCHANGED editor \/ \E revision \in Nat, c \in MaybeConfig : editor' = Shown(revision, c)
    BY <1>20, <2>1, Zenon DEF OnLoad
  <2>3. \A revision, c : Shown(revision, c).open
    BY RestingTypes, Zenon DEF Shown, EditorStates
  <2>4. Shows(editor') /\ (editor.open => editor'.open)
    <3>1. CASE UNCHANGED editor
      BY <1>2, <3>1 DEF kept
    <3>2. ASSUME NEW revision \in Nat, NEW c \in MaybeConfig, editor' = Shown(revision, c)
          PROVE  Shows(editor') /\ (editor.open => editor'.open)
      BY <2>3, <3>2, EditorRevisions
    <3> QED
      BY <2>2, <3>1, <3>2, Zenon
  <2> QED
    BY <1>20, <2>4 DEF OnLoad, EditorStep
<1>21. CASE OnRefresh
  <2>1. Answer.revision \in Nat /\ 0 \in Nat
    BY <1>21, AnswerTypes DEF OnRefresh
  <2>2. editor' \in {RevisionShown(Answer.revision), RevisionShown(0), EditorReleased}
    BY <1>21 DEF OnRefresh
  <2>3. kept
    BY <1>3, <2>1, <2>2, EditorRevisions, RestingTypes DEF kept, MaybeConfig
  <2> QED
    BY <1>6, <1>21, <2>3 DEF OnRefresh
<1>22. CASE OnConflict
  <2>1. CASE editor.open
    <3>1. box' = [NoBox EXCEPT !.what = "conflict"] /\ UNCHANGED editor
      BY <1>22, <2>1 DEF OnConflict
    <3>2. box' \in BoxStates
      BY <1>9, <3>1, Zenon DEF BoxStates
    <3>3. box'.what = "conflict"
      BY <1>9, <3>1, Zenon DEF BoxStates
    <3> QED
      BY <1>2, <3>1, <3>2, <3>3 DEF EditorStep, kept
  <2>2. CASE ~editor.open
    BY <1>2, <1>6, <1>22, <2>2 DEF OnConflict
  <2> QED
    BY <2>1, <2>2
<1>23. CASE OnSaveFailed
  BY <1>3, <1>6, <1>23 DEF OnSaveFailed
<1>24. CASE OnVerified
  <2>1. Answer.revision \in Nat /\ Answer.config \in MaybeConfig
    BY <1>24, AnswerTypes DEF OnVerified
  <2>2. \/ editor' = [RevisionShown(Answer.revision) EXCEPT !.draft = Answer.config]
        \/ UNCHANGED editor \/ editor' = EditorReleased
    BY <1>24 DEF OnVerified
  <2>3. ASSUME editor' = [RevisionShown(Answer.revision) EXCEPT !.draft = Answer.config] PROVE kept
    BY <2>1, <2>3, EditorRevisions, Zenon DEF kept
  <2>4. kept
    BY <1>2, <1>3, <2>2, <2>3
  <2> QED
    BY <1>6, <1>24, <2>4 DEF OnVerified
<1>25. CASE OnEnded
  <2>1. UNCHANGED editor \/ editor' = [editor EXCEPT !.busy = editor.open]
    BY <1>25, Zenon DEF OnEnded
  <2>2. kept
    BY <1>1, <1>2, <1>4, <2>1
  <2> QED
    BY <1>6, <1>25, <2>2 DEF OnEnded
<1>26. ASSUME NEW r \in Runtimes, Network(r) PROVE EditorStep
  BY <1>2, <1>6, <1>26 DEF Network, Request, ThreadEnds
<1> QED
  BY <1>10, <1>11, <1>12, <1>13, <1>14, <1>15, <1>16, <1>17, <1>18, <1>19, <1>20, <1>21, <1>22, <1>23,
     <1>24, <1>25, <1>26 DEF EditingNext, UserEdits, UserAnswers, HandleSignal

-----------------------------------------------------------------------------
(* The types, and what a save replaces.                                    *)

LEMMA EditTypesNext == EditTypes /\ EditingNext => EditTypes'
<1> SUFFICES ASSUME EditTypes, EditingNext PROVE EditTypes'
  OBVIOUS
<1>1. CommandStep /\ EditorStep
  BY CommandStepNext, EditorStepNext
<1>2. CommandTypes' /\ FreeRests'
  BY <1>1, CommandTypesNext
<1>3. /\ refreshAfter \in BOOLEAN /\ runAfter \in BOOLEAN /\ verifyAfter \in Nat /\ box \in BoxStates
      /\ wish \in [config : MaybeConfig, run : BOOLEAN] /\ hurried \in BOOLEAN
      /\ (box.what = "overwrite" => editor.open) /\ TRUE \in BOOLEAN /\ FALSE \in BOOLEAN
  BY DEF EditTypes, WindowTypes, EditorShows
<1>4. editor' \in EditorStates /\ box' \in BoxStates /\ EditorShows'
  <2>1. ~(NoBox.what = "overwrite")
    BY DEF NoBox
  <2> QED
    BY <1>1, <1>3, <2>1 DEF EditorStep, Shows, EditorShows
<1>5. refreshAfter' \in BOOLEAN
  <2>1. refreshAfter' \in {refreshAfter, TRUE, FALSE}
    BY DEF EditingNext, OtherSaves, AnotherCommand, LinkGone, LinkBack, UserEdits, OpenEditor, EditDraft,
       CloseEditor, PressSave, UserAnswers, AnswerOverwrite, AnswerNew, AnswerConflict, BusyTimeout,
       HandleSignal, StaleSignal, OnOther, OnCapabilities, OnNotCapable, OnLoad, OnRefresh, OnSaved,
       OnConflict, OnSaveFailed, OnVerified, OnEnded, Network, Request, ThreadEnds, afterVars
  <2> QED
    BY <1>3, <2>1
<1>6. /\ runAfter' \in BOOLEAN /\ verifyAfter' \in Nat
      /\ wish' \in [config : MaybeConfig, run : BOOLEAN] /\ hurried' \in BOOLEAN
  <2>1. CASE \/ UNCHANGED commandVars
             \/ OtherSaves \/ LinkGone \/ LinkBack
             \/ UNCHANGED <<device, runtime, online, signals, loadAfter, verifyAfter, runAfter, wish,
                  hurried>>
             \/ StaleHandled \/ EndHandled
             \/ \E r \in Runtimes : Network(r)
    BY <1>3, <2>1 DEF commandVars, OtherSaves, LinkGone, LinkBack, StaleHandled, EndHandled, Handled,
       Network, Request, ThreadEnds, afterVars, sayVars
  <2>2. CASE SaveSent
    <3>1. PICK config \in MaybeConfig, run \in BOOLEAN :
            /\ wish' = [config |-> config, run |-> run] /\ runAfter' = run
            /\ hurried' = (hurried \/ SignalDue) /\ UNCHANGED verifyAfter
      BY <2>2, Zenon DEF SaveSent
    <3>2. hurried' \in BOOLEAN
      BY <3>1, Zenon
    <3> QED
      BY <1>3, <3>1, <3>2
  <2>3. CASE AnswerHandled
    <3>1. First.purpose = "save" /\ Answer.outcome = "ok" => Answer.revision \in Nat
      <4>1. First \in SignalStates /\ First.kind = "answer"
        BY <2>3, HeadTailProperties DEF AnswerHandled, Handled, EditTypes, CommandTypes, First
      <4> QED
        BY <4>1 DEF SignalStates, AnswerStates, Answer
    <3>2. verifyAfter' \in Nat
      <4>1. \/ verifyAfter' \in {verifyAfter, 0}
            \/ First.purpose = "save" /\ Answer.outcome = "ok" /\ verifyAfter' = Answer.revision
        BY <2>3, Zenon DEF AnswerHandled
      <4> QED
        BY <1>3, <3>1, <4>1
    <3>3. runAfter' \in BOOLEAN
      BY <1>3, <2>3, Zenon DEF AnswerHandled
    <3>4. UNCHANGED <<wish, hurried>>
      BY <2>3 DEF AnswerHandled, Handled
    <3> QED
      BY <1>3, <3>2, <3>3, <3>4
  <2> QED
    BY <1>1, <2>1, <2>2, <2>3 DEF CommandStep
<1> QED
  BY <1>2, <1>4, <1>5, <1>6 DEF EditTypes, WindowTypes

\* What the window, the threads and the device have on their way is always of its kind: a
\* command's answer can be taken for what it says (testagent_gui.py, CommandWorker.run).
THEOREM EditTypesHold == EditingSpec => []EditTypes
<1>1. EditTypes /\ [EditingNext]_editingVars => EditTypes'
  <2>1. CASE EditingNext
    BY <2>1, EditTypesNext
  <2>2. CASE UNCHANGED editingVars
    BY <2>2 DEF editingVars, afterVars, sayVars, EditTypes, CommandTypes, WindowTypes, FreeRests, EditorShows
  <2> QED
    BY <2>1, <2>2
<1> QED
  BY <1>1, EditTypesInit, PTL DEF EditingSpec

\* A save that is on its way is based on a revision the editor had shown.
SavesShown == \A r \in Runtimes :
  worker[r].at = "running" /\ worker[r].purpose = "save" => worker[r].base \in worker[r].shown
SeenInv == SavesShown /\ ~unseen

LEMMA SavesShownNext == EditTypes /\ SavesShown /\ CommandStep => SavesShown'
<1> SUFFICES ASSUME EditTypes, SavesShown, CommandStep PROVE SavesShown'
  OBVIOUS
<1>1. worker \in [Runtimes -> WorkerStates]
  BY DEF EditTypes, CommandTypes
<1>2. ASSUME NEW r \in Runtimes, NEW w, worker' = [worker EXCEPT ![r] = w],
             w.at = "running" /\ w.purpose = "save" => w.base \in w.shown
      PROVE  SavesShown'
  BY <1>1, <1>2 DEF SavesShown
<1>3. UNCHANGED worker => SavesShown'
  BY DEF SavesShown
<1>4. ASSUME Launched(OtherPurposes) PROVE SavesShown'
  <2>1. PICK w \in WorkerStates : w.purpose \in OtherPurposes /\ worker' = [worker EXCEPT ![runtime] = w]
    BY <1>4, Zenon DEF Launched
  <2> QED
    BY <1>2, <1>4, <2>1 DEF Launched, OtherPurposes
<1>5. CASE LinkGone
  <2> DEFINE w == [worker[runtime] EXCEPT !.cancelled = worker[runtime].cancelled
       \/ worker[runtime] # Resting]
  <2>0. worker' = [worker EXCEPT ![runtime] = w]
    BY <1>5, Zenon DEF LinkGone
  <2>1. worker' = [worker EXCEPT ![runtime] = w] /\ runtime \in Runtimes
    BY <1>5, <2>0, EditingAssumption DEF LinkGone, EditTypes, CommandTypes, Runtimes
  <2>2. worker[runtime] \in WorkerStates
    BY <1>1, <2>1
  <2>3. /\ w.at = worker[runtime].at /\ w.purpose = worker[runtime].purpose
        /\ w.base = worker[runtime].base /\ w.shown = worker[runtime].shown
    BY <2>2, Zenon DEF WorkerStates
  <2> HIDE DEF w
  <2> QED
    BY <1>2, <2>1, <2>3 DEF SavesShown
<1>6. CASE SaveSent
  <2>1. PICK config \in MaybeConfig : worker' = [worker EXCEPT ![runtime] =
          [at |-> "running", purpose |-> "save", base |-> editor.revision, config |-> config,
           shown |-> editor.shown, cancelled |-> FALSE]]
    BY <1>6, Zenon DEF SaveSent
  <2>2. editor.revision \in editor.shown /\ runtime \in Runtimes
    BY <1>6 DEF SaveSent, EditTypes, EditorShows
  <2> QED
    BY <1>2, <2>1, <2>2
<1>7. ASSUME NEW r \in Runtimes, Network(r) PROVE SavesShown'
  <2>1. CASE Request(r)
    <3> DEFINE w == [worker[r] EXCEPT !.at = "silent"]
    <3>1. worker' = [worker EXCEPT ![r] = w]
      BY <2>1, Zenon DEF Request
    <3>2. w.at = "silent"
      BY <1>1, Zenon DEF WorkerStates
    <3> HIDE DEF w
    <3> QED
      BY <1>2, <3>1, <3>2
  <2>2. CASE ThreadEnds(r)
    <3>1. Resting.at # "running"
      BY DEF Resting
    <3> QED
      BY <1>2, <2>2, <3>1 DEF ThreadEnds
  <2> QED
    BY <1>7, <2>1, <2>2 DEF Network
<1>8. CASE OtherSaves \/ LinkBack \/ StaleHandled \/ AnswerHandled \/ UNCHANGED commandVars
  BY <1>3, <1>8 DEF OtherSaves, LinkBack, StaleHandled, AnswerHandled, commandVars
<1>9. CASE EndHandled
  BY <1>3, <1>4, <1>9 DEF EndHandled
<1> QED
  BY <1>4, <1>5, <1>6, <1>7, <1>8, <1>9 DEF CommandStep

LEMMA UnseenStays == EditTypes /\ SeenInv /\ EditingNext => ~unseen'
<1> SUFFICES ASSUME EditTypes, SeenInv, EditingNext PROVE ~unseen'
  OBVIOUS
<1>1. UNCHANGED unseen => ~unseen'
  BY DEF SeenInv
<1>2. ASSUME NEW r \in Runtimes, Request(r) PROVE ~unseen'
  <2> DEFINE w == worker[r]
  <2>1. PICK a \in Answers(w), got \in BOOLEAN :
          unseen' = (unseen \/ ((/\ w.purpose = "save" /\ (a.outcome = "ok" \/ (got /\ a.outcome = "error"))
                                 /\ w.base = device.revision /\ device.revision < MaxRevision)
                                /\ device.revision \notin w.shown))
    BY <1>2, Zenon DEF Request
  <2>2. w.purpose = "save" => w.base \in w.shown
    BY <1>2 DEF Request, Running, SeenInv, SavesShown
  <2> QED
    BY <2>1, <2>2 DEF SeenInv
<1>3. CASE \/ OtherSaves \/ AnotherCommand \/ LinkGone \/ LinkBack \/ OpenEditor \/ EditDraft \/ CloseEditor
           \/ AnswerOverwrite \/ AnswerNew \/ AnswerConflict \/ BusyTimeout
           \/ \E run \in BOOLEAN : PressSave(run)
           \/ \E r \in Runtimes : ThreadEnds(r)
  BY <1>1, <1>3 DEF OtherSaves, AnotherCommand, LinkGone, LinkBack, OpenEditor, EditDraft, CloseEditor,
     AnswerOverwrite, AnswerNew, AnswerConflict, BusyTimeout, PressSave, ThreadEnds, sayVars
<1>4. CASE HandleSignal
  BY <1>1, <1>4 DEF HandleSignal, StaleSignal, OnOther, OnCapabilities, OnNotCapable, OnLoad, OnRefresh,
     OnSaved, OnConflict, OnSaveFailed, OnVerified, OnEnded, sayVars
<1> QED
  BY <1>2, <1>3, <1>4 DEF EditingNext, UserEdits, UserAnswers, Network

\* A save of this PC replaces only a revision its editor has shown, whatever other PCs save
\* and however often the link goes: the base sent with the save (testagent_gui.py) is one of
\* the revisions shown, and the device takes the save only with its own revision as the base.
THEOREM OverwritesAreSeen == EditingSpec => []OverwritesOnlySeen
<1>1. EditingInit => SeenInv
  <2>1. Resting.at = "free"
    BY DEF Resting
  <2> QED
    BY <2>1 DEF EditingInit, SeenInv, SavesShown
<1>2. EditTypes /\ SeenInv /\ [EditingNext]_editingVars => SeenInv'
  <2>1. ASSUME EditTypes, SeenInv, EditingNext PROVE SeenInv'
    BY <2>1, CommandStepNext, SavesShownNext, UnseenStays DEF SeenInv
  <2>2. ASSUME SeenInv, UNCHANGED editingVars PROVE SeenInv'
    BY <2>2 DEF editingVars, sayVars, SeenInv, SavesShown
  <2> QED
    BY <2>1, <2>2
<1>3. SeenInv => OverwritesOnlySeen
  BY DEF SeenInv, OverwritesOnlySeen
<1> QED
  BY <1>1, <1>2, <1>3, EditTypesHold, PTL DEF EditingSpec

-----------------------------------------------------------------------------
(* Signals: the handled one is dropped in front, a new one comes last.     *)

LEMMA TailSignals ==
  ASSUME EditTypes, signals # <<>>, signals' = Tail(signals)
  PROVE  /\ 1 \in DOMAIN signals /\ First = signals[1] /\ DOMAIN signals \subseteq Nat
         /\ \A i \in DOMAIN signals' : i \in Nat /\ i + 1 \in DOMAIN signals /\ signals'[i] = signals[i + 1]
         /\ \A j \in DOMAIN signals : j # 1 => j - 1 \in DOMAIN signals' /\ signals'[j - 1] = signals[j]
<1>1. signals \in Seq(SignalStates)
  BY DEF EditTypes, CommandTypes
<1>2. Len(signals) \in Nat /\ Len(signals) # 0 /\ DOMAIN signals = 1..Len(signals)
  BY <1>1
<1>3. /\ Len(signals') = Len(signals) - 1 /\ DOMAIN signals' = 1..Len(signals')
      /\ \A i \in 1..Len(signals') : signals'[i] = signals[i + 1]
  BY <1>1, HeadTailProperties
<1> QED
  BY <1>1, <1>2, <1>3 DEF First

LEMMA AppendSignals ==
  ASSUME EditTypes, NEW s \in SignalStates, signals' = Append(signals, s)
  PROVE  \E n \in Nat : /\ DOMAIN signals' = DOMAIN signals \cup {n} /\ signals'[n] = s
                        /\ \A i \in DOMAIN signals : i \in Nat /\ i < n /\ signals'[i] = signals[i]
<1>1. signals \in Seq(SignalStates)
  BY DEF EditTypes, CommandTypes
<1>2. /\ Len(signals) \in Nat /\ DOMAIN signals = 1..Len(signals)
      /\ DOMAIN signals' = 1..(Len(signals) + 1)
      /\ signals'[Len(signals) + 1] = s /\ \A i \in 1..Len(signals) : signals'[i] = signals[i]
  BY <1>1, AppendProperties
<1> QED
  BY <1>2

\* What a step does to the threads and the signals.
Busy(r) == worker[r].at # "free"
BusyStays == \A r \in Runtimes : Busy(r) => Busy(r)'

SignalStep ==
  \/ UNCHANGED signals /\ BusyStays
  \/ signals # <<>> /\ signals' = Tail(signals) /\ BusyStays
  \/ BusyStays /\ \E r \in Runtimes : Busy(r)' /\ \E s \in SignalStates :
       s.kind = "answer" /\ s.from = r /\ signals' = Append(signals, s)
  \/ \E r \in Runtimes, s \in SignalStates :
       /\ s.kind = "ended" /\ s.from = r /\ signals' = Append(signals, s)
       /\ \A q \in Runtimes \ {r} : Busy(q) => Busy(q)'

LEMMA SignalStepNext == EditTypes /\ CommandStep => SignalStep
<1> SUFFICES ASSUME EditTypes, CommandStep PROVE SignalStep
  OBVIOUS
<1>1. worker \in [Runtimes -> WorkerStates]
  BY DEF EditTypes, CommandTypes
<1>2. UNCHANGED worker => BusyStays
  BY DEF BusyStays, Busy
<1>3. ASSUME NEW r \in Runtimes, NEW w, worker' = [worker EXCEPT ![r] = w], w.at # "free" \/ ~Busy(r)
      PROVE  BusyStays
  BY <1>1, <1>3 DEF BusyStays, Busy
<1>4. ASSUME Launched(OtherPurposes) PROVE BusyStays
  <2>1. PICK w \in WorkerStates : w.at = "running" /\ worker' = [worker EXCEPT ![runtime] = w]
    BY <1>4, Zenon DEF Launched
  <2> QED
    BY <1>3, <1>4, <2>1 DEF Launched
<1>5. CASE LinkGone
  <2> DEFINE w == [worker[runtime] EXCEPT !.cancelled = worker[runtime].cancelled
       \/ worker[runtime] # Resting]
  <2>1. worker' = [worker EXCEPT ![runtime] = w]
    BY <1>5, Zenon DEF LinkGone
  <2>2. runtime \in Runtimes
    BY <1>5, EditingAssumption DEF LinkGone, EditTypes, CommandTypes, Runtimes
  <2>3. worker[runtime] \in WorkerStates
    BY <1>1, <2>2
  <2>4. w.at = worker[runtime].at
    BY <2>3, Zenon DEF WorkerStates
  <2> HIDE DEF w
  <2>5. BusyStays
    BY <1>3, <2>1, <2>2, <2>4 DEF Busy
  <2> QED
    BY <1>5, <2>5 DEF LinkGone, SignalStep
<1>6. CASE SaveSent
  <2>1. PICK config \in MaybeConfig : worker' = [worker EXCEPT ![runtime] =
          [at |-> "running", purpose |-> "save", base |-> editor.revision, config |-> config,
           shown |-> editor.shown, cancelled |-> FALSE]]
    BY <1>6, Zenon DEF SaveSent
  <2>2. BusyStays
    BY <1>3, <1>6, <2>1 DEF SaveSent
  <2> QED
    BY <1>6, <2>2 DEF SaveSent, SignalStep
<1>7. ASSUME NEW r \in Runtimes, Request(r) PROVE SignalStep
  <2>1. Requested(r)
    BY <1>7, RequestIsRequested
  <2> DEFINE w == [worker[r] EXCEPT !.at = "silent"]
  <2>2. worker' = [worker EXCEPT ![r] = w]
    BY <2>1, Zenon DEF Requested
  <2>3. w.at = "silent" /\ worker[r].purpose \in Purposes
    BY <1>1, Zenon DEF WorkerStates
  <2> HIDE DEF w
  <2>4. BusyStays /\ Busy(r)'
    BY <1>1, <1>3, <2>2, <2>3 DEF Busy
  <2>5. ASSUME NEW a \in AnswerStates
        PROVE  Reply(r, a) \in SignalStates /\ Reply(r, a).kind = "answer" /\ Reply(r, a).from = r
    <3>1. Reply(r, a) \in [kind : {"answer"}, from : Runtimes, purpose : Purposes, answer : AnswerStates]
      BY <2>3, Zenon DEF Reply
    <3> QED
      BY <3>1 DEF SignalStates, Reply
  <2>6. UNCHANGED signals \/ \E a \in AnswerStates : signals' = Append(signals, Reply(r, a))
    BY <2>1, Zenon DEF Requested
  <2> QED
    BY <2>4, <2>5, <2>6, Zenon DEF SignalStep
<1>8. ASSUME NEW r \in Runtimes, ThreadEnds(r) PROVE SignalStep
  <2> DEFINE s == [kind |-> "ended", from |-> r]
  <2>1. s \in SignalStates /\ s.kind = "ended" /\ s.from = r
    BY DEF SignalStates
  <2>2. signals' = Append(signals, s) /\ worker' = [worker EXCEPT ![r] = Resting]
    BY <1>8 DEF ThreadEnds
  <2> HIDE DEF s
  <2>3. \A q \in Runtimes \ {r} : Busy(q) => Busy(q)'
    BY <1>1, <2>2 DEF Busy
  <2> QED
    BY <2>1, <2>2, <2>3, Zenon DEF SignalStep
<1>9. CASE OtherSaves \/ LinkBack \/ UNCHANGED commandVars
  BY <1>2, <1>9 DEF OtherSaves, LinkBack, commandVars, SignalStep
<1>10. CASE StaleHandled \/ AnswerHandled \/ EndHandled
  BY <1>2, <1>4, <1>10 DEF StaleHandled, AnswerHandled, EndHandled, Handled, SignalStep
<1>11. CASE Launched(OtherPurposes) /\ UNCHANGED <<device, runtime, online, signals, loadAfter,
     verifyAfter, runAfter, wish, hurried>>
  BY <1>4, <1>11 DEF SignalStep
<1> QED
  BY <1>5, <1>6, <1>7, <1>8, <1>9, <1>10, <1>11 DEF CommandStep, Network

-----------------------------------------------------------------------------
(* The load follows the capabilities and the readback the save: as long as *)
(* one is due the thread of the link is at work, or its end is still to be *)
(* handled.                                                                *)

EndAfter(i, r) == \E j \in DOMAIN signals : j > i /\ signals[j].kind = "ended" /\ signals[j].from = r
EndInv == \A i \in DOMAIN signals :
  signals[i].kind = "answer" => Busy(signals[i].from) \/ EndAfter(i, signals[i].from)

LEMMA EndNext == EditTypes /\ EndInv /\ CommandStep => EndInv'
<1> SUFFICES ASSUME EditTypes, EndInv, CommandStep, NEW i \in DOMAIN signals', signals'[i].kind = "answer"
             PROVE  Busy(signals[i].from)' \/ EndAfter(i, signals[i].from)'
  BY DEF EndInv
<1>1. SignalStep
  BY SignalStepNext
<1>2. ASSUME NEW k \in DOMAIN signals PROVE signals[k].from \in Runtimes
  <2>1. signals[k] \in SignalStates
    BY <1>2 DEF EditTypes, CommandTypes
  <2> QED
    BY <2>1 DEF SignalStates
<1>3. CASE UNCHANGED signals /\ BusyStays
  BY <1>2, <1>3 DEF BusyStays, EndInv, EndAfter
<1>4. CASE signals # <<>> /\ signals' = Tail(signals) /\ BusyStays
  <2>1. i \in Nat /\ i + 1 \in DOMAIN signals /\ signals'[i] = signals[i + 1] /\ DOMAIN signals \subseteq Nat
    BY <1>4, TailSignals
  <2>2. Busy(signals[i + 1].from) \/ EndAfter(i + 1, signals[i + 1].from)
    BY <2>1 DEF EndInv
  <2>3. Busy(signals[i + 1].from) => Busy(signals[i].from)'
    BY <1>2, <1>4, <2>1 DEF BusyStays, Busy
  <2>4. ASSUME NEW j \in DOMAIN signals, j > i + 1, signals[j].kind = "ended",
       signals[j].from = signals[i + 1].from
        PROVE  EndAfter(i, signals[i].from)'
    <3>1. j \in Nat /\ j # 1 /\ j - 1 > i
      BY <2>1, <2>4
    <3>2. j - 1 \in DOMAIN signals' /\ signals'[j - 1] = signals[j]
      BY <1>4, <3>1, TailSignals
    <3> QED
      BY <2>1, <2>4, <3>1, <3>2 DEF EndAfter
  <2> QED
    BY <2>2, <2>3, <2>4 DEF EndAfter
<1>5. ASSUME NEW r \in Runtimes, NEW s \in SignalStates, BusyStays, Busy(r)', s.kind = "answer", s.from = r,
             signals' = Append(signals, s)
      PROVE  Busy(signals[i].from)' \/ EndAfter(i, signals[i].from)'
  <2>1. PICK n \in Nat : /\ DOMAIN signals' = DOMAIN signals \cup {n} /\ signals'[n] = s
                         /\ \A k \in DOMAIN signals : k \in Nat /\ k < n /\ signals'[k] = signals[k]
    BY <1>5, AppendSignals, Zenon
  <2>2. CASE i = n
    BY <1>5, <2>1, <2>2 DEF Busy
  <2>3. CASE i \in DOMAIN signals
    <3>1. signals'[i] = signals[i] /\ signals[i].from \in Runtimes
      BY <1>2, <2>1, <2>3
    <3>2. CASE Busy(signals[i].from)
      BY <1>5, <3>1, <3>2 DEF BusyStays, Busy
    <3>3. CASE EndAfter(i, signals[i].from)
      BY <2>1, <3>1, <3>3 DEF EndAfter
    <3> QED
      BY <2>3, <3>1, <3>2, <3>3 DEF EndInv
  <2> QED
    BY <2>1, <2>2, <2>3
<1>6. ASSUME NEW r \in Runtimes, NEW s \in SignalStates, s.kind = "ended", s.from = r,
             signals' = Append(signals, s), \A q \in Runtimes \ {r} : Busy(q) => Busy(q)'
      PROVE  Busy(signals[i].from)' \/ EndAfter(i, signals[i].from)'
  <2>1. PICK n \in Nat : /\ DOMAIN signals' = DOMAIN signals \cup {n} /\ signals'[n] = s
                         /\ \A k \in DOMAIN signals : k \in Nat /\ k < n /\ signals'[k] = signals[k]
    BY <1>6, AppendSignals, Zenon
  <2>2. i \in DOMAIN signals
    BY <1>6, <2>1
  <2>3. signals'[i] = signals[i] /\ signals[i].from \in Runtimes /\ i < n
    BY <1>2, <2>1, <2>2
  <2>4. CASE signals[i].from = r
    BY <1>6, <2>1, <2>3, <2>4 DEF EndAfter
  <2>5. CASE signals[i].from # r /\ Busy(signals[i].from)
    BY <1>6, <2>3, <2>5 DEF Busy
  <2>6. CASE EndAfter(i, signals[i].from)
    BY <2>1, <2>3, <2>6 DEF EndAfter
  <2> QED
    BY <2>2, <2>3, <2>4, <2>5, <2>6 DEF EndInv
<1> QED
  BY <1>1, <1>3, <1>4, <1>5, <1>6, Zenon DEF SignalStep

EndComes(r) == \E j \in DOMAIN signals : signals[j].kind = "ended" /\ signals[j].from = r
ChainInv ==
  /\ online => runtime \in Runtimes
  /\ online /\ (verifyAfter # 0 \/ loadAfter) => Busy(runtime) \/ EndComes(runtime)

LEMMA ChainNext == EditTypes /\ EndInv /\ ChainInv /\ CommandStep => ChainInv'
<1> SUFFICES ASSUME EditTypes, EndInv, ChainInv, CommandStep PROVE ChainInv'
  OBVIOUS
<1>1. worker \in [Runtimes -> WorkerStates] /\ signals \in Seq(SignalStates)
  BY DEF EditTypes, CommandTypes
<1>2. CASE UNCHANGED commandVars \/ OtherSaves
  BY <1>2 DEF commandVars, OtherSaves, ChainInv, Busy, EndComes, afterVars
<1>3. CASE LinkGone
  BY <1>3 DEF LinkGone, ChainInv
<1>4. CASE LinkBack
  BY <1>4, EditingAssumption DEF LinkBack, ChainInv, Runtimes
<1>5. ASSUME Launched(OtherPurposes), UNCHANGED runtime PROVE ChainInv'
  <2>1. PICK w \in WorkerStates : w.at = "running" /\ worker' = [worker EXCEPT ![runtime] = w]
    BY <1>5, Zenon DEF Launched
  <2>2. runtime \in Runtimes
    BY <1>5 DEF Launched
  <2>3. Busy(runtime)'
    BY <1>1, <1>5, <2>1, <2>2 DEF Busy
  <2> QED
    BY <1>5, <2>2, <2>3 DEF ChainInv
<1>6. CASE SaveSent
  <2>1. PICK config \in MaybeConfig : worker' = [worker EXCEPT ![runtime] =
          [at |-> "running", purpose |-> "save", base |-> editor.revision, config |-> config,
           shown |-> editor.shown, cancelled |-> FALSE]]
    BY <1>6, Zenon DEF SaveSent
  <2>2. runtime \in Runtimes /\ UNCHANGED runtime
    BY <1>6 DEF SaveSent
  <2>3. Busy(runtime)'
    BY <1>1, <2>1, <2>2 DEF Busy
  <2> QED
    BY <2>2, <2>3 DEF ChainInv
<1>7. CASE StaleHandled
  <2>1. UNCHANGED <<runtime, online, worker, loadAfter, verifyAfter>> /\ signals # <<>>
       /\ signals' = Tail(signals)
        /\ First.from # runtime
    BY <1>7 DEF StaleHandled, Handled
  <2>2. EndComes(runtime) => EndComes(runtime)'
    <3> SUFFICES ASSUME NEW j \in DOMAIN signals, signals[j].kind = "ended", signals[j].from = runtime
                 PROVE  EndComes(runtime)'
      BY DEF EndComes
    <3>1. j # 1
      BY <2>1, TailSignals
    <3>2. j - 1 \in DOMAIN signals' /\ signals'[j - 1] = signals[j]
      BY <2>1, <3>1, TailSignals
    <3> QED
      BY <2>1, <3>2 DEF EndComes
  <2> QED
    BY <2>1, <2>2 DEF ChainInv, Busy
<1>8. CASE AnswerHandled
  <2>1. UNCHANGED <<runtime, worker>> /\ signals # <<>> /\ signals' = Tail(signals)
        /\ First.from = runtime /\ First.kind = "answer"
    BY <1>8 DEF AnswerHandled, Handled
  <2>2. 1 \in DOMAIN signals /\ First = signals[1] /\ First \in SignalStates
    BY <1>1, <2>1, TailSignals
  <2>3. runtime \in Runtimes
    BY <2>1, <2>2 DEF SignalStates
  <2>4. Busy(runtime) \/ EndAfter(1, runtime)
    BY <2>1, <2>2 DEF EndInv
  <2>5. EndAfter(1, runtime) => EndComes(runtime)'
    <3> SUFFICES ASSUME NEW j \in DOMAIN signals, j > 1, signals[j].kind = "ended", signals[j].from = runtime
                 PROVE  EndComes(runtime)'
      BY DEF EndAfter
    <3>1. j - 1 \in DOMAIN signals' /\ signals'[j - 1] = signals[j]
      BY <2>1, TailSignals
    <3> QED
      BY <2>1, <3>1 DEF EndComes
  <2> QED
    BY <2>1, <2>3, <2>4, <2>5 DEF ChainInv, Busy
<1>9. CASE EndHandled
  <2>1. UNCHANGED <<runtime, online, verifyAfter>> /\ ~loadAfter'
    BY <1>9 DEF EndHandled, Handled
  <2>2. CASE Launched(OtherPurposes)
    BY <1>5, <2>1, <2>2
  <2>3. CASE UNCHANGED worker /\ verifyAfter = 0
    BY <2>1, <2>3 DEF ChainInv
  <2>4. CASE UNCHANGED worker /\ worker[runtime] # Resting
    BY <2>1, <2>4 DEF ChainInv, Busy, EditTypes, FreeRests
  <2> QED
    BY <1>9, <2>2, <2>3, <2>4 DEF EndHandled
<1>10. ASSUME NEW r \in Runtimes, Network(r) PROVE ChainInv'
  <2>1. UNCHANGED <<runtime, online, loadAfter, verifyAfter>>
    BY <1>10 DEF Network, Request, ThreadEnds, afterVars
  <2>2. CASE Request(r)
    <3>1. Requested(r)
      BY <2>2, RequestIsRequested
    <3> DEFINE w == [worker[r] EXCEPT !.at = "silent"]
    <3>2. worker' = [worker EXCEPT ![r] = w] /\ w.at = "silent" /\ worker[r].purpose \in Purposes
      <4>1. worker' = [worker EXCEPT ![r] = w]
        BY <3>1, Zenon DEF Requested
      <4>2. w.at = "silent" /\ worker[r].purpose \in Purposes
        BY <1>1, Zenon DEF WorkerStates
      <4> QED
        BY <4>1, <4>2
    <3> HIDE DEF w
    <3>3. \A q \in Runtimes : Busy(q) => Busy(q)'
      BY <1>1, <3>2 DEF Busy
    <3>4. EndComes(runtime) => EndComes(runtime)'
      <4>1. CASE UNCHANGED signals
        BY <2>1, <4>1 DEF EndComes
      <4>2. ASSUME NEW a \in AnswerStates, signals' = Append(signals, Reply(r, a))
            PROVE  EndComes(runtime) => EndComes(runtime)'
        <5>1. Reply(r, a) \in SignalStates
          <6>1. Reply(r, a) \in [kind : {"answer"}, from : Runtimes, purpose : Purposes,
               answer : AnswerStates]
            BY <3>2, Zenon DEF Reply
          <6> QED
            BY <6>1 DEF SignalStates
        <5>2. PICK n \in Nat : /\ DOMAIN signals' = DOMAIN signals \cup {n}
                               /\ \A k \in DOMAIN signals : k \in Nat /\ k < n /\ signals'[k] = signals[k]
          BY <4>2, <5>1, AppendSignals, Zenon
        <5> QED
          BY <2>1, <5>2 DEF EndComes
      <4> QED
        BY <3>1, <4>1, <4>2, Zenon DEF Requested
    <3> QED
      BY <2>1, <3>3, <3>4 DEF ChainInv, Busy
  <2>3. CASE ThreadEnds(r)
    <3> DEFINE s == [kind |-> "ended", from |-> r]
    <3>1. s \in SignalStates /\ s.kind = "ended" /\ s.from = r
      BY DEF SignalStates
    <3>2. signals' = Append(signals, s) /\ worker' = [worker EXCEPT ![r] = Resting]
      BY <2>3 DEF ThreadEnds
    <3> HIDE DEF s
    <3>3. PICK n \in Nat : /\ DOMAIN signals' = DOMAIN signals \cup {n} /\ signals'[n] = s
                           /\ \A k \in DOMAIN signals : k \in Nat /\ k < n /\ signals'[k] = signals[k]
      BY <3>1, <3>2, AppendSignals, Zenon
    <3>4. EndComes(runtime) => EndComes(runtime)'
      BY <2>1, <3>3 DEF EndComes
    <3>5. runtime \in Runtimes /\ Busy(runtime) => Busy(runtime)' \/ EndComes(runtime)'
      <4>1. CASE runtime = r
        BY <2>1, <3>1, <3>3, <4>1 DEF EndComes
      <4>2. CASE runtime # r
        BY <1>1, <2>1, <3>2, <4>2 DEF Busy
      <4> QED
        BY <4>1, <4>2
    <3> QED
      BY <2>1, <3>4, <3>5 DEF ChainInv
  <2> QED
    BY <1>10, <2>2, <2>3 DEF Network
<1>11. CASE Launched(OtherPurposes) /\ UNCHANGED <<device, runtime, online, signals, loadAfter,
     verifyAfter, runAfter, wish, hurried>>
  BY <1>5, <1>11
<1> QED
  BY <1>2, <1>3, <1>4, <1>6, <1>7, <1>8, <1>9, <1>10, <1>11 DEF CommandStep

-----------------------------------------------------------------------------
(* What the device was told to be: a revision has one configuration.       *)

Ok(i) == signals[i].kind = "answer" /\ signals[i].answer.outcome = "ok"
ToldBy(i, v, c) == Ok(i) /\ signals[i].answer.revision = v /\ signals[i].answer.config = c
Told(v, c) ==
  \/ device.revision = v /\ device.config = c
  \/ \E i \in DOMAIN signals : ToldBy(i, v, c)

FactsInv == \A v, c : Told(v, c) =>
  v \in Nat /\ v <= device.revision /\ \A d : Told(v, d) => c = d

\* Something new is told only of a new revision.
ToldStep ==
  /\ UNCHANGED device \/ device'.revision = device.revision + 1
  /\ \A v, c : Told(v, c)' =>
       \/ Told(v, c)
       \/ device'.revision = device.revision + 1 /\ v = device'.revision /\ c = device'.config

LEMMA ToldStepNext == EditTypes /\ CommandStep => ToldStep
<1> SUFFICES ASSUME EditTypes, CommandStep PROVE ToldStep
  OBVIOUS
<1>1. worker \in [Runtimes -> WorkerStates] /\ device \in [revision : Nat, config : MaybeConfig]
  BY DEF EditTypes, CommandTypes
<1>2. CASE UNCHANGED <<device, signals>>
  BY <1>2 DEF ToldStep, Told, ToldBy, Ok
<1>3. CASE OtherSaves
  BY <1>1, <1>3 DEF OtherSaves, ToldStep, Told, ToldBy, Ok
<1>4. CASE Handled
  <2>1. UNCHANGED device /\ signals # <<>> /\ signals' = Tail(signals)
    BY <1>4 DEF Handled
  <2>2. ASSUME NEW v, NEW c, NEW i \in DOMAIN signals', ToldBy(i, v, c)' PROVE Told(v, c)
    <3>1. i + 1 \in DOMAIN signals /\ signals'[i] = signals[i + 1]
      BY <2>1, TailSignals
    <3> QED
      BY <2>2, <3>1 DEF Told, ToldBy, Ok
  <2> QED
    BY <2>1, <2>2 DEF ToldStep, Told
<1>5. ASSUME NEW r \in Runtimes, Request(r) PROVE ToldStep
  <2>1. Requested(r)
    BY <1>5, RequestIsRequested
  <2>2. worker[r].purpose \in Purposes
    BY <1>1, Zenon DEF WorkerStates
  <2>3. /\ Saved(r).revision = device.revision + 1
        /\ device' \in {device, Saved(r)}
    BY <2>1, Zenon DEF Requested, Saved
  <2>4. CASE UNCHANGED signals
    BY <2>3, <2>4 DEF ToldStep, Told, ToldBy, Ok
  <2>5. ASSUME NEW a \in AnswerStates, signals' = Append(signals, Reply(r, a)),
               \/ a.outcome # "ok"
               \/ UNCHANGED device /\ a.revision = device.revision /\ a.config = device.config
               \/ device' = Saved(r) /\ a.revision = device'.revision /\ a.config = worker[r].config
        PROVE  ToldStep
    <3>1. Reply(r, a) \in SignalStates /\ Reply(r, a).answer = a
      <4>1. Reply(r, a) \in [kind : {"answer"}, from : Runtimes, purpose : Purposes, answer : AnswerStates]
        BY <2>2, Zenon DEF Reply
      <4> QED
        BY <4>1 DEF SignalStates, Reply
    <3>2. PICK n \in Nat : /\ DOMAIN signals' = DOMAIN signals \cup {n} /\ signals'[n] = Reply(r, a)
                           /\ \A k \in DOMAIN signals : k \in Nat /\ k < n /\ signals'[k] = signals[k]
      BY <2>5, <3>1, AppendSignals, Zenon
    <3>3. Saved(r).config = worker[r].config
      BY DEF Saved
    <3>4. ASSUME NEW v, NEW c, NEW i \in DOMAIN signals', ToldBy(i, v, c)'
          PROVE  \/ Told(v, c) \/ (v = device'.revision /\ c = device'.config)
      <4>1. CASE i \in DOMAIN signals
        BY <3>2, <3>4, <4>1 DEF Told, ToldBy, Ok
      <4>2. CASE i = n
        <5>1. a.outcome = "ok" /\ v = a.revision /\ c = a.config
          BY <3>1, <3>2, <3>4, <4>2 DEF ToldBy, Ok
        <5> QED
          BY <2>5, <3>3, <5>1
      <4> QED
        BY <3>2, <4>1, <4>2
    <3>5. ASSUME NEW v, NEW c, Told(v, c)'
          PROVE  Told(v, c) \/ (v = device'.revision /\ c = device'.config)
      BY <3>4, <3>5 DEF Told
    <3>6. device' = device \/ device'.revision = device.revision + 1
      BY <2>3
    <3> QED
      BY <3>5, <3>6 DEF ToldStep, Told
  <2> QED
    BY <2>1, <2>4, <2>5, Zenon DEF Requested
<1>6. ASSUME NEW r \in Runtimes, ThreadEnds(r) PROVE ToldStep
  <2> DEFINE s == [kind |-> "ended", from |-> r]
  <2>1. s \in SignalStates /\ s.kind = "ended"
    BY DEF SignalStates
  <2>2. signals' = Append(signals, s) /\ UNCHANGED device
    BY <1>6 DEF ThreadEnds
  <2> HIDE DEF s
  <2>3. PICK n \in Nat : /\ DOMAIN signals' = DOMAIN signals \cup {n} /\ signals'[n] = s
                         /\ \A k \in DOMAIN signals : k \in Nat /\ k < n /\ signals'[k] = signals[k]
    BY <2>1, <2>2, AppendSignals, Zenon
  <2>4. ASSUME NEW v, NEW c, NEW i \in DOMAIN signals', ToldBy(i, v, c)' PROVE Told(v, c)
    BY <2>1, <2>3, <2>4 DEF Told, ToldBy, Ok
  <2> QED
    BY <2>2, <2>4 DEF ToldStep, Told
<1> QED
  BY <1>2, <1>3, <1>4, <1>5, <1>6 DEF CommandStep, commandVars, LinkGone, LinkBack, SaveSent, StaleHandled,
     AnswerHandled, EndHandled, Network

LEMMA FactsNext == EditTypes /\ FactsInv /\ CommandStep => FactsInv'
<1> SUFFICES ASSUME EditTypes, FactsInv, CommandStep, NEW v, NEW c, Told(v, c)'
             PROVE  v \in Nat /\ v <= device'.revision /\ \A d : Told(v, d)' => c = d
  BY DEF FactsInv
<1>1. device.revision \in Nat /\ device'.revision \in Nat
  <2>1. CommandTypes'
    BY CommandTypesNext
  <2> QED
    BY <2>1 DEF EditTypes, CommandTypes
<1>2. ToldStep
  BY ToldStepNext
<1>3. CASE Told(v, c)
  <2>1. v \in Nat /\ v <= device.revision /\ \A d : Told(v, d) => c = d
    BY <1>3 DEF FactsInv
  <2>2. v <= device'.revision /\ \A d : Told(v, d)' => Told(v, d)
    BY <1>1, <1>2, <2>1 DEF ToldStep
  <2> QED
    BY <2>1, <2>2
<1>4. CASE device'.revision = device.revision + 1 /\ v = device'.revision /\ c = device'.config
  <2>1. ASSUME NEW d, Told(v, d)' PROVE c = d
    <3>1. ~Told(v, d)
      BY <1>1, <1>4 DEF FactsInv
    <3> QED
      BY <1>2, <1>4, <2>1, <3>1 DEF ToldStep
  <2> QED
    BY <1>1, <1>4, <2>1
<1> QED
  BY <1>2, <1>3, <1>4 DEF ToldStep

-----------------------------------------------------------------------------
(* The save that is on its way, or has been answered, is the last one      *)
(* wished, unless one was sent in a hurry.                                 *)

SaveAnswer(i, r) == Ok(i) /\ signals[i].purpose = "save" /\ signals[i].from = r
WishInv ==
  /\ runAfter => wish.run
  /\ ~hurried /\ runtime \in Runtimes =>
       /\ worker[runtime].at = "running" /\ worker[runtime].purpose = "save"
            => worker[runtime].config = wish.config
       /\ \A i \in DOMAIN signals : SaveAnswer(i, runtime) => signals[i].answer.config = wish.config

LEMMA WishNext == EditTypes /\ WishInv /\ CommandStep => WishInv'
<1> SUFFICES ASSUME EditTypes, WishInv, CommandStep PROVE WishInv'
  OBVIOUS
<1>1. worker \in [Runtimes -> WorkerStates] /\ signals \in Seq(SignalStates)
  BY DEF EditTypes, CommandTypes
<1>2. \A i \in DOMAIN signals : signals[i] \in SignalStates /\ signals[i].from \in Runtimes
  <2>1. \A i \in DOMAIN signals : signals[i] \in SignalStates
    BY <1>1
  <2> QED
    BY <2>1 DEF SignalStates
<1>3. CASE UNCHANGED commandVars \/ OtherSaves
  BY <1>3 DEF commandVars, OtherSaves, WishInv, SaveAnswer, Ok, afterVars, sayVars
<1>4. CASE LinkGone
  <2>1. runtime' \notin Runtimes /\ UNCHANGED <<runAfter, wish>>
    BY <1>4, EditingAssumption DEF LinkGone, Runtimes, afterVars, sayVars
  <2> QED
    BY <2>1 DEF WishInv
<1>5. CASE LinkBack
  <2>1. /\ worker[runtime'] = Resting /\ \A i \in DOMAIN signals : signals[i].from # runtime'
        /\ UNCHANGED <<worker, signals, runAfter, wish, hurried>>
    BY <1>5 DEF LinkBack, afterVars, sayVars
  <2>2. Resting.at = "free"
    BY DEF Resting
  <2> QED
    BY <2>1, <2>2 DEF WishInv, SaveAnswer, Ok
<1>6. ASSUME Launched(OtherPurposes) PROVE worker'[runtime].purpose # "save" /\ runtime \in Runtimes
  <2>1. PICK w \in WorkerStates : w.purpose \in OtherPurposes /\ worker' = [worker EXCEPT ![runtime] = w]
    BY <1>6, Zenon DEF Launched
  <2> QED
    BY <1>1, <1>6, <2>1 DEF Launched, OtherPurposes
<1>7. CASE Launched(OtherPurposes) /\ UNCHANGED <<device, runtime, online, signals, loadAfter,
     verifyAfter, runAfter, wish, hurried>>
  BY <1>6, <1>7 DEF WishInv, SaveAnswer, Ok
<1>8. CASE SaveSent
  <2>1. PICK config \in MaybeConfig, run \in BOOLEAN :
          /\ worker' = [worker EXCEPT ![runtime] = [at |-> "running", purpose |-> "save",
                          base |-> editor.revision, config |-> config, shown |-> editor.shown,
                          cancelled |-> FALSE]]
          /\ wish' = [config |-> config, run |-> run] /\ runAfter' = run
          /\ hurried' = (hurried \/ SignalDue)
    BY <1>8, Zenon DEF SaveSent
  <2>2. runtime \in Runtimes /\ UNCHANGED <<runtime, signals>>
    BY <1>8 DEF SaveSent
  <2>3. wish'.config = config /\ wish'.run = run /\ worker'[runtime].config = config
    BY <1>1, <2>1, <2>2
  <2>4. ~hurried' => \A i \in DOMAIN signals : signals[i].from # runtime
    BY <2>1 DEF SignalDue
  <2> QED
    BY <2>1, <2>2, <2>3, <2>4 DEF WishInv, SaveAnswer, Ok
<1>9. CASE StaleHandled \/ AnswerHandled \/ EndHandled
  <2>1. signals # <<>> /\ signals' = Tail(signals) /\ UNCHANGED <<runtime, wish, hurried>>
    BY <1>9 DEF StaleHandled, AnswerHandled, EndHandled, Handled
  <2>2. runAfter' => runAfter
    BY <1>9, Zenon DEF StaleHandled, AnswerHandled, EndHandled
  <2>3. UNCHANGED worker \/ worker'[runtime].purpose # "save"
    BY <1>6, <1>9 DEF StaleHandled, AnswerHandled, EndHandled
  <2>4. ASSUME NEW i \in DOMAIN signals', SaveAnswer(i, runtime)'
        PROVE  i + 1 \in DOMAIN signals /\ SaveAnswer(i + 1, runtime) /\ signals'[i] = signals[i + 1]
    BY <2>1, <2>4, TailSignals DEF SaveAnswer, Ok
  <2>5. ASSUME ~hurried, runtime \in Runtimes
        PROVE  /\ worker'[runtime].at = "running" /\ worker'[runtime].purpose = "save"
                    => worker'[runtime].config = wish.config
               /\ \A i \in DOMAIN signals' : SaveAnswer(i, runtime)'
                    => signals'[i].answer.config = wish.config
    BY <2>3, <2>4, <2>5 DEF WishInv
  <2> QED
    BY <2>1, <2>2, <2>5 DEF WishInv
<1>10. ASSUME NEW r \in Runtimes, Request(r) PROVE WishInv'
  <2>1. Requested(r)
    BY <1>10, RequestIsRequested
  <2>2. UNCHANGED <<runtime, runAfter, wish, hurried>> /\ worker[r].at = "running"
    BY <2>1 DEF Requested
  <2> DEFINE w == [worker[r] EXCEPT !.at = "silent"]
  <2>3. worker' = [worker EXCEPT ![r] = w]
    BY <2>1, Zenon DEF Requested
  <2>4. w.at = "silent" /\ worker[r].purpose \in Purposes
    BY <1>1, Zenon DEF WorkerStates
  <2> HIDE DEF w
  <2>5. runtime \in Runtimes /\ worker'[runtime].at = "running" => worker'[runtime] = worker[runtime]
    BY <1>1, <2>3, <2>4
  <2>6. CASE UNCHANGED signals
    BY <2>2, <2>5, <2>6 DEF WishInv, SaveAnswer, Ok
  <2>7. ASSUME NEW a \in AnswerStates, signals' = Append(signals, Reply(r, a)),
               a.outcome = "ok" /\ worker[r].purpose = "save" => a.config = worker[r].config
        PROVE  WishInv'
    <3>1. /\ Reply(r, a) \in SignalStates /\ Reply(r, a).answer = a /\ Reply(r, a).from = r
          /\ Reply(r, a).purpose = worker[r].purpose
      <4>1. Reply(r, a) \in [kind : {"answer"}, from : Runtimes, purpose : Purposes, answer : AnswerStates]
        BY <2>4, Zenon DEF Reply
      <4> QED
        BY <4>1 DEF SignalStates, Reply
    <3>2. PICK n \in Nat : /\ DOMAIN signals' = DOMAIN signals \cup {n} /\ signals'[n] = Reply(r, a)
                           /\ \A k \in DOMAIN signals : k \in Nat /\ k < n /\ signals'[k] = signals[k]
      BY <2>7, <3>1, AppendSignals, Zenon
    <3>3. ASSUME ~hurried, runtime \in Runtimes, NEW i \in DOMAIN signals', SaveAnswer(i, runtime)'
          PROVE  signals'[i].answer.config = wish.config
      <4>1. CASE i \in DOMAIN signals
        BY <2>2, <3>2, <3>3, <4>1 DEF WishInv, SaveAnswer, Ok
      <4>2. CASE i = n
        <5>1. r = runtime /\ worker[r].purpose = "save" /\ a.outcome = "ok"
          BY <2>2, <3>1, <3>2, <3>3, <4>2 DEF SaveAnswer, Ok
        <5>2. worker[r].config = wish.config
          BY <2>2, <3>3, <5>1 DEF WishInv
        <5> QED
          BY <2>7, <3>1, <3>2, <4>2, <5>1, <5>2
      <4> QED
        BY <3>2, <3>3, <4>1, <4>2
    <3> QED
      BY <2>2, <2>5, <3>3 DEF WishInv
  <2>8. \/ UNCHANGED signals
        \/ \E a \in AnswerStates : /\ signals' = Append(signals, Reply(r, a))
                                   /\ a.outcome = "ok" /\ worker[r].purpose = "save"
                                        => a.config = worker[r].config
    BY <2>1, Zenon DEF Requested
  <2> QED
    BY <2>6, <2>7, <2>8
<1>11. ASSUME NEW r \in Runtimes, ThreadEnds(r) PROVE WishInv'
  <2> DEFINE s == [kind |-> "ended", from |-> r]
  <2>1. s \in SignalStates /\ s.kind = "ended"
    BY DEF SignalStates
  <2>2. /\ signals' = Append(signals, s) /\ worker' = [worker EXCEPT ![r] = Resting]
        /\ UNCHANGED <<runtime, runAfter, wish, hurried>>
    BY <1>11 DEF ThreadEnds, afterVars, sayVars
  <2> HIDE DEF s
  <2>3. PICK n \in Nat : /\ DOMAIN signals' = DOMAIN signals \cup {n} /\ signals'[n] = s
                         /\ \A k \in DOMAIN signals : k \in Nat /\ k < n /\ signals'[k] = signals[k]
    BY <2>1, <2>2, AppendSignals, Zenon
  <2>4. Resting.at = "free"
    BY DEF Resting
  <2>5. runtime \in Runtimes /\ worker'[runtime].at = "running" => worker'[runtime] = worker[runtime]
    BY <1>1, <2>2, <2>4
  <2>6. ASSUME NEW i \in DOMAIN signals', SaveAnswer(i, runtime)'
        PROVE  i \in DOMAIN signals /\ SaveAnswer(i, runtime) /\ signals'[i] = signals[i]
    BY <2>1, <2>2, <2>3, <2>6 DEF SaveAnswer, Ok
  <2> QED
    BY <2>2, <2>5, <2>6 DEF WishInv
<1> QED
  BY <1>3, <1>4, <1>5, <1>7, <1>8, <1>9, <1>10, <1>11 DEF CommandStep, Network

-----------------------------------------------------------------------------
(* The revision to be read back holds what was wished.                     *)

CheckInv == ~hurried /\ verifyAfter # 0 =>
  verifyAfter <= device.revision /\ \A v, c : v = verifyAfter /\ Told(v, c) => c = wish.config

LEMMA CheckNext ==
  EditTypes /\ ChainInv /\ FactsInv /\ WishInv /\ CheckInv /\ CommandStep => CheckInv'
<1> SUFFICES ASSUME EditTypes, ChainInv, FactsInv, WishInv, CheckInv, CommandStep,
                    ~hurried', verifyAfter' # 0
             PROVE  verifyAfter' <= device'.revision /\ \A v, c : v = verifyAfter' /\ Told(v, c)'
                  => c = wish'.config
  BY DEF CheckInv
<1>1. device.revision \in Nat /\ device'.revision \in Nat /\ verifyAfter \in Nat
  <2>1. CommandTypes'
    BY CommandTypesNext
  <2> QED
    BY <2>1 DEF EditTypes, CommandTypes, WindowTypes
<1>2. ToldStep
  BY ToldStepNext
<1>3. ASSUME UNCHANGED <<verifyAfter, wish, hurried>>
      PROVE  verifyAfter' <= device'.revision /\ \A v, c : v = verifyAfter' /\ Told(v, c)' => c = wish'.config
  <2>1. verifyAfter <= device.revision /\ \A v, c : v = verifyAfter /\ Told(v, c) => c = wish.config
    BY <1>3 DEF CheckInv
  <2>2. verifyAfter <= device'.revision
    BY <1>1, <1>2, <2>1 DEF ToldStep
  <2>3. ASSUME NEW v, NEW c, v = verifyAfter', Told(v, c)' PROVE c = wish'.config
    BY <1>1, <1>2, <1>3, <2>1, <2>3 DEF ToldStep
  <2> QED
    BY <1>3, <2>2, <2>3
<1>4. CASE SaveSent
  <2>1. PICK config \in MaybeConfig : hurried' = (hurried \/ SignalDue)
    BY <1>4, Zenon DEF SaveSent
  <2>2. /\ online /\ runtime \in Runtimes /\ worker[runtime] = Resting /\ UNCHANGED verifyAfter
    BY <1>4 DEF SaveSent
  <2>3. Resting.at = "free"
    BY DEF Resting
  <2>4. EndComes(runtime)
    BY <2>2, <2>3 DEF ChainInv, Busy
  <2> QED
    BY <2>1, <2>4 DEF EndComes, SignalDue
<1>5. CASE AnswerHandled
  <2>1. signals # <<>> /\ signals' = Tail(signals) /\ UNCHANGED <<device, wish, hurried>>
        /\ First.kind = "answer" /\ First.from = runtime
    BY <1>5 DEF AnswerHandled, Handled
  <2>2. CASE First.purpose = "save" /\ Answer.outcome = "ok" /\ verifyAfter' = Answer.revision
    <3>1. 1 \in DOMAIN signals /\ First = signals[1]
      BY <2>1, TailSignals
    <3>2. runtime \in Runtimes
      <4>1. signals[1] \in SignalStates
        BY <3>1 DEF EditTypes, CommandTypes
      <4> QED
        BY <2>1, <3>1, <4>1 DEF SignalStates
    <3>3. Answer.config = wish.config
      BY <2>1, <2>2, <3>1, <3>2 DEF WishInv, SaveAnswer, Ok, Answer
    <3>4. Told(Answer.revision, Answer.config)
      BY <2>1, <2>2, <3>1 DEF Told, ToldBy, Ok, Answer
    <3>5. Answer.revision <= device.revision /\ \A v, d : v = Answer.revision /\ Told(v, d) => d = wish.config
      BY <3>3, <3>4 DEF FactsInv
    <3>6. \A v, d : Told(v, d)' => Told(v, d)
      BY <1>1, <1>2, <2>1 DEF ToldStep
    <3> QED
      BY <2>1, <2>2, <3>5, <3>6
  <2>3. CASE verifyAfter' \in {verifyAfter, 0}
    BY <1>3, <2>1, <2>3
  <2> QED
    BY <1>5, <2>2, <2>3, Zenon DEF AnswerHandled
<1>6. CASE \/ UNCHANGED commandVars \/ OtherSaves \/ LinkGone \/ LinkBack \/ StaleHandled \/ EndHandled
           \/ UNCHANGED <<device, runtime, online, signals, loadAfter, verifyAfter, runAfter, wish, hurried>>
           \/ \E r \in Runtimes : Network(r)
  <2>1. UNCHANGED <<verifyAfter, wish, hurried>>
    BY <1>6 DEF commandVars, OtherSaves, LinkGone, LinkBack, StaleHandled, EndHandled, Handled, Network,
       Request, ThreadEnds, afterVars, sayVars
  <2> QED
    BY <1>3, <2>1
<1> QED
  BY <1>4, <1>5, <1>6 DEF CommandStep

AskedInv ==
  EditTypes /\ EndInv /\ ChainInv /\ FactsInv /\ WishInv /\ CheckInv /\ RunsWhatWasAsked

LEMMA AskedInit == EditingInit => AskedInv
<1> SUFFICES ASSUME EditingInit PROVE AskedInv
  OBVIOUS
<1>1. EditTypes
  BY EditTypesInit
<1>2. signals = <<>> /\ verifyAfter = 0 /\ runtime = 1 /\ ~runAfter /\ worker \in [Runtimes -> {Resting}]
      /\ device.revision = 0 /\ ~unasked /\ ~loadAfter
  BY DEF EditingInit
<1>3. DOMAIN signals = {} /\ runtime \in Runtimes /\ Resting.at = "free"
  BY <1>2, EditingAssumption DEF Runtimes, Resting
<1> QED
  BY <1>1, <1>2, <1>3 DEF AskedInv, EndInv, ChainInv, FactsInv, Told, WishInv, CheckInv, RunsWhatWasAsked

LEMMA RunsNext == AskedInv /\ EditingNext => RunsWhatWasAsked'
<1> SUFFICES ASSUME AskedInv, EditingNext PROVE RunsWhatWasAsked'
  OBVIOUS
<1>1. UNCHANGED <<unasked, hurried>> => RunsWhatWasAsked'
  BY DEF AskedInv, RunsWhatWasAsked
<1>2. CASE OnVerified
  <2>1. CASE ~IsExpected(Answer)
    BY <1>1, <1>2, <2>1 DEF OnVerified
  <2>2. CASE hurried
    BY <1>2, <2>2 DEF OnVerified, RunsWhatWasAsked
  <2>3. CASE IsExpected(Answer) /\ ~hurried
    <3>1. signals # <<>> /\ signals' = Tail(signals) /\ First.kind = "answer" /\ Answer.outcome = "ok"
      BY <1>2 DEF OnVerified, From
    <3>2. 1 \in DOMAIN signals /\ First = signals[1]
      BY <3>1, TailSignals DEF AskedInv
    <3>3. Told(Answer.revision, Answer.config)
      BY <3>1, <3>2 DEF Told, ToldBy, Ok, Answer
    <3>4. verifyAfter # 0 /\ Answer.revision = verifyAfter
      BY <2>3 DEF IsExpected
    <3>5. Answer.config = wish.config
      BY <2>3, <3>3, <3>4 DEF AskedInv, CheckInv
    <3>6. runAfter => wish.run
      BY DEF AskedInv, WishInv
    <3>7. unasked' = (unasked \/ (runAfter /\ ~(wish.run /\ wish.config = Answer.config)))
      BY <1>2, <2>3, Zenon DEF OnVerified
    <3>8. ~unasked
      BY <2>3 DEF AskedInv, RunsWhatWasAsked
    <3> QED
      BY <3>5, <3>6, <3>7, <3>8 DEF RunsWhatWasAsked
  <2> QED
    BY <2>1, <2>2, <2>3
<1>3. CASE PressSave(TRUE) \/ PressSave(FALSE) \/ AnswerOverwrite
  <2>1. UNCHANGED unasked
    BY <1>3 DEF PressSave, AnswerOverwrite
  <2>2. hurried => hurried'
    BY <1>3, Zenon DEF PressSave, AnswerOverwrite, Save
  <2> QED
    BY <2>1, <2>2 DEF AskedInv, RunsWhatWasAsked
<1>4. CASE \/ OtherSaves \/ AnotherCommand \/ LinkGone \/ LinkBack \/ OpenEditor \/ EditDraft \/ CloseEditor
           \/ AnswerNew \/ AnswerConflict \/ BusyTimeout \/ \E r \in Runtimes : Network(r)
  BY <1>1, <1>4 DEF OtherSaves, AnotherCommand, LinkGone, LinkBack, OpenEditor, EditDraft, CloseEditor,
     AnswerNew, AnswerConflict, BusyTimeout, Network, Request, ThreadEnds, sayVars
<1>5. CASE \/ StaleSignal \/ OnOther \/ OnCapabilities \/ OnNotCapable \/ OnLoad \/ OnRefresh \/ OnSaved
           \/ OnConflict \/ OnSaveFailed \/ OnEnded
  BY <1>1, <1>5 DEF StaleSignal, OnOther, OnCapabilities, OnNotCapable, OnLoad, OnRefresh,
     OnSaved, OnConflict, OnSaveFailed, OnEnded, sayVars
<1> QED
  BY <1>2, <1>3, <1>4, <1>5 DEF EditingNext, UserEdits, UserAnswers, HandleSignal

LEMMA AskedNext == AskedInv /\ EditingNext => AskedInv'
<1> SUFFICES ASSUME AskedInv, EditingNext PROVE AskedInv'
  OBVIOUS
<1>1. EditTypes' /\ CommandStep
  BY CommandStepNext, EditTypesNext DEF AskedInv
<1>2. EndInv' /\ ChainInv' /\ FactsInv' /\ WishInv' /\ CheckInv'
  BY <1>1, EndNext, ChainNext, FactsNext, WishNext, CheckNext DEF AskedInv
<1> QED
  BY <1>1, <1>2, RunsNext DEF AskedInv

\* "Save and run" (testagent_gui.py, MainWindow._on_command_result) starts a run only of what the
\* last save asked to run, for any number of commands, runtime objects and other PCs' saves,
\* as long as no save was sent while a signal of an earlier command was on its way.
THEOREM RunsAreAsked == EditingSpec => []RunsWhatWasAsked
<1>1. AskedInv /\ [EditingNext]_editingVars => AskedInv'
  <2>1. CASE EditingNext
    BY <2>1, AskedNext
  <2>2. ASSUME AskedInv, UNCHANGED editingVars PROVE AskedInv'
    BY <2>2 DEF editingVars, afterVars, sayVars, AskedInv, EditTypes, CommandTypes, WindowTypes, FreeRests,
       EditorShows, EndInv, EndAfter, Busy, ChainInv, EndComes, FactsInv, Told, ToldBy, Ok, WishInv,
       SaveAnswer, CheckInv, RunsWhatWasAsked
  <2> QED
    BY <2>1, <2>2
<1>2. AskedInv => RunsWhatWasAsked
  BY DEF AskedInv
<1> QED
  BY <1>1, <1>2, AskedInit, PTL DEF EditingSpec

-----------------------------------------------------------------------------
(* Commands of some purposes to the link's device: one runs, or its answer *)
(* is on its way.                                                          *)

Openers == {"capabilities", "load"}
Runs(purposes) ==
  runtime \in Runtimes /\ worker[runtime].at = "running" /\ worker[runtime].purpose \in purposes
AnswerOf(i, purposes) ==
  signals[i].kind = "answer" /\ signals[i].from = runtime /\ signals[i].purpose \in purposes
AnswerDue(purposes) == \E i \in DOMAIN signals : AnswerOf(i, purposes)
Once(purposes) ==
  \A i, j \in DOMAIN signals : AnswerOf(i, purposes) /\ AnswerOf(j, purposes) => i = j

\* A step that brings no new command of these purposes.
Quiet(purposes) ==
  /\ Runs(purposes)' => Runs(purposes)
  /\ AnswerDue(purposes)' => AnswerDue(purposes)
  /\ Once(purposes) => Once(purposes)'

\* One that brings the answer of a running command.
Answered(purposes) ==
  /\ Runs(purposes) /\ ~Runs(purposes)'
  /\ Once(purposes) /\ ~AnswerDue(purposes) => Once(purposes)'

LEMMA SameSignals ==
  ASSUME NEW P, UNCHANGED <<signals, runtime>>
  PROVE  (AnswerDue(P)' <=> AnswerDue(P)) /\ (Once(P) => Once(P)')
  BY DEF AnswerDue, AnswerOf, Once

LEMMA SameCommands ==
  ASSUME NEW P, UNCHANGED <<worker, signals, runtime>>
  PROVE  Quiet(P)
  BY DEF Quiet, Runs, AnswerDue, AnswerOf, Once

\* A command of another purpose is started, or none.
LEMMA OtherCommands ==
  ASSUME EditTypes, NEW P, NEW purpose \in OtherPurposes \ P, UNCHANGED <<signals, runtime>>,
         Start(purpose, 0, NoConfig), runtime \in Runtimes
  PROVE  Quiet(P) /\ (worker[runtime] = Resting => ~Runs(P)')
<1>1. Launched({purpose}) \/ (UNCHANGED worker /\ worker[runtime] # Resting)
  BY StartLaunches
<1>2. CASE UNCHANGED worker /\ worker[runtime] # Resting
  BY <1>2, SameCommands
<1>3. CASE Launched({purpose})
  <2>1. PICK w \in WorkerStates : w.purpose \in {purpose} /\ worker' = [worker EXCEPT ![runtime] = w]
    BY <1>3, Zenon DEF Launched
  <2>2. ~Runs(P)'
    BY <2>1 DEF Runs, EditTypes, CommandTypes
  <2> QED
    BY <2>2, SameSignals DEF Quiet
<1> QED
  BY <1>1, <1>2, <1>3

LEMMA HandledAnswers ==
  ASSUME EditTypes, NEW P, signals # <<>>, signals' = Tail(signals), UNCHANGED runtime
  PROVE  /\ AnswerDue(P)' => AnswerDue(P)
         /\ Once(P) => Once(P)'
         /\ First.kind = "answer" /\ First.from = runtime =>
              /\ \E i \in DOMAIN signals : signals[i].from = runtime
              /\ First.purpose \in P => AnswerDue(P) /\ (Once(P) => ~AnswerDue(P)')
<1>1. /\ 1 \in DOMAIN signals /\ First = signals[1]
      /\ \A i \in DOMAIN signals' : i \in Nat /\ i + 1 \in DOMAIN signals /\ signals'[i] = signals[i + 1]
  BY TailSignals
<1>2. \A i \in DOMAIN signals' : AnswerOf(i, P)' => i + 1 \in DOMAIN signals /\ AnswerOf(i + 1, P)
     /\ i + 1 # 1
  <2> SUFFICES ASSUME NEW i \in DOMAIN signals', AnswerOf(i, P)'
               PROVE  i + 1 \in DOMAIN signals /\ AnswerOf(i + 1, P) /\ i + 1 # 1
    OBVIOUS
  <2>1. i \in 1..Len(signals')
    <3>1. signals' \in Seq(SignalStates)
      BY HeadTailProperties DEF EditTypes, CommandTypes
    <3> QED
      BY <3>1
  <2> QED
    BY <1>1, <2>1 DEF AnswerOf
<1>3. AnswerDue(P)' => AnswerDue(P)
  BY <1>2 DEF AnswerDue
<1>4. Once(P) => Once(P)'
  <2> SUFFICES ASSUME Once(P), NEW i \in DOMAIN signals', NEW j \in DOMAIN signals', AnswerOf(i, P)',
       AnswerOf(j, P)'
               PROVE  i = j
    BY DEF Once
  <2>1. i + 1 = j + 1
    BY <1>2 DEF Once
  <2> QED
    BY <1>1, <2>1
<1>5. First.kind = "answer" /\ First.from = runtime /\ First.purpose \in P =>
        AnswerDue(P) /\ (Once(P) => ~AnswerDue(P)')
  <2> SUFFICES ASSUME First.kind = "answer", First.from = runtime, First.purpose \in P
               PROVE  AnswerDue(P) /\ (Once(P) => ~AnswerDue(P)')
    OBVIOUS
  <2>1. AnswerOf(1, P)
    BY <1>1 DEF AnswerOf
  <2>2. AnswerDue(P)
    BY <1>1, <2>1 DEF AnswerDue
  <2>3. ASSUME Once(P), AnswerDue(P)' PROVE FALSE
    <3>1. PICK i \in DOMAIN signals' : AnswerOf(i, P)'
      BY <2>3 DEF AnswerDue
    <3>2. i + 1 = 1
      BY <1>1, <1>2, <2>1, <2>3, <3>1 DEF Once
    <3> QED
      BY <1>2, <3>1, <3>2
  <2> QED
    BY <2>2, <2>3
<1> QED
  BY <1>1, <1>3, <1>4, <1>5

\* The network: nothing new, or the answer of the command that runs.
LEMMA NetworkAnswers ==
  ASSUME EditTypes, NEW P, NEW r \in Runtimes, Network(r)
  PROVE  Quiet(P) \/ Answered(P)
<1>1. worker \in [Runtimes -> WorkerStates] /\ UNCHANGED runtime
  BY DEF EditTypes, CommandTypes, Network, Request, ThreadEnds
<1>2. ASSUME NEW s \in SignalStates, signals' = Append(signals, s), ~(s.kind = "answer"
     /\ s.from = runtime /\ s.purpose \in P)
      PROVE  (AnswerDue(P)' => AnswerDue(P)) /\ (Once(P) => Once(P)')
  <2>1. PICK n \in Nat : /\ DOMAIN signals' = DOMAIN signals \cup {n} /\ signals'[n] = s
                         /\ \A k \in DOMAIN signals : k \in Nat /\ k < n /\ signals'[k] = signals[k]
    BY <1>2, AppendSignals, Zenon
  <2>2. \A i \in DOMAIN signals' : AnswerOf(i, P)' => i \in DOMAIN signals /\ AnswerOf(i, P)
    BY <1>1, <1>2, <2>1 DEF AnswerOf
  <2> QED
    BY <2>2 DEF AnswerDue, Once
<1>3. ASSUME NEW s \in SignalStates, signals' = Append(signals, s)
      PROVE  Once(P) /\ ~AnswerDue(P) => Once(P)'
  <2>1. PICK n \in Nat : /\ DOMAIN signals' = DOMAIN signals \cup {n} /\ signals'[n] = s
                         /\ \A k \in DOMAIN signals : k \in Nat /\ k < n /\ signals'[k] = signals[k]
    BY <1>3, AppendSignals, Zenon
  <2>2. ~AnswerDue(P) => \A i \in DOMAIN signals' : AnswerOf(i, P)' => i = n
    BY <1>1, <2>1 DEF AnswerOf, AnswerDue
  <2> QED
    BY <2>2 DEF Once
<1>4. CASE Request(r)
  <2>1. Requested(r)
    BY <1>4, RequestIsRequested
  <2> DEFINE w == [worker[r] EXCEPT !.at = "silent"]
  <2>2. worker' = [worker EXCEPT ![r] = w]
    BY <2>1, Zenon DEF Requested
  <2>3. w.at = "silent" /\ worker[r].purpose \in Purposes /\ worker[r].at = "running"
    BY <1>1, <2>1, Zenon DEF WorkerStates, Requested
  <2> HIDE DEF w
  <2>4. Runs(P)' => Runs(P)
    BY <1>1, <2>2, <2>3 DEF Runs
  <2>5. r = runtime => ~Runs(P)'
    BY <1>1, <2>2, <2>3 DEF Runs
  <2>6. CASE UNCHANGED signals
    BY <1>1, <2>4, <2>6, SameSignals DEF Quiet
  <2>7. ASSUME NEW a \in AnswerStates, signals' = Append(signals, Reply(r, a))
        PROVE  Quiet(P) \/ Answered(P)
    <3>1. Reply(r, a) \in SignalStates /\ Reply(r, a).from = r /\ Reply(r, a).purpose = worker[r].purpose
      <4>1. Reply(r, a) \in [kind : {"answer"}, from : Runtimes, purpose : Purposes, answer : AnswerStates]
        BY <2>3, Zenon DEF Reply
      <4> QED
        BY <4>1 DEF SignalStates, Reply
    <3>2. CASE r = runtime /\ worker[r].purpose \in P
      BY <1>3, <2>3, <2>5, <2>7, <3>1, <3>2 DEF Answered, Runs
    <3>3. CASE ~(r = runtime /\ worker[r].purpose \in P)
      BY <1>2, <2>4, <2>7, <3>1, <3>3 DEF Quiet
    <3> QED
      BY <3>2, <3>3
  <2> QED
    BY <2>1, <2>6, <2>7, Zenon DEF Requested
<1>5. CASE ThreadEnds(r)
  <2> DEFINE s == [kind |-> "ended", from |-> r]
  <2>1. s \in SignalStates /\ s.kind = "ended"
    BY DEF SignalStates
  <2>2. signals' = Append(signals, s) /\ worker' = [worker EXCEPT ![r] = Resting] /\ Resting.at = "free"
    BY <1>5 DEF ThreadEnds, Resting
  <2> HIDE DEF s
  <2>3. Runs(P)' => Runs(P)
    BY <1>1, <2>2 DEF Runs
  <2> QED
    BY <1>2, <2>1, <2>2, <2>3 DEF Quiet
<1> QED
  BY <1>4, <1>5 DEF Network

\* A link that goes takes its commands along, one that comes has none.
LEMMA LinkAnswers ==
  ASSUME EditTypes, NEW P, LinkGone \/ LinkBack
  PROVE  Quiet(P) /\ ~Runs(P)' /\ ~AnswerDue(P)'
<1>1. \A i \in DOMAIN signals : signals[i].from \in Runtimes
  <2>1. \A i \in DOMAIN signals : signals[i] \in SignalStates
    BY DEF EditTypes, CommandTypes
  <2> QED
    BY <2>1 DEF SignalStates
<1>2. UNCHANGED signals
  BY DEF LinkGone, LinkBack
<1>3. \A i \in DOMAIN signals : signals[i].from # runtime'
  BY <1>1, EditingAssumption DEF LinkGone, LinkBack, Runtimes
<1>4. ~Runs(P)'
  <2>1. CASE LinkGone
    BY <2>1, EditingAssumption DEF LinkGone, Runs, Runtimes
  <2>2. CASE LinkBack
    <3>1. worker'[runtime'] = Resting
      BY <2>2 DEF LinkBack
    <3> QED
      BY <3>1 DEF Runs, Resting
  <2> QED
    BY <2>1, <2>2
<1>5. \A i \in DOMAIN signals' : ~AnswerOf(i, P)'
  BY <1>2, <1>3 DEF AnswerOf
<1> QED
  BY <1>4, <1>5 DEF Quiet, AnswerDue, Once

Pending(purposes) == Runs(purposes) \/ AnswerDue(purposes)

LEMMA HandledQuiet ==
  ASSUME EditTypes, NEW P, signals # <<>>, signals' = Tail(signals), UNCHANGED <<runtime, worker>>
  PROVE  Quiet(P)
<1>1. Runs(P)' => Runs(P)
  BY DEF Runs
<1> QED
  BY <1>1, HandledAnswers DEF Quiet

\* While a command runs, no signal of its thread comes.
LEMMA NetworkSignals ==
  ASSUME EditTypes, NEW P, NEW r \in Runtimes, Network(r), Runs(P)', SignalDue'
  PROVE  SignalDue
<1>1. worker \in [Runtimes -> WorkerStates] /\ UNCHANGED runtime
  BY DEF EditTypes, CommandTypes, Network, Request, ThreadEnds
<1>2. ASSUME r # runtime, NEW s \in SignalStates, s.from = r, signals' = Append(signals, s)
      PROVE  SignalDue
  <2>1. PICK n \in Nat : /\ DOMAIN signals' = DOMAIN signals \cup {n} /\ signals'[n] = s
                         /\ \A k \in DOMAIN signals : k \in Nat /\ k < n /\ signals'[k] = signals[k]
    BY <1>2, AppendSignals, Zenon
  <2>2. PICK i \in DOMAIN signals' : signals'[i].from = runtime
    BY <1>1 DEF SignalDue
  <2>3. i \in DOMAIN signals
    BY <1>2, <2>1, <2>2
  <2> QED
    BY <2>1, <2>2, <2>3 DEF SignalDue
<1>3. CASE Request(r)
  <2>1. Requested(r)
    BY <1>3, RequestIsRequested
  <2> DEFINE w == [worker[r] EXCEPT !.at = "silent"]
  <2>2. worker' = [worker EXCEPT ![r] = w]
    BY <2>1, Zenon DEF Requested
  <2>3. w.at = "silent" /\ worker[r].purpose \in Purposes
    BY <1>1, Zenon DEF WorkerStates
  <2> HIDE DEF w
  <2>4. r # runtime
    BY <1>1, <2>2, <2>3 DEF Runs
  <2>5. ASSUME NEW a \in AnswerStates, signals' = Append(signals, Reply(r, a)) PROVE SignalDue
    <3>1. Reply(r, a) \in [kind : {"answer"}, from : Runtimes, purpose : Purposes, answer : AnswerStates]
      BY <2>3, Zenon DEF Reply
    <3>2. Reply(r, a) \in SignalStates /\ Reply(r, a).from = r
      BY <3>1 DEF SignalStates, Reply
    <3> QED
      BY <1>2, <2>4, <2>5, <3>2
  <2>6. CASE UNCHANGED signals
    BY <1>1, <2>6 DEF SignalDue
  <2> QED
    BY <2>1, <2>5, <2>6, Zenon DEF Requested
<1>4. CASE ThreadEnds(r)
  <2> DEFINE s == [kind |-> "ended", from |-> r]
  <2>1. s \in SignalStates /\ s.from = r
    BY DEF SignalStates
  <2>2. signals' = Append(signals, s) /\ worker' = [worker EXCEPT ![r] = Resting] /\ Resting.at = "free"
    BY <1>4 DEF ThreadEnds, Resting
  <2> HIDE DEF s
  <2>3. r # runtime
    BY <1>1, <2>2 DEF Runs
  <2> QED
    BY <1>2, <2>1, <2>2, <2>3
<1> QED
  BY <1>3, <1>4 DEF Network

\* Of the saves that are not sent in a hurry one at most is on its way, and it is not while
\* an earlier one is read back.
OneSave == ~hurried =>
  /\ Once({"save"})
  /\ Runs({"save"}) => verifyAfter = 0 /\ ~SignalDue
  /\ AnswerDue({"save"}) => verifyAfter = 0 /\ ~Pending({"verify"})

LEMMA OneSaveNext == EditTypes /\ ChainInv /\ OneSave /\ CommandStep => OneSave'
<1> DEFINE S == {"save"}
           V == {"verify"}
<1> SUFFICES ASSUME EditTypes, ChainInv, OneSave, CommandStep, ~hurried'
             PROVE  /\ Once(S)'
                    /\ Runs(S)' => verifyAfter' = 0 /\ ~SignalDue'
                    /\ AnswerDue(S)' => verifyAfter' = 0 /\ ~Runs(V)' /\ ~AnswerDue(V)'
  BY DEF OneSave, Pending
<1>1. ~hurried
  BY DEF CommandStep, commandVars, OtherSaves, LinkGone, LinkBack, SaveSent, StaleHandled,
     AnswerHandled, EndHandled, Handled, Network, Request, ThreadEnds, sayVars
<1>2. /\ Once(S)
      /\ Runs(S) => verifyAfter = 0 /\ ~SignalDue
      /\ AnswerDue(S) => verifyAfter = 0 /\ ~Runs(V) /\ ~AnswerDue(V)
  BY <1>1 DEF OneSave, Pending
<1>3. worker \in [Runtimes -> WorkerStates]
  BY DEF EditTypes, CommandTypes
<1>4. CASE UNCHANGED commandVars \/ OtherSaves
  BY <1>2, <1>4 DEF commandVars, OtherSaves, afterVars, Once, AnswerOf, AnswerDue, Runs, SignalDue
<1>5. CASE LinkGone \/ LinkBack
  BY <1>2, <1>5, LinkAnswers DEF Quiet
<1>6. CASE /\ Launched(OtherPurposes) /\ worker'[runtime].purpose # "verify"
           /\ UNCHANGED <<device, runtime, online, signals, loadAfter, verifyAfter, runAfter, wish, hurried>>
  <2>1. PICK w \in WorkerStates : w.purpose \in OtherPurposes /\ worker' = [worker EXCEPT ![runtime] = w]
    BY <1>6, Zenon DEF Launched
  <2>2. ~Runs(S)' /\ ~Runs(V)'
    BY <1>3, <1>6, <2>1 DEF Runs, OtherPurposes
  <2>3. (AnswerDue(S)' <=> AnswerDue(S)) /\ (AnswerDue(V)' <=> AnswerDue(V)) /\ Once(S)'
    BY <1>2, <1>6, SameSignals
  <2> QED
    BY <1>2, <1>6, <2>2, <2>3
<1>7. CASE SaveSent
  <2>1. hurried' = (hurried \/ SignalDue)
    BY <1>7, Zenon DEF SaveSent
  <2>2. /\ online /\ runtime \in Runtimes /\ worker[runtime] = Resting
        /\ UNCHANGED <<runtime, signals, verifyAfter>>
    BY <1>7 DEF SaveSent
  <2>3. ~SignalDue /\ ~SignalDue'
    BY <2>1, <2>2 DEF SignalDue
  <2>4. ~AnswerDue(S)' /\ Once(S)'
    BY <2>3 DEF AnswerDue, AnswerOf, SignalDue, Once
  <2>5. verifyAfter = 0
    BY <2>2, <2>3 DEF ChainInv, Busy, EndComes, SignalDue, Resting
  <2> QED
    BY <2>2, <2>3, <2>4, <2>5
<1>8. CASE StaleHandled
  <2>1. signals # <<>> /\ signals' = Tail(signals) /\ UNCHANGED <<runtime, worker, verifyAfter>>
    BY <1>8 DEF StaleHandled, Handled
  <2>2. Quiet(S) /\ Quiet(V)
    BY <2>1, HandledQuiet
  <2>3. SignalDue' => SignalDue
    BY <2>1, TailSignals DEF SignalDue
  <2> QED
    BY <1>2, <2>1, <2>2, <2>3 DEF Quiet
<1>9. CASE AnswerHandled
  <2>1. /\ signals # <<>> /\ signals' = Tail(signals) /\ UNCHANGED <<runtime, worker>>
        /\ First.kind = "answer" /\ First.from = runtime
    BY <1>9 DEF AnswerHandled, Handled
  <2>2. Quiet(S) /\ Quiet(V)
    BY <2>1, HandledQuiet
  <2>3. ~Runs(S)'
    BY <1>2, <2>1, <2>2, HandledAnswers DEF SignalDue, Quiet
  <2>4. CASE First.purpose = "save"
    <3>1. ~AnswerDue(S)'
      BY <1>2, <2>1, <2>4, HandledAnswers
    <3> QED
      BY <1>2, <2>2, <2>3, <3>1 DEF Quiet
  <2>5. CASE verifyAfter' \in {verifyAfter, 0}
    BY <1>2, <2>2, <2>3, <2>5 DEF Quiet
  <2> QED
    BY <1>9, <2>4, <2>5 DEF AnswerHandled
<1>10. CASE EndHandled
  <2>1. /\ signals # <<>> /\ signals' = Tail(signals) /\ UNCHANGED <<runtime, verifyAfter>>
        /\ First.from = runtime
    BY <1>10 DEF EndHandled, Handled
  <2>2. /\ AnswerDue(S)' => AnswerDue(S)
        /\ AnswerDue(V)' => AnswerDue(V)
        /\ Once(S)'
    BY <1>2, <2>1, HandledAnswers
  <2>3. SignalDue
    BY <2>1, TailSignals DEF SignalDue
  <2>4. CASE UNCHANGED worker
    BY <1>2, <2>1, <2>2, <2>3, <2>4 DEF Runs
  <2>5. CASE Launched(OtherPurposes) /\ (verifyAfter = 0 => worker'[runtime].purpose # "verify")
    <3>1. PICK w \in WorkerStates : w.purpose \in OtherPurposes /\ worker' = [worker EXCEPT ![runtime] = w]
      BY <2>5, Zenon DEF Launched
    <3>2. ~Runs(S)' /\ (verifyAfter = 0 => ~Runs(V)')
      BY <1>3, <2>1, <2>5, <3>1 DEF Runs, OtherPurposes
    <3> QED
      BY <1>2, <2>1, <2>2, <3>2
  <2> QED
    BY <1>10, <2>4, <2>5 DEF EndHandled
<1>11. ASSUME NEW r \in Runtimes, Network(r)
       PROVE  /\ Once(S)'
              /\ Runs(S)' => verifyAfter' = 0 /\ ~SignalDue'
              /\ AnswerDue(S)' => verifyAfter' = 0 /\ ~Runs(V)' /\ ~AnswerDue(V)'
  <2>1. (Quiet(S) \/ Answered(S)) /\ (Quiet(V) \/ Answered(V))
    BY <1>11, NetworkAnswers
  <2>2. UNCHANGED verifyAfter
    BY <1>11 DEF Network, Request, ThreadEnds, afterVars
  <2>3. Runs(S)' /\ SignalDue' => SignalDue
    BY <1>11, NetworkSignals
  <2>4. Runs(S) => ~AnswerDue(S) /\ ~AnswerDue(V) /\ ~Runs(V)
    BY <1>2 DEF AnswerDue, AnswerOf, SignalDue, Runs
  <2>5. Runs(S)' => Runs(S)
    BY <2>1 DEF Quiet, Answered
  <2>6. (Runs(V)' => Runs(V)) /\ (AnswerDue(V)' => AnswerDue(V) \/ Runs(V)) /\ (AnswerDue(S)'
       => AnswerDue(S) \/ Runs(S))
    BY <2>1 DEF Quiet, Answered
  <2>7. Once(S)'
    BY <1>2, <2>1, <2>4 DEF Quiet, Answered
  <2> QED
    BY <1>2, <2>2, <2>3, <2>4, <2>5, <2>6, <2>7
<1> QED
  BY <1>4, <1>5, <1>6, <1>7, <1>8, <1>9, <1>10, <1>11 DEF CommandStep

-----------------------------------------------------------------------------
(* An editor is being opened: its commands, the load that is due, and the  *)
(* question about an empty draft follow one another, one at a time, and    *)
(* neither an editor is open nor a save under way.                         *)

Saving == Pending({"save"}) \/ verifyAfter # 0
Opening == Pending(Openers) \/ loadAfter \/ box.what = "new"
OpeningInv ==
  /\ Once(Openers) /\ ~(Runs(Openers) /\ AnswerDue(Openers))
  /\ loadAfter => ~Pending(Openers)
  /\ box.what = "new" => ~Pending(Openers) /\ ~loadAfter
  /\ Opening => ~editor.open /\ ~Saving

\* What a step does to the commands of one purpose.
Keeps(purposes) == Quiet(purposes) \/ Answered(purposes)

LEMMA PendingKept == ASSUME NEW P, Keeps(P) PROVE Pending(P)' => Pending(P)
  BY DEF Keeps, Quiet, Answered, Pending

\* Steps that open nothing.
LEMMA OpeningFrame ==
  ASSUME OpeningInv, Keeps(Openers), Saving' => Saving,
         loadAfter' => loadAfter, box'.what = "new" => box.what = "new", editor'.open => editor.open
  PROVE  OpeningInv'
<1>1. /\ Once(Openers)' /\ ~(Runs(Openers)' /\ AnswerDue(Openers)')
      /\ Pending(Openers)' => Pending(Openers)
  BY PendingKept DEF OpeningInv, Keeps, Quiet, Answered
<1>2. Opening' => Opening
  BY <1>1 DEF Opening
<1> QED
  BY <1>1, <1>2 DEF OpeningInv

\* Steps after which no editor is being opened.
LEMMA OpeningOver == ~Opening' => OpeningInv'
  BY DEF OpeningInv, Opening, Pending, Once, AnswerDue

\* The commands of some purposes, step by step: only a start brings one.
Starts == OpenEditor \/ PressSave(TRUE) \/ PressSave(FALSE) \/ AnswerOverwrite \/ OnEnded

LEMMA CommandsKept ==
  ASSUME EditTypes, EditingNext, ~Starts, NEW P, "other" \notin P
  PROVE  Keeps(P)
<1>1. runtime # 0 => runtime \in Runtimes
  BY EditingAssumption DEF EditTypes, CommandTypes, Runtimes
<1>2. CASE AnotherCommand
  <2>1. "other" \in OtherPurposes \ P
    BY DEF OtherPurposes, Purposes
  <2> QED
    BY <1>1, <1>2, <2>1, OtherCommands DEF AnotherCommand, Keeps
<1>3. CASE LinkGone \/ LinkBack
  BY <1>3, LinkAnswers DEF Keeps
<1>4. CASE OtherSaves \/ EditDraft \/ CloseEditor \/ AnswerNew \/ AnswerConflict \/ BusyTimeout
  BY <1>4, SameCommands DEF OtherSaves, EditDraft, CloseEditor, AnswerNew, AnswerConflict, BusyTimeout, Keeps
<1>5. CASE HandleSignal
  <2>1. signals # <<>> /\ signals' = Tail(signals) /\ UNCHANGED <<runtime, worker>>
    BY <1>5 DEF Starts, HandleSignal, StaleSignal, OnOther, OnCapabilities, OnNotCapable, OnLoad,
       OnRefresh, OnSaved,
       OnConflict, OnSaveFailed, OnVerified, From
  <2> QED
    BY <2>1, HandledQuiet DEF Keeps
<1>6. ASSUME NEW r \in Runtimes, Network(r) PROVE Keeps(P)
  BY <1>6, NetworkAnswers DEF Keeps
<1> QED
  BY <1>2, <1>3, <1>4, <1>5, <1>6 DEF EditingNext, UserEdits, UserAnswers, Starts

\* A save takes the free object, and no other command is started with it.
LEMMA SaveCommands ==
  ASSUME EditTypes, NEW P, "save" \notin P, NEW config, NEW run, Save(config, run),
       UNCHANGED <<signals, runtime>>
  PROVE  Quiet(P)
<1>1. CASE UNCHANGED worker
  BY <1>1, SameCommands
<1>2. CASE Start("save", Base, config) /\ worker[runtime] = Resting
  <2>1. worker' = [worker EXCEPT ![runtime] = [at |-> "running", purpose |-> "save", base |-> Base,
                     config |-> config, shown |-> editor.shown, cancelled |-> FALSE]]
    BY <1>2 DEF Start
  <2>2. ~Runs(P)'
    BY <2>1 DEF Runs, EditTypes, CommandTypes
  <2> QED
    BY <2>2, SameSignals DEF Quiet
<1> QED
  BY <1>1, <1>2, Zenon DEF Save

\* The handled answer was the only command of its purposes.
LEMMA LastAnswer ==
  ASSUME EditTypes, NEW P, Once(P), ~(Runs(P) /\ AnswerDue(P)), NEW purpose \in P, NEW outcomes,
         From(purpose, outcomes), UNCHANGED <<runtime, worker>>
  PROVE  Pending(P) /\ ~Pending(P)'
<1>1. /\ signals # <<>> /\ signals' = Tail(signals) /\ First.kind = "answer" /\ First.from = runtime
      /\ First.purpose \in P
  BY DEF From
<1>2. AnswerDue(P) /\ ~AnswerDue(P)'
  BY <1>1, HandledAnswers
<1>3. ~Runs(P)'
  BY <1>2 DEF Runs
<1> QED
  BY <1>2, <1>3 DEF Pending

\* What the changes of the editor leave as it was.
SameDraft(e) == e.open = editor.open /\ e.draft = editor.draft /\ e.gaveUp = editor.gaveUp

LEMMA EditorFields ==
  ASSUME EditTypes
  PROVE  /\ SameDraft(EditorReleased) /\ ~NoEditor.open /\ NoBox.what = "none"
         /\ \A b \in BOOLEAN : LET e == [editor EXCEPT !.busy = b] IN SameDraft(e) /\ e.busy = b
         /\ \A b, g \in BOOLEAN : LET e == [editor EXCEPT !.busy = b, !.gaveUp = g] IN
              e.open = editor.open /\ e.draft = editor.draft /\ e.busy = b /\ e.gaveUp = g
         /\ \A c : LET e == [editor EXCEPT !.draft = c] IN
              e.open = editor.open /\ e.busy = editor.busy /\ e.gaveUp = editor.gaveUp
         /\ \A revision :
              /\ SameDraft(RevisionShown(revision))
              /\ \A c : /\ [RevisionShown(revision) EXCEPT !.draft = c].open = editor.open
                        /\ [RevisionShown(revision) EXCEPT !.draft = c].draft = c
<1>1. editor \in EditorStates
  BY DEF EditTypes, WindowTypes
<1>2. ASSUME NEW b \in BOOLEAN
      PROVE  LET e == [editor EXCEPT !.busy = b] IN SameDraft(e) /\ e.busy = b
  BY <1>1, Zenon DEF EditorStates, SameDraft
<1>3. ASSUME NEW b \in BOOLEAN, NEW g \in BOOLEAN
      PROVE  LET e == [editor EXCEPT !.busy = b, !.gaveUp = g] IN
               e.open = editor.open /\ e.draft = editor.draft /\ e.busy = b /\ e.gaveUp = g
  BY <1>1, Zenon DEF EditorStates
<1>4. ASSUME NEW c
      PROVE  LET e == [editor EXCEPT !.draft = c] IN
               e.open = editor.open /\ e.busy = editor.busy /\ e.gaveUp = editor.gaveUp
  BY <1>1, Zenon DEF EditorStates
<1>5. ASSUME NEW revision
      PROVE  /\ SameDraft(RevisionShown(revision))
             /\ \A c : /\ [RevisionShown(revision) EXCEPT !.draft = c].open = editor.open
                       /\ [RevisionShown(revision) EXCEPT !.draft = c].draft = c
  <2> DEFINE set == editor.shown \cup {revision}
             shown == [editor EXCEPT !.revision = revision, !.busy = FALSE, !.shown = set]
             free == [open : BOOLEAN, busy : BOOLEAN, revision : Nat \cup {revision}, draft : MaybeConfig,
                      shown : {editor.shown, set}, gaveUp : BOOLEAN]
  <2>1. editor \in free /\ set \in {editor.shown, set} /\ revision \in Nat \cup {revision}
    <3>1. editor.revision \in Nat \cup {revision} /\ editor.shown \in {editor.shown, set}
      BY <1>1 DEF EditorStates
    <3>2. editor = [open |-> editor.open, busy |-> editor.busy, revision |-> editor.revision,
                    draft |-> editor.draft, shown |-> editor.shown, gaveUp |-> editor.gaveUp]
          /\ editor.open \in BOOLEAN /\ editor.busy \in BOOLEAN /\ editor.gaveUp \in BOOLEAN
          /\ editor.draft \in MaybeConfig
      BY <1>1, Zenon DEF EditorStates
    <3> QED
      BY <3>1, <3>2, Zenon
  <2> HIDE DEF set
  <2>2. shown.open = editor.open /\ shown.draft = editor.draft /\ shown.gaveUp = editor.gaveUp
    BY <2>1, Zenon
  <2>3. shown \in free
    BY <2>1, Zenon
  <2>4. RevisionShown(revision) = IF editor.open THEN shown ELSE editor
    BY Zenon DEF RevisionShown, set
  <2> HIDE DEF shown
  <2>5. SameDraft(RevisionShown(revision)) /\ RevisionShown(revision) \in free
    BY <2>1, <2>2, <2>3, <2>4 DEF SameDraft
  <2>6. ASSUME NEW c, NEW d \in free
        PROVE  [d EXCEPT !.draft = c].open = d.open /\ [d EXCEPT !.draft = c].draft = c
    BY <2>6, Zenon
  <2> QED
    BY <2>5, <2>6 DEF SameDraft
<1>6. SameDraft(EditorReleased)
  BY <1>2 DEF EditorReleased
<1> QED
  BY <1>2, <1>3, <1>4, <1>5, <1>6 DEF NoEditor, NoBox

LEMMA ReadbackShown ==
  ASSUME EditTypes, NEW revision, NEW c
  PROVE  LET e == [RevisionShown(revision) EXCEPT !.draft = c] IN e.open = editor.open /\ e.draft = c
<1>1. \A d : /\ [RevisionShown(revision) EXCEPT !.draft = d].open = editor.open
            /\ [RevisionShown(revision) EXCEPT !.draft = d].draft = d
  BY EditorFields, Zenon
<1> QED
  BY <1>1, Zenon

LEMMA OpeningNext == EditTypes /\ ChainInv /\ OpeningInv /\ EditingNext => OpeningInv'
<1> DEFINE O == Openers
           S == {"save"}
<1> SUFFICES ASSUME EditTypes, ChainInv, OpeningInv, EditingNext PROVE OpeningInv'
  OBVIOUS
<1>1. "other" \notin O /\ "other" \notin S /\ "capabilities" \in O /\ "load" \in O /\ "save" \notin O
  BY DEF Openers
<1>2. ASSUME Keeps(O), Keeps(S), verifyAfter' # 0 => Saving, loadAfter' => loadAfter,
             box'.what = "new" => box.what = "new", editor'.open => editor.open
      PROVE  OpeningInv'
  <2>1. Saving' => Saving
    BY <1>2, PendingKept DEF Saving
  <2> QED
    BY <1>2, <2>1, OpeningFrame
<1>3. ASSUME EditingNext, ~Starts PROVE Keeps(O) /\ Keeps(S)
  BY <1>1, <1>3, CommandsKept
<1>4. ASSUME From("capabilities", {"ok", "bad", "error"}) \/ From("load", {"ok", "unsaved", "bad", "error"}),
             UNCHANGED <<runtime, worker>>
      PROVE  Opening /\ ~Pending(O)' /\ ~loadAfter /\ box.what # "new" /\ ~editor.open /\ ~Saving
  <2>1. Pending(O) /\ ~Pending(O)'
    BY <1>1, <1>4, LastAnswer DEF OpeningInv
  <2> QED
    BY <2>1 DEF OpeningInv, Opening
<1>5. runtime # 0 => runtime \in Runtimes
  BY EditingAssumption DEF EditTypes, CommandTypes, Runtimes
<1>6. CASE OpenEditor
  <2>1. /\ runtime \in Runtimes /\ online /\ ~editor.open /\ signals = <<>> /\ box = NoBox
        /\ UNCHANGED <<signals, runtime, loadAfter, verifyAfter, editor, box>> /\ Start("capabilities",
             0, NoConfig)
    BY <1>5, <1>6 DEF OpenEditor, Free
  <2>2. Keeps(S)
    BY <2>1, OtherCommands DEF Keeps, OtherPurposes, Purposes
  <2>3. CASE worker[runtime] # Resting
    <3>1. UNCHANGED worker
      BY <2>1, <2>3 DEF Start
    <3> QED
      BY <1>2, <2>1, <3>1, SameCommands DEF Keeps, Saving
  <2>4. CASE worker[runtime] = Resting
    <3>1. ~AnswerDue(O)' /\ Once(O)'
      BY <2>1 DEF AnswerDue, Once
    <3>2. ~Busy(runtime) /\ ~EndComes(runtime)
      BY <2>1, <2>4 DEF Busy, EndComes, Resting
    <3>3. verifyAfter = 0 /\ ~loadAfter
      BY <2>1, <3>2 DEF ChainInv
    <3>4. ~Pending(S)
      BY <2>1, <2>4 DEF Pending, Runs, AnswerDue, Resting
    <3>5. ~Saving' /\ box'.what # "new"
      BY <2>1, <2>2, <3>3, <3>4, PendingKept DEF Saving, NoBox
    <3> QED
      BY <2>1, <3>1, <3>3, <3>5 DEF OpeningInv
  <2> QED
    BY <2>3, <2>4
<1>7. ASSUME NEW config, NEW run, Save(config, run), editor.open, UNCHANGED <<signals, runtime, loadAfter>>,
             box'.what # "new"
      PROVE  OpeningInv'
  <2>1. Keeps(O) /\ ~Opening
    BY <1>1, <1>7, SaveCommands DEF Keeps, OpeningInv
  <2>2. ~Opening'
    BY <1>7, <2>1, PendingKept DEF Opening
  <2> QED
    BY <2>2, OpeningOver
<1>8. CASE PressSave(TRUE) \/ PressSave(FALSE) \/ AnswerOverwrite
  <2>1. editor.open /\ UNCHANGED <<signals, runtime, loadAfter, verifyAfter>> /\ box'.what # "new"
    <3>1. ASSUME NEW run, PressSave(run)
          PROVE  editor.open /\ UNCHANGED <<signals, runtime, loadAfter, verifyAfter>> /\ box'.what # "new"
      <4>1. editor.open /\ UNCHANGED <<signals, runtime, loadAfter, verifyAfter>> /\ box = NoBox
        BY <3>1 DEF PressSave, Free
      <4>2. box' = box \/ box' = [what |-> "overwrite", config |-> editor.draft, run |-> run, revision |-> 0]
        BY <3>1, Zenon DEF PressSave
      <4> QED
        BY <4>1, <4>2, EditorFields
    <3>2. CASE AnswerOverwrite
      <4>1. box.what = "overwrite" /\ box' = NoBox /\ UNCHANGED <<signals, runtime, loadAfter, verifyAfter>>
        BY <3>2 DEF AnswerOverwrite
      <4>2. editor.open
        BY <4>1 DEF EditTypes, EditorShows
      <4> QED
        BY <4>1, <4>2, EditorFields
    <3> QED
      BY <1>8, <3>1, <3>2
  <2>2. CASE \E config, run : Save(config, run)
    BY <1>7, <2>1, <2>2
  <2>3. CASE UNCHANGED <<worker, editor>>
    BY <1>2, <2>1, <2>3, SameCommands DEF Keeps, Saving
  <2> QED
    BY <1>8, <2>2, <2>3 DEF PressSave, AnswerOverwrite
<1>9. CASE OnEnded
  <2>1. /\ signals # <<>> /\ signals' = Tail(signals) /\ First.from = runtime
        /\ UNCHANGED <<runtime, verifyAfter, box>> /\ ~loadAfter'
    BY <1>9 DEF OnEnded
  <2>2. runtime \in Runtimes
    <3>1. First \in SignalStates
      BY <2>1, HeadTailProperties DEF EditTypes, CommandTypes, First
    <3> QED
      BY <2>1, <3>1 DEF SignalStates
  <2>3. /\ AnswerDue(O)' => AnswerDue(O)
        /\ AnswerDue(S)' => AnswerDue(S)
        /\ (Once(O) => Once(O)') /\ (Once(S) => Once(S)')
    BY <2>1, HandledAnswers
  <2>4. ASSUME NEW purpose \in OtherPurposes, Start(purpose, 0, NoConfig)
        PROVE  (Runs(S)' => Runs(S)) /\ (purpose \notin O => (Runs(O)' => Runs(O)))
    <3>1. Launched({purpose}) \/ (UNCHANGED worker /\ worker[runtime] # Resting)
      BY <2>2, <2>4, StartLaunches
    <3>2. CASE UNCHANGED worker
      BY <2>1, <3>2 DEF Runs
    <3>3. CASE Launched({purpose})
      <4>1. PICK w \in WorkerStates : w.purpose \in {purpose} /\ worker' = [worker EXCEPT ![runtime] = w]
        BY <3>3, Zenon DEF Launched
      <4> QED
        BY <2>1, <2>2, <4>1 DEF Runs, EditTypes, CommandTypes, OtherPurposes
    <3> QED
      BY <3>1, <3>2, <3>3
  <2>5. CASE loadAfter /\ Start("load", 0, NoConfig) /\ UNCHANGED editor
    <3>1. ~Pending(O) /\ box.what # "new" /\ ~editor.open /\ ~Saving
      BY <2>5 DEF OpeningInv, Opening
    <3>2. ~Saving'
      BY <2>1, <2>3, <2>4, <2>5, <3>1 DEF Saving, Pending, OtherPurposes, Purposes
    <3> QED
      BY <2>1, <2>3, <2>5, <3>1, <3>2 DEF OpeningInv, Pending
  <2>6. CASE /\ ~loadAfter /\ editor'.open = editor.open
             /\ UNCHANGED worker \/ \E p \in {"refresh", "verify"} : Start(p, 0, NoConfig)
    <3>1. (Runs(S)' => Runs(S)) /\ (Runs(O)' => Runs(O))
      BY <2>1, <2>4, <2>6 DEF Runs, Openers, OtherPurposes, Purposes
    <3> QED
      BY <1>2, <2>1, <2>3, <2>6, <3>1 DEF Keeps, Quiet, Saving
  <2>7. editor.open \in BOOLEAN
    BY DEF EditTypes, WindowTypes, EditorStates
  <2> QED
    BY <1>9, <2>5, <2>6, <2>7, EditorFields DEF OnEnded, SameDraft
<1>10. CASE OtherSaves \/ AnotherCommand \/ LinkGone \/ LinkBack \/ StaleSignal \/ OnOther
     \/ \E r \in Runtimes : Network(r)
  <2>1. UNCHANGED <<editor, box, loadAfter, verifyAfter>>
    BY <1>10 DEF OtherSaves, AnotherCommand, LinkGone, LinkBack, StaleSignal, OnOther, Network, Request,
       ThreadEnds, afterVars
  <2>2. CASE ~Starts
    BY <1>2, <1>3, <2>1, <2>2 DEF Saving
  <2> QED
    BY <1>6, <1>8, <1>9, <2>2 DEF Starts
<1>11. CASE EditDraft \/ CloseEditor \/ BusyTimeout \/ AnswerConflict
  <2>1. UNCHANGED <<loadAfter, verifyAfter>> /\ (box'.what = "new" => box.what = "new")
    BY <1>11, EditorFields DEF EditDraft, CloseEditor, BusyTimeout, AnswerConflict, afterVars
  <2>2. editor'.open => editor.open
    <3>1. editor.open \in BOOLEAN
      BY DEF EditTypes, WindowTypes, EditorStates
    <3> QED
      BY <1>11, <3>1, EditorFields DEF EditDraft, CloseEditor, BusyTimeout, AnswerConflict, SameDraft
  <2>3. CASE ~Starts
    BY <1>2, <1>3, <2>1, <2>2, <2>3 DEF Saving
  <2> QED
    BY <1>6, <1>8, <1>9, <2>3 DEF Starts
<1>12. CASE OnNotCapable \/ OnRefresh \/ OnSaved \/ OnConflict \/ OnSaveFailed \/ OnVerified
  <2>1. (loadAfter' => loadAfter) /\ (box'.what = "new" => box.what = "new") /\ editor'.open = editor.open
    <3>1. CASE OnConflict
      BY <3>1 DEF OnConflict, NoBox
    <3>2. CASE OnNotCapable \/ OnRefresh \/ OnSaved \/ OnSaveFailed \/ OnVerified
      <4>1. UNCHANGED box /\ (loadAfter' => loadAfter)
        BY <3>2 DEF OnNotCapable, OnRefresh, OnSaved, OnSaveFailed, OnVerified, afterVars
      <4>2. CASE OnRefresh
        <5>1. editor' = EditorReleased \/ \E v \in {Answer.revision, 0} : editor' = RevisionShown(v)
          BY <4>2 DEF OnRefresh
        <5> QED
          BY <4>1, <5>1, EditorFields DEF SameDraft
      <4>3. CASE OnNotCapable \/ OnSaved \/ OnSaveFailed
        BY <4>1, <4>3, EditorFields DEF OnNotCapable, OnSaved, OnSaveFailed, SameDraft
      <4>4. CASE OnVerified
        <5>1. \/ editor' = EditorReleased \/ editor' = editor
              \/ editor' = [RevisionShown(Answer.revision) EXCEPT !.draft = Answer.config]
          BY <4>4 DEF OnVerified
        <5>2. [RevisionShown(Answer.revision) EXCEPT !.draft = Answer.config].open = editor.open
          BY ReadbackShown
        <5> QED
          BY <4>1, <5>1, <5>2, EditorFields DEF SameDraft
      <4> QED
        BY <3>2, <4>2, <4>3, <4>4
    <3> QED
      BY <1>12, <3>1, <3>2
  <2>2. verifyAfter' # 0 => Saving
    <3>1. CASE OnSaved
      <4>1. AnswerDue(S)
        BY <3>1, HandledAnswers DEF OnSaved, From
      <4> QED
        BY <4>1 DEF Saving, Pending
    <3>2. CASE ~OnSaved
      BY <1>12, <3>2 DEF OnNotCapable, OnRefresh, OnConflict, OnSaveFailed, OnVerified, Saving, afterVars
    <3> QED
      BY <3>1, <3>2
  <2>3. CASE ~Starts
    BY <1>2, <1>3, <2>1, <2>2, <2>3
  <2> QED
    BY <1>6, <1>8, <1>9, <2>3 DEF Starts
<1>13. CASE OnCapabilities
  <2>1. ~Pending(O)' /\ ~loadAfter /\ box.what # "new" /\ ~editor.open /\ ~Saving
    BY <1>4, <1>13 DEF OnCapabilities, From
  <2>2. signals # <<>> /\ signals' = Tail(signals) /\ UNCHANGED <<runtime, worker, verifyAfter>>
    BY <1>13 DEF OnCapabilities, From
  <2>3. ~Saving'
    BY <2>1, <2>2, HandledQuiet, PendingKept DEF Saving, Keeps
  <2>4. CASE loadAfter' /\ UNCHANGED <<editor, box>>
    BY <2>1, <2>3, <2>4 DEF OpeningInv, Pending, Once, AnswerDue
  <2>5. CASE UNCHANGED <<loadAfter, box>>
    BY <2>1, <2>5, OpeningOver DEF Opening
  <2>6. CASE ~loadAfter' /\ UNCHANGED editor
    BY <2>1, <2>3, <2>6 DEF OpeningInv, Pending, Once, AnswerDue
  <2> QED
    BY <1>13, <2>4, <2>5, <2>6 DEF OnCapabilities
<1>14. CASE OnLoad
  <2>1. ~Pending(O)' /\ ~loadAfter /\ box.what # "new" /\ UNCHANGED <<box, loadAfter>>
    BY <1>4, <1>14 DEF OnLoad, afterVars
  <2> QED
    BY <2>1, OpeningOver DEF Opening
<1>15. CASE AnswerNew
  <2>1. ~Pending(O) /\ ~loadAfter /\ box'.what # "new" /\ UNCHANGED <<loadAfter, worker, signals, runtime>>
    BY <1>15 DEF AnswerNew, OpeningInv, afterVars, NoBox
  <2>2. ~Pending(O)'
    BY <2>1, SameCommands, PendingKept DEF Keeps
  <2> QED
    BY <2>1, <2>2, OpeningOver DEF Opening
<1> QED
  BY <1>6, <1>8, <1>9, <1>10, <1>11, <1>12, <1>13, <1>14, <1>15
     DEF EditingNext, UserEdits, UserAnswers, HandleSignal

-----------------------------------------------------------------------------
(* A save under way belongs to the open editor: it waits for it with the   *)
(* configuration that was sent, and nothing is asked or refreshed, unless  *)
(* it was released too early.                                              *)

Undisturbed == ~refreshAfter /\ ~Pending({"refresh"}) /\ box.what \notin {"overwrite", "conflict"}
Waits == Saving /\ editor.open /\ ~editor.gaveUp /\ ~hurried
SaveFlow == Waits => editor.busy /\ editor.draft = wish.config /\ Undisturbed

\* Steps that leave the save and what the editor shows of it.
LEMMA FlowFrame ==
  ASSUME SaveFlow, Saving' => Saving, UNCHANGED <<wish, hurried>>,
         editor'.open => SameDraft(editor') /\ (editor.busy => editor'.busy),
         refreshAfter' => refreshAfter, Keeps({"refresh"}),
         box' = box \/ box'.what \notin {"overwrite", "conflict"}
  PROVE  SaveFlow'
<1>1. Pending({"refresh"})' => Pending({"refresh"})
  BY PendingKept
<1>2. Waits' => Waits
  BY DEF Waits, SameDraft
<1> QED
  BY <1>1, <1>2 DEF SaveFlow, Waits, SameDraft, Undisturbed

\* Steps that no editor meets while it waits for its save.
LEMMA FlowElsewhere ==
  ASSUME SaveFlow, ~editor.busy \/ ~Undisturbed, Saving' => Saving, UNCHANGED hurried,
         editor'.open => editor.open /\ editor'.gaveUp = editor.gaveUp
  PROVE  SaveFlow'
  BY DEF SaveFlow, Waits

LEMMA FlowSave ==
  ASSUME EditTypes, SaveFlow, NEW config, NEW run, Save(config, run), editor.open,
         UNCHANGED <<signals, runtime, refreshAfter, verifyAfter>>,
         ~editor.busy \/ ~Undisturbed, box'.what = "none"
  PROVE  SaveFlow'
<1>1. CASE UNCHANGED <<worker, wish, hurried>> /\ \E b \in BOOLEAN : editor' = [editor EXCEPT !.busy = b]
  <2>1. Saving' => Saving
    BY <1>1, SameCommands, PendingKept DEF Keeps, Saving
  <2>2. SameDraft(editor')
    BY <1>1, EditorFields
  <2> QED
    BY <1>1, <2>1, <2>2, FlowElsewhere DEF SameDraft
<1>2. CASE /\ runtime # 0 /\ worker[runtime] = Resting
           /\ editor' = [editor EXCEPT !.busy = TRUE, !.gaveUp = refreshAfter \/ config # editor.draft]
           /\ Start("save", Base, config) /\ wish' = [config |-> config, run |-> run]
           /\ hurried' = (hurried \/ SignalDue)
  <2> SUFFICES ASSUME Waits' PROVE (editor.busy /\ editor.draft = wish.config /\ Undisturbed)'
    BY DEF SaveFlow
  <2>1. editor'.draft = editor.draft /\ editor'.busy /\ editor'.gaveUp = (refreshAfter
       \/ config # editor.draft)
    <3>1. (refreshAfter \/ config # editor.draft) \in BOOLEAN
      BY DEF EditTypes, WindowTypes
    <3>2. \E g \in BOOLEAN : /\ g = (refreshAfter \/ config # editor.draft)
                             /\ editor' = [editor EXCEPT !.busy = TRUE, !.gaveUp = g]
      BY <1>2, <3>1, Zenon
    <3> QED
      BY <3>2, EditorFields
  <2>2. ~refreshAfter' /\ editor'.draft = wish'.config
    BY <1>2, <2>1 DEF Waits
  <2>3. ~Runs({"refresh"})'
    <3>1. worker' = [worker EXCEPT ![runtime] = [at |-> "running", purpose |-> "save", base |-> Base,
                       config |-> config, shown |-> editor.shown, cancelled |-> FALSE]]
      BY <1>2 DEF Start
    <3> QED
      BY <3>1 DEF Runs, EditTypes, CommandTypes
  <2>4. ~AnswerDue({"refresh"})'
    BY <1>2 DEF Waits, AnswerDue, AnswerOf, SignalDue
  <2> QED
    BY <2>1, <2>2, <2>3, <2>4 DEF Undisturbed, Pending
<1> QED
  BY <1>1, <1>2, Zenon DEF Save

\* The answer of a save, or of its readback, ends it.
LEMMA SaveAnswered ==
  ASSUME EditTypes, OneSave, ~hurried, NEW outcomes, From("save", outcomes) \/ From("verify", outcomes),
         UNCHANGED <<runtime, worker>>, verifyAfter' = 0
  PROVE  ~Saving'
<1>1. /\ signals # <<>> /\ signals' = Tail(signals) /\ First.kind = "answer" /\ First.from = runtime
      /\ First.purpose \in {"save"} \/ First.purpose \in {"verify"}
  BY DEF From
<1>2. /\ SignalDue
      /\ First.purpose \in {"save"} => ~AnswerDue({"save"})'
      /\ First.purpose \in {"verify"} => AnswerDue({"verify"})
      /\ AnswerDue({"save"})' => AnswerDue({"save"})
  BY <1>1, HandledAnswers DEF SignalDue, OneSave
<1>3. ~Runs({"save"})'
  BY <1>2 DEF OneSave, Runs
<1>4. ~AnswerDue({"save"})'
  BY <1>1, <1>2 DEF OneSave, Pending
<1> QED
  BY <1>3, <1>4 DEF Saving, Pending

\* The follow-up of a command's end.
LEMMA FollowUp ==
  ASSUME EditTypes, NEW P, signals # <<>>, signals' = Tail(signals), UNCHANGED runtime, First.from = runtime,
         NEW purpose \in OtherPurposes \ P, Start(purpose, 0, NoConfig)
  PROVE  Quiet(P)
<1>1. runtime \in Runtimes
  <2>1. First \in SignalStates
    BY HeadTailProperties DEF EditTypes, CommandTypes, First
  <2> QED
    BY <2>1 DEF SignalStates
<1>2. Launched({purpose}) \/ (UNCHANGED worker /\ worker[runtime] # Resting)
  BY <1>1, StartLaunches
<1>3. Runs(P)' => Runs(P)
  <2>1. CASE UNCHANGED worker
    BY <2>1 DEF Runs
  <2>2. CASE Launched({purpose})
    <3>1. PICK w \in WorkerStates : w.purpose \in {purpose} /\ worker' = [worker EXCEPT ![runtime] = w]
      BY <2>2, Zenon DEF Launched
    <3> QED
      BY <1>1, <3>1 DEF Runs, EditTypes, CommandTypes
  <2> QED
    BY <1>2, <2>1, <2>2
<1> QED
  BY <1>3, HandledAnswers DEF Quiet

LEMMA SaveFlowNext == EditTypes /\ OneSave /\ OpeningInv /\ SaveFlow /\ EditingNext => SaveFlow'
<1> DEFINE R == {"refresh"}
           S == {"save"}
<1> SUFFICES ASSUME EditTypes, OneSave, OpeningInv, SaveFlow, EditingNext PROVE SaveFlow'
  OBVIOUS
<1>1. editor.open \in BOOLEAN /\ editor.busy \in BOOLEAN /\ SameDraft(editor)
  BY DEF EditTypes, WindowTypes, EditorStates, SameDraft
<1>2. ASSUME ~Starts PROVE Keeps(R) /\ Keeps(S)
  BY <1>2, CommandsKept
<1>3. ~Saving' => SaveFlow'
  BY DEF SaveFlow, Waits
<1>4. ASSUME Keeps(S), verifyAfter' # 0 => verifyAfter # 0 PROVE Saving' => Saving
  BY <1>4, PendingKept DEF Saving
<1>5. CASE OpenEditor
  <2>1. ~editor'.open
    BY <1>5 DEF OpenEditor
  <2> QED
    BY <2>1 DEF SaveFlow, Waits
<1>6. ASSUME NEW run, PressSave(run) PROVE SaveFlow'
  <2>1. /\ editor.open /\ ~editor.busy /\ box = NoBox
        /\ UNCHANGED <<signals, runtime, refreshAfter, verifyAfter>>
    BY <1>6 DEF PressSave, Free
  <2>2. CASE Save(editor.draft, run) /\ UNCHANGED box
    BY <2>1, <2>2, FlowSave, EditorFields
  <2>3. CASE UNCHANGED <<worker, editor, wish, hurried>>
    <3>1. Saving' => Saving
      BY <1>4, <2>1, <2>3, SameCommands DEF Keeps
    <3> QED
      BY <1>1, <2>1, <2>3, <3>1, FlowElsewhere
  <2> QED
    BY <1>6, <2>2, <2>3 DEF PressSave
<1>7. CASE AnswerOverwrite
  <2>1. /\ box.what = "overwrite" /\ box' = NoBox /\ ~Undisturbed
        /\ UNCHANGED <<signals, runtime, refreshAfter, verifyAfter>>
    BY <1>7 DEF AnswerOverwrite, Undisturbed
  <2>2. editor.open
    BY <2>1 DEF EditTypes, EditorShows
  <2>3. CASE Save(box.config, box.run)
    BY <2>1, <2>2, <2>3, FlowSave, EditorFields
  <2>4. CASE UNCHANGED <<worker, editor, wish, hurried>>
    <3>1. Saving' => Saving
      BY <1>4, <2>1, <2>4, SameCommands DEF Keeps
    <3> QED
      BY <1>1, <2>1, <2>4, <3>1, FlowElsewhere
  <2> QED
    BY <1>7, <2>3, <2>4 DEF AnswerOverwrite
<1>8. CASE OnEnded
  <2>1. /\ signals # <<>> /\ signals' = Tail(signals) /\ First.from = runtime
        /\ UNCHANGED <<runtime, verifyAfter, box, wish, hurried>>
    BY <1>8 DEF OnEnded
  <2>2. ASSUME NEW purpose \in {"load", "refresh", "verify"}, Start(purpose, 0, NoConfig)
        PROVE  Keeps(S) /\ (purpose # "refresh" => Keeps(R))
    BY <2>1, <2>2, FollowUp DEF Keeps, OtherPurposes, Purposes
  <2>3. CASE loadAfter /\ Start("load", 0, NoConfig)
    <3>1. ~Saving
      BY <2>3 DEF OpeningInv, Opening
    <3>2. ~Saving'
      BY <1>4, <2>1, <2>2, <2>3, <3>1
    <3> QED
      BY <1>3, <3>2
  <2>4. CASE refreshAfter /\ Start("refresh", 0, NoConfig) /\ UNCHANGED editor
    <3>1. ~Undisturbed
      BY <2>4 DEF Undisturbed
    <3>2. Saving' => Saving
      BY <1>4, <2>1, <2>2, <2>4
    <3> QED
      BY <1>1, <2>1, <2>4, <3>1, <3>2, FlowElsewhere
  <2>5. CASE Start("verify", 0, NoConfig) /\ editor' = [editor EXCEPT !.busy = editor.open]
       /\ UNCHANGED refreshAfter
    <3>1. SameDraft(editor') /\ editor'.busy = editor.open
      BY <1>1, <2>5, EditorFields
    <3>2. Keeps(R) /\ (Saving' => Saving)
      BY <1>4, <2>1, <2>2, <2>5
    <3> QED
      BY <2>1, <2>5, <3>1, <3>2, FlowFrame DEF SameDraft
  <2>6. CASE UNCHANGED <<worker, refreshAfter, editor>>
    <3>1. Keeps(R) /\ Keeps(S)
      BY <2>1, <2>6, HandledQuiet DEF Keeps
    <3>2. Saving' => Saving
      BY <1>4, <2>1, <3>1
    <3> QED
      BY <1>1, <2>1, <2>6, <3>1, <3>2, FlowFrame
  <2> QED
    BY <1>8, <2>3, <2>4, <2>5, <2>6 DEF OnEnded
<1>9. CASE CloseEditor
  <2>1. ~editor'.open
    BY <1>9, EditorFields DEF CloseEditor
  <2> QED
    BY <2>1 DEF SaveFlow, Waits
<1>10. CASE BusyTimeout
  <2>1. editor'.gaveUp
    BY <1>10, EditorFields DEF BusyTimeout
  <2> QED
    BY <2>1 DEF SaveFlow, Waits
<1>11. CASE EditDraft
  <2>1. /\ editor.open /\ ~editor.busy /\ \E c : editor' = [editor EXCEPT !.draft = c]
        /\ UNCHANGED <<worker, signals, runtime, verifyAfter, hurried>>
    BY <1>11, Zenon DEF EditDraft, afterVars, sayVars
  <2>2. editor'.open = editor.open /\ editor'.gaveUp = editor.gaveUp
    <3>1. PICK c : editor' = [editor EXCEPT !.draft = c]
      BY <2>1
    <3>2. editor \in EditorStates
      BY DEF EditTypes, WindowTypes
    <3>3. [editor EXCEPT !.draft = c].open = editor.open /\ [editor EXCEPT !.draft = c].gaveUp = editor.gaveUp
      BY <3>2, Zenon DEF EditorStates
    <3> QED
      BY <3>1, <3>3
  <2>3. Saving' => Saving
    BY <1>4, <2>1, SameCommands DEF Keeps
  <2> QED
    BY <2>1, <2>2, <2>3, FlowElsewhere
<1>12. CASE AnswerConflict
  <2>1. /\ box.what = "conflict" /\ ~Undisturbed
        /\ editor' = [editor EXCEPT !.busy = editor.open] \/ editor' = EditorReleased
        /\ UNCHANGED <<worker, signals, runtime, verifyAfter, hurried>>
    BY <1>12 DEF AnswerConflict, Undisturbed, sayVars
  <2>2. SameDraft(editor')
    BY <1>1, <2>1, EditorFields
  <2>3. Saving' => Saving
    BY <1>4, <2>1, SameCommands DEF Keeps
  <2> QED
    BY <2>1, <2>2, <2>3, FlowElsewhere DEF SameDraft
<1>13. ASSUME ~Starts, UNCHANGED <<editor, wish, hurried>>, verifyAfter' # 0 => Saving,
     refreshAfter' => refreshAfter,
              box' = box \/ box'.what \notin {"overwrite", "conflict"}
       PROVE  SaveFlow'
  <2>1. Keeps(R) /\ Keeps(S)
    BY <1>2, <1>13
  <2>2. Saving' => Saving
    BY <1>13, <2>1, PendingKept DEF Saving
  <2> QED
    BY <1>1, <1>13, <2>1, <2>2, FlowFrame
<1>14. CASE OtherSaves \/ AnotherCommand \/ LinkGone \/ LinkBack \/ StaleSignal \/ OnOther
     \/ \E r \in Runtimes : Network(r)
  <2>1. UNCHANGED <<editor, box, refreshAfter, verifyAfter, wish, hurried>>
    BY <1>14 DEF OtherSaves, AnotherCommand, LinkGone, LinkBack, StaleSignal, OnOther, Network, Request,
       ThreadEnds, afterVars, sayVars
  <2>2. CASE ~Starts
    BY <1>13, <2>1, <2>2 DEF Saving
  <2> QED
    BY <1>5, <1>6, <1>7, <1>8, <2>2 DEF Starts
<1>15. CASE OnNotCapable
  <2>1. ~refreshAfter' /\ UNCHANGED <<editor, box, verifyAfter, wish, hurried>>
    BY <1>15 DEF OnNotCapable, sayVars
  <2>2. CASE ~Starts
    BY <1>13, <2>1, <2>2 DEF Saving
  <2> QED
    BY <1>5, <1>6, <1>7, <1>8, <2>2 DEF Starts
<1>16. CASE OnSaved
  <2>1. UNCHANGED <<editor, box, refreshAfter, wish, hurried>>
    BY <1>16 DEF OnSaved, sayVars
  <2>2. AnswerDue(S)
    BY <1>16, HandledAnswers DEF OnSaved, From
  <2>3. CASE ~Starts
    BY <1>13, <2>1, <2>2, <2>3 DEF Saving, Pending
  <2> QED
    BY <1>5, <1>6, <1>7, <1>8, <2>3 DEF Starts
<1>17. CASE OnCapabilities \/ OnLoad \/ AnswerNew
  <2>1. Opening
    <3>1. CASE AnswerNew
      BY <3>1 DEF AnswerNew, Opening
    <3>2. CASE OnCapabilities \/ OnLoad
      <4>1. AnswerDue(Openers)
        BY <3>2, HandledAnswers DEF OnCapabilities, OnLoad, From, Openers
      <4> QED
        BY <4>1 DEF Opening, Pending
    <3> QED
      BY <1>17, <3>1, <3>2
  <2>2. ~Saving /\ UNCHANGED verifyAfter
    BY <1>17, <2>1 DEF OpeningInv, OnCapabilities, OnLoad, AnswerNew, afterVars
  <2>3. CASE ~Starts
    BY <1>2, <1>3, <1>4, <2>2, <2>3
  <2> QED
    BY <1>5, <1>6, <1>7, <1>8, <2>3 DEF Starts
<1>18. CASE OnRefresh
  <2>1. editor' = EditorReleased \/ \E v \in {Answer.revision, 0} : editor' = RevisionShown(v)
    BY <1>18 DEF OnRefresh
  <2>2. SameDraft(editor')
    BY <2>1, EditorFields
  <2>3. UNCHANGED <<hurried, verifyAfter>>
    BY <1>18 DEF OnRefresh, afterVars, sayVars
  <2>4. ~Undisturbed
    BY <1>18, HandledAnswers DEF OnRefresh, From, Undisturbed, Pending
  <2>5. CASE ~Starts
    <3>1. Saving' => Saving
      BY <1>2, <1>4, <2>3, <2>5
    <3> QED
      BY <2>2, <2>3, <2>4, <3>1, FlowElsewhere DEF SameDraft
  <2> QED
    BY <1>5, <1>6, <1>7, <1>8, <2>5 DEF Starts
<1>19. CASE OnConflict \/ OnSaveFailed \/ OnVerified
  <2>1. /\ \E outcomes : From("save", outcomes) \/ From("verify", outcomes)
        /\ UNCHANGED <<runtime, worker, hurried>> /\ verifyAfter' = 0
    BY <1>19 DEF OnConflict, OnSaveFailed, OnVerified, sayVars
  <2>2. hurried \/ ~Saving'
    BY <2>1, SaveAnswered
  <2> QED
    BY <1>3, <2>1, <2>2 DEF SaveFlow, Waits
<1> QED
  BY <1>5, <1>6, <1>7, <1>8, <1>9, <1>10, <1>11, <1>12, <1>14, <1>15, <1>16, <1>17, <1>18, <1>19
     DEF EditingNext, UserEdits, UserAnswers, HandleSignal

KeptInv == AskedInv /\ OneSave /\ OpeningInv /\ SaveFlow

LEMMA ReleasedDraft ==
  ASSUME EditTypes, NEW b \in BOOLEAN, NEW g \in BOOLEAN
  PROVE  /\ [editor EXCEPT !.busy = b].draft = editor.draft
         /\ [editor EXCEPT !.busy = b, !.gaveUp = g].draft = editor.draft
<1>1. editor \in EditorStates
  BY DEF EditTypes, WindowTypes
<1> QED
  BY <1>1, Zenon DEF EditorStates

LEMMA KeptInit == EditingInit => KeptInv
<1> SUFFICES ASSUME EditingInit PROVE KeptInv
  OBVIOUS
<1>1. /\ signals = <<>> /\ verifyAfter = 0 /\ runtime = 1 /\ ~loadAfter /\ ~editor.open /\ box.what = "none"
      /\ worker \in [Runtimes -> {Resting}]
  BY DEF EditingInit, NoEditor, NoBox
<1>2. \A P : ~Runs(P) /\ ~AnswerDue(P) /\ Once(P)
  BY <1>1 DEF Runs, AnswerDue, Once, Resting
<1>3. OneSave /\ OpeningInv /\ SaveFlow
  BY <1>1, <1>2 DEF OneSave, OpeningInv, Opening, Pending, SaveFlow, Waits
<1> QED
  BY <1>3, AskedInit DEF KeptInv

LEMMA KeptNext == KeptInv /\ EditingNext => KeptInv'
<1> SUFFICES ASSUME KeptInv, EditingNext PROVE KeptInv'
  OBVIOUS
<1>1. AskedInv' /\ CommandStep /\ EditTypes /\ ChainInv
  BY AskedNext, CommandStepNext DEF KeptInv, AskedInv
<1> QED
  BY <1>1, OneSaveNext, OpeningNext, SaveFlowNext DEF KeptInv

\* The user's draft, step by step: no handler but that of the readback touches it, and that
\* one finds in the editor what it brings.
LEMMA DraftStep ==
  KeptInv /\ EditingNext /\ editor.open /\ editor'.open /\ editor'.draft # editor.draft
    => EditDraft \/ editor.gaveUp \/ hurried
<1> SUFFICES ASSUME KeptInv, EditingNext, editor.open, editor'.open, ~EditDraft, ~editor.gaveUp, ~hurried
             PROVE  editor'.draft = editor.draft
  OBVIOUS
<1>1. EditTypes /\ editor.open \in BOOLEAN /\ editor.busy \in BOOLEAN
  BY DEF KeptInv, AskedInv, EditTypes, WindowTypes, EditorStates
<1>2. CASE OnVerified
  <2>1. CASE editor' = EditorReleased
    BY <1>1, <2>1, EditorFields DEF SameDraft
  <2>2. CASE IsExpected(Answer) /\ editor' = [RevisionShown(Answer.revision) EXCEPT !.draft = Answer.config]
    <3>1. editor'.draft = Answer.config
      BY <1>1, <2>2, ReadbackShown
    <3>2. verifyAfter # 0 /\ Answer.revision = verifyAfter
      BY <2>2 DEF IsExpected
    <3>3. editor.draft = wish.config
      BY <3>2 DEF KeptInv, SaveFlow, Waits, Saving
    <3>4. signals # <<>> /\ signals' = Tail(signals) /\ First.kind = "answer" /\ Answer.outcome = "ok"
      BY <1>2 DEF OnVerified, From
    <3>5. 1 \in DOMAIN signals /\ First = signals[1]
      BY <1>1, <3>4, TailSignals
    <3>6. Told(Answer.revision, Answer.config)
      BY <3>4, <3>5 DEF Told, ToldBy, Ok, Answer
    <3>7. Answer.config = wish.config
      BY <3>2, <3>6 DEF KeptInv, AskedInv, CheckInv
    <3> QED
      BY <3>1, <3>3, <3>7
  <2> QED
    BY <1>2, <2>1, <2>2 DEF OnVerified
<1>3. CASE OnCapabilities \/ OnLoad \/ AnswerNew
  <2>1. Opening
    <3>1. CASE AnswerNew
      BY <3>1 DEF AnswerNew, Opening
    <3>2. CASE OnCapabilities \/ OnLoad
      <4>1. AnswerDue(Openers)
        BY <1>1, <3>2, HandledAnswers DEF OnCapabilities, OnLoad, From, Openers
      <4> QED
        BY <4>1 DEF Opening, Pending
    <3> QED
      BY <1>3, <3>1, <3>2
  <2> QED
    BY <2>1 DEF KeptInv, OpeningInv
<1>4. CASE PressSave(TRUE) \/ PressSave(FALSE) \/ AnswerOverwrite
  <2>1. UNCHANGED editor \/ \E config, run : Save(config, run)
    BY <1>4 DEF PressSave, AnswerOverwrite
  <2>2. ASSUME NEW config, NEW run, Save(config, run) PROVE editor'.draft = editor.draft
    <3>1. (refreshAfter \/ config # editor.draft) \in BOOLEAN
      BY <1>1 DEF EditTypes, WindowTypes
    <3>2. \/ \E b \in BOOLEAN : editor' = [editor EXCEPT !.busy = b]
          \/ \E b, g \in BOOLEAN : editor' = [editor EXCEPT !.busy = b, !.gaveUp = g]
      BY <2>2, <3>1, Zenon DEF Save
    <3> QED
      BY <1>1, <3>2, ReleasedDraft
  <2> QED
    BY <2>1, <2>2
<1>5. CASE AnswerConflict \/ BusyTimeout \/ OnRefresh \/ OnSaveFailed \/ OnEnded
  <2>1. \/ UNCHANGED editor \/ editor' = EditorReleased \/ \E v : editor' = RevisionShown(v)
        \/ \E b \in BOOLEAN : editor' = [editor EXCEPT !.busy = b]
        \/ \E b, g \in BOOLEAN : editor' = [editor EXCEPT !.busy = b, !.gaveUp = g]
    BY <1>1, <1>5 DEF AnswerConflict, BusyTimeout, OnRefresh, OnSaveFailed, OnEnded
  <2>2. CASE UNCHANGED editor \/ editor' = EditorReleased \/ \E v : editor' = RevisionShown(v)
    <3>1. SameDraft(EditorReleased) /\ \A v : SameDraft(RevisionShown(v))
      BY <1>1, EditorFields
    <3> QED
      BY <2>2, <3>1 DEF SameDraft
  <2> QED
    BY <1>1, <2>1, <2>2, ReleasedDraft
<1>6. CASE \/ OtherSaves \/ AnotherCommand \/ LinkGone \/ LinkBack \/ OpenEditor
           \/ StaleSignal \/ OnOther \/ OnNotCapable \/ OnSaved \/ OnConflict
                \/ \E r \in Runtimes : Network(r)
  BY <1>6 DEF OtherSaves, AnotherCommand, LinkGone, LinkBack, OpenEditor, StaleSignal, OnOther, OnNotCapable,
     OnSaved, OnConflict, Network, Request, ThreadEnds
<1>7. CASE CloseEditor
  BY <1>1, <1>7, EditorFields DEF CloseEditor
<1> QED
  BY <1>2, <1>3, <1>4, <1>5, <1>6, <1>7 DEF EditingNext, UserEdits, UserAnswers, HandleSignal

\* What the user has in the C01 editor (testagent_gui.py, CustomConfigDialog) is changed by the
\* user, or by the readback of that very draft, for any number of commands, runtime objects and
\* other PCs' saves: as long as the editor was not released too early and no save was sent while
\* a signal of an earlier command was on its way.
THEOREM DraftIsKept == EditingSpec => DraftKept
<1>1. KeptInv /\ [EditingNext]_editingVars => KeptInv'
  <2>1. CASE EditingNext
    BY <2>1, KeptNext
  <2>2. ASSUME KeptInv, UNCHANGED editingVars PROVE KeptInv'
    <3>1. AskedInv'
      BY <2>2 DEF KeptInv, editingVars, afterVars, sayVars, AskedInv, EditTypes, CommandTypes, WindowTypes,
         FreeRests, EditorShows, EndInv, EndAfter, Busy, ChainInv, EndComes, FactsInv, Told, ToldBy, Ok,
         WishInv, SaveAnswer, CheckInv, RunsWhatWasAsked
    <3>2. OneSave' /\ OpeningInv' /\ SaveFlow'
      BY <2>2 DEF KeptInv, editingVars, afterVars, sayVars, OneSave, OpeningInv, Opening, SaveFlow, Waits,
         Saving, Undisturbed, Pending, Runs, AnswerDue, AnswerOf, Once, SignalDue
    <3> QED
      BY <3>1, <3>2 DEF KeptInv
  <2> QED
    BY <2>1, <2>2
<1>2. KeptInv /\ [EditingNext]_editingVars =>
        [editor.open /\ editor'.open /\ editor'.draft # editor.draft
           => EditDraft \/ editor.gaveUp \/ hurried]_editingVars
  BY DraftStep
<1> QED
  BY <1>1, <1>2, KeptInit, PTL DEF EditingSpec, DraftKept

-----------------------------------------------------------------------------
(***************************************************************************)
(* The App test page: what it shows of the two cloud cases.                *)
(***************************************************************************)

Tellable == {"none", "passed", "failed", "cancelled"}
ProcessStates == [at : {"none", "working", "exited", "killed"}, told : Tellable]
ResultDue == <<"result", "finished">>
ErrorDue == <<"error", "finished">>
EndDue == <<"finished">>
CloudStates == [at : {"off", "created", "spawn", "look", "drain", "decide", "join", "quit", "ended"},
                event : {"none", "clear", "set"}, started : 0..2, alive : BOOLEAN,
                late : {"no", "soon", "yes"}, got : [CloudCases -> Tellable],
                signals : {<<>>, EndDue, ResultDue, ErrorDue}, orphans : BOOLEAN]
PageStates == [runBtn : BOOLEAN, stopBtn : BOOLEAN, cloudStart : BOOLEAN, cloudStop : BOOLEAN,
               badge : {"idle", "starting", "stopping", "running", "over", "failed"},
               label : [CloudCases -> Tellable \cup {"running"}], starts : Nat, closed : BOOLEAN]

PageTypes ==
  cloud \in CloudStates /\ page \in PageStates /\ procs \in [CloudCases -> ProcessStates]

\* How far the watching thread is, and the signals it has on their way.
FarInv ==
  /\ cloud.at = "created" => cloud.started = 0
  /\ cloud.at = "spawn" => cloud.started < 2
  /\ cloud.at \in {"look", "drain", "decide", "join"} => cloud.started = 2
  /\ cloud.at = "quit" <=> cloud.signals # <<>>
  /\ cloud.signals = ErrorDue => cloud.started < 2
  /\ cloud.signals = ResultDue => cloud.started = 2

\* When the thread has seen nobody alive, or is through, no process works.
NoneWorks == \A c \in CloudCases : procs[c].at # "working"
NoneWorksInv ==
  /\ cloud.at \in {"drain", "decide"} /\ ~cloud.alive => NoneWorks
  /\ cloud.at \in {"join", "quit", "ended", "off"} /\ cloud.started = 2 => NoneWorks

\* What may be shown of a case when everything is over.
Truthful(shown, c) ==
  /\ shown = "passed" => procs[c].told = "passed"
  /\ procs[c].told # "none" /\ cloud.late # "yes" => shown = procs[c].told

\* What the thread has got of a process is what that process told, and it is complete unless
\* a process had to be terminated.
GotInv == \A c \in CloudCases :
  /\ cloud.at \in {"decide", "join"} => cloud.got[c] \in {"none", procs[c].told}
  /\ cloud.at = "decide" /\ ~cloud.alive => cloud.got[c] = procs[c].told
  /\ cloud.at = "join" /\ cloud.late # "yes" => cloud.got[c] = procs[c].told
  /\ cloud.signals = ResultDue => Truthful(cloud.got[c], c)
  /\ cloud.started = 2 /\ (cloud.signals = EndDue \/ cloud.at \in {"ended", "off"})
       => Truthful(page.label[c], c)

LabelInv == PageTypes /\ FarInv /\ NoneWorksInv /\ GotInv

LEMMA DueSignals ==
  /\ EndDue # <<>> /\ ResultDue # <<>> /\ ErrorDue # <<>>
  /\ EndDue # ResultDue /\ EndDue # ErrorDue /\ ResultDue # ErrorDue
  /\ Head(EndDue) = "finished" /\ Tail(EndDue) = <<>>
  /\ Head(ResultDue) = "result" /\ Tail(ResultDue) = EndDue
  /\ Head(ErrorDue) = "error" /\ Tail(ErrorDue) = EndDue
  BY DEF EndDue, ResultDue, ErrorDue

LEMMA LabelInit == AppTestInit => LabelInv
<1> SUFFICES ASSUME AppTestInit PROVE LabelInv
  OBVIOUS
<1>1. NoResult \in [CloudCases -> Tellable] /\ NoResult \in [CloudCases -> Tellable \cup {"running"}]
  BY DEF NoResult, Tellable
<1>2. cloud \in CloudStates
  <2>1. 0 \in 0..2
    OBVIOUS
  <2> QED
    BY <1>1, <2>1, Zenon DEF AppTestInit, CloudOff, CloudStates
<1>3. page \in PageStates
  <2>1. 0 \in Nat
    OBVIOUS
  <2> QED
    BY <1>1, <2>1, Zenon DEF AppTestInit, PageStates
<1>4. procs \in [CloudCases -> ProcessStates]
  BY DEF AppTestInit, NotSpawned, ProcessStates, Tellable
<1>5. cloud.at = "off" /\ cloud.started = 0 /\ cloud.signals = <<>>
  BY DEF AppTestInit, CloudOff
<1> QED
  BY <1>2, <1>3, <1>4, <1>5, DueSignals DEF LabelInv, PageTypes, FarInv, NoneWorksInv, GotInv

\* Only the start of the two cases and the handling of their result change the labels.
LabelKept == page' \in PageStates /\ page'.label = page.label

LEMMA PageSteps ==
  ASSUME LabelInv
  PROVE  /\ UNCHANGED page => LabelKept
         /\ StartRun \/ StopRun \/ StopCloud \/ Shutdown \/ CaseSignal \/ CaseFinished \/ CloudFinished
              => LabelKept
<1>1. page \in PageStates
  BY DEF LabelInv, PageTypes
<1>2. UNCHANGED page => LabelKept
  BY <1>1 DEF LabelKept
<1>3. page.starts \in Nat /\ page.starts + 1 \in Nat /\ TRUE \in BOOLEAN /\ FALSE \in BOOLEAN
  BY <1>1 DEF PageStates
<1>4. StartRun => LabelKept
  BY <1>1, <1>3, Zenon DEF StartRun, LabelKept, PageStates
<1>5. StopRun => LabelKept
  BY <1>1, <1>3, Zenon DEF StopRun, LabelKept, PageStates
<1>6. StopCloud => LabelKept
  BY <1>1, <1>3, Zenon DEF StopCloud, LabelKept, PageStates
<1>7. Shutdown => LabelKept
  BY <1>1, <1>3, Zenon DEF Shutdown, LabelKept, PageStates
<1>8. ASSUME CaseSignal PROVE LabelKept
  <2> DEFINE badge == BadgeAfter(Head(caseRun.signals))
  <2>1. page' = [page EXCEPT !.badge = badge]
    BY <1>8 DEF CaseSignal
  <2>2. badge \in {"idle", "starting", "stopping", "running", "over", "failed"}
    BY <1>1 DEF BadgeAfter, PageStates
  <2> HIDE DEF badge
  <2> QED
    BY <1>1, <2>1, <2>2, Zenon DEF LabelKept, PageStates
<1>9. ASSUME CaseFinished PROVE LabelKept
  <2> DEFINE badge == IF page.badge \in {"starting", "stopping"} THEN "idle" ELSE page.badge
  <2>1. page' = [page EXCEPT !.runBtn = TRUE, !.stopBtn = FALSE, !.badge = badge]
    BY <1>9, Zenon DEF CaseFinished
  <2>2. badge \in {"idle", "starting", "stopping", "running", "over", "failed"}
    BY <1>1 DEF PageStates
  <2> HIDE DEF badge
  <2> QED
    BY <1>1, <1>3, <2>1, <2>2, Zenon DEF LabelKept, PageStates
<1>10. CloudFinished => LabelKept
  BY <1>1, <1>3, Zenon DEF CloudFinished, LabelKept, PageStates
<1> QED
  BY <1>2, <1>4, <1>5, <1>6, <1>7, <1>8, <1>9, <1>10

\* A step of the watching thread, and what it needs to know of it.
LEMMA SmallSteps ==
  ASSUME LabelInv, LabelKept, UNCHANGED procs, cloud' \in CloudStates,
         cloud'.at = cloud.at, cloud'.started = cloud.started, cloud'.alive = cloud.alive,
         cloud'.got = cloud.got, cloud'.signals = cloud.signals, cloud.late = "yes" => cloud'.late = "yes"
  PROVE  LabelInv'
<1>1. PageTypes' /\ FarInv' /\ NoneWorksInv'
  BY DEF LabelInv, PageTypes, FarInv, NoneWorksInv, NoneWorks, LabelKept
<1>2. GotInv'
  BY DEF LabelInv, GotInv, Truthful, LabelKept
<1> QED
  BY <1>1, <1>2 DEF LabelInv

LEMMA ProcessSteps ==
  ASSUME LabelInv, NEW c \in CloudCases, ProcessTells(c) \/ ProcessEnds(c)
  PROVE  LabelInv'
<1>1. /\ procs \in [CloudCases -> ProcessStates] /\ cloud \in CloudStates
      /\ procs[c].at = "working" /\ UNCHANGED <<page, cloud>>
  BY DEF LabelInv, PageTypes, ProcessTells, ProcessEnds
<1>2. PICK rec \in ProcessStates : /\ procs' = [procs EXCEPT ![c] = rec]
                                   /\ procs[c].told # "none" => rec.told = procs[c].told
  <2>1. procs[c] \in ProcessStates
    BY <1>1
  <2>2. CASE ProcessEnds(c)
    <3> DEFINE rec == [procs[c] EXCEPT !.at = "exited"]
    <3>1. procs' = [procs EXCEPT ![c] = rec]
      BY <2>2, Zenon DEF ProcessEnds
    <3>2. rec \in ProcessStates /\ rec.told = procs[c].told
      BY <2>1, Zenon DEF ProcessStates
    <3> QED
      BY <3>1, <3>2, Zenon
  <2>3. CASE ProcessTells(c)
    <3>1. PICK status \in Outcomes(cloud.event = "set") : procs' = [procs EXCEPT ![c].told = status]
      BY <2>3 DEF ProcessTells
    <3> DEFINE rec == [procs[c] EXCEPT !.told = status]
    <3>2. procs' = [procs EXCEPT ![c] = rec]
      BY <3>1, Zenon
    <3>3. status \in Tellable
      BY DEF Outcomes, Tellable
    <3>4. rec \in ProcessStates
      BY <2>1, <3>3, Zenon DEF ProcessStates
    <3>5. procs[c].told = "none"
      BY <2>3 DEF ProcessTells
    <3> HIDE DEF rec
    <3> QED
      BY <3>2, <3>4, <3>5
  <2> QED
    BY <2>2, <2>3
<1>3. /\ procs' \in [CloudCases -> ProcessStates]
      /\ \A d \in CloudCases : procs'[d].at = "working" => procs[d].at = "working" \/ d = c
      /\ \A d \in CloudCases : procs[d].told # "none" \/ d # c => procs'[d].told = procs[d].told
  BY <1>1, <1>2
<1>4. ~NoneWorks
  BY <1>1 DEF NoneWorks
<1>5. PageTypes' /\ FarInv' /\ NoneWorksInv'
  BY <1>1, <1>3, <1>4 DEF LabelInv, PageTypes, FarInv, NoneWorksInv
<1>6. /\ cloud.at = "join" => cloud.started = 2 /\ cloud.signals = <<>>
      /\ cloud.signals \in {EndDue, ResultDue} => cloud.at = "quit"
      /\ cloud.signals = ResultDue => cloud.started = 2
      /\ cloud.at = "decide" => cloud.alive
      /\ ~(cloud.at \in {"join", "quit", "ended", "off"} /\ cloud.started = 2)
  BY <1>4, DueSignals DEF LabelInv, FarInv, NoneWorksInv
<1>7. ASSUME NEW d \in CloudCases, cloud.at = "decide" PROVE cloud.got[d] \in {"none", procs'[d].told}
  <2>1. cloud.got[d] \in {"none", procs[d].told}
    BY <1>7 DEF LabelInv, GotInv
  <2> QED
    BY <1>3, <2>1
<1>8. GotInv'
  BY <1>1, <1>6, <1>7 DEF GotInv
<1> QED
  BY <1>5, <1>8 DEF LabelInv

\* The steps of the watching thread, first to last.
LEMMA WatchingSteps == LabelInv /\ WatchProcesses => LabelInv'
<1> SUFFICES ASSUME LabelInv, WatchProcesses PROVE LabelInv'
  OBVIOUS
<1>1. cloud \in CloudStates /\ procs \in [CloudCases -> ProcessStates]
  BY DEF LabelInv, PageTypes
<1>2. /\ cloud.started \in 0..2 /\ cloud.alive \in BOOLEAN /\ cloud.event \in {"none", "clear", "set"}
      /\ cloud.late \in {"no", "soon", "yes"} /\ cloud.got \in [CloudCases -> Tellable]
      /\ cloud.signals \in {<<>>, EndDue, ResultDue, ErrorDue} /\ cloud.orphans \in BOOLEAN
  BY <1>1, Zenon DEF CloudStates
<1>3. LabelKept /\ page' = page
  BY PageSteps DEF WatchProcesses, CloudBegins, SpawnNext, SpawnFails, LookWhoLives, DrainQueue,
     Decide, CloudEnds
<1>4. cloud.at # "quit" => cloud.signals = <<>>
  BY DEF LabelInv, FarInv
<1>5. CASE CloudBegins
  <2>1. cloud' \in CloudStates
    BY <1>1, <1>5, Zenon DEF CloudBegins, CloudStates
  <2>2. /\ cloud'.at = "spawn" /\ cloud'.started = cloud.started /\ cloud'.signals = cloud.signals
    BY <1>1, <1>5, Zenon DEF CloudBegins, CloudStates
  <2>3. cloud.at = "created" /\ UNCHANGED procs /\ cloud.started = 0 /\ cloud.signals = <<>>
    BY <1>4, <1>5 DEF CloudBegins, LabelInv, FarInv
  <2> QED
    BY <1>3, <2>1, <2>2, <2>3, DueSignals DEF LabelInv, PageTypes, LabelKept, FarInv, NoneWorksInv, GotInv
<1>6. CASE SpawnNext
  <2> DEFINE n == cloud.started + 1
             next == IF n = Len(StartOrder) THEN "look" ELSE "spawn"
             d == StartOrder[n]
             rec == [procs[d] EXCEPT !.at = "working"]
  <2>1. cloud.at = "spawn" /\ cloud.signals = <<>> /\ n \in 1..2
    BY <1>2, <1>4, <1>6 DEF SpawnNext, LabelInv, FarInv
  <2>2. Len(StartOrder) = 2 /\ d \in CloudCases
    BY <2>1 DEF StartOrder, CloudCases
  <2>3. cloud' = [cloud EXCEPT !.started = n, !.at = next] /\ procs' = [procs EXCEPT ![d] = rec]
    BY <1>6, Zenon DEF SpawnNext
  <2>4. /\ next \in {"look", "spawn"} /\ n \in 0..2
        /\ next = "spawn" => n < 2
        /\ next = "look" => n = 2
    BY <2>1, <2>2
  <2>5. rec \in ProcessStates
    BY <1>1, <2>2, Zenon DEF ProcessStates
  <2> HIDE DEF n, next, d, rec
  <2>6. cloud' \in CloudStates
    BY <1>1, <2>3, <2>4, Zenon DEF CloudStates
  <2>7. cloud'.at = next /\ cloud'.started = n /\ cloud'.signals = cloud.signals
    BY <1>1, <2>3, Zenon DEF CloudStates
  <2>8. procs' \in [CloudCases -> ProcessStates]
    BY <1>1, <2>2, <2>3, <2>5
  <2> QED
    BY <1>3, <2>1, <2>4, <2>6, <2>7, <2>8, DueSignals
       DEF LabelInv, PageTypes, LabelKept, FarInv, NoneWorksInv, GotInv
<1>7. CASE SpawnFails
  <2>1. cloud' = [cloud EXCEPT !.at = "quit", !.signals = ErrorDue, !.orphans = cloud.started > 0]
    BY <1>7, Zenon DEF SpawnFails, ErrorDue
  <2>2. (cloud.started > 0) \in BOOLEAN
    OBVIOUS
  <2>3. cloud' \in CloudStates
    BY <1>1, <2>1, <2>2, Zenon DEF CloudStates
  <2>4. cloud'.at = "quit" /\ cloud'.signals = ErrorDue /\ cloud'.started = cloud.started
    BY <1>1, <2>1, Zenon DEF CloudStates
  <2>5. cloud.started < 2 /\ cloud.started # 2 /\ UNCHANGED procs
    BY <1>2, <1>7 DEF SpawnFails, LabelInv, FarInv
  <2> QED
    BY <1>3, <2>3, <2>4, <2>5, DueSignals DEF LabelInv, PageTypes, LabelKept, FarInv, NoneWorksInv, GotInv
<1>8. CASE LookWhoLives
  <2> DEFINE alive == \E c \in CloudCases : procs[c].at = "working"
  <2>1. cloud' = [cloud EXCEPT !.at = "drain", !.alive = alive]
    BY <1>8, Zenon DEF LookWhoLives
  <2>2. alive \in BOOLEAN
    OBVIOUS
  <2>3. ~alive => NoneWorks
    BY DEF NoneWorks
  <2> HIDE DEF alive
  <2>4. cloud' \in CloudStates
    BY <1>1, <2>1, <2>2, Zenon DEF CloudStates
  <2>5. cloud'.at = "drain" /\ cloud'.alive = alive /\ cloud'.signals = cloud.signals
       /\ cloud'.started = cloud.started
    BY <1>1, <2>1, Zenon DEF CloudStates
  <2>6. cloud.at = "look" /\ cloud.signals = <<>> /\ cloud.started = 2 /\ UNCHANGED procs
    BY <1>4, <1>8 DEF LookWhoLives, LabelInv, FarInv
  <2>7. NoneWorksInv'
    BY <2>3, <2>5, <2>6 DEF NoneWorksInv, NoneWorks
  <2> QED
    BY <1>3, <2>4, <2>5, <2>6, <2>7, DueSignals DEF LabelInv, PageTypes, LabelKept, FarInv, GotInv
<1>9. CASE DrainQueue
  <2> DEFINE told == [c \in CloudCases |-> procs[c].told]
  <2>1. cloud' = [cloud EXCEPT !.at = "decide", !.got = told]
    BY <1>9, Zenon DEF DrainQueue
  <2>2. told \in [CloudCases -> Tellable] /\ \A c \in CloudCases : told[c] = procs[c].told
    BY <1>1 DEF ProcessStates
  <2> HIDE DEF told
  <2>3. cloud' \in CloudStates
    BY <1>1, <2>1, <2>2, Zenon DEF CloudStates
  <2>4. /\ cloud'.at = "decide" /\ cloud'.got = told /\ cloud'.alive = cloud.alive
        /\ cloud'.signals = cloud.signals /\ cloud'.started = cloud.started
    BY <1>1, <2>1, Zenon DEF CloudStates
  <2>5. cloud.at = "drain" /\ cloud.signals = <<>> /\ cloud.started = 2 /\ UNCHANGED procs
    BY <1>4, <1>9 DEF DrainQueue, LabelInv, FarInv
  <2>6. NoneWorksInv'
    BY <2>4, <2>5 DEF LabelInv, NoneWorksInv, NoneWorks
  <2>7. GotInv'
    BY <2>2, <2>4, <2>5, DueSignals DEF GotInv
  <2> QED
    BY <1>3, <2>3, <2>4, <2>5, <2>6, <2>7, DueSignals DEF LabelInv, PageTypes, LabelKept, FarInv
<1>10. CASE Decide
  <2>1. cloud.at = "decide" /\ cloud.signals = <<>> /\ cloud.started = 2
    BY <1>4, <1>10 DEF Decide, LabelInv, FarInv
  <2> DEFINE joined == [cloud EXCEPT !.at = "join"]
  <2>2. joined \in CloudStates
    BY <1>1, Zenon DEF CloudStates
  <2>3. /\ joined.at = "join" /\ joined.got = cloud.got /\ joined.late = cloud.late
        /\ joined.signals = cloud.signals /\ joined.started = cloud.started
    BY <1>1, Zenon DEF CloudStates
  <2>4. CASE ~cloud.alive
    <3>1. cloud' = joined /\ UNCHANGED procs
      BY <1>10, <2>4 DEF Decide, Over
    <3> HIDE DEF joined
    <3>2. NoneWorks /\ NoneWorks'
      BY <2>1, <2>4, <3>1 DEF LabelInv, NoneWorksInv, NoneWorks
    <3>3. GotInv'
      BY <2>1, <2>3, <2>4, <3>1, DueSignals DEF LabelInv, GotInv
    <3> QED
      BY <1>3, <2>1, <2>2, <2>3, <3>1, <3>2, <3>3, DueSignals DEF LabelInv, PageTypes, LabelKept,
         FarInv, NoneWorksInv
  <2>5. CASE cloud.alive /\ cloud.event = "set" /\ cloud.late = "yes"
    <3> DEFINE killed(c) == [procs[c] EXCEPT !.at = "killed"]
    <3>1. /\ cloud' = joined
          /\ procs' = [c \in CloudCases |-> IF procs[c].at = "working" THEN killed(c) ELSE procs[c]]
      BY <1>10, <2>5, Zenon DEF Decide, Over
    <3>2. \A c \in CloudCases :
            killed(c) \in ProcessStates /\ killed(c).at = "killed" /\ killed(c).told = procs[c].told
      BY <1>1, Zenon DEF ProcessStates
    <3> HIDE DEF joined, killed
    <3>3. /\ procs' \in [CloudCases -> ProcessStates]
          /\ \A c \in CloudCases : procs'[c].at # "working" /\ procs'[c].told = procs[c].told
      BY <1>1, <3>1, <3>2
    <3>4. NoneWorks'
      BY <3>3 DEF NoneWorks
    <3>5. GotInv'
      BY <2>1, <2>3, <2>5, <3>1, <3>3, DueSignals DEF LabelInv, GotInv
    <3> QED
      BY <1>3, <2>1, <2>2, <2>3, <3>1, <3>3, <3>4, <3>5, DueSignals
         DEF LabelInv, PageTypes, LabelKept, FarInv, NoneWorksInv
  <2>6. CASE cloud.alive /\ ~(cloud.event = "set" /\ cloud.late = "yes")
    <3> DEFINE late == IF cloud.event = "set" /\ cloud.late = "no" THEN "soon" ELSE cloud.late
    <3>1. cloud' = [cloud EXCEPT !.at = "look", !.late = late] /\ UNCHANGED procs
      BY <1>10, <2>6, Zenon DEF Decide
    <3>2. late \in {"no", "soon", "yes"}
      BY <1>2
    <3> HIDE DEF late
    <3>3. cloud' \in CloudStates
      BY <1>1, <3>1, <3>2, Zenon DEF CloudStates
    <3>4. cloud'.at = "look" /\ cloud'.signals = cloud.signals /\ cloud'.started = cloud.started
      BY <1>1, <3>1, Zenon DEF CloudStates
    <3> QED
      BY <1>3, <2>1, <3>1, <3>3, <3>4, DueSignals DEF LabelInv, PageTypes, LabelKept, FarInv,
         NoneWorksInv, GotInv
  <2> QED
    BY <2>4, <2>5, <2>6
<1>11. CASE CloudEnds
  <2> DEFINE missing == IF cloud.event = "set" THEN "cancelled" ELSE "failed"
             results == [c \in CloudCases |-> IF cloud.got[c] = "none" THEN missing ELSE cloud.got[c]]
  <2>1. cloud' = [cloud EXCEPT !.at = "quit", !.signals = ResultDue, !.got = results]
    BY <1>11, Zenon DEF CloudEnds, ResultDue
  <2>2. missing \in Tellable /\ missing # "passed"
    BY DEF Tellable
  <2>3. /\ results \in [CloudCases -> Tellable]
        /\ \A c \in CloudCases : results[c] = IF cloud.got[c] = "none" THEN missing ELSE cloud.got[c]
    BY <1>2, <2>2
  <2> HIDE DEF missing, results
  <2>4. cloud' \in CloudStates
    BY <1>1, <2>1, <2>3, Zenon DEF CloudStates
  <2>5. /\ cloud'.at = "quit" /\ cloud'.signals = ResultDue /\ cloud'.got = results
        /\ cloud'.started = cloud.started /\ cloud'.late = cloud.late
    BY <1>1, <2>1, Zenon DEF CloudStates
  <2>6. cloud.at = "join" /\ cloud.started = 2 /\ UNCHANGED procs /\ NoneWorks
    BY <1>11 DEF CloudEnds, LabelInv, FarInv, NoneWorksInv
  <2>7. ASSUME NEW c \in CloudCases PROVE Truthful(results[c], c)
    <3>1. cloud.got[c] \in {"none", procs[c].told} /\ (cloud.late # "yes" => cloud.got[c] = procs[c].told)
      BY <2>6 DEF LabelInv, GotInv
    <3> QED
      BY <2>2, <2>3, <3>1 DEF Truthful
  <2>8. GotInv'
    BY <2>5, <2>6, <2>7, DueSignals DEF GotInv, Truthful
  <2> QED
    BY <1>3, <2>4, <2>5, <2>6, <2>8, DueSignals DEF LabelInv, PageTypes, LabelKept, FarInv,
       NoneWorksInv, NoneWorks
<1> QED
  BY <1>5, <1>6, <1>7, <1>8, <1>9, <1>10, <1>11 DEF WatchProcesses

LEMMA LabelNext == LabelInv /\ AppTestNext => LabelInv'
<1> SUFFICES ASSUME LabelInv, AppTestNext PROVE LabelInv'
  OBVIOUS
<1>1. cloud \in CloudStates /\ procs \in [CloudCases -> ProcessStates] /\ page \in PageStates
  BY DEF LabelInv, PageTypes
<1>2. CASE StartRun \/ OneCase \/ CaseToPage
  <2>1. LabelKept /\ UNCHANGED <<cloud, procs>>
    BY <1>2, PageSteps DEF StartRun, OneCase, CaseBegins, CaseReports, CaseEnds, CaseToPage,
       CaseSignal, CaseFinished
  <2> QED
    BY <1>1, <2>1, SmallSteps
<1>3. CASE StopRun
  BY <1>1, <1>3, PageSteps, SmallSteps DEF StopRun
<1>4. CASE StopCloud \/ Shutdown
  <2>1. LabelKept /\ UNCHANGED procs /\ cloud' \in {cloud, Cancelled(cloud)}
    BY <1>4, PageSteps DEF StopCloud, Shutdown
  <2> DEFINE event == IF cloud.event = "none" THEN "none" ELSE "set"
             asked == [cloud EXCEPT !.event = event]
  <2>2. Cancelled(cloud) = asked /\ event \in {"none", "clear", "set"}
    BY Zenon DEF Cancelled
  <2> HIDE DEF event
  <2>3. asked \in CloudStates
    BY <1>1, <2>2, Zenon DEF CloudStates
  <2>4. /\ asked.at = cloud.at /\ asked.started = cloud.started /\ asked.alive = cloud.alive
        /\ asked.got = cloud.got /\ asked.signals = cloud.signals /\ asked.late = cloud.late
    BY <1>1, Zenon DEF CloudStates
  <2> HIDE DEF asked
  <2> QED
    BY <1>1, <2>1, <2>2, <2>3, <2>4, SmallSteps
<1>5. CASE StopDeadline
  <2>1. cloud' = [cloud EXCEPT !.late = "yes"] /\ UNCHANGED <<page, procs>>
    BY <1>5 DEF StopDeadline
  <2>2. cloud' \in CloudStates
    BY <1>1, <2>1, Zenon DEF CloudStates
  <2>3. /\ cloud'.at = cloud.at /\ cloud'.started = cloud.started /\ cloud'.alive = cloud.alive
        /\ cloud'.got = cloud.got /\ cloud'.signals = cloud.signals /\ cloud'.late = "yes"
    BY <1>1, <2>1, Zenon DEF CloudStates
  <2>4. LabelKept
    BY <2>1, PageSteps
  <2> QED
    BY <2>1, <2>2, <2>3, <2>4, SmallSteps
<1>6. CASE CloudProcess
  BY <1>6, ProcessSteps DEF CloudProcess
<1>7. CASE WatchProcesses
  BY <1>7, WatchingSteps
<1>8. CASE StartCloud
  <2> DEFINE running == [c \in CloudCases |-> "running"]
  <2>1. /\ cloud' = [CloudOff EXCEPT !.at = "created"] /\ procs' = NotSpawned
        /\ page' = [page EXCEPT !.cloudStart = FALSE, !.cloudStop = TRUE, !.starts = page.starts + 1,
                                !.label = running]
    BY <1>8, Zenon DEF StartCloud
  <2>2. running \in [CloudCases -> Tellable \cup {"running"}] /\ page.starts + 1 \in Nat
        /\ TRUE \in BOOLEAN /\ FALSE \in BOOLEAN
    BY <1>1 DEF PageStates
  <2> HIDE DEF running
  <2>3. page' \in PageStates
    BY <1>1, <2>1, <2>2, Zenon DEF PageStates
  <2>4. CloudOff \in CloudStates
    <3>1. NoResult \in [CloudCases -> Tellable] /\ 0 \in 0..2
      BY DEF NoResult, Tellable
    <3> QED
      BY <3>1, Zenon DEF CloudOff, CloudStates
  <2>5. cloud' \in CloudStates
    BY <2>1, <2>4, Zenon DEF CloudStates
  <2>6. cloud'.at = "created" /\ cloud'.started = CloudOff.started /\ cloud'.signals = CloudOff.signals
    BY <2>1, <2>4, Zenon DEF CloudStates
  <2>7. CloudOff.started = 0 /\ CloudOff.signals = <<>>
    BY DEF CloudOff
  <2>8. procs' \in [CloudCases -> ProcessStates]
    BY <2>1 DEF NotSpawned, ProcessStates, Tellable
  <2> QED
    BY <2>3, <2>5, <2>6, <2>7, <2>8, DueSignals DEF LabelInv, PageTypes, FarInv, NoneWorksInv, GotInv
<1>9. CASE CloudSignal
  <2> DEFINE signal == Head(cloud.signals)
             at == IF signal = "finished" THEN "ended" ELSE cloud.at
             rest == Tail(cloud.signals)
  <2>1. /\ cloud' = [cloud EXCEPT !.signals = rest, !.at = at] /\ UNCHANGED procs
        /\ page' = CASE signal = "result" -> [page EXCEPT !.label = cloud.got]
                     [] signal = "error" -> [page EXCEPT !.badge = "failed"]
                     [] OTHER -> page
    BY <1>9, Zenon DEF CloudSignal
  <2>2. /\ cloud.at = "quit" /\ cloud.signals \in {EndDue, ResultDue, ErrorDue}
        /\ cloud.got \in [CloudCases -> Tellable] /\ cloud.started \in 0..2
        /\ cloud.got \in [CloudCases -> Tellable \cup {"running"}]
    BY <1>1, <1>9 DEF CloudSignal, LabelInv, FarInv, CloudStates
  <2>3. /\ cloud.signals = EndDue => signal = "finished" /\ at = "ended" /\ rest = <<>>
        /\ cloud.signals = ResultDue => signal = "result" /\ at = "quit" /\ rest = EndDue
        /\ cloud.signals = ErrorDue => signal = "error" /\ at = "quit" /\ rest = EndDue
    BY <2>2, DueSignals
  <2>4. at \in {"quit", "ended"} /\ rest \in {<<>>, EndDue}
    BY <2>2, <2>3
  <2> HIDE DEF at, rest
  <2>5. cloud' \in CloudStates
    BY <1>1, <2>1, <2>4, Zenon DEF CloudStates
  <2>6. /\ cloud'.at = at /\ cloud'.signals = rest /\ cloud'.started = cloud.started
        /\ cloud'.got = cloud.got /\ cloud'.late = cloud.late
    BY <1>1, <2>1, Zenon DEF CloudStates
  <2>7. page' \in PageStates /\ page'.label = IF signal = "result" THEN cloud.got ELSE page.label
    <3>1. CASE signal = "result"
      <4>1. page' = [page EXCEPT !.label = cloud.got]
        BY <2>1, <3>1
      <4>2. page' \in PageStates /\ page'.label = cloud.got
        BY <1>1, <2>2, <4>1, Zenon DEF PageStates
      <4> QED
        BY <3>1, <4>2
    <3>2. CASE signal = "error"
      <4>1. page' = [page EXCEPT !.badge = "failed"]
        BY <2>1, <3>2
      <4>2. page' \in PageStates /\ page'.label = page.label
        BY <1>1, <4>1, Zenon DEF PageStates
      <4> QED
        BY <3>2, <4>2
    <3>3. CASE signal = "finished"
      BY <1>1, <2>1, <3>3
    <3> QED
      BY <2>2, <2>3, <3>1, <3>2, <3>3
  <2> HIDE DEF signal
  <2>8. FarInv' /\ NoneWorksInv'
    BY <2>1, <2>2, <2>3, <2>6, DueSignals DEF LabelInv, FarInv, NoneWorksInv, NoneWorks
  <2>9. ASSUME NEW c \in CloudCases, cloud.started = 2 PROVE Truthful(page'.label[c], c)
    <3>1. CASE cloud.signals = ResultDue
      BY <2>3, <2>7, <3>1, DueSignals DEF LabelInv, GotInv
    <3>2. CASE cloud.signals = EndDue
      BY <2>3, <2>7, <2>9, <3>2, DueSignals DEF LabelInv, GotInv
    <3> QED
      BY <2>2, <2>9, <3>1, <3>2 DEF LabelInv, FarInv
  <2>10. GotInv'
    BY <2>1, <2>4, <2>6, <2>9, DueSignals DEF GotInv, Truthful
  <2> QED
    BY <1>1, <2>1, <2>5, <2>7, <2>8, <2>10 DEF LabelInv, PageTypes
<1>10. CASE CloudFinished
  <2>1. cloud' = [cloud EXCEPT !.at = "off"] /\ UNCHANGED procs /\ cloud.at = "ended"
    BY <1>10 DEF CloudFinished
  <2>2. cloud' \in CloudStates
    BY <1>1, <2>1, Zenon DEF CloudStates
  <2>3. /\ cloud'.at = "off" /\ cloud'.started = cloud.started /\ cloud'.signals = cloud.signals
        /\ cloud'.got = cloud.got /\ cloud'.late = cloud.late
    BY <1>1, <2>1, Zenon DEF CloudStates
  <2>4. LabelKept
    BY <1>10, PageSteps
  <2>5. FarInv' /\ NoneWorksInv'
    BY <2>1, <2>3 DEF LabelInv, FarInv, NoneWorksInv, NoneWorks
  <2>6. GotInv'
    BY <2>1, <2>3, <2>4 DEF LabelInv, GotInv, Truthful, LabelKept
  <2> QED
    BY <1>1, <2>1, <2>2, <2>4, <2>5, <2>6 DEF LabelInv, PageTypes, LabelKept
<1> QED
  BY <1>2, <1>3, <1>4, <1>5, <1>6, <1>7, <1>8, <1>9, <1>10 DEF AppTestNext, ClicksOnPage, CloudToPage

\* What the page shows of a cloud case is what its process told (apptest_page.py,
\* ConcurrentCloudWorker.run and _on_cloud_result), however its telling, its end, the polling
\* and the stop interleave, and for any number of runs.
THEOREM LabelsAreTold == AppTestSpec => []CloudLabelsTrue
<1>1. LabelInv /\ [AppTestNext]_appTestVars => LabelInv'
  <2>1. CASE AppTestNext
    BY <2>1, LabelNext
  <2>2. ASSUME LabelInv, UNCHANGED appTestVars PROVE LabelInv'
    BY <2>2 DEF appTestVars, LabelInv, PageTypes, FarInv, NoneWorksInv, NoneWorks, GotInv, Truthful
  <2> QED
    BY <2>1, <2>2
<1>2. LabelInv => CloudLabelsTrue
  <2> SUFFICES ASSUME LabelInv, cloud.at = "off", cloud.started = Len(StartOrder), NEW c \in CloudCases
               PROVE  /\ page.label[c] = "passed" => procs[c].told = "passed"
                      /\ procs[c].told # "none" /\ cloud.late # "yes" => page.label[c] = procs[c].told
    BY DEF CloudLabelsTrue
  <2>1. cloud.started = 2
    BY DEF StartOrder
  <2> QED
    BY <2>1 DEF LabelInv, GotInv, Truthful
<1> QED
  BY <1>1, <1>2, LabelInit, PTL DEF AppTestSpec
=============================================================================
