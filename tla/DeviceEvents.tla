----------------------------- MODULE DeviceEvents -----------------------------
(***************************************************************************)
(* The event streams of the device's HTTP interface (P2PClient) and the    *)
(* authorization of case5 that waits for one of them: activation in the    *)
(* cloud, challenge, the user's confirmation on the device, the token and  *)
(* a protected request.  Next to it the iterator of business events, which *)
(* connects again when its stream is dropped.                              *)
(*                                                                         *)
(* A block of lines is an event, or only comments: those keep a connection *)
(* open and make no event.  Time is counted in ticks; a connection that is *)
(* not made within its timeout, and a read that has had nothing for the    *)
(* read timeout, raise before anything else happens.                       *)
(***************************************************************************)
EXTENDS Naturals

CONSTANTS
  AuthRounds,       \* iterations of case5
  AuthTimeout,      \* auth_wait_timeout_seconds, and the read timeout of that stream
  ConnectTimeout,   \* the connect timeout of that stream: timeout_seconds of the client
  Activations,      \* attempts of the cloud client
  MaxReconnects,    \* max_reconnect_attempts
  LastEvent         \* bound on the ids of business events, for TLC only

ASSUME DeviceEventsAssumption ==
  /\ AuthRounds \in Nat \ {0} /\ AuthTimeout \in Nat \ {0} /\ ConnectTimeout \in Nat \ {0}
  /\ Activations \in Nat \ {0}
  /\ MaxReconnects \in Nat /\ LastEvent \in Nat

VARIABLES
  auth,       \* case5: iteration, place, attempts, whether it is being cancelled
  wait,       \* wait_for_auth_confirmation: ticks since its start and of the present
              \* silence, and whether a silence was broken by something that was no event
  feed,       \* open_device_events: place, reconnects, Last-Event-ID
  camera,     \* the device: last business event, going down
  seen5       \* history: confirmations and proofs for case5; connections of the feed, and
              \* those after a power event

eventVars == <<auth, wait, feed, camera, seen5>>

NotWaiting == [now |-> 0, quiet |-> 0, kept |-> FALSE]

\* The wait: for the connection, for the headers of the response, for events.
Waiting == {"connect", "headers", "events"}
Longest == ConnectTimeout + 2 * AuthTimeout
Ticks(n) == IF n > Longest THEN n ELSE n + 1                   \* the clock, up to its bound

-----------------------------------------------------------------------------
(* case5: one iteration, up to the wait.                                   *)

Case5Fails == auth' = [auth EXCEPT !.at = "failed"]

\* The POST is repeated after no connection, 502, 503 and 504, also when it has done its work
\* and only the answer was lost; cancellation is looked at before the first attempt only.  Of
\* an answer that succeeds the field "activated" is taken, or the words "already" or
\* "activated" anywhere in its message, "not activated" included: whether the device is
\* activated does not follow.
Activate ==
  /\ auth.at = "activate"
  /\ IF auth.cancel /\ auth.attempt = 1 THEN auth' = [auth EXCEPT !.at = "cancelled"]
     ELSE \/ auth.attempt < Activations /\ auth' = [auth EXCEPT !.attempt = @ + 1]
          \/ auth' = [auth EXCEPT !.at = "challenge", !.attempt = 1]
          \/ Case5Fails
  /\ UNCHANGED <<wait, feed, camera, seen5>>

\* The second raise_if_cancelled, then the challenge: a status that is no success, or no
\* session in the answer, fails the case.  The deadline of the wait is set before the stream
\* is opened, on the connection of the challenge if that is still there.
Challenge ==
  /\ auth.at = "challenge"
  /\ \/ auth.cancel /\ auth' = [auth EXCEPT !.at = "cancelled"] /\ UNCHANGED wait
     \/ /\ ~auth.cancel /\ wait' = NotWaiting
        /\ \E at \in {"connect", "headers"} : auth' = [auth EXCEPT !.at = at]
     \/ ~auth.cancel /\ Case5Fails /\ UNCHANGED wait
  /\ UNCHANGED <<feed, camera, seen5>>

CancelCase5 ==
  /\ auth.at \in Waiting \cup {"activate", "challenge", "token", "heartbeat"} /\ ~auth.cancel
  /\ auth' = [auth EXCEPT !.cancel = TRUE] /\ UNCHANGED <<wait, feed, camera, seen5>>

-----------------------------------------------------------------------------
(* wait_for_auth_confirmation.  Nothing in it looks at the cancellation.   *)

\* _sse_timeout.  The request itself is short, and nobody else uses the client's pool.
Patience == IF auth.at = "connect" THEN ConnectTimeout ELSE AuthTimeout
Listening == auth.at \in Waiting /\ wait.quiet < Patience

Tick ==
  /\ Listening
  /\ wait' = [wait EXCEPT !.now = Ticks(@), !.quiet = @ + 1]
  /\ UNCHANGED <<auth, feed, camera, seen5>>

WaitTimesOut ==
  /\ auth.at \in Waiting /\ wait.quiet = Patience
  /\ Case5Fails /\ UNCHANGED <<wait, feed, camera, seen5>>

Connected ==
  /\ auth.at = "connect" /\ Listening
  /\ auth' = [auth EXCEPT !.at = "headers"] /\ wait' = [wait EXCEPT !.quiet = 0]
  /\ UNCHANGED <<feed, camera, seen5>>

\* The headers of a success; the deadline is not looked at.
Opened ==
  /\ auth.at = "headers" /\ Listening
  /\ auth' = [auth EXCEPT !.at = "events"] /\ wait' = [wait EXCEPT !.quiet = 0]
  /\ UNCHANGED <<feed, camera, seen5>>

\* A comment, or a part of the headers or of an event: each read has its own timeout.
KeptAlive ==
  /\ auth.at \in {"headers", "events"} /\ Listening
  /\ wait' = [wait EXCEPT !.quiet = 0, !.kept = TRUE]
  /\ UNCHANGED <<auth, feed, camera, seen5>>

\* Mutant: the deadline is left to the read timeout.
OtherEventOnly ==
  /\ auth.at = "events" /\ Listening
  /\ UNCHANGED auth /\ wait' = [wait EXCEPT !.quiet = 0]
  /\ UNCHANGED <<feed, camera, seen5>>

\* The deadline is looked at after an event, and only if it is not the one waited for.
OtherEvent ==
  /\ auth.at = "events" /\ Listening
  /\ IF wait.now >= AuthTimeout THEN Case5Fails /\ UNCHANGED wait
     ELSE UNCHANGED auth /\ wait' = [wait EXCEPT !.quiet = 0]
  /\ UNCHANGED <<feed, camera, seen5>>

Confirmed ==
  /\ auth.at = "events" /\ Listening
  /\ auth' = [auth EXCEPT !.at = "token"]
  /\ seen5' = [seen5 EXCEPT !.confirmed = @ + 1]
  /\ UNCHANGED <<wait, feed, camera>>

\* No connection, a status that is no success, auth_rejected, a stream closed or broken.
NotConfirmed ==
  /\ Listening
  /\ Case5Fails /\ UNCHANGED <<wait, feed, camera, seen5>>

WaitForConfirmation ==
  Tick \/ WaitTimesOut \/ Connected \/ Opened \/ KeptAlive \/ OtherEvent \/ Confirmed \/ NotConfirmed

-----------------------------------------------------------------------------
(* case5: the token, the protected request and the end of the iteration.   *)

PostAuth ==
  /\ auth.at = "token"
  /\ \/ auth' = [auth EXCEPT !.at = "heartbeat"]
     \/ Case5Fails
  /\ UNCHANGED <<wait, feed, camera, seen5>>

\* Only HTTP 200 with code 0 and a valid field "online" is a proof.
Heartbeat ==
  /\ auth.at = "heartbeat"
  /\ \/ /\ auth' = IF auth.round < AuthRounds THEN [auth EXCEPT !.round = @ + 1, !.at = "activate"]
                   ELSE [auth EXCEPT !.at = "passed"]
        /\ seen5' = [seen5 EXCEPT !.proved = @ + 1]
     \/ Case5Fails /\ UNCHANGED seen5
  /\ UNCHANGED <<wait, feed, camera>>

Case5 == Activate \/ Challenge \/ CancelCase5 \/ WaitForConfirmation \/ PostAuth \/ Heartbeat

-----------------------------------------------------------------------------
(* open_device_events.                                                     *)

\* The stream was closed, or a request failed: another connection, after the delay.  The
\* count of reconnects is never set back.
Dropped ==
  feed' = IF feed.reconnects < MaxReconnects
          THEN [feed EXCEPT !.at = "connect", !.reconnects = @ + 1]
          ELSE [feed EXCEPT !.at = "exhausted", !.reconnects = @ + 1]

\* A status that is no success is raised; the device, when it answers, sends its present
\* state first.
FeedConnect ==
  /\ feed.at = "connect"
  /\ \/ ~camera.down /\ feed' = [feed EXCEPT !.at = "reading"]
     \/ ~camera.down /\ feed' = [feed EXCEPT !.at = "raised"]
     \/ Dropped
  /\ seen5' = [seen5 EXCEPT !.connections = @ + 1, !.afterPower = @ \/ seen5.power]
  /\ UNCHANGED <<auth, wait, camera>>

\* An event with an id, which becomes the cursor before it is yielded.
FeedEvent ==
  /\ feed.at = "reading" /\ ~camera.down /\ camera.last < LastEvent
  /\ camera' = [camera EXCEPT !.last = @ + 1]
  /\ feed' = [feed EXCEPT !.cursor = camera.last + 1]
  /\ UNCHANGED <<auth, wait, seen5>>

FeedDropped ==
  /\ feed.at = "reading" /\ Dropped
  /\ UNCHANGED <<auth, wait, camera, seen5>>

\* The device goes down; the last line it sends may arrive or not.
GoesDown ==
  /\ ~camera.down /\ camera' = [camera EXCEPT !.down = TRUE]
  /\ UNCHANGED <<auth, wait, feed, seen5>>

FeedPower ==
  /\ feed.at = "reading" /\ camera.down
  /\ feed' = [feed EXCEPT !.at = "ended"]
  /\ seen5' = [seen5 EXCEPT !.power = TRUE]
  /\ UNCHANGED <<auth, wait, camera>>

ComesBack ==
  /\ camera.down /\ camera' = [camera EXCEPT !.down = FALSE]
  /\ UNCHANGED <<auth, wait, feed, seen5>>

Feed == FeedConnect \/ FeedEvent \/ FeedDropped \/ FeedPower

-----------------------------------------------------------------------------

DeviceEventsInit ==
  /\ auth = [round |-> 1, at |-> "activate", attempt |-> 1, cancel |-> FALSE]
  /\ wait = NotWaiting
  /\ feed = [at |-> "connect", reconnects |-> 0, cursor |-> 0]
  /\ camera = [last |-> 0, down |-> FALSE]
  /\ seen5 = [confirmed |-> 0, proved |-> 0,
              connections |-> 0, power |-> FALSE, afterPower |-> FALSE]

DeviceEventsNext == Case5 \/ Feed \/ GoesDown \/ ComesBack

DeviceEventsSpec == DeviceEventsInit /\ [][DeviceEventsNext]_eventVars

-----------------------------------------------------------------------------
(* Properties.                                                             *)

\* The wait for the user's confirmation lasts no longer than the connect timeout and twice
\* its own, in whichever phase it is and however many other events arrive, unless something
\* that is no event keeps the reads alive: the deadline runs from before the connection, and
\* only an event lets the code look at it.
WaitBounded == auth.at \in Waiting /\ ~wait.kept => wait.now <= Longest

\* After a power event the iterator opens no connection, and it never opens more than one
\* and MaxReconnects of them.
ReconnectsBounded == ~seen5.afterPower /\ seen5.connections <= MaxReconnects + 1

\* A case5 that passes was confirmed by the user and proved by a protected request once for
\* each iteration, whatever was cancelled, repeated or lost meanwhile.
AuthorizedInFull == auth.at = "passed" => seen5.confirmed = AuthRounds /\ seen5.proved = AuthRounds

\* The three promises of this module in one.
StreamsAndAuth == WaitBounded /\ ReconnectsBounded /\ AuthorizedInFull
================================================================================
