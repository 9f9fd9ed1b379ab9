---------------------------- MODULE DeviceLinks_proofs ----------------------------
(***************************************************************************)
(* What holds of the links, of configure_device and of request_device for  *)
(* any adapters, addresses and threads: the locks, what the device gets of *)
(* a command (RemoteCall), what the link file says is configured, and the  *)
(* links a discovery returns.                                              *)
(***************************************************************************)
EXTENDS DeviceLinks, TLAPS

USE DeviceLinksAssumption

-----------------------------------------------------------------------------
(* Threads and locks.                                                      *)

ConfigurePlaces == {"idle", "lock", "probe", "set", "verify", "save"}
CallPlaces == {"idle", "lock", "locked", "want", "got", "open", "sent", "done"}

LockTypes ==
  /\ linkLock \in [Adapters -> Threads \cup {Free}]
  /\ requestLock \in Callers \cup {Free}
  /\ at \in [Threads -> ConfigurePlaces \cup CallPlaces]
  /\ \A w \in Configurers : at[w] \in ConfigurePlaces
  /\ \A c \in Callers : at[c] \in CallPlaces
  /\ DOMAIN link = Threads
  /\ \A w \in Threads : at[w] \notin {"idle", "done"} => Adapter(w) \in Adapters

\* Whoever is past "lock" owns the lock of its link, and whoever is past "want" the
\* request lock as well.
OwnersKnown ==
  /\ \A w \in Threads : at[w] \notin {"idle", "lock", "done"} => linkLock[Adapter(w)] = w
  /\ \A c \in Callers : at[c] \in {"got", "open", "sent"} => requestLock = c

LockInv == LockTypes /\ OwnersKnown /\ NoLockLeftBehind

LEMMA ThreadKinds == Free \notin Threads /\ \A w \in Configurers, c \in Callers : w # c
BY DEF Threads

\* What a thread does to the locks leaves the invariant alone when it changes neither a
\* place, nor a link, nor a lock.
LEMMA LocksUntouched ==
  ASSUME LockInv, UNCHANGED <<linkLock, requestLock, at, link>>
  PROVE  LockInv'
BY DEF LockInv, LockTypes, OwnersKnown, NoLockLeftBehind, Adapter

LEMMA InitLockInv == LinksInit => LockInv
BY DEF LinksInit, LockInv, LockTypes, OwnersKnown, NoLockLeftBehind, Threads, ConfigurePlaces,
       CallPlaces

LEMMA ConfigureLockInv ==
  ASSUME LockInv, NEW w \in Configurers, Configure(w)
  PROVE  LockInv'
<1> USE ThreadKinds DEF LockInv, LockTypes, OwnersKnown, NoLockLeftBehind, Threads, ConfigurePlaces,
        CallPlaces, Adapter
<1>1. ASSUME NEW a \in Adapters, ConfigureBegin(w, a) PROVE LockInv'
  BY <1>1 DEF ConfigureBegin, Goto
<1>2. CASE ConfigureLoad(w)
  BY <1>2 DEF ConfigureLoad, Goto, TakeLink, LockFree
<1>3. CASE Leave(w) /\ UNCHANGED requestLock /\ at[w] \notin {"idle", "lock", "done"}
  BY <1>3 DEF Leave, Goto, LetLinkGo
<1>4. ASSUME UNCHANGED <<linkLock, requestLock, link>>, at[w] \notin {"idle", "lock", "done"},
             NEW step \in {"probe", "set", "verify", "save"}, Goto(w, step)
      PROVE  LockInv'
  BY <1>4 DEF Goto
<1>5. CASE ConfigureProbe(w)
  BY <1>4, <1>5 DEF ConfigureProbe, Verified
<1>6. CASE ConfigureBootstrap(w)
  BY <1>3, <1>4, <1>6 DEF ConfigureBootstrap, Leave
<1>7. CASE ConfigureSet(w)
  BY <1>4, <1>7 DEF ConfigureSet
<1>8. CASE ConfigureVerify(w)
  BY <1>3, <1>4, <1>8 DEF ConfigureVerify, Verified
<1>9. CASE ConfigureSave(w)
  BY <1>3, <1>9 DEF ConfigureSave
<1> QED
  BY <1>1, <1>2, <1>5, <1>6, <1>7, <1>8, <1>9 DEF Configure

\* End lets both locks go, if the caller has them.
LEMMA CallLockInv ==
  ASSUME LockInv, NEW c \in Callers, Call(c)
  PROVE  LockInv'
<1> USE ThreadKinds DEF LockInv, LockTypes, OwnersKnown, NoLockLeftBehind, Threads, ConfigurePlaces,
        CallPlaces, Adapter
<1>1. ASSUME NEW a \in Adapters, CallBegin(c, a) PROVE LockInv'
  BY <1>1 DEF CallBegin, Goto
<1>2. CASE CallLockLink(c)
  BY <1>2 DEF CallLockLink, Goto, TakeLink, LockFree
<1>3. CASE CallLockRequest(c)
  BY <1>3 DEF CallLockRequest, Goto
<1>4. ASSUME NEW result, End(c, result), UNCHANGED link, at[c] \notin {"idle", "done"}
      PROVE  LockInv'
  BY <1>4 DEF End, Goto
<1>5. CASE CallGiveUp(c)
  BY <1>4, <1>5 DEF CallGiveUp, GivesUp
<1>6. CASE CallGoOn(c)
  BY <1>6 DEF CallGoOn, Goto
<1>7. CASE CallConnect(c)
  <2>1. CASE End(c, "error")
    BY <1>4, <1>7, <2>1 DEF CallConnect
  <2>2. CASE Goto(c, "open") /\ UNCHANGED <<linkLock, requestLock>>
    BY <1>7, <2>2 DEF CallConnect, Goto
  <2> QED
    BY <1>7, <2>1, <2>2 DEF CallConnect
<1>8. CASE CallTransmit(c)
  BY <1>8 DEF CallTransmit, Goto
<1>9. CASE CallProbed(c)
  BY <1>9 DEF CallProbed, Goto
<1>10. CASE CallAnswered(c) \/ CallFailed(c)
  BY <1>4, <1>10 DEF CallAnswered, CallFailed
<1>11. CASE Cancel(c)
  BY <1>11, LocksUntouched DEF Cancel
<1> QED
  BY <1>1, <1>2, <1>3, <1>5, <1>6, <1>7, <1>8, <1>9, <1>10, <1>11 DEF Call

LEMMA NextLockInv == LockInv /\ [LinksNext]_linksVars => LockInv'
<1> SUFFICES ASSUME LockInv, [LinksNext]_linksVars PROVE LockInv'
  OBVIOUS
<1>1. CASE DiscoverLinks \/ Notice \/ World \/ UNCHANGED linksVars
  BY <1>1, LocksUntouched DEF DiscoverLinks, DiscoverBegin, DiscoverEnd, DiscoverLink, Notice, SetNote,
     World, SetPcAddress, Replug, ForgetAddress, linksVars
<1> QED
  BY <1>1, ConfigureLockInv, CallLockInv DEF LinksNext

LEMMA LockInvHolds == LinksSpec => []LockInv
BY InitLockInv, NextLockInv, PTL DEF LinksSpec

\* A thread that is not in a call holds no lock, whatever ended its call (device.py:
\* _link_operation_lock, _request_lock and the finally clauses that let them go).
THEOREM LocksLetGo == LinksSpec => []NoLockLeftBehind
<1>1. LockInv => NoLockLeftBehind
  BY DEF LockInv
<1> QED
  BY <1>1, LockInvHolds, PTL

-----------------------------------------------------------------------------
(* A command and its cancellation.                                         *)

CallTypes ==
  /\ asking \in [Callers -> {"probe", "command"}]
  /\ cancelled \in [Callers -> BOOLEAN] /\ warned \in [Callers -> BOOLEAN]
  /\ sent \in [Callers -> {0, 1}]
  /\ answer \in [Callers -> {"none", "ok", "error", "cancelled"}]
  /\ \A c \in Callers : at[c] \in CallPlaces

\* A caller has its answer when it is done; the device has its command at the earliest
\* when it has left on the command's own connection.
CommandsInOrder ==
  \A c \in Callers :
    /\ answer[c] = "none" <=> at[c] # "done"
    /\ sent[c] = 1 => at[c] \in {"sent", "done"} /\ asking[c] = "command"
    /\ answer[c] = "ok" => sent[c] = 1

\* A cancelled caller that could still be stopped does not get to a connection.
CancelledInTime ==
  \A c \in Callers :
    warned[c] => /\ cancelled[c] /\ sent[c] = 0
                 /\ at[c] \in {"open", "sent"} => asking[c] = "probe"

CallInv == CallTypes /\ DOMAIN at = Threads /\ CommandsInOrder /\ CancelledInTime

LEMMA InitCallInv == LinksInit => CallInv
BY DEF LinksInit, CallInv, CallTypes, CommandsInOrder, CancelledInTime, Threads, CallPlaces

\* The steps that are not a caller's own change nothing of it.
OthersStep ==
  DiscoverLinks \/ Notice \/ World \/ \E w \in Configurers : Configure(w)

LEMMA OthersLeaveCalls ==
  ASSUME DOMAIN at = Threads, OthersStep
  PROVE  /\ UNCHANGED callVars /\ DOMAIN at' = Threads
         /\ \A c \in Callers : at'[c] = at[c]
<1>1. CASE DiscoverLinks \/ Notice \/ World
  BY <1>1 DEF DiscoverLinks, DiscoverBegin, DiscoverEnd, DiscoverLink, Notice, SetNote,
     World, SetPcAddress, Replug, ForgetAddress
<1>2. ASSUME NEW w \in Configurers, Configure(w)
      PROVE  /\ UNCHANGED callVars /\ DOMAIN at' = Threads
             /\ \A c \in Callers : at'[c] = at[c]
  <2>1. UNCHANGED callVars /\ \E step : Goto(w, step)
    BY <1>2 DEF Configure, ConfigureBegin, ConfigureLoad, ConfigureProbe, ConfigureBootstrap,
       ConfigureSet, ConfigureVerify, ConfigureSave, Leave, Verified
  <2> QED
    BY <2>1, ThreadKinds DEF Goto, Threads
<1> QED
  BY <1>1, <1>2 DEF OthersStep

LEMMA CallsUntouched ==
  ASSUME CallInv, UNCHANGED callVars, DOMAIN at' = Threads, \A c \in Callers : at'[c] = at[c]
  PROVE  CallInv'
BY DEF CallInv, CallTypes, CommandsInOrder, CancelledInTime, callVars

LEMMA CallerCallInv ==
  ASSUME CallInv, NEW c \in Callers, Call(c)
  PROVE  CallInv'
<1> USE DEF CallInv, CallTypes, CommandsInOrder, CancelledInTime, Threads, CallPlaces, callVars
<1>1. ASSUME NEW a \in Adapters, CallBegin(c, a) PROVE CallInv'
  BY <1>1 DEF CallBegin, Goto
<1>2. CASE CallLockLink(c) \/ CallLockRequest(c) \/ CallGoOn(c)
  BY <1>2 DEF CallLockLink, CallLockRequest, CallGoOn, Goto
<1>3. CASE CallGiveUp(c)
  BY <1>3 DEF CallGiveUp, GivesUp, End, Goto
<1>4. CASE CallConnect(c)
  BY <1>4 DEF CallConnect, GivesUp, End, Goto
<1>5. CASE CallTransmit(c)
  BY <1>5 DEF CallTransmit, Goto
<1>6. CASE CallProbed(c)
  BY <1>6 DEF CallProbed, GivesUp, Goto
<1>7. CASE CallAnswered(c) \/ CallFailed(c)
  BY <1>7 DEF CallAnswered, CallFailed, End, Goto
<1>8. CASE Cancel(c)
  BY <1>8 DEF Cancel
<1> QED
  BY <1>1, <1>2, <1>3, <1>4, <1>5, <1>6, <1>7, <1>8 DEF Call

LEMMA NextCallInv == CallInv /\ [LinksNext]_linksVars => CallInv'
<1> SUFFICES ASSUME CallInv, [LinksNext]_linksVars PROVE CallInv'
  OBVIOUS
<1>1. CASE OthersStep
  BY <1>1, OthersLeaveCalls, CallsUntouched DEF CallInv
<1>2. CASE UNCHANGED linksVars
  BY <1>2, CallsUntouched DEF linksVars, CallInv
<1> QED
  BY <1>1, <1>2, CallerCallInv DEF LinksNext, OthersStep

LEMMA CallInvHolds == LinksSpec => []CallInv
BY InitCallInv, NextCallInv, PTL DEF LinksSpec

\* A command cancelled before its own connection is open never reaches the device
\* (device.py: the looks at cancel_event in request_device and tcp_request).
THEOREM CancelledNeverSent == LinksSpec => []CancelledNotSent
<1>1. CallInv => CancelledNotSent
  BY DEF CallInv, CancelledInTime, CancelledNotSent
<1> QED
  BY <1>1, CallInvHolds, PTL

\* Every step of a caller is one of a remote call, or none.
LEMMA CallRefinesRemote ==
  ASSUME CallInv, NEW c \in Callers, Call(c)
  PROVE  Remote!Next \/ UNCHANGED Remote!vars
<1> USE DEF CallInv, CallTypes, CommandsInOrder
<1>1. ASSUME NEW r \in {"ok", "error", "cancelled"}, End(c, r), UNCHANGED sent,
             at[c] # "done", r = "ok" => sent[c] = 1
      PROVE  Remote!Tell(c, r)
  BY <1>1 DEF End, Remote!Tell
<1>2. CASE CallGiveUp(c)
  BY <1>1, <1>2 DEF CallGiveUp, GivesUp, Remote!Next
<1>3. CASE CallConnect(c)
  BY <1>1, <1>3 DEF CallConnect, Remote!Next, Remote!vars
<1>4. CASE CallAnswered(c) \/ CallFailed(c)
  BY <1>1, <1>4 DEF CallAnswered, CallFailed, Remote!Next
<1>5. CASE CallTransmit(c)
  BY <1>5 DEF CallTransmit, Remote!Next, Remote!Take, Remote!vars
<1>6. CASE \/ \E a \in Adapters : CallBegin(c, a)
           \/ CallLockLink(c) \/ CallLockRequest(c) \/ CallGoOn(c) \/ CallProbed(c) \/ Cancel(c)
  BY <1>6 DEF CallBegin, CallLockLink, CallLockRequest, CallGoOn, CallProbed, Cancel, callVars,
     Remote!vars
<1> QED
  BY <1>2, <1>3, <1>4, <1>5, <1>6 DEF Call

\* request_device implements a remote call: the device gets the command at most once and
\* before its caller has an answer, and "ok" means that it got it, for any number of
\* callers and whatever links, addresses and configures do meanwhile.
THEOREM RequestsAreRemoteCalls == LinksSpec => CommandsSentOnce
<1>1. LinksInit => Remote!Init
  BY DEF LinksInit, Remote!Init
<1>2. CallInv /\ [LinksNext]_linksVars => [Remote!Next]_(Remote!vars)
  <2> SUFFICES ASSUME CallInv, [LinksNext]_linksVars
               PROVE  Remote!Next \/ UNCHANGED Remote!vars
    OBVIOUS
  <2>1. CASE OthersStep
    BY <2>1, OthersLeaveCalls DEF CallInv, callVars, Remote!vars
  <2>2. CASE UNCHANGED linksVars
    BY <2>2 DEF linksVars, callVars, Remote!vars
  <2> QED
    BY <2>1, <2>2, CallRefinesRemote DEF LinksNext, OthersStep
<1> QED
  BY <1>1, <1>2, CallInvHolds, PTL DEF LinksSpec, CommandsSentOnce, Remote!Spec

-----------------------------------------------------------------------------
(* What configure_device has verified.                                     *)

\* The link lock keeps the device where it was verified.
StaysInv ==
  /\ DOMAIN devAddr = Adapters /\ disturbed \in [Configurers -> BOOLEAN]
  /\ VerifiedStaysThere

LEMMA InitStaysInv == LinksInit => StaysInv
BY DEF LinksInit, StaysInv, VerifiedStaysThere, Threads

LEMMA StaysUntouched ==
  ASSUME StaysInv, UNCHANGED <<devAddr, disturbed>>,
         \A w \in Configurers : at'[w] = at[w] /\ link'[w] = link[w]
  PROVE  StaysInv'
BY DEF StaysInv, VerifiedStaysThere, Adapter, Target

\* A device that moves by itself disturbs those who are about to record it.
LEMMA WorldStaysInv ==
  ASSUME StaysInv, LockInv, World
  PROVE  StaysInv'
<1> USE DEF StaysInv, VerifiedStaysThere, Adapter, Target
<1>1. ASSUME NEW a \in Adapters, NEW p, SetPcAddress(a, p) PROVE StaysInv'
  BY <1>1, StaysUntouched DEF SetPcAddress, fileVars, configureVars
<1>2. ASSUME NEW a \in Adapters, NEW b \in Adapters, Replug(a, b) PROVE StaysInv'
  BY <1>2 DEF Replug, LockInv, LockTypes, Threads
<1>3. ASSUME NEW a \in Adapters, ForgetAddress(a) PROVE StaysInv'
  BY <1>3 DEF ForgetAddress, LockInv, LockTypes, Threads
<1> QED
  BY <1>1, <1>2, <1>3 DEF World

LEMMA ConfigureStaysInv ==
  ASSUME StaysInv, LockInv, NEW w \in Configurers, Configure(w)
  PROVE  StaysInv'
<1> USE DEF StaysInv, VerifiedStaysThere, Adapter, Target
<1>1. w \in Threads /\ Configurers \subseteq Threads /\ DOMAIN at = Threads /\ DOMAIN link = Threads
  BY DEF LockInv, LockTypes, Threads
<1>2. ASSUME NEW a \in Adapters, ConfigureBegin(w, a) PROVE StaysInv'
  BY <1>1, <1>2 DEF ConfigureBegin, Goto, worldVars, configureVars
<1>3. CASE ConfigureLoad(w)
  BY <1>1, <1>3 DEF ConfigureLoad, Goto, worldVars
<1>4. CASE Leave(w) /\ UNCHANGED devAddr
  BY <1>1, <1>4 DEF Leave, Goto
<1>5. CASE Verified(w) /\ Reachable(w, Target(w)) /\ UNCHANGED <<devAddr, link>>
  BY <1>1, <1>5 DEF Verified, Goto, Reachable
<1>6. ASSUME NEW step \in {"probe", "set", "verify"}, Goto(w, step),
             UNCHANGED <<devAddr, link, disturbed>>
      PROVE  StaysInv'
  BY <1>1, <1>6 DEF Goto
<1>7. CASE ConfigureProbe(w)
  BY <1>5, <1>6, <1>7 DEF ConfigureProbe, worldVars
<1>8. CASE ConfigureBootstrap(w)
  BY <1>4, <1>6, <1>8 DEF ConfigureBootstrap, worldVars
<1>9. CASE ConfigureSet(w)
  <2>1. \A v \in Configurers : at[v] = "save" => Adapter(v) # Adapter(w)
    BY <1>1, <1>9 DEF ConfigureSet, LockInv, OwnersKnown
  <2>2. \/ UNCHANGED devAddr
        \/ devAddr' = [devAddr EXCEPT ![Adapter(w)] = Target(w)]
    BY <1>9 DEF ConfigureSet
  <2>3. Goto(w, "verify") /\ UNCHANGED <<link, disturbed>>
    BY <1>9 DEF ConfigureSet, configureVars
  <2>4. \A v \in Configurers : at[v] = "save" => Adapter(v) \in Adapters
    BY <1>1 DEF LockInv, LockTypes
  <2> QED
    BY <1>1, <2>1, <2>2, <2>3, <2>4 DEF Goto
<1>10. CASE ConfigureVerify(w)
  BY <1>4, <1>5, <1>10 DEF ConfigureVerify, worldVars
<1>11. CASE ConfigureSave(w)
  BY <1>4, <1>11 DEF ConfigureSave, worldVars
<1> QED
  BY <1>2, <1>3, <1>7, <1>8, <1>9, <1>10, <1>11 DEF Configure

LEMMA CallStaysInv ==
  ASSUME StaysInv, LockInv, NEW c \in Callers, Call(c)
  PROVE  StaysInv'
<1>1. UNCHANGED <<devAddr, disturbed>>
  BY DEF Call, CallBegin, CallLockLink, CallLockRequest, CallGiveUp, CallGoOn, CallConnect,
     CallTransmit, CallProbed, CallAnswered, CallFailed, Cancel, worldVars, configureVars
<1>2. /\ UNCHANGED link \/ \E r : link' = [link EXCEPT ![c] = r]
      /\ UNCHANGED at \/ \E step : Goto(c, step)
  BY DEF Call, CallBegin, CallLockLink, CallLockRequest, CallGiveUp, CallGoOn, CallConnect,
     CallTransmit, CallProbed, CallAnswered, CallFailed, Cancel, End
<1>3. \A w \in Configurers : at'[w] = at[w] /\ link'[w] = link[w]
  BY <1>2, ThreadKinds DEF Goto, LockInv, LockTypes, Threads
<1> QED
  BY <1>1, <1>3, StaysUntouched

LEMMA NextStaysInv == StaysInv /\ LockInv /\ [LinksNext]_linksVars => StaysInv'
<1> SUFFICES ASSUME StaysInv, LockInv, [LinksNext]_linksVars PROVE StaysInv'
  OBVIOUS
<1>1. CASE DiscoverLinks \/ Notice
  BY <1>1, StaysUntouched DEF DiscoverLinks, DiscoverBegin, DiscoverEnd, DiscoverLink, Notice,
     SetNote, worldVars, configureVars
<1>2. CASE UNCHANGED linksVars
  BY <1>2, StaysUntouched DEF linksVars, worldVars, configureVars
<1> QED
  BY <1>1, <1>2, WorldStaysInv, ConfigureStaysInv, CallStaysInv DEF LinksNext

\* When configure_device goes on to record a device it has verified, the device is where
\* it was verified, unless it moved by itself (device.py: the link lock is held from the
\* probe to the save).
THEOREM VerifiedDevicesStay == LinksSpec => []VerifiedStaysThere
<1>1. StaysInv => VerifiedStaysThere
  BY DEF StaysInv
<1> QED
  BY <1>1, InitStaysInv, NextStaysInv, LockInvHolds, PTL DEF LinksSpec

-----------------------------------------------------------------------------
(* What the link file says, and what a discovery returns.                  *)

PcSeen == PcIps \cup {NoPc, Unplugged}
Entry == [pc : PcSeen, dev : DeviceIps, conf : BOOLEAN, note : Notes \cup {NoNote}]
Link == [pc : PcSeen, dev : DeviceIps, conf : BOOLEAN, ambiguous : BOOLEAN, previous : DeviceIps]
Entries == [Adapters -> Entry]
Links == [Adapters -> Link]

FileTypes ==
  /\ pcAddr \in [Adapters -> PcSeen]
  /\ file \in Entries /\ shown \in Links
  /\ copy \in [Configurers -> Entries]
  /\ scan \in [on : BOOLEAN, todo : SUBSET Adapters, seen : [Adapters -> PcSeen], file : Entries,
               claimed : SUBSET Adapters, links : Links]
  /\ at \in [Threads -> ConfigurePlaces \cup CallPlaces] /\ DOMAIN link = Threads
  /\ \A w \in Threads : at[w] \notin {"idle", "done"} => Adapter(w) \in Adapters /\ link[w].pc \in PcIps

\* What a file's entries say is configured has been verified.
Backed(entries) ==
  \A a \in Adapters : entries[a].conf => <<entries[a].pc, entries[a].dev>> \in verified

\* The file, the copies of it that will be written back, and the pairs about to be recorded.
AllBacked ==
  /\ Backed(file) /\ Backed(scan.file) /\ \A w \in Configurers : Backed(copy[w])
  /\ \A w \in Configurers : at[w] = "save" => <<link[w].pc, Target(w)>> \in verified

FileInv == FileTypes /\ AllBacked

\* PairsToldApart of a table of links, with the device addresses derived.
ToldApart(links) ==
  /\ \A a \in Adapters : links[a].pc \in PcIps => links[a].dev = DeviceIp[links[a].pc]
  /\ \A a, b \in Adapters :
       a # b /\ links[a].pc \in PcIps /\ links[a].pc = links[b].pc
         => \/ links[a].ambiguous /\ ~links[a].conf
            \/ links[b].ambiguous /\ ~links[b].conf

\* A link still to do has no addresses yet, so that nothing is compared with it.
ScanInv ==
  /\ ToldApart(shown) /\ ToldApart(scan.links)
  /\ \A a \in scan.todo : scan.links[a] = NoLink

LEMMA ConstantTypes ==
  /\ NoScan.file \in Entries /\ NoScan.links \in Links
  /\ \A p \in PcIps : DeviceIp[p] \in DeviceIps
  /\ \A p \in PcIps, conf \in BOOLEAN :
       NewEntry(p, conf) \in Entry
BY DEF NoScan, NoEntry, NoLink, Entry, Entries, Link, Links, PcSeen, NewEntry

LEMMA InitFileInv == LinksInit => FileInv
<1> SUFFICES ASSUME LinksInit PROVE FileInv
  OBVIOUS
<1>1. NoScan \in [on : BOOLEAN, todo : SUBSET Adapters, seen : [Adapters -> PcSeen], file : Entries,
                  claimed : SUBSET Adapters, links : Links]
  BY ConstantTypes DEF NoScan, PcSeen
<1>2. file \in Entries
  <2>1. \A p \in PcIps, d \in DeviceIps :
          [pc |-> p, dev |-> d, conf |-> TRUE, note |-> NoNote]
            \in Entry
    BY DEF Entry, PcSeen
  <2>2. NoEntry \in Entry
    BY DEF Entry, NoEntry, PcSeen
  <2>3. file = [a \in Adapters |-> file[a]]
    BY DEF LinksInit
  <2>4. \A a \in Adapters :
          file[a] = NoEntry \/ \E p \in PcIps, d \in DeviceIps :
                                  file[a] = [pc |-> p, dev |-> d, conf |-> TRUE, note |-> NoNote]
    BY DEF LinksInit
  <2>5. \A a \in Adapters :
          file[a] \in Entry
    <3> TAKE a \in Adapters
    <3>1. CASE file[a] = NoEntry
      BY <2>2, <3>1
    <3>2. ASSUME NEW p \in PcIps, NEW d \in DeviceIps,
                 file[a] = [pc |-> p, dev |-> d, conf |-> TRUE, note |-> NoNote]
          PROVE  file[a] \in Entry
      BY <2>1, <3>2
    <3> QED
      BY <2>4, <3>1, <3>2
  <2> QED
    BY <2>3, <2>5 DEF Entries
<1>3. FileTypes
  <2>1. pcAddr \in [Adapters -> PcSeen] /\ shown \in Links /\ copy \in [Configurers -> Entries]
    BY ConstantTypes DEF LinksInit, PcSeen
  <2>2. /\ at \in [Threads -> ConfigurePlaces \cup CallPlaces] /\ DOMAIN link = Threads
        /\ \A w \in Threads : at[w] = "idle"
    BY DEF LinksInit, ConfigurePlaces
  <2>3. scan = NoScan
    BY DEF LinksInit
  <2> QED
    BY <1>1, <1>2, <2>1, <2>2, <2>3 DEF FileTypes
<1>4. Backed(file)
  BY DEF LinksInit, Backed
<1>5. Backed(scan.file) /\ \A w \in Configurers : Backed(copy[w]) /\ at[w] # "save"
  BY DEF LinksInit, Backed, NoScan, NoEntry, Threads
<1>6. AllBacked
  BY <1>4, <1>5 DEF AllBacked
<1> QED
  BY <1>3, <1>6 DEF FileInv

LEMMA InitScanInv == LinksInit => ScanInv
BY DEF LinksInit, ScanInv, ToldApart, NoScan, NoLink

\* A link added to a table is told apart when it is compared with all the others.
LEMMA LinkAdded ==
  ASSUME NEW links \in Links, ToldApart(links), NEW a \in Adapters, links[a] = NoLink,
         NEW p \in PcIps, NEW conf, NEW prior, NEW collides \in BOOLEAN,
         \A b \in Adapters : links[b].pc = p => collides, ~(conf /\ collides)
  PROVE  ToldApart([links EXCEPT ![a] = MappedLink(p, conf, collides, prior)])
<1> DEFINE new == [links EXCEPT ![a] = MappedLink(p, conf, collides, prior)]
<1>1. /\ \A b \in Adapters \ {a} : new[b] = links[b]
      /\ new[a].pc = p /\ new[a].dev = DeviceIp[p] /\ new[a].conf = conf
      /\ new[a].ambiguous = collides
  BY DEF MappedLink, Link, Links
<1> HIDE DEF new
<1>2. ToldApart(new)
  BY <1>1 DEF ToldApart
<1> QED
  BY <1>2 DEF new

\* An entry or a link that does not come from a file changes neither.
LEMMA AssignNewSteps ==
  ASSUME FileInv, ScanInv, NEW a \in scan.todo, NEW p \in PcIps, AssignNew(a, p),
         UNCHANGED <<pcAddr, file, shown, copy, at, link, verified>>
  PROVE  FileInv' /\ ScanInv'
<1> DEFINE collides == Collides(p)
<1>1. /\ collides \in BOOLEAN
      /\ \A b \in Adapters : scan.links[b].pc = p => collides
  BY DEF Collides
<1>2. /\ scan' = [scan EXCEPT !.todo = @ \ {a}, !.file[a] = NewEntry(p, FALSE),
                             !.links[a] = MappedLink(p, FALSE, collides, DeviceIp[p])]
      /\ a \in Adapters
  BY DEF AssignNew, FileInv, FileTypes
<1> HIDE DEF collides
<1>3. NewEntry(p, FALSE) \in Entry
  BY ConstantTypes
<1>4. MappedLink(p, FALSE, collides, DeviceIp[p]) \in Link
  BY <1>1, ConstantTypes DEF Link, MappedLink, PcSeen
<1>5. FileTypes'
  BY <1>2, <1>3, <1>4 DEF FileInv, FileTypes, Adapter, Entries, Links
<1>6. AllBacked'
  BY <1>2 DEF FileInv, FileTypes, AllBacked, Backed, Target, Entry, Entries, NewEntry
<1>7. ScanInv'
  <2>1. /\ scan'.links = [scan.links EXCEPT ![a] = MappedLink(p, FALSE, collides, DeviceIp[p])]
        /\ scan'.todo = scan.todo \ {a}
    BY <1>2 DEF FileInv, FileTypes
  <2>2. scan.links \in Links /\ ToldApart(scan.links) /\ scan.links[a] = NoLink
    BY DEF FileInv, FileTypes, ScanInv
  <2>3. ToldApart(scan'.links)
    <3>1. ToldApart([scan.links EXCEPT ![a] = MappedLink(p, FALSE, collides, DeviceIp[p])])
      BY <1>1, <1>2, <2>2, LinkAdded
    <3> QED
      BY <2>1, <3>1
  <2>4. \A b \in scan'.todo : scan'.links[b] = NoLink
    BY <2>1 DEF ScanInv, FileInv, FileTypes
  <2>5. ToldApart(shown')
    BY DEF ScanInv
  <2> QED
    BY <2>3, <2>4, <2>5 DEF ScanInv, ToldApart
<1> QED
  BY <1>5, <1>6, <1>7 DEF FileInv

\* An entry that keeps its verified pair, or moves with it.
LEMMA AssignKnownSteps ==
  ASSUME FileInv, ScanInv, NEW a \in scan.todo, NEW p \in PcIps, NEW from \in Adapters,
         SavedFor(scan.file, from, p), AssignKnown(a, p, from),
         UNCHANGED <<pcAddr, file, shown, copy, at, link, verified>>
  PROVE  FileInv' /\ ScanInv'
<1> DEFINE collides == Collides(p)
           prior == scan.file[from]
           conf == prior.conf /\ prior.dev = DeviceIp[p] /\ ~collides
           known == [b \in Adapters |-> IF b = a THEN NewEntry(p, conf)
                                         ELSE IF b = from THEN NoEntry ELSE scan.file[b]]
<1>1. /\ collides \in BOOLEAN /\ conf \in BOOLEAN /\ ~(conf /\ collides)
      /\ \A b \in Adapters : scan.links[b].pc = p => collides
  BY DEF Collides
<1>2. /\ scan' = [scan EXCEPT !.todo = @ \ {a}, !.claimed = @ \cup {a}, !.file = known,
                             !.links[a] = MappedLink(p, conf, collides, prior.dev)]
      /\ a \in Adapters
  BY DEF AssignKnown, FileInv, FileTypes
<1>3. known \in Entries
  BY <1>1, ConstantTypes DEF Entries, FileInv, FileTypes, Entry, NoEntry, PcSeen
<1>4. prior.dev \in DeviceIps
  BY DEF FileInv, FileTypes, Entries, Entry
<1>5. Backed(known)
  BY DEF Backed, NewEntry, NoEntry, FileInv, AllBacked, SavedFor
<1> HIDE DEF collides, conf, known
<1>6. MappedLink(p, conf, collides, prior.dev) \in Link
  BY <1>1, <1>4, ConstantTypes DEF Link, MappedLink, PcSeen
<1>7. FileTypes'
  BY <1>2, <1>3, <1>6 DEF FileInv, FileTypes, Adapter, Links
<1>8. AllBacked'
  BY <1>2, <1>5 DEF FileInv, FileTypes, AllBacked, Backed, Target
<1>9. ScanInv'
  <2>1. /\ scan'.links = [scan.links EXCEPT ![a] = MappedLink(p, conf, collides, prior.dev)]
        /\ scan'.todo = scan.todo \ {a}
    BY <1>2 DEF FileInv, FileTypes
  <2>2. scan.links \in Links /\ ToldApart(scan.links) /\ scan.links[a] = NoLink
    BY DEF FileInv, FileTypes, ScanInv
  <2>3. ToldApart(scan'.links)
    <3>1. ToldApart([scan.links EXCEPT ![a] = MappedLink(p, conf, collides, prior.dev)])
      BY <1>1, <1>2, <2>2, LinkAdded
    <3> QED
      BY <2>1, <3>1
  <2>4. \A b \in scan'.todo : scan'.links[b] = NoLink
    BY <2>1 DEF ScanInv, FileInv, FileTypes
  <2>5. ToldApart(shown')
    BY DEF ScanInv
  <2> QED
    BY <2>3, <2>4, <2>5 DEF ScanInv, ToldApart
<1> QED
  BY <1>7, <1>8, <1>9 DEF FileInv

LEMMA DiscoverFileInv ==
  ASSUME FileInv, ScanInv, DiscoverLinks
  PROVE  FileInv' /\ ScanInv'
<1>1. UNCHANGED <<pcAddr, copy, at, link, verified>>
  BY DEF DiscoverLinks, DiscoverBegin, DiscoverEnd, DiscoverLink, worldVars, configureVars
<1>2. CASE DiscoverBegin
  <2>1. /\ scan' = [NoScan EXCEPT !.on = TRUE, !.seen = pcAddr, !.file = file, !.todo = Observed]
        /\ UNCHANGED <<file, shown>>
    BY <1>2 DEF DiscoverBegin
  <2>2. FileTypes'
    BY <1>1, <2>1, ConstantTypes DEF FileInv, FileTypes, NoScan, Observed, Adapter, PcSeen
  <2>3. AllBacked'
    BY <1>1, <2>1 DEF FileInv, AllBacked, Backed, NoScan, Target
  <2>4. ScanInv'
    BY <2>1 DEF ScanInv, ToldApart, NoScan, Observed, NoLink
  <2> QED
    BY <2>2, <2>3, <2>4 DEF FileInv
<1>3. CASE DiscoverEnd
  <2>1. file' = scan.file /\ shown' = scan.links /\ scan' = NoScan
    BY <1>3 DEF DiscoverEnd
  <2>2. FileTypes'
    BY <1>1, <2>1, ConstantTypes DEF FileInv, FileTypes, NoScan, Adapter, PcSeen
  <2>3. AllBacked'
    BY <1>1, <2>1 DEF FileInv, AllBacked, Backed, NoScan, NoEntry, Target
  <2>4. ScanInv'
    BY <2>1 DEF ScanInv, ToldApart, NoScan, NoLink
  <2> QED
    BY <2>2, <2>3, <2>4 DEF FileInv
<1>4. ASSUME NEW a \in Adapters, DiscoverLink(a) PROVE FileInv' /\ ScanInv'
  <2>1. a \in scan.todo /\ UNCHANGED <<file, shown>>
    BY <1>4 DEF DiscoverLink
  <2>2. CASE scan' = [scan EXCEPT !.todo = @ \ {a}, !.links[a] = UnmappedLink]
    <3>1. UnmappedLink \in Link /\ UnmappedLink.pc \notin PcIps
      BY DEF UnmappedLink, NoLink, Link, PcSeen
    <3>2. FileTypes'
      BY <1>1, <2>1, <2>2, <3>1 DEF FileInv, FileTypes, Adapter, Links
    <3>3. AllBacked'
      BY <1>1, <2>1, <2>2 DEF FileInv, FileTypes, AllBacked, Backed, Target
    <3>4. ScanInv'
      BY <2>1, <2>2, <3>1 DEF FileInv, FileTypes, ScanInv, ToldApart, Links
    <3> QED
      BY <3>2, <3>3, <3>4 DEF FileInv
  <2>3. CASE scan.seen[a] \in PcIps /\ AssignNew(a, scan.seen[a])
    BY <1>1, <2>1, <2>3, AssignNewSteps
  <2>4. ASSUME NEW from \in Adapters, scan.seen[a] \in PcIps,
               SavedFor(scan.file, from, scan.seen[a]), AssignKnown(a, scan.seen[a], from)
        PROVE  FileInv' /\ ScanInv'
    BY <1>1, <2>1, <2>4, AssignKnownSteps
  <2> QED
    BY <1>4, <2>2, <2>3, <2>4 DEF DiscoverLink, Migratable
<1> QED
  BY <1>2, <1>3, <1>4 DEF DiscoverLinks

LEMMA ScanUntouched == ScanInv /\ UNCHANGED <<scan, shown>> => ScanInv'
BY DEF ScanInv, ToldApart

LEMMA NoticeFileInv ==
  ASSUME FileInv, Notice
  PROVE  FileInv'
<1>1. PICK a \in Adapters, n \in Notes \cup {NoNote} : SetNote(a, n)
  BY DEF Notice
<1>2. /\ file' = [file EXCEPT ![a].note = n]
      /\ UNCHANGED <<pcAddr, scan, shown, copy, at, link, verified>>
  BY <1>1 DEF SetNote, configureVars
<1>3. file' \in Entries
  <2>1. file[a] \in Entry
    BY DEF FileInv, FileTypes, Entries
  <2>2. [file[a] EXCEPT !.note = n] \in Entry
    BY <2>1 DEF Entry
  <2>3. file' = [file EXCEPT ![a] = [file[a] EXCEPT !.note = n]]
    BY <1>2
  <2> QED
    BY <2>2, <2>3 DEF FileInv, FileTypes, Entries
<1>4. FileTypes'
  BY <1>2, <1>3 DEF FileInv, FileTypes, Adapter
<1>5. AllBacked'
  BY <1>2 DEF FileInv, FileTypes, Entries, Entry, AllBacked, Backed, Target
<1> QED
  BY <1>4, <1>5 DEF FileInv

LEMMA WorldFileInv ==
  ASSUME FileInv, World
  PROVE  FileInv'
<1>1. UNCHANGED <<file, scan, shown, copy, at, link, verified>>
  BY DEF World, SetPcAddress, Replug, ForgetAddress, fileVars, configureVars
<1>2. pcAddr' \in [Adapters -> PcSeen]
  BY DEF World, SetPcAddress, Replug, ForgetAddress, FileInv, FileTypes, PcSeen
<1> QED
  BY <1>1, <1>2 DEF FileInv, FileTypes, AllBacked, Backed, Adapter, Target

\* configure_device writes the copy it has read, with its own entry verified.
LEMMA ConfigureFileInv ==
  ASSUME FileInv, NEW w \in Configurers, Configure(w)
  PROVE  FileInv'
<1> USE DEF FileInv
<1>1. /\ w \in Threads /\ Configurers \subseteq Threads
      /\ UNCHANGED <<pcAddr, scan, shown>> /\ verified \subseteq verified'
  BY DEF Threads, Configure, ConfigureBegin, ConfigureLoad, ConfigureProbe, ConfigureBootstrap,
     ConfigureSet, ConfigureVerify, ConfigureSave, Verified, worldVars, fileVars, configureVars
<1>2. \A f : Backed(f) => \A a \in Adapters : f[a].conf => <<f[a].pc, f[a].dev>> \in verified'
  BY <1>1 DEF Backed
<1>3. ASSUME NEW a \in Adapters, ConfigureBegin(w, a) PROVE FileInv'
  BY <1>1, <1>3 DEF ConfigureBegin, Goto, fileVars, configureVars, FileTypes, AllBacked, Backed,
     Adapter, Target, ConfigurePlaces
<1>4. CASE ConfigureLoad(w)
  BY <1>1, <1>4 DEF ConfigureLoad, Goto, fileVars, FileTypes, AllBacked, Backed, Adapter, Target,
     ConfigurePlaces
<1>5. ASSUME Leave(w), UNCHANGED verified, file' \in Entries, Backed(file')
      PROVE  FileInv'
  <2>1. FileTypes'
    BY <1>1, <1>5, ConstantTypes DEF Leave, Goto, FileTypes, Adapter, ConfigurePlaces
  <2>2. AllBacked'
    BY <1>1, <1>5 DEF Leave, Goto, FileTypes, AllBacked, Backed, Target, NoScan, NoEntry
  <2> QED
    BY <2>1, <2>2
<1>6. CASE Verified(w) /\ at[w] \in {"probe", "verify"} /\ UNCHANGED <<file, link, copy>>
  BY <1>1, <1>2, <1>6 DEF Verified, Goto, FileTypes, AllBacked, Backed, Adapter, Target,
     ConfigurePlaces
<1>7. ASSUME NEW step \in {"probe", "set", "verify"}, Goto(w, step), at[w] \in {"probe", "set"},
             UNCHANGED <<file, link, copy, verified>>
      PROVE  FileInv'
  BY <1>1, <1>7 DEF Goto, FileTypes, AllBacked, Backed, Adapter, Target, ConfigurePlaces
<1>8. CASE ConfigureProbe(w)
  BY <1>6, <1>7, <1>8 DEF ConfigureProbe, fileVars
<1>9. CASE ConfigureBootstrap(w)
  BY <1>5, <1>7, <1>9 DEF ConfigureBootstrap, fileVars, FileTypes, AllBacked
<1>10. CASE ConfigureSet(w)
  BY <1>7, <1>10 DEF ConfigureSet, fileVars, configureVars
<1>11. CASE ConfigureVerify(w)
  BY <1>5, <1>6, <1>11 DEF ConfigureVerify, fileVars, FileTypes, AllBacked
<1>12. CASE ConfigureSave(w)
  <2>1. CASE file' = [copy[w] EXCEPT ![Adapter(w)] = NewEntry(link[w].pc, TRUE)]
    <3>1. /\ copy[w] \in Entries /\ Backed(copy[w]) /\ link[w].pc \in PcIps
          /\ <<link[w].pc, Target(w)>> \in verified
      BY <1>1, <1>12 DEF ConfigureSave, FileTypes, AllBacked
    <3>2. file' \in Entries
      BY <2>1, <3>1, ConstantTypes DEF Entries
    <3>3. Backed(file')
      BY <2>1, <3>1 DEF Backed, NewEntry, Target, Entries
    <3> QED
      BY <1>5, <1>12, <3>2, <3>3 DEF ConfigureSave
  <2>2. CASE UNCHANGED file
    BY <1>5, <1>12, <2>2 DEF ConfigureSave, FileTypes, AllBacked
  <2> QED
    BY <1>12, <2>1, <2>2 DEF ConfigureSave
<1> QED
  BY <1>3, <1>4, <1>8, <1>9, <1>10, <1>11, <1>12 DEF Configure

LEMMA CallFileInv ==
  ASSUME FileInv, NEW c \in Callers, Call(c)
  PROVE  FileInv'
<1>1. c \in Threads /\ UNCHANGED <<pcAddr, file, scan, shown, copy, verified>>
  BY DEF Call, CallBegin, CallLockLink, CallLockRequest, CallGiveUp, CallGoOn, CallConnect,
     CallTransmit, CallProbed, CallAnswered, CallFailed, Cancel, worldVars, fileVars, configureVars,
     Threads
<1>2. ASSUME NEW step \in CallPlaces, Goto(c, step), UNCHANGED link,
             step = "done" \/ at[c] \notin {"idle", "done"}
      PROVE  FileInv'
  <2>1. FileTypes'
    BY <1>1, <1>2 DEF Goto, FileInv, FileTypes, Adapter
  <2>2. AllBacked'
    BY <1>1, <1>2, ThreadKinds DEF Goto, FileInv, FileTypes, AllBacked, Backed, Target, Threads
  <2> QED
    BY <2>1, <2>2 DEF FileInv
<1>3. ASSUME NEW a \in Adapters, CallBegin(c, a) PROVE FileInv'
  <2>1. FileTypes'
    BY <1>1, <1>3 DEF CallBegin, Goto, FileInv, FileTypes, Adapter, CallPlaces
  <2>2. AllBacked'
    BY <1>1, <1>3, ThreadKinds DEF CallBegin, Goto, FileInv, FileTypes, AllBacked, Backed, Target, Threads
  <2> QED
    BY <2>1, <2>2 DEF FileInv
<1>4. CASE CallLockLink(c) \/ CallLockRequest(c) \/ CallGoOn(c) \/ CallTransmit(c) \/ CallProbed(c)
  BY <1>2, <1>4 DEF CallLockLink, CallLockRequest, CallGoOn, CallTransmit, CallProbed, CallPlaces
<1>5. CASE CallGiveUp(c) \/ CallConnect(c) \/ CallAnswered(c) \/ CallFailed(c)
  BY <1>2, <1>5 DEF CallGiveUp, CallConnect, CallAnswered, CallFailed, End, CallPlaces
<1>6. CASE Cancel(c)
  BY <1>1, <1>6 DEF Cancel, FileInv, FileTypes, AllBacked, Backed, Adapter, Target
<1> QED
  BY <1>3, <1>4, <1>5, <1>6 DEF Call

LEMMA NextFileInv == FileInv /\ ScanInv /\ [LinksNext]_linksVars => FileInv' /\ ScanInv'
<1> SUFFICES ASSUME FileInv, ScanInv, [LinksNext]_linksVars PROVE FileInv' /\ ScanInv'
  OBVIOUS
<1>1. CASE Notice
  <2>1. UNCHANGED <<scan, shown>>
    BY <1>1 DEF Notice, SetNote
  <2> QED
    BY <1>1, <2>1, NoticeFileInv, ScanUntouched
<1>2. CASE World
  <2>1. UNCHANGED <<scan, shown>>
    BY <1>2 DEF World, SetPcAddress, Replug, ForgetAddress, fileVars
  <2> QED
    BY <1>2, <2>1, WorldFileInv, ScanUntouched
<1>3. ASSUME NEW w \in Configurers, Configure(w) PROVE FileInv' /\ ScanInv'
  <2>1. UNCHANGED <<scan, shown>>
    BY <1>3 DEF Configure, ConfigureBegin, ConfigureLoad, ConfigureProbe, ConfigureBootstrap,
       ConfigureSet, ConfigureVerify, ConfigureSave, fileVars
  <2> QED
    BY <1>3, <2>1, ConfigureFileInv, ScanUntouched
<1>4. ASSUME NEW c \in Callers, Call(c) PROVE FileInv' /\ ScanInv'
  <2>1. UNCHANGED <<scan, shown>>
    BY <1>4 DEF Call, CallBegin, CallLockLink, CallLockRequest, CallGiveUp, CallGoOn, CallConnect,
       CallTransmit, CallProbed, CallAnswered, CallFailed, Cancel, fileVars
  <2> QED
    BY <1>4, <2>1, CallFileInv, ScanUntouched
<1>5. CASE UNCHANGED linksVars
  BY <1>5, ScanUntouched DEF linksVars, worldVars, fileVars, configureVars, FileInv, FileTypes,
     AllBacked, Backed, Adapter, Target
<1> QED
  BY <1>1, <1>2, <1>3, <1>4, <1>5, DiscoverFileInv DEF LinksNext

LEMMA FileInvHolds == LinksSpec => [](FileInv /\ ScanInv)
BY InitFileInv, InitScanInv, NextFileInv, PTL DEF LinksSpec

\* The link file calls a pair of addresses configured only when configure_device has verified
\* it (device.py: _assign_link_addresses and configure_device).
THEOREM ConfiguredPairsVerified == LinksSpec => []ConfiguredWasVerified
<1>1. FileInv => ConfiguredWasVerified
  BY DEF FileInv, AllBacked, Backed, ConfiguredWasVerified
<1> QED
  BY <1>1, FileInvHolds, PTL

\* A discovery never returns two links for one device address without calling one of them
\* ambiguous and not configured (device.py: seen_pc_ips and seen_device_ips).
THEOREM DiscoveredToldApart == LinksSpec => []PairsToldApart
<1>1. ScanInv => PairsToldApart
  BY DEF ScanInv, ToldApart, PairsToldApart
<1> QED
  BY <1>1, FileInvHolds, PTL
================================================================================
