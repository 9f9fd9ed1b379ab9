---------------------------- MODULE WatchHub_proofs ----------------------------
(***************************************************************************)
(* What holds of the watch hubs for any number of devices, hubs, clients,  *)
(* transfers and configures.                                               *)
(***************************************************************************)
EXTENDS WatchHub, TLAPS

USE WatchHubAssumption

------------------------------------------------------------------------------
(* Types, and that nobody is polled for nothing.                           *)

\* A client past Acquire and a configure past its lookup hold a hub.
HoldersHaveHub ==
  /\ \A c \in Clients : cpc[c] # "idle" => chub[c] \in Hubs
  /\ \A g \in Configures : gpc[g] = "found" => ghub[g] \in Hubs

IInv ==
  /\ TypeOK
  /\ HoldersHaveHub
  /\ NoIdlePolling

\* The program starts with no hub and no poll thread.
LEMMA InitIInv == Init => IInv
<1> SUFFICES ASSUME Init PROVE IInv
  OBVIOUS
<1>1. TypeOK
  BY DEF Init, TypeOK
<1>2. HoldersHaveHub
  BY DEF Init, HoldersHaveHub
<1>3. NoIdlePolling
  BY DEF Init, NoIdlePolling, Live
<1> QED
  BY <1>1, <1>2, <1>3 DEF IInv

\* A client's step keeps the types and the invariant: the last subscriber of a
\* hub to go sets its stop event in the same critical section.
LEMMA ClientIInv ==
  ASSUME IInv, NEW c \in Clients, ClientStep(c)
  PROVE  IInv'
<1> USE DEF IInv, TypeOK, HoldersHaveHub, hubVars, pollVars, clientVars, transferVars, configureVars
<1>1. CASE Acquire(c)
  <2>1. CASE HubOf(ClientKey[c]) # NoHub
    BY <1>1, <2>1 DEF Acquire, HubOf, NoIdlePolling, Live
  <2>2. CASE HubOf(ClientKey[c]) = NoHub
    <3>1. PICK h \in Hubs :
            /\ Unreferenced(h)
            /\ registry' = [registry EXCEPT ![ClientKey[c]] = h]
            /\ chub' = [chub EXCEPT ![c] = h]
            /\ hubKey' = [hubKey EXCEPT ![h] = ClientKey[c]]
            /\ subs' = [subs EXCEPT ![h] = {}]
            /\ stopEvent' = [stopEvent EXCEPT ![h] = FALSE]
            /\ reconfigure' = [reconfigure EXCEPT ![h] = FALSE]
            /\ suspendCount' = [suspendCount EXCEPT ![h] = 0]
      BY <1>1, <2>2 DEF Acquire
    <3>2. /\ cpc' = [cpc EXCEPT ![c] = "found"]
          /\ UNCHANGED <<purging, pollVars, seen, transferVars, configureVars>>
      BY <1>1 DEF Acquire
    <3>3. TypeOK'
      BY <3>1, <3>2
    <3>4. HoldersHaveHub'
      BY <3>1, <3>2
    <3>5. NoIdlePolling'
      BY <3>1, <3>2 DEF NoIdlePolling, Live, Unreferenced
    <3> QED
      BY <3>3, <3>4, <3>5
  <2> QED
    BY <2>1, <2>2
<1>2. CASE Subscribe(c)
  <2>1. TypeOK'
    BY <1>2 DEF Subscribe
  <2>2. HoldersHaveHub'
    BY <1>2 DEF Subscribe
  <2>3. NoIdlePolling'
    BY <1>2 DEF Subscribe, NoIdlePolling, Live
  <2> QED
    BY <2>1, <2>2, <2>3
<1>3. CASE Snapshot(c)
  BY <1>3 DEF Snapshot, NoIdlePolling, Live
<1>4. CASE Unsubscribe(c)
  <2>1. TypeOK'
    BY <1>4 DEF Unsubscribe
  <2>2. HoldersHaveHub'
    BY <1>4 DEF Unsubscribe
  <2>3. NoIdlePolling'
    BY <1>4 DEF Unsubscribe, NoIdlePolling, Live, Unused
  <2> QED
    BY <2>1, <2>2, <2>3
<1>5. CASE RemoveHub(c)
  BY <1>5 DEF RemoveHub, NoIdlePolling, Live
<1> QED
  BY <1>1, <1>2, <1>3, <1>4, <1>5 DEF ClientStep

\* purge_stale_hubs takes no hub's lock, but all it does to a hub is stop it.
LEMMA PurgeIInv ==
  ASSUME IInv, PurgeScan \/ \E h \in Hubs : PurgeOne(h)
  PROVE  IInv'
<1> USE DEF IInv, TypeOK, HoldersHaveHub, hubVars, pollVars, clientVars, transferVars,
            configureVars, NoIdlePolling, Live
<1>1. CASE PurgeScan
  BY <1>1 DEF PurgeScan, Registered
<1>2. ASSUME NEW h \in Hubs, PurgeOne(h) PROVE IInv'
  BY <1>2 DEF PurgeOne
<1> QED
  BY <1>1, <1>2

\* The poll thread neither subscribes anyone nor clears its stop event.
LEMMA PollerIInv ==
  ASSUME IInv, NEW h \in Hubs, PollerStep(h)
  PROVE  IInv'
<1> USE DEF IInv, TypeOK, HoldersHaveHub, hubVars, pollVars, clientVars, transferVars,
            configureVars, NoIdlePolling, Live
<1>1. CASE PollerExit(h)
  BY <1>1 DEF PollerExit
<1>2. CASE PollBegin(h)
  BY <1>2 DEF PollBegin
<1>3. CASE PollLock(h)
  BY <1>3 DEF PollLock
<1>4. CASE PollReply(h)
  BY <1>4 DEF PollReply
<1>5. CASE SetLastStatus(h)
  BY <1>5 DEF SetLastStatus
<1>6. CASE BroadcastEvent(h)
  BY <1>6 DEF BroadcastEvent
<1>7. CASE PollFailed(h)
  <2>1. TypeOK'
    <3>1. /\ poller' = [poller EXCEPT ![h] = "top"]
             \/ poller' = [poller EXCEPT ![h] = "error"]
             \/ poller' = [poller EXCEPT ![h] = "sleeping"]
          /\ reconfigure' = [reconfigure EXCEPT ![h] = FALSE] \/ reconfigure' = reconfigure
          /\ targets' = [targets EXCEPT ![h] = subs[h]] \/ targets' = targets
      BY <1>7 DEF PollFailed
    <3>2. UNCHANGED <<registry, purging, hubKey, subs, stopEvent, suspendCount,
                      errorReported, requestLock, clientVars, transferVars, configureVars>>
      BY <1>7 DEF PollFailed
    <3>3. /\ poller' \in [Hubs -> {"dead", "top", "waiting", "polling", "answered",
                                   "broadcast", "event", "failed", "error", "sleeping"}]
          /\ reconfigure' \in [Hubs -> BOOLEAN]
          /\ targets' \in [Hubs -> SUBSET Clients]
      <4>1. poller' \in [Hubs -> {"dead", "top", "waiting", "polling", "answered",
                                  "broadcast", "event", "failed", "error", "sleeping"}]
        BY <3>1
      <4>2. reconfigure' \in [Hubs -> BOOLEAN]
        BY <3>1
      <4>3. targets' \in [Hubs -> SUBSET Clients]
        BY <3>1
      <4> QED
        BY <4>1, <4>2, <4>3
    <3> QED
      BY <3>2, <3>3
  <2>2. HoldersHaveHub'
    BY <1>7 DEF PollFailed
  <2>3. NoIdlePolling'
    BY <1>7 DEF PollFailed
  <2> QED
    BY <2>1, <2>2, <2>3
<1>8. ASSUME NEW c \in Clients, Deliver(h, c) PROVE IInv'
  BY <1>8 DEF Deliver, BroadcastGoesOn
<1>9. CASE BroadcastDone(h)
  BY <1>9 DEF BroadcastDone
<1>10. CASE PollerWake(h)
  BY <1>10 DEF PollerWake
<1> QED
  BY <1>1, <1>2, <1>3, <1>4, <1>5, <1>6, <1>7, <1>8, <1>9, <1>10 DEF PollerStep

\* Suspending and resuming keep the counts natural numbers.
LEMMA CountdownType == \A n \in Nat : Countdown(n) \in Nat
BY DEF Countdown

\* A transfer moves suspend counts and its own loops.
LEMMA TransferIInv ==
  ASSUME IInv, NEW t \in Transfers, TransferStep(t)
  PROVE  IInv'
<1> USE DEF IInv, TypeOK, HoldersHaveHub, hubVars, pollVars, clientVars, transferVars,
            configureVars, NoIdlePolling, Live
<1>1. CASE SuspendAll(t)
  BY <1>1 DEF SuspendAll, Registered
<1>2. CASE TransferBegin(t)
  BY <1>2 DEF TransferBegin
<1>3. CASE TransferEnd(t)
  BY <1>3 DEF TransferEnd
<1>4. CASE ResumeAll(t)
  BY <1>4 DEF ResumeAll, Registered
<1>5. ASSUME NEW h \in Hubs, SuspendOne(t, h) PROVE IInv'
  BY <1>5 DEF SuspendOne, Suspend
<1>6. ASSUME NEW h \in Hubs, ResumeOne(t, h) PROVE IInv'
  BY <1>6, CountdownType DEF ResumeOne, Resume
<1> QED
  BY <1>1, <1>2, <1>3, <1>4, <1>5, <1>6 DEF TransferStep

\* A configure moves one suspend count.
LEMMA ConfigureIInv ==
  ASSUME IInv, NEW g \in Configures, ConfigureStep(g)
  PROVE  IInv'
<1> USE DEF IInv, TypeOK, HoldersHaveHub, hubVars, pollVars, clientVars, transferVars,
            configureVars, NoIdlePolling, Live
<1>1. CASE ConfigureFind(g)
  BY <1>1 DEF ConfigureFind, HubOf
<1>2. CASE ConfigureSuspend(g)
  BY <1>2 DEF ConfigureSuspend, Suspend
<1>3. CASE ConfigureEnd(g)
  <2>1. CASE ghub[g] = NoHub
    BY <1>3, <2>1 DEF ConfigureEnd
  <2>2. CASE ghub[g] # NoHub
    <3>1. ghub[g] \in Hubs
      BY <2>2
    <3>2. /\ suspendCount' = [suspendCount EXCEPT ![ghub[g]] = Countdown(@)]
          /\ reconfigure' = [reconfigure EXCEPT ![ghub[g]] =
                               IF suspendCount'[ghub[g]] = 0 THEN FALSE ELSE @]
          /\ UNCHANGED <<hubKey, subs, stopEvent>>
          /\ gpc' = [gpc EXCEPT ![g] = "done"]
          /\ ghub' = [ghub EXCEPT ![g] = NoHub]
          /\ UNCHANGED <<registry, purging, pollVars, clientVars, transferVars>>
      BY <1>3, <2>2 DEF ConfigureEnd, Resume
    <3>3. TypeOK'
      BY <3>1, <3>2, CountdownType
    <3>4. HoldersHaveHub' /\ NoIdlePolling'
      BY <3>2
    <3> QED
      BY <3>3, <3>4
  <2> QED
    BY <2>1, <2>2
<1> QED
  BY <1>1, <1>2, <1>3 DEF ConfigureStep

\* Every step of the program preserves the invariant.
LEMMA NextIInv == IInv /\ [Next]_vars => IInv'
<1> SUFFICES ASSUME IInv, [Next]_vars PROVE IInv'
  OBVIOUS
<1>1. CASE UNCHANGED vars
  BY <1>1 DEF IInv, TypeOK, HoldersHaveHub, NoIdlePolling, Live, vars, hubVars, pollVars,
              clientVars, transferVars, configureVars
<1>2. CASE Next
  BY <1>2, ClientIInv, PurgeIInv, PollerIInv, TransferIInv, ConfigureIInv DEF Next
<1> QED
  BY <1>1, <1>2

\* The invariant holds in every reachable state.
LEMMA Invariant == Spec => []IInv
BY InitIInv, NextIInv, PTL DEF Spec

\* The state is well typed, suspend counts never go below zero.
THEOREM TypeCorrect == Spec => []TypeOK
<1>1. IInv => TypeOK
  BY DEF IInv
<1> QED
  BY <1>1, Invariant, PTL

\* A poll thread that goes on polling always has a subscriber, however the
\* critical sections of GUI, recorders, purges and poll threads interleave.
THEOREM NobodyPolledForNothing == Spec => []NoIdlePolling
<1>1. IInv => NoIdlePolling
  BY DEF IInv
<1> QED
  BY <1>1, Invariant, PTL

------------------------------------------------------------------------------
(* One watch per device, when every client acts in the Qt main thread.     *)

\* Every client is a WatchWorker of the GUI; none is a RecordWorker.
OnlyGui == Clients \subseteq GuiClients

\* The client is inside a call that it has begun with one critical section and
\* has to end with another.
MidCall(c) == cpc[c] \in {"found", "removing"}

\* The main thread is inside one call at most.
OneCall ==
  /\ \A c \in Clients : MidCall(c) => purging = {}
  /\ \A c, d \in Clients : MidCall(c) /\ MidCall(d) => c = d

\* The registry finds a hub under its own key, and it finds every hub that has
\* a subscriber, is about to have one, or is going to be purged.
Registry ==
  /\ \A k \in Keys : registry[k] # NoHub => hubKey[registry[k]] = k
  /\ \A h \in Hubs : subs[h] # {} => registry[hubKey[h]] = h
  /\ \A c \in Clients : cpc[c] = "found" => registry[hubKey[chub[c]]] = chub[c]
  /\ \A h \in purging : registry[hubKey[h]] = h

\* A hub that is being removed or purged has no subscriber.
NoneLeft ==
  /\ \A c \in Clients : cpc[c] = "removing" => subs[chub[c]] = {}
  /\ \A h \in purging : subs[h] = {}

GuiInv == OneCall /\ Registry /\ NoneLeft

\* Only these six variables matter to the registry.
registryVars == <<registry, purging, hubKey, subs, cpc, chub>>

\* A step that leaves them alone preserves the invariant.
LEMMA RegistryFrame == GuiInv /\ UNCHANGED registryVars => GuiInv'
BY DEF GuiInv, registryVars, OneCall, MidCall, Registry, NoneLeft

\* A new hub is made only for a key under which there is none.
LEMMA AcquireGui ==
  ASSUME OnlyGui, IInv, GuiInv, NEW c \in Clients, Acquire(c)
  PROVE  GuiInv'
<1> USE DEF IInv, TypeOK, HoldersHaveHub
<1> DEFINE k == ClientKey[c]
<1>1. /\ purging = {} /\ purging' = {}
      /\ \A d \in Clients : ~MidCall(d)
      /\ cpc' = [cpc EXCEPT ![c] = "found"]
  BY DEF Acquire, MayRun, GuiThreadFree, MidCall, OnlyGui
<1>2. OneCall'
  BY <1>1 DEF OneCall, MidCall
<1>3. NoneLeft'
  BY <1>1 DEF NoneLeft, MidCall
<1>4. CASE registry[k] # NoHub
  <2>1. /\ chub' = [chub EXCEPT ![c] = registry[k]]
        /\ UNCHANGED <<registry, hubKey, subs>>
    BY <1>4 DEF Acquire, HubOf, hubVars
  <2>2. hubKey[registry[k]] = k
    BY <1>4 DEF GuiInv, Registry
  <2>3. \A d \in Clients : cpc'[d] = "found" => d = c
    BY <1>1 DEF MidCall
  <2>4. Registry'
    BY <1>1, <2>1, <2>2, <2>3 DEF GuiInv, Registry
  <2> QED
    BY <1>2, <1>3, <2>4 DEF GuiInv
<1>5. CASE registry[k] = NoHub
  <2>1. PICK h \in Hubs :
          /\ Unreferenced(h)
          /\ registry' = [registry EXCEPT ![k] = h]
          /\ chub' = [chub EXCEPT ![c] = h]
          /\ hubKey' = [hubKey EXCEPT ![h] = k]
          /\ subs' = [subs EXCEPT ![h] = {}]
    BY <1>5 DEF Acquire, HubOf
  <2>2. \A j \in Keys : registry[j] # h
    BY <2>1 DEF Unreferenced, Registered
  <2>3. \A j \in Keys : registry'[j] # NoHub => hubKey'[registry'[j]] = j
    BY <2>1, <2>2 DEF GuiInv, Registry
  <2>4. \A i \in Hubs : subs'[i] # {} => registry'[hubKey'[i]] = i
    BY <1>5, <2>1 DEF GuiInv, Registry
  <2>5. \A d \in Clients : cpc'[d] = "found" => registry'[hubKey'[chub'[d]]] = chub'[d]
    BY <1>1, <2>1 DEF MidCall
  <2>6. Registry'
    BY <1>1, <2>3, <2>4, <2>5 DEF Registry
  <2> QED
    BY <1>2, <1>3, <2>6 DEF GuiInv
<1> QED
  BY <1>4, <1>5

\* Nothing happens between Acquire and Subscribe: the hub is still registered.
LEMMA SubscribeGui ==
  ASSUME OnlyGui, IInv, GuiInv, NEW c \in Clients, Subscribe(c)
  PROVE  GuiInv'
<1> USE DEF IInv, TypeOK, HoldersHaveHub
<1> DEFINE h == chub[c]
<1>1. /\ cpc[c] = "found" /\ h \in Hubs
      /\ cpc' = [cpc EXCEPT ![c] = "open"]
      /\ subs' = [subs EXCEPT ![h] = @ \cup {c}]
      /\ UNCHANGED <<registry, purging, hubKey, chub>>
  BY DEF Subscribe, OnlyGui
<1>2. purging = {} /\ \A d \in Clients : d # c => ~MidCall(d)
  BY <1>1 DEF GuiInv, OneCall, MidCall
<1>3. OneCall' /\ NoneLeft'
  BY <1>1, <1>2 DEF OneCall, NoneLeft, MidCall
<1>4. Registry'
  BY <1>1, <1>2 DEF GuiInv, Registry, MidCall
<1> QED
  BY <1>3, <1>4 DEF GuiInv

\* A hub is removed only when it has lost its last subscriber.
LEMMA UnsubscribeGui ==
  ASSUME OnlyGui, IInv, GuiInv, NEW c \in Clients, Unsubscribe(c)
  PROVE  GuiInv'
<1> USE DEF IInv, TypeOK, HoldersHaveHub
<1> DEFINE h == chub[c]
<1>1. /\ purging = {} /\ h \in Hubs /\ cpc[c] = "open"
      /\ \A d \in Clients : ~MidCall(d)
      /\ subs' = [subs EXCEPT ![h] = @ \ {c}]
      /\ UNCHANGED <<registry, purging, hubKey>>
  BY DEF Unsubscribe, MayRun, GuiThreadFree, MidCall, OnlyGui
<1>2. \/ /\ subs'[h] = {}
         /\ cpc' = [cpc EXCEPT ![c] = "removing"]
         /\ chub' = chub
      \/ cpc' = [cpc EXCEPT ![c] = "idle"]
  BY DEF Unsubscribe, Unused
<1>3. \A d \in Clients : d # c => cpc'[d] = cpc[d]
  BY <1>2
<1>4. OneCall'
  BY <1>1, <1>3 DEF OneCall, MidCall
<1>5. NoneLeft'
  BY <1>1, <1>2, <1>3 DEF NoneLeft, MidCall
<1>6. Registry'
  <2>1. \A i \in Hubs : subs'[i] # {} => subs[i] # {}
    BY <1>1
  <2>2. \A d \in Clients : cpc'[d] # "found"
    BY <1>1, <1>2, <1>3 DEF MidCall
  <2> QED
    BY <1>1, <2>1, <2>2 DEF GuiInv, Registry
<1> QED
  BY <1>4, <1>5, <1>6 DEF GuiInv

\* Removing a hub takes no other hub's place in the registry away.
LEMMA RemoveHubGui ==
  ASSUME IInv, GuiInv, NEW c \in Clients, RemoveHub(c)
  PROVE  GuiInv'
<1> USE DEF IInv, TypeOK, HoldersHaveHub
<1> DEFINE h == chub[c]
<1>1. /\ cpc[c] = "removing" /\ h \in Hubs /\ purging = {}
      /\ registry' = [registry EXCEPT ![hubKey[h]] = IF @ = h THEN NoHub ELSE @]
      /\ cpc' = [cpc EXCEPT ![c] = "idle"]
      /\ UNCHANGED <<purging, hubKey, subs>>
  BY DEF RemoveHub, HubsLockFree, hubVars
<1>2. subs[h] = {} /\ \A d \in Clients : d # c => ~MidCall(d)
  BY <1>1 DEF GuiInv, OneCall, NoneLeft, MidCall
<1>3. \A d \in Clients : cpc'[d] \notin {"found", "removing"}
  BY <1>1, <1>2 DEF MidCall
<1>4. OneCall' /\ NoneLeft'
  BY <1>1, <1>3 DEF OneCall, NoneLeft, MidCall
<1>5. \A i \in Hubs : subs'[i] # {} => registry'[hubKey'[i]] = i
  BY <1>1, <1>2 DEF GuiInv, Registry
<1>6. \A k \in Keys : registry'[k] # NoHub => hubKey'[registry'[k]] = k
  BY <1>1 DEF GuiInv, Registry
<1>7. Registry'
  BY <1>1, <1>3, <1>5, <1>6 DEF Registry
<1> QED
  BY <1>4, <1>7 DEF GuiInv

\* The purge finds hubs nobody subscribes to, and nobody comes in between.
LEMMA PurgeGui ==
  ASSUME OnlyGui, IInv, GuiInv, PurgeScan \/ \E h \in Hubs : PurgeOne(h)
  PROVE  GuiInv'
<1> USE DEF IInv, TypeOK, HoldersHaveHub
<1>1. CASE PurgeScan
  <2>1. /\ \A d \in Clients : ~MidCall(d)
        /\ purging' = {h \in Registered : subs[h] = {}}
        /\ UNCHANGED <<registry, hubKey, subs, cpc, chub>>
    BY <1>1 DEF PurgeScan, GuiThreadFree, MidCall, OnlyGui, Unused, hubVars, clientVars
  <2>2. OneCall' /\ NoneLeft'
    BY <2>1 DEF OneCall, NoneLeft, MidCall
  <2>3. Registry'
    BY <2>1 DEF GuiInv, Registry, Registered
  <2> QED
    BY <2>2, <2>3 DEF GuiInv
<1>2. ASSUME NEW h \in Hubs, PurgeOne(h) PROVE GuiInv'
  <2>1. /\ h \in purging /\ purging' = purging \ {h}
        /\ registry' = [registry EXCEPT ![hubKey[h]] = NoHub]
        /\ UNCHANGED <<hubKey, subs, cpc, chub>>
    BY <1>2 DEF PurgeOne, clientVars
  <2>2. subs[h] = {} /\ registry[hubKey[h]] = h /\ \A d \in Clients : ~MidCall(d)
    BY <2>1 DEF GuiInv, NoneLeft, Registry, OneCall
  <2>3. OneCall' /\ NoneLeft'
    BY <2>1, <2>2 DEF GuiInv, OneCall, NoneLeft, MidCall
  <2>4. Registry'
    <3>1. \A i \in Hubs : i # h /\ registry[hubKey[i]] = i => registry'[hubKey'[i]] = i
      BY <2>1, <2>2
    <3>2. \A k \in Keys : registry'[k] # NoHub => hubKey'[registry'[k]] = k
      BY <2>1 DEF GuiInv, Registry
    <3> QED
      BY <2>1, <2>2, <3>1, <3>2 DEF GuiInv, Registry, MidCall
  <2> QED
    BY <2>3, <2>4 DEF GuiInv
<1> QED
  BY <1>1, <1>2

\* Poll threads, transfers and configures leave the registry alone.
LEMMA OthersGui ==
  ASSUME GuiInv,
         \/ \E h \in Hubs : PollerStep(h)
         \/ \E t \in Transfers : TransferStep(t)
         \/ \E g \in Configures : ConfigureStep(g)
  PROVE  GuiInv'
<1> USE DEF registryVars, hubVars, clientVars
<1>1. ASSUME NEW h \in Hubs, PollerStep(h) PROVE UNCHANGED registryVars
  BY <1>1 DEF PollerStep, PollerExit, PollBegin, PollLock, PollReply, SetLastStatus,
              BroadcastEvent, PollFailed, Deliver, BroadcastDone, PollerWake
<1>2. ASSUME NEW t \in Transfers, TransferStep(t) PROVE UNCHANGED registryVars
  BY <1>2 DEF TransferStep, SuspendAll, SuspendOne, TransferBegin, TransferEnd, ResumeAll,
              ResumeOne, Suspend, Resume
<1>3. ASSUME NEW g \in Configures, ConfigureStep(g) PROVE UNCHANGED registryVars
  BY <1>3 DEF ConfigureStep, ConfigureFind, ConfigureSuspend, ConfigureEnd, Suspend, Resume
<1> QED
  BY <1>1, <1>2, <1>3, RegistryFrame

\* The invariant of the registry holds in every reachable state of a program
\* whose only clients are the GUI's.
LEMMA GuiInvariant ==
  ASSUME OnlyGui
  PROVE  Spec => []GuiInv
<1>1. Init => GuiInv
  BY DEF Init, GuiInv, OneCall, MidCall, Registry, NoneLeft
<1>2. IInv /\ GuiInv /\ [Next]_vars => GuiInv'
  <2> SUFFICES ASSUME IInv, GuiInv, [Next]_vars PROVE GuiInv'
    OBVIOUS
  <2>1. CASE UNCHANGED vars
    BY <2>1, RegistryFrame DEF vars, registryVars, hubVars, clientVars
  <2>2. ASSUME NEW c \in Clients, ClientStep(c) PROVE GuiInv'
    <3>1. CASE Snapshot(c)
      BY <3>1 DEF Snapshot, GuiInv, OneCall, MidCall, Registry, NoneLeft, hubVars, IInv, TypeOK
    <3> QED
      BY <2>2, <3>1, AcquireGui, SubscribeGui, UnsubscribeGui, RemoveHubGui DEF ClientStep
  <2> QED
    BY <2>1, <2>2, PurgeGui, OthersGui DEF Next
<1> QED
  BY <1>1, <1>2, Invariant, PTL DEF Spec

\* With the GUI's WatchWorkers as the only clients, a device never has two hubs
\* that go on polling it: acquire, close and purge all run in the main thread,
\* so nothing comes between finding a hub and subscribing to it.
THEOREM GuiSharesWatch ==
  ASSUME OnlyGui
  PROVE  Spec => []OneWatchPerDevice
<1>1. IInv /\ GuiInv => OneWatchPerDevice
  BY DEF IInv, NoIdlePolling, GuiInv, Registry, OneWatchPerDevice
<1> QED
  BY <1>1, Invariant, GuiInvariant, PTL

------------------------------------------------------------------------------
(* A recorder misses no status.                                            *)

\* A client that has subscribed is among the subscriptions of its hub.
Subscribed == \A c \in Clients : cpc[c] \in {"subscribed", "open"} => c \in subs[chub[c]]

\* The status a recorder has not been given yet is about to be broadcast, or
\* the broadcast has still to put it in the recorder's queue.
OnItsWay(c) ==
  \/ seen[c]
  \/ poller[chub[c]] = "broadcast"
  \/ poller[chub[c]] = "event" /\ c \in targets[chub[c]]

NewsInv ==
  /\ Subscribed
  /\ \A c \in Clients \ GuiClients : cpc[c] = "open" => OnItsWay(c)

\* Only these six variables matter to it.
newsVars == <<subs, poller, targets, cpc, chub, seen>>

\* A step that leaves them alone preserves the invariant.
LEMMA NewsFrame == NewsInv /\ UNCHANGED newsVars => NewsInv'
BY DEF NewsInv, newsVars, Subscribed, OnItsWay

\* A hub made by Acquire is no client's yet; unsubscribing takes only the caller
\* out of the subscriptions and of a broadcast on its way.
LEMMA ClientNews ==
  ASSUME IInv, NewsInv, NEW c \in Clients, ClientStep(c)
  PROVE  NewsInv'
<1> USE DEF IInv, TypeOK, HoldersHaveHub
<1>1. CASE Acquire(c)
  <2>1. /\ cpc[c] = "idle" /\ cpc' = [cpc EXCEPT ![c] = "found"]
        /\ UNCHANGED <<poller, targets, seen>>
    BY <1>1 DEF Acquire, pollVars
  <2>2. \A d \in Clients : d # c => chub'[d] = chub[d]
    BY <1>1 DEF Acquire
  <2>3. \A d \in Clients : d # c /\ chub[d] \in Hubs => subs'[chub[d]] = subs[chub[d]]
    <3>1. CASE UNCHANGED subs
      BY <3>1
    <3>2. ASSUME NEW h \in Hubs, Unreferenced(h), subs' = [subs EXCEPT ![h] = {}]
          PROVE  \A d \in Clients : d # c /\ chub[d] \in Hubs => subs'[chub[d]] = subs[chub[d]]
      BY <3>2 DEF Unreferenced
    <3> QED
      BY <1>1, <3>1, <3>2 DEF Acquire, hubVars
  <2>4. Subscribed'
    BY <2>1, <2>2, <2>3 DEF NewsInv, Subscribed
  <2> QED
    BY <2>1, <2>2, <2>4 DEF NewsInv, OnItsWay
<1>2. CASE Subscribe(c)
  <2> DEFINE h == chub[c]
  <2>1. /\ cpc[c] = "found" /\ h \in Hubs
        /\ cpc' = [cpc EXCEPT ![c] = IF c \in GuiClients THEN "open" ELSE "subscribed"]
        /\ seen' = [seen EXCEPT ![c] = FALSE]
        /\ subs' = [subs EXCEPT ![h] = @ \cup {c}]
        /\ poller' = poller \/ (poller[h] = "dead" /\ poller' = [poller EXCEPT ![h] = "top"])
        /\ UNCHANGED <<targets, chub>>
    BY <1>2 DEF Subscribe
  <2>2. Subscribed'
    BY <2>1 DEF NewsInv, Subscribed
  <2>3. ASSUME NEW d \in Clients \ GuiClients, cpc'[d] = "open" PROVE OnItsWay(d)'
    <3>1. d # c /\ cpc[d] = "open" /\ OnItsWay(d)
      BY <2>1, <2>3 DEF NewsInv
    <3>2. /\ seen[d] => seen'[d]
          /\ poller[chub[d]] # "dead" => poller'[chub[d]] = poller[chub[d]]
      BY <2>1, <3>1
    <3> QED
      BY <2>1, <3>1, <3>2 DEF OnItsWay
  <2> QED
    BY <2>2, <2>3 DEF NewsInv
<1>3. CASE Snapshot(c)
  BY <1>3 DEF Snapshot, NewsInv, Subscribed, OnItsWay, hubVars, pollVars
<1>4. CASE Unsubscribe(c)
  <2> DEFINE h == chub[c]
  <2>1. /\ cpc[c] = "open" /\ h \in Hubs
        /\ subs' = [subs EXCEPT ![h] = @ \ {c}]
        /\ targets' = [targets EXCEPT ![h] = @ \ {c}]
        /\ UNCHANGED <<poller, seen>>
        /\ cpc'[c] \in {"idle", "removing"}
        /\ \A d \in Clients : d # c => cpc'[d] = cpc[d] /\ chub'[d] = chub[d]
    BY <1>4 DEF Unsubscribe
  <2>2. \A d \in Clients : d # c /\ chub[d] \in Hubs =>
          /\ d \in subs[chub[d]] => d \in subs'[chub[d]]
          /\ d \in targets[chub[d]] => d \in targets'[chub[d]]
    BY <2>1
  <2>3. Subscribed'
    BY <2>1, <2>2 DEF NewsInv, Subscribed
  <2> QED
    BY <2>1, <2>2, <2>3 DEF NewsInv, OnItsWay
<1>5. CASE RemoveHub(c)
  BY <1>5 DEF RemoveHub, NewsInv, Subscribed, OnItsWay, hubVars, pollVars
<1> QED
  BY <1>1, <1>2, <1>3, <1>4, <1>5 DEF ClientStep

\* A new status is due to every subscriber before the broadcast copies the
\* subscriptions, and the broadcast ends when every one has been put to.
LEMMA PollerNews ==
  ASSUME IInv, NewsInv, NEW h \in Hubs, PollerStep(h)
  PROVE  NewsInv'
<1> USE DEF IInv, TypeOK, HoldersHaveHub
<1>1. ASSUME UNCHANGED <<subs, cpc, chub>>,
             \A c \in Clients \ GuiClients : cpc[c] = "open" => OnItsWay(c)'
      PROVE  NewsInv'
  BY <1>1 DEF NewsInv, Subscribed
<1>2. ASSUME UNCHANGED <<subs, cpc, chub, targets, seen>>,
             poller[h] \notin {"broadcast", "event"},
             \A i \in Hubs : i # h => poller'[i] = poller[i]
      PROVE  NewsInv'
  BY <1>1, <1>2 DEF NewsInv, OnItsWay
<1>3. CASE PollerExit(h) \/ PollBegin(h) \/ PollLock(h) \/ PollReply(h) \/ PollerWake(h)
  BY <1>2, <1>3 DEF PollerExit, PollBegin, PollLock, PollReply, PollerWake, hubVars, clientVars
<1>4. CASE SetLastStatus(h)
  BY <1>1, <1>4 DEF SetLastStatus, NewsInv, OnItsWay, hubVars
<1>5. CASE BroadcastEvent(h)
  BY <1>1, <1>5 DEF BroadcastEvent, NewsInv, Subscribed, OnItsWay, hubVars, clientVars
<1>6. CASE PollFailed(h)
  <2>1. /\ poller[h] = "failed"
        /\ UNCHANGED <<subs, cpc, chub, seen>>
        /\ \A i \in Hubs : i # h => poller'[i] = poller[i] /\ targets'[i] = targets[i]
    BY <1>6 DEF PollFailed, clientVars
  <2> QED
    BY <1>1, <2>1 DEF NewsInv, OnItsWay
<1>7. ASSUME NEW c \in Clients, Deliver(h, c) PROVE NewsInv'
  BY <1>1, <1>7 DEF Deliver, BroadcastGoesOn, NewsInv, OnItsWay, hubVars
<1>8. CASE BroadcastDone(h)
  BY <1>1, <1>8 DEF BroadcastDone, NewsInv, OnItsWay, hubVars, clientVars
<1> QED
  BY <1>3, <1>4, <1>5, <1>6, <1>7, <1>8 DEF PollerStep

\* The invariant of the recorders holds in every reachable state.
LEMMA NewsInvariant == Spec => []NewsInv
<1>1. Init => NewsInv
  BY DEF Init, NewsInv, Subscribed
<1>2. IInv /\ NewsInv /\ [Next]_vars => NewsInv'
  <2> SUFFICES ASSUME IInv, NewsInv, [Next]_vars PROVE NewsInv'
    OBVIOUS
  <2> USE DEF newsVars, hubVars, pollVars, clientVars
  <2>1. CASE UNCHANGED vars
    BY <2>1, NewsFrame DEF vars
  <2>2. ASSUME PurgeScan \/ \E h \in Hubs : PurgeOne(h) PROVE NewsInv'
    BY <2>2, NewsFrame DEF PurgeScan, PurgeOne
  <2>3. ASSUME NEW t \in Transfers, TransferStep(t) PROVE NewsInv'
    BY <2>3, NewsFrame DEF TransferStep, SuspendAll, SuspendOne, TransferBegin, TransferEnd,
                           ResumeAll, ResumeOne, Suspend, Resume
  <2>4. ASSUME NEW g \in Configures, ConfigureStep(g) PROVE NewsInv'
    BY <2>4, NewsFrame DEF ConfigureStep, ConfigureFind, ConfigureSuspend, ConfigureEnd,
                           Suspend, Resume
  <2> QED
    BY <2>1, <2>2, <2>3, <2>4, ClientNews, PollerNews DEF Next
<1> QED
  BY <1>1, <1>2, Invariant, PTL DEF Spec

\* A recorder subscribes before it takes its snapshot, and a status is stored
\* before it is broadcast: whatever is stored between the two, the recorder gets
\* it one way or the other, however many clients and hubs there are.
THEOREM RecorderMissesNothing == Spec => []NothingMissed
<1>1. NewsInv => NothingMissed
  BY DEF NewsInv, NothingMissed, OnItsWay
<1> QED
  BY <1>1, NewsInvariant, PTL

------------------------------------------------------------------------------
(* Suspension holds.                                                       *)

\* No resume_all_watch_hubs has begun yet.
NoneResumes == \A t \in Transfers : tpc[t] # "resuming"

\* The configure is inside suspend_watch_hub with a hub of its own.
InConfigure(g) == gpc[g] \in {"found", "configuring"}

\* The registry finds a hub under its own key, a configure has found one under
\* the key it asked for, and the link lock admits one configure per key.
KeysAgree ==
  /\ \A k \in Keys : registry[k] # NoHub => hubKey[registry[k]] = k
  /\ \A g \in Configures :
       InConfigure(g) /\ ghub[g] # NoHub => hubKey[ghub[g]] = ConfigureKey[g]
  /\ \A g, i \in Configures :
       InConfigure(g) /\ InConfigure(i) /\ ConfigureKey[g] = ConfigureKey[i] => g = i

\* A transfer holds the hub, or a configure does.
Held(h) == \E t \in Transfers : h \in held[t]
Configured(h) == \E g \in Configures : gpc[g] = "configuring" /\ ghub[g] = h

\* Until a transfer resumes, a hub's suspend count has a unit for the transfers and
\* another for the configure.
SuspendInv ==
  /\ KeysAgree
  /\ NoneResumes => \A h \in Hubs :
       /\ Held(h) \/ Configured(h) => suspendCount[h] > 0
       /\ Held(h) /\ Configured(h) => suspendCount[h] > 1

\* Only these seven variables matter to it.
suspendVars == <<registry, hubKey, suspendCount, tpc, held, gpc, ghub>>

\* A step that leaves them alone preserves the invariant.
LEMMA SuspendFrame == SuspendInv /\ UNCHANGED suspendVars => SuspendInv'
BY DEF SuspendInv, suspendVars, KeysAgree, InConfigure, NoneResumes, Held, Configured

\* A client makes hubs and removes them from the registry; it makes one only of
\* an object that no transfer and no configure holds.
LEMMA ClientSuspend ==
  ASSUME IInv, SuspendInv, NEW c \in Clients, ClientStep(c)
  PROVE  SuspendInv'
<1> USE DEF IInv, TypeOK, HoldersHaveHub
<1>1. CASE Acquire(c)
  <2>1. UNCHANGED <<tpc, held, gpc, ghub>>
    BY <1>1 DEF Acquire, transferVars, configureVars
  <2>2. CASE UNCHANGED <<registry, hubVars>>
    BY <2>1, <2>2, SuspendFrame DEF suspendVars, hubVars
  <2>3. ASSUME NEW h \in Hubs, Unreferenced(h),
               registry' = [registry EXCEPT ![ClientKey[c]] = h],
               hubKey' = [hubKey EXCEPT ![h] = ClientKey[c]],
               suspendCount' = [suspendCount EXCEPT ![h] = 0]
        PROVE  SuspendInv'
    <3>1. /\ \A k \in Keys : registry[k] # h
          /\ \A g \in Configures : ghub[g] # h
          /\ \A t \in Transfers : h \notin held[t]
      BY <2>3 DEF Unreferenced, Registered
    <3>2. ~Held(h) /\ ~Configured(h)
      BY <3>1 DEF Held, Configured
    <3>3. KeysAgree'
      BY <2>1, <2>3, <3>1 DEF SuspendInv, KeysAgree, InConfigure
    <3>4. \A i \in Hubs : (Held(i)' <=> Held(i)) /\ (Configured(i)' <=> Configured(i))
      BY <2>1 DEF Held, Configured
    <3>5. NoneResumes' <=> NoneResumes
      BY <2>1 DEF NoneResumes
    <3>6. ASSUME NoneResumes', NEW i \in Hubs
          PROVE  /\ Held(i)' \/ Configured(i)' => suspendCount'[i] > 0
                 /\ Held(i)' /\ Configured(i)' => suspendCount'[i] > 1
      <4>1. CASE i = h
        BY <3>2, <3>4, <4>1
      <4>2. CASE i # h
        <5>1. suspendCount'[i] = suspendCount[i]
          BY <2>3, <4>2
        <5> QED
          BY <3>4, <3>5, <3>6, <5>1 DEF SuspendInv
      <4> QED
        BY <4>1, <4>2
    <3> QED
      BY <2>1, <3>3, <3>6 DEF SuspendInv
  <2> QED
    BY <1>1, <2>2, <2>3 DEF Acquire
<1>2. CASE RemoveHub(c)
  <2>1. /\ registry' = [registry EXCEPT ![hubKey[chub[c]]] = IF @ = chub[c] THEN NoHub ELSE @]
        /\ UNCHANGED <<hubKey, suspendCount, tpc, held, gpc, ghub>>
    BY <1>2 DEF RemoveHub, hubVars, transferVars, configureVars
  <2>2. KeysAgree'
    BY <2>1 DEF SuspendInv, KeysAgree, InConfigure
  <2> QED
    BY <2>1, <2>2 DEF SuspendInv, NoneResumes, Held, Configured
<1>3. CASE Subscribe(c) \/ Snapshot(c) \/ Unsubscribe(c)
  BY <1>3, SuspendFrame DEF Subscribe, Snapshot, Unsubscribe, suspendVars, hubVars,
                            transferVars, configureVars
<1> QED
  BY <1>1, <1>2, <1>3 DEF ClientStep

\* A purge only takes hubs out of the registry.
LEMMA PurgeSuspend ==
  ASSUME IInv, SuspendInv, PurgeScan \/ \E h \in Hubs : PurgeOne(h)
  PROVE  SuspendInv'
<1> USE DEF IInv, TypeOK
<1>1. CASE PurgeScan
  BY <1>1, SuspendFrame DEF PurgeScan, suspendVars, hubVars, transferVars, configureVars
<1>2. ASSUME NEW h \in Hubs, PurgeOne(h) PROVE SuspendInv'
  <2>1. /\ registry' = [registry EXCEPT ![hubKey[h]] = NoHub]
        /\ UNCHANGED <<hubKey, suspendCount, tpc, held, gpc, ghub>>
    BY <1>2 DEF PurgeOne, transferVars, configureVars
  <2>2. KeysAgree'
    BY <2>1 DEF SuspendInv, KeysAgree, InConfigure
  <2> QED
    BY <2>1, <2>2 DEF SuspendInv, NoneResumes, Held, Configured
<1> QED
  BY <1>1, <1>2

\* A transfer adds a unit to the count of each hub it comes to hold, and lets go
\* of all of them at the moment it begins to resume.
LEMMA TransferSuspend ==
  ASSUME IInv, SuspendInv, NEW t \in Transfers, TransferStep(t)
  PROVE  SuspendInv'
<1> USE DEF IInv, TypeOK
<1>1. CASE TransferBegin(t) \/ TransferEnd(t) \/ SuspendAll(t)
  <2>1. /\ UNCHANGED <<registry, hubKey, suspendCount, held, gpc, ghub>>
        /\ tpc[t] # "resuming" /\ tpc'[t] # "resuming"
        /\ \A u \in Transfers : u # t => tpc'[u] = tpc[u]
    BY <1>1 DEF TransferBegin, TransferEnd, SuspendAll, hubVars, configureVars
  <2>2. NoneResumes' <=> NoneResumes
    BY <2>1 DEF NoneResumes
  <2>3. KeysAgree'
    BY <2>1 DEF SuspendInv, KeysAgree, InConfigure
  <2> QED
    BY <2>1, <2>2, <2>3 DEF SuspendInv, Held, Configured
<1>2. CASE ResumeAll(t)
  <2>1. /\ UNCHANGED <<registry, hubKey, suspendCount, gpc, ghub>>
        /\ tpc' = [tpc EXCEPT ![t] = "resuming"]
    BY <1>2 DEF ResumeAll, hubVars, configureVars
  <2>2. ~NoneResumes'
    BY <2>1 DEF NoneResumes
  <2>3. KeysAgree'
    BY <2>1 DEF SuspendInv, KeysAgree, InConfigure
  <2> QED
    BY <2>2, <2>3 DEF SuspendInv
<1>3. ASSUME NEW h \in Hubs, SuspendOne(t, h) PROVE SuspendInv'
  <2>1. /\ UNCHANGED <<registry, hubKey, tpc, gpc, ghub>>
        /\ tpc[t] = "suspended"
        /\ suspendCount' = [suspendCount EXCEPT ![h] = @ + 1]
        /\ held' = [held EXCEPT ![t] = @ \cup {h}]
    BY <1>3 DEF SuspendOne, Suspend, configureVars
  <2>2. KeysAgree'
    BY <2>1 DEF SuspendInv, KeysAgree, InConfigure
  <2>3. ASSUME NoneResumes', NEW i \in Hubs
        PROVE  /\ Held(i)' \/ Configured(i)' => suspendCount'[i] > 0
               /\ Held(i)' /\ Configured(i)' => suspendCount'[i] > 1
    <3>1. NoneResumes
      BY <2>1, <2>3 DEF NoneResumes
    <3>2. Configured(i)' <=> Configured(i)
      BY <2>1 DEF Configured
    <3>3. /\ Configured(i) => suspendCount[i] > 0
          /\ Held(i) => suspendCount[i] > 0
          /\ Held(i) /\ Configured(i) => suspendCount[i] > 1
      BY <3>1 DEF SuspendInv
    <3>4. CASE i = h
      BY <2>1, <3>2, <3>3, <3>4
    <3>5. CASE i # h
      <4>1. suspendCount'[i] = suspendCount[i] /\ (Held(i)' <=> Held(i))
        BY <2>1, <3>5 DEF Held
      <4> QED
        BY <3>2, <3>3, <4>1
    <3> QED
      BY <3>4, <3>5
  <2> QED
    BY <2>2, <2>3 DEF SuspendInv
<1>4. ASSUME NEW h \in Hubs, ResumeOne(t, h) PROVE SuspendInv'
  <2>1. /\ UNCHANGED <<registry, hubKey, tpc, held, gpc, ghub>>
        /\ tpc[t] = "resuming"
    BY <1>4 DEF ResumeOne, Resume, configureVars
  <2>2. KeysAgree'
    BY <2>1 DEF SuspendInv, KeysAgree, InConfigure
  <2> QED
    BY <2>1, <2>2 DEF SuspendInv, NoneResumes
<1> QED
  BY <1>1, <1>2, <1>3, <1>4 DEF TransferStep

\* A configure takes back the one unit it has added: another configure of the
\* same device does not overlap with it.
LEMMA ConfigureSuspends ==
  ASSUME IInv, SuspendInv, NEW g \in Configures, ConfigureStep(g)
  PROVE  SuspendInv'
<1> USE DEF IInv, TypeOK, HoldersHaveHub
<1>1. UNCHANGED <<registry, hubKey, tpc, held>>
  BY DEF ConfigureStep, ConfigureFind, ConfigureSuspend, ConfigureEnd, Suspend, Resume,
         hubVars, transferVars
<1>2. /\ NoneResumes' <=> NoneResumes
      /\ \A i \in Hubs : Held(i)' <=> Held(i)
  BY <1>1 DEF NoneResumes, Held
<1>3. NoneResumes => \A i \in Hubs :
        /\ Held(i) \/ Configured(i) => suspendCount[i] > 0
        /\ Held(i) /\ Configured(i) => suspendCount[i] > 1
  BY DEF SuspendInv
<1>4. CASE ConfigureFind(g)
  <2>1. /\ gpc[g] = "idle"
        /\ \A i \in Configures : i # g /\ ConfigureKey[i] = ConfigureKey[g] => ~InConfigure(i)
        /\ ghub' = [ghub EXCEPT ![g] = registry[ConfigureKey[g]]]
        /\ gpc' = [gpc EXCEPT ![g] = IF registry[ConfigureKey[g]] = NoHub
                                     THEN "configuring" ELSE "found"]
        /\ UNCHANGED suspendCount
    BY <1>4 DEF ConfigureFind, HubOf, InConfigure, hubVars
  <2>2. KeysAgree'
    BY <1>1, <2>1 DEF SuspendInv, KeysAgree, InConfigure
  <2>3. \A i \in Hubs : Configured(i)' => Configured(i)
    BY <2>1 DEF Configured
  <2> QED
    BY <1>2, <1>3, <2>1, <2>2, <2>3 DEF SuspendInv
<1>5. CASE ConfigureSuspend(g)
  <2> DEFINE h == ghub[g]
  <2>1. /\ gpc[g] = "found" /\ h \in Hubs
        /\ gpc' = [gpc EXCEPT ![g] = "configuring"]
        /\ suspendCount' = [suspendCount EXCEPT ![h] = @ + 1]
        /\ UNCHANGED ghub
    BY <1>5 DEF ConfigureSuspend, Suspend
  <2>2. KeysAgree'
    BY <1>1, <2>1 DEF SuspendInv, KeysAgree, InConfigure
  <2>3. \A i \in Hubs : i # h => (Configured(i)' => Configured(i))
    BY <2>1 DEF Configured
  <2>4. ASSUME NoneResumes', NEW i \in Hubs
        PROVE  /\ Held(i)' \/ Configured(i)' => suspendCount'[i] > 0
               /\ Held(i)' /\ Configured(i)' => suspendCount'[i] > 1
    <3>1. CASE i = h
      <4>1. suspendCount'[i] = suspendCount[i] + 1
        BY <2>1, <3>1
      <4> QED
        BY <1>2, <1>3, <2>4, <4>1
    <3>2. CASE i # h
      <4>1. suspendCount'[i] = suspendCount[i]
        BY <2>1, <3>2
      <4> QED
        BY <1>2, <1>3, <2>3, <2>4, <3>2, <4>1
    <3> QED
      BY <3>1, <3>2
  <2> QED
    BY <1>2, <2>2, <2>4 DEF SuspendInv
<1>6. CASE ConfigureEnd(g)
  <2> DEFINE h == ghub[g]
  <2>1. /\ gpc[g] = "configuring"
        /\ gpc' = [gpc EXCEPT ![g] = "done"]
        /\ ghub' = [ghub EXCEPT ![g] = NoHub]
        /\ IF h = NoHub THEN UNCHANGED suspendCount
           ELSE suspendCount' = [suspendCount EXCEPT ![h] = Countdown(@)]
    BY <1>6 DEF ConfigureEnd, Resume, hubVars
  <2>2. KeysAgree'
    BY <1>1, <2>1 DEF SuspendInv, KeysAgree, InConfigure
  <2>3. \A i \in Hubs : Configured(i)' => Configured(i) /\ i # h
    <3> SUFFICES ASSUME NEW i \in Hubs, Configured(i)' PROVE Configured(i) /\ i # h
      OBVIOUS
    <3>1. PICK j \in Configures : gpc'[j] = "configuring" /\ ghub'[j] = i
      BY DEF Configured
    <3>2. j # g /\ gpc[j] = "configuring" /\ ghub[j] = i
      BY <2>1, <3>1
    <3>3. i # h
      BY <2>1, <3>2 DEF SuspendInv, KeysAgree, InConfigure
    <3> QED
      BY <3>2, <3>3 DEF Configured
  <2>4. ASSUME NoneResumes', NEW i \in Hubs
        PROVE  /\ Held(i)' \/ Configured(i)' => suspendCount'[i] > 0
               /\ Held(i)' /\ Configured(i)' => suspendCount'[i] > 1
    <3>1. CASE i = h
      <4>1. Configured(i) /\ suspendCount'[i] = Countdown(suspendCount[i])
        BY <2>1, <3>1 DEF Configured
      <4>2. Held(i) => suspendCount[i] > 1
        BY <1>2, <1>3, <2>4, <4>1
      <4>3. Held(i) => suspendCount'[i] > 0
        BY <4>1, <4>2 DEF Countdown
      <4> QED
        BY <1>2, <2>3, <3>1, <4>3
    <3>2. CASE i # h
      <4>1. suspendCount'[i] = suspendCount[i]
        BY <2>1, <3>2
      <4> QED
        BY <1>2, <1>3, <2>3, <2>4, <4>1
    <3> QED
      BY <3>1, <3>2
  <2> QED
    BY <1>2, <2>2, <2>4 DEF SuspendInv
<1> QED
  BY <1>4, <1>5, <1>6 DEF ConfigureStep

\* The invariant of the suspend counts holds in every reachable state.
LEMMA SuspendInvariant == Spec => []SuspendInv
<1>1. Init => SuspendInv
  BY DEF Init, SuspendInv, KeysAgree, InConfigure, NoneResumes, Held, Configured
<1>2. IInv /\ SuspendInv /\ [Next]_vars => SuspendInv'
  <2> SUFFICES ASSUME IInv, SuspendInv, [Next]_vars PROVE SuspendInv'
    OBVIOUS
  <2>1. CASE UNCHANGED vars
    BY <2>1, SuspendFrame DEF vars, suspendVars, hubVars, transferVars, configureVars
  <2>2. ASSUME NEW h \in Hubs, PollerStep(h) PROVE SuspendInv'
    BY <2>2, SuspendFrame DEF PollerStep, PollerExit, PollBegin, PollLock, PollReply,
         SetLastStatus, BroadcastEvent, PollFailed, Deliver, BroadcastDone, PollerWake,
         suspendVars, hubVars, transferVars, configureVars
  <2> QED
    BY <2>1, <2>2, ClientSuspend, PurgeSuspend, TransferSuspend, ConfigureSuspends DEF Next
<1> QED
  BY <1>1, <1>2, Invariant, PTL DEF Spec

\* However many transfers overlap, until the first of them resumes, a hub that a
\* transfer or a configure has suspended is suspended: nothing but resume_all can
\* wake a hub under a transfer or under a configure.  (It may: resume_all visits the
\* hubs registered at its time, not those its own suspend_all has found, and so wakes
\* those of another transfer.)
THEOREM SuspensionHoldsUntilResumeAll ==
  Spec => [](NoneResumes => HeldHubsSuspended /\ ConfiguredHubSuspended)
<1>1. IInv /\ SuspendInv => (NoneResumes => HeldHubsSuspended /\ ConfiguredHubSuspended)
  <2> SUFFICES ASSUME IInv, SuspendInv, NoneResumes
               PROVE  HeldHubsSuspended /\ ConfiguredHubSuspended
    OBVIOUS
  <2>1. HeldHubsSuspended
    BY DEF IInv, TypeOK, SuspendInv, HeldHubsSuspended, Held
  <2>2. ConfiguredHubSuspended
    BY DEF IInv, TypeOK, SuspendInv, ConfiguredHubSuspended, Configured
  <2> QED
    BY <2>1, <2>2
<1> QED
  BY <1>1, Invariant, SuspendInvariant, PTL
==============================================================================
