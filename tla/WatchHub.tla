------------------------------- MODULE WatchHub -------------------------------
(***************************************************************************)
(* The watch hubs of testagent/watch_hub.py: one WatchHub object polls one *)
(* device on behalf of its subscriptions, and the registry _HUBS finds the *)
(* hub of a device.  The actors are                                        *)
(*   - clients, which acquire, hold and close a subscription: the GUI's    *)
(*     WatchWorkers, whose every call runs in the Qt main thread, and      *)
(*     RecordWorkers, each in a thread of its own;                         *)
(*   - the Qt timer, which calls purge_stale_hubs in the main thread;      *)
(*   - one poll thread per hub (WatchHub._run);                            *)
(*   - transfers (OTABatchWorker, SDSDCleanWorker), which bracket their    *)
(*     FTP work by suspend_all_watch_hubs and resume_all_watch_hubs;       *)
(*   - configures (configure_device), which suspend the one hub of their   *)
(*     device; the link lock admits one of them per device at a time.      *)
(*                                                                         *)
(* An action is one critical section.  Hubs are object identities: an      *)
(* identity nobody refers to any more may be allocated again, as the       *)
(* garbage collector allows.  What a slow client keeps of its              *)
(* notifications is the business of SubscriptionQueue; here seen[c] says   *)
(* whether the latest status of c's hub was put in c's queue or handed to  *)
(* c as a snapshot.                                                        *)
(***************************************************************************)
EXTENDS Naturals, FiniteSetsExt

CONSTANTS
  Keys,         \* devices: (host, port, source_host, source_if_index)
  Hubs,         \* identities of WatchHub objects
  NoHub,        \* None
  Clients,      \* holders of one subscription at a time
  GuiClients,   \* those of them that act in the Qt main thread
  ClientKey,    \* the device each client watches
  IntervalOf,   \* the interval_ms it asks for, clamped to 200..5000
  Transfers,    \* long FTP jobs, each run once
  Configures,   \* calls of configure_device, each made once
  ConfigureKey  \* the device each of them configures

ASSUME WatchHubAssumption ==
  /\ NoHub \notin Hubs
  /\ Keys # {}
  /\ GuiClients \subseteq Clients
  /\ ClientKey \in [Clients -> Keys]
  /\ IntervalOf \in [Clients -> Nat]
  /\ ConfigureKey \in [Configures -> Keys]
  /\ Hubs \cap Transfers = {}

VARIABLES
  registry,      \* _HUBS
  purging,       \* the stale hubs purge_stale_hubs has still to remove; it
                 \* holds _HUBS_LOCK while there are any
  hubKey,        \* the device of a hub object
  subs,          \* _subscriptions
  stopEvent,     \* _stop_event.is_set()
  reconfigure,   \* _reconfigure_event.is_set()
  suspendCount,  \* _suspend_count; _suspend_event is set iff it is positive
  poller,        \* where the hub's poll thread is in _run
  errorReported, \* the poll thread's local error_reported
  targets,       \* subscriptions a _broadcast has still to put to
  requestLock,   \* holder of protocol._request_lock
  cpc,           \* where each client is
  chub,          \* the hub a client holds a reference to
  seen,          \* history: the hub's latest status has reached it
  tpc,           \* where each transfer is
  todo,          \* hubs its suspend_all or resume_all loop has still to visit
  held,          \* history: hubs it suspended and has not begun to resume
  gpc,           \* where each configure is
  ghub           \* the hub it found, or NoHub

hubVars == <<hubKey, subs, stopEvent, reconfigure, suspendCount>>
pollVars == <<poller, errorReported, targets, requestLock>>
clientVars == <<cpc, chub, seen>>
transferVars == <<tpc, todo, held>>
configureVars == <<gpc, ghub>>
vars == <<registry, purging, hubVars, pollVars, clientVars, transferVars, configureVars>>

NoOne == "nobody"

Init ==
  /\ registry = [k \in Keys |-> NoHub]
  /\ purging = {}
  /\ hubKey = [h \in Hubs |-> CHOOSE k \in Keys : TRUE]
  /\ subs = [h \in Hubs |-> {}]
  /\ stopEvent = [h \in Hubs |-> FALSE]
  /\ reconfigure = [h \in Hubs |-> FALSE]
  /\ suspendCount = [h \in Hubs |-> 0]
  /\ poller = [h \in Hubs |-> "dead"]
  /\ errorReported = [h \in Hubs |-> FALSE]
  /\ targets = [h \in Hubs |-> {}]
  /\ requestLock = NoOne
  /\ cpc = [c \in Clients |-> "idle"]
  /\ chub = [c \in Clients |-> NoHub]
  /\ seen = [c \in Clients |-> FALSE]
  /\ tpc = [t \in Transfers |-> "idle"]
  /\ todo = [t \in Transfers |-> {}]
  /\ held = [t \in Transfers |-> {}]
  /\ gpc = [g \in Configures |-> "idle"]
  /\ ghub = [g \in Configures |-> NoHub]

Registered == {registry[k] : k \in Keys} \ {NoHub}

\* No reference leads to the object: not the registry, a loop, a client, a
\* configure, or a thread of its own.
Unreferenced(h) ==
  /\ h \notin Registered \cup purging
  /\ poller[h] = "dead"
  /\ h \notin {chub[c] : c \in Clients}
  /\ h \notin UNION {todo[t] \cup held[t] : t \in Transfers}
  /\ h \notin {ghub[g] : g \in Configures}

HubsLockFree == purging = {}

\* The Qt main thread runs one call at a time: it is inside a client's call
\* between two of that call's critical sections, or inside a purge.
GuiThreadFree ==
  /\ purging = {}
  /\ \A c \in GuiClients : cpc[c] \notin {"found", "removing"}

MayRun(c) == c \in GuiClients => GuiThreadFree

\* Fault: the hub of a device is not found again.
HubForgotten(k) == NoHub

\* _HUBS.get(hub_key)
HubOf(k) == registry[k]

\* Fault: the last subscription to go is not noticed.
UnusedUnnoticed(S) == FALSE

\* not self._subscriptions
Unused(S) == S = {}

\* Fault: the loop of _broadcast ends after the first subscription.
BroadcastStops(S, c) == {}

\* The subscriptions the loop of _broadcast has still to put to after c.
BroadcastGoesOn(S, c) == S \ {c}

\* Faults: the count may go below zero; one resume undoes every suspend.
CountdownUnclamped(n) == n - 1
CountdownToZero(n) == 0

\* What resume makes of _suspend_count.
Countdown(n) == IF n > 0 THEN n - 1 ELSE 0

\* _interval_locked
PollInterval(S) == IF S = {} THEN 1000 ELSE Min({IntervalOf[c] : c \in S})

------------------------------------------------------------------------------
(* Clients.                                                                *)

\* acquire_watch_subscription, under _HUBS_LOCK: find or create the hub.
Acquire(c) ==
  /\ cpc[c] = "idle"
  /\ MayRun(c)
  /\ HubsLockFree
  /\ cpc' = [cpc EXCEPT ![c] = "found"]
  /\ \/ /\ HubOf(ClientKey[c]) # NoHub
        /\ chub' = [chub EXCEPT ![c] = HubOf(ClientKey[c])]
        /\ UNCHANGED <<registry, hubVars>>
     \/ /\ HubOf(ClientKey[c]) = NoHub
        /\ \E h \in Hubs :
             /\ Unreferenced(h)
             /\ registry' = [registry EXCEPT ![ClientKey[c]] = h]
             /\ chub' = [chub EXCEPT ![c] = h]
             /\ hubKey' = [hubKey EXCEPT ![h] = ClientKey[c]]
             /\ subs' = [subs EXCEPT ![h] = {}]
             /\ stopEvent' = [stopEvent EXCEPT ![h] = FALSE]
             /\ reconfigure' = [reconfigure EXCEPT ![h] = FALSE]
             /\ suspendCount' = [suspendCount EXCEPT ![h] = 0]
  /\ UNCHANGED <<purging, pollVars, seen, transferVars, configureVars>>

\* WatchHub.subscribe, under the hub's lock but no longer under _HUBS_LOCK.  A
\* poll thread that is still alive is kept, even if it was told to stop.
Subscribe(c) ==
  LET h == chub[c] IN
  /\ cpc[c] = "found"
  /\ cpc' = [cpc EXCEPT ![c] = IF c \in GuiClients THEN "open" ELSE "subscribed"]
  /\ seen' = [seen EXCEPT ![c] = FALSE]
  /\ subs' = [subs EXCEPT ![h] = @ \cup {c}]
  /\ IF poller[h] = "dead"
     THEN /\ stopEvent' = [stopEvent EXCEPT ![h] = FALSE]
          /\ poller' = [poller EXCEPT ![h] = "top"]
          /\ errorReported' = [errorReported EXCEPT ![h] = FALSE]
          /\ UNCHANGED reconfigure
     ELSE /\ reconfigure' = [reconfigure EXCEPT ![h] =
                               @ \/ PollInterval(subs[h]) # PollInterval(subs'[h])]
          /\ UNCHANGED <<stopEvent, poller, errorReported>>
  /\ UNCHANGED <<registry, purging, hubKey, suspendCount, targets,
                 requestLock, chub, transferVars, configureVars>>

\* A RecordWorker goes on to take snapshot_status, under the hub's lock.
Snapshot(c) ==
  /\ cpc[c] = "subscribed"
  /\ cpc' = [cpc EXCEPT ![c] = "open"]
  /\ seen' = [seen EXCEPT ![c] = TRUE]
  /\ UNCHANGED <<registry, purging, hubVars, pollVars, chub, transferVars, configureVars>>

\* WatchSubscription.close: WatchHub.unsubscribe under the hub's lock.  Nobody
\* reads the queue of a closed subscription: what a broadcast has still to put
\* there, and the "finished" put here, are left out.
Unsubscribe(c) ==
  LET h == chub[c] IN
  /\ cpc[c] = "open"
  /\ MayRun(c)
  /\ subs' = [subs EXCEPT ![h] = @ \ {c}]
  /\ targets' = [targets EXCEPT ![h] = @ \ {c}]
  /\ IF Unused(subs'[h])
     THEN /\ stopEvent' = [stopEvent EXCEPT ![h] = TRUE]
          /\ cpc' = [cpc EXCEPT ![c] = "removing"]
          /\ UNCHANGED <<reconfigure, chub>>
     ELSE /\ reconfigure' = [reconfigure EXCEPT ![h] =
                               @ \/ PollInterval(subs[h]) # PollInterval(subs'[h])]
          /\ cpc' = [cpc EXCEPT ![c] = "idle"]
          /\ chub' = [chub EXCEPT ![c] = NoHub]
          /\ UNCHANGED stopEvent
  /\ UNCHANGED <<registry, purging, hubKey, suspendCount, poller, errorReported,
                 requestLock, seen, transferVars, configureVars>>

\* _remove_hub, under _HUBS_LOCK, after unsubscribe has let the hub's lock go.
RemoveHub(c) ==
  LET h == chub[c] IN
  /\ cpc[c] = "removing"
  /\ HubsLockFree
  /\ registry' = [registry EXCEPT ![hubKey[h]] = IF @ = h THEN NoHub ELSE @]
  /\ cpc' = [cpc EXCEPT ![c] = "idle"]
  /\ chub' = [chub EXCEPT ![c] = NoHub]
  /\ UNCHANGED <<purging, hubVars, pollVars, seen, transferVars, configureVars>>

------------------------------------------------------------------------------
(* purge_stale_hubs, under _HUBS_LOCK but not under any hub's lock.        *)

PurgeScan ==
  /\ GuiThreadFree
  /\ HubsLockFree
  /\ purging' = {h \in Registered : Unused(subs[h])}
  /\ UNCHANGED <<registry, hubVars, pollVars, clientVars, transferVars, configureVars>>

PurgeOne(h) ==
  /\ h \in purging
  /\ purging' = purging \ {h}
  /\ stopEvent' = [stopEvent EXCEPT ![h] = TRUE]
  /\ registry' = [registry EXCEPT ![hubKey[h]] = NoHub]
  /\ UNCHANGED <<hubKey, subs, reconfigure, suspendCount, pollVars, clientVars,
                 transferVars, configureVars>>

------------------------------------------------------------------------------
(* The poll thread of a hub.                                               *)

\* The loop condition fails and the thread ends.
PollerExit(h) ==
  /\ poller[h] = "top"
  /\ stopEvent[h]
  /\ poller' = [poller EXCEPT ![h] = "dead"]
  /\ UNCHANGED <<registry, purging, hubVars, errorReported, targets, requestLock,
                 clientVars, transferVars, configureVars>>

\* Past both tests of the loop the thread is committed to one request.  While
\* the hub is suspended it stays at the top.
PollBegin(h) ==
  /\ poller[h] = "top"
  /\ ~stopEvent[h]
  /\ suspendCount[h] = 0
  /\ poller' = [poller EXCEPT ![h] = "waiting"]
  /\ UNCHANGED <<registry, purging, hubVars, errorReported, targets, requestLock,
                 clientVars, transferVars, configureVars>>

\* request_case_status takes the process-wide request lock.
PollLock(h) ==
  /\ poller[h] = "waiting"
  /\ requestLock = NoOne
  /\ requestLock' = h
  /\ poller' = [poller EXCEPT ![h] = "polling"]
  /\ UNCHANGED <<registry, purging, hubVars, errorReported, targets,
                 clientVars, transferVars, configureVars>>

\* The device answers with a status, or with code -10 (its UI bridge is busy:
\* the latest status stands), or the request fails.
PollReply(h) ==
  /\ poller[h] = "polling"
  /\ requestLock' = NoOne
  /\ \/ /\ poller' = [poller EXCEPT ![h] = "answered"]
        /\ UNCHANGED errorReported
     \/ /\ poller' = [poller EXCEPT ![h] = "sleeping"]
        /\ errorReported' = [errorReported EXCEPT ![h] = FALSE]
     \/ /\ poller' = [poller EXCEPT ![h] = "failed"]
        /\ UNCHANGED errorReported
  /\ UNCHANGED <<registry, purging, hubVars, targets, clientVars, transferVars, configureVars>>

\* _set_last_status, in a critical section of its own before the broadcast.
SetLastStatus(h) ==
  /\ poller[h] = "answered"
  /\ seen' = [c \in Clients |-> seen[c] /\ chub[c] # h]
  /\ poller' = [poller EXCEPT ![h] = "broadcast"]
  /\ UNCHANGED <<registry, purging, hubVars, errorReported, targets, requestLock,
                 cpc, chub, transferVars, configureVars>>

\* _broadcast("event", ...) copies the subscriptions under the lock ...
BroadcastEvent(h) ==
  /\ poller[h] = "broadcast"
  /\ targets' = [targets EXCEPT ![h] = subs[h]]
  /\ poller' = [poller EXCEPT ![h] = "event"]
  /\ UNCHANGED <<registry, purging, hubVars, errorReported, requestLock,
                 clientVars, transferVars, configureVars>>

\* The exception handler: a failure that a reconfiguration explains is passed
\* over without a pause, the first of the others is reported.
PollFailed(h) ==
  /\ poller[h] = "failed"
  /\ \/ /\ reconfigure[h]
        /\ reconfigure' = [reconfigure EXCEPT ![h] = FALSE]
        /\ poller' = [poller EXCEPT ![h] = "top"]
        /\ UNCHANGED targets
     \/ /\ ~reconfigure[h]
        /\ ~errorReported[h] /\ ~stopEvent[h]
        /\ targets' = [targets EXCEPT ![h] = subs[h]]
        /\ poller' = [poller EXCEPT ![h] = "error"]
        /\ UNCHANGED reconfigure
     \/ /\ ~reconfigure[h]
        /\ errorReported[h] \/ stopEvent[h]
        /\ poller' = [poller EXCEPT ![h] = "sleeping"]
        /\ UNCHANGED <<reconfigure, targets>>
  /\ UNCHANGED <<registry, purging, hubKey, subs, stopEvent, suspendCount,
                 errorReported, requestLock, clientVars, transferVars, configureVars>>

\* ... and puts to each of them after letting the lock go.
Deliver(h, c) ==
  /\ poller[h] \in {"event", "error"}
  /\ c \in targets[h]
  /\ targets' = [targets EXCEPT ![h] = BroadcastGoesOn(@, c)]
  /\ seen' = [seen EXCEPT ![c] = @ \/ poller[h] = "event"]
  /\ UNCHANGED <<registry, purging, hubVars, poller, errorReported, requestLock,
                 cpc, chub, transferVars, configureVars>>

BroadcastDone(h) ==
  /\ poller[h] \in {"event", "error"}
  /\ targets[h] = {}
  /\ errorReported' = [errorReported EXCEPT ![h] = (poller[h] = "error")]
  /\ poller' = [poller EXCEPT ![h] = "sleeping"]
  /\ UNCHANGED <<registry, purging, hubVars, targets, requestLock,
                 clientVars, transferVars, configureVars>>

\* _sleep_until ends, because the time is up or the stop event is set.
PollerWake(h) ==
  /\ poller[h] = "sleeping"
  /\ poller' = [poller EXCEPT ![h] = "top"]
  /\ UNCHANGED <<registry, purging, hubVars, errorReported, targets, requestLock,
                 clientVars, transferVars, configureVars>>

------------------------------------------------------------------------------
(* Transfers and configures.                                               *)

\* WatchHub.suspend and WatchHub.resume, under the hub's lock.
Suspend(h) ==
  /\ suspendCount' = [suspendCount EXCEPT ![h] = @ + 1]
  /\ reconfigure' = [reconfigure EXCEPT ![h] = TRUE]
  /\ UNCHANGED <<hubKey, subs, stopEvent>>

Resume(h) ==
  /\ suspendCount' = [suspendCount EXCEPT ![h] = Countdown(@)]
  /\ reconfigure' = [reconfigure EXCEPT ![h] = IF suspendCount'[h] = 0 THEN FALSE ELSE @]
  /\ UNCHANGED <<hubKey, subs, stopEvent>>

\* suspend_all_watch_hubs: a copy of the registry under _HUBS_LOCK, then each
\* hub in turn.
SuspendAll(t) ==
  /\ tpc[t] = "idle"
  /\ HubsLockFree
  /\ tpc' = [tpc EXCEPT ![t] = "suspended"]
  /\ todo' = [todo EXCEPT ![t] = Registered]
  /\ UNCHANGED <<registry, purging, hubVars, pollVars, clientVars, held, configureVars>>

SuspendOne(t, h) ==
  /\ tpc[t] = "suspended"
  /\ h \in todo[t]
  /\ Suspend(h)
  /\ todo' = [todo EXCEPT ![t] = @ \ {h}]
  /\ held' = [held EXCEPT ![t] = @ \cup {h}]
  /\ UNCHANGED <<registry, purging, pollVars, clientVars, tpc, configureVars>>

\* The FTP calls of the job, each under the request lock; when every one fails
\* early there may be none.
TransferBegin(t) ==
  /\ tpc[t] = "suspended"
  /\ todo[t] = {}
  /\ requestLock = NoOne
  /\ requestLock' = t
  /\ tpc' = [tpc EXCEPT ![t] = "transferring"]
  /\ UNCHANGED <<registry, purging, hubVars, poller, errorReported, targets,
                 clientVars, todo, held, configureVars>>

TransferEnd(t) ==
  /\ tpc[t] = "transferring"
  /\ requestLock' = NoOne
  /\ tpc' = [tpc EXCEPT ![t] = "suspended"]
  /\ UNCHANGED <<registry, purging, hubVars, poller, errorReported, targets,
                 clientVars, todo, held, configureVars>>

\* resume_all_watch_hubs, in the job's finally: the registry of that moment.
ResumeAll(t) ==
  /\ tpc[t] = "suspended"
  /\ todo[t] = {}
  /\ HubsLockFree
  /\ tpc' = [tpc EXCEPT ![t] = "resuming"]
  /\ todo' = [todo EXCEPT ![t] = Registered]
  /\ held' = [held EXCEPT ![t] = {}]
  /\ UNCHANGED <<registry, purging, hubVars, pollVars, clientVars, configureVars>>

ResumeOne(t, h) ==
  /\ tpc[t] = "resuming"
  /\ h \in todo[t]
  /\ Resume(h)
  /\ todo' = [todo EXCEPT ![t] = @ \ {h}]
  /\ UNCHANGED <<registry, purging, pollVars, clientVars, tpc, held, configureVars>>

\* configure_device enters suspend_watch_hub: find the hub, if any ...
ConfigureFind(g) ==
  /\ gpc[g] = "idle"
  /\ \A g2 \in Configures \ {g} :
       ConfigureKey[g2] = ConfigureKey[g] => gpc[g2] \in {"idle", "done"}
  /\ HubsLockFree
  /\ ghub' = [ghub EXCEPT ![g] = HubOf(ConfigureKey[g])]
  /\ gpc' = [gpc EXCEPT ![g] =
               IF HubOf(ConfigureKey[g]) = NoHub THEN "configuring" ELSE "found"]
  /\ UNCHANGED <<registry, purging, hubVars, pollVars, clientVars, transferVars>>

\* ... suspend it ...
ConfigureSuspend(g) ==
  /\ gpc[g] = "found"
  /\ Suspend(ghub[g])
  /\ gpc' = [gpc EXCEPT ![g] = "configuring"]
  /\ UNCHANGED <<registry, purging, pollVars, clientVars, transferVars, ghub>>

\* Fault: a configuration that fails does not resume the hub.
ConfigureAbandon(g) ==
  /\ gpc[g] = "configuring"
  /\ UNCHANGED hubVars
  /\ gpc' = [gpc EXCEPT ![g] = "done"]
  /\ ghub' = [ghub EXCEPT ![g] = NoHub]
  /\ UNCHANGED <<registry, purging, pollVars, clientVars, transferVars>>

\* ... and resume it on the way out, whatever became of the configuration.
ConfigureEnd(g) ==
  /\ gpc[g] = "configuring"
  /\ IF ghub[g] = NoHub THEN UNCHANGED hubVars ELSE Resume(ghub[g])
  /\ gpc' = [gpc EXCEPT ![g] = "done"]
  /\ ghub' = [ghub EXCEPT ![g] = NoHub]
  /\ UNCHANGED <<registry, purging, pollVars, clientVars, transferVars>>

------------------------------------------------------------------------------
ClientStep(c) == Acquire(c) \/ Subscribe(c) \/ Snapshot(c) \/ Unsubscribe(c) \/ RemoveHub(c)

PollerStep(h) ==
  \/ PollerExit(h) \/ PollBegin(h) \/ PollLock(h) \/ PollReply(h)
  \/ SetLastStatus(h) \/ BroadcastEvent(h) \/ PollFailed(h)
  \/ \E c \in Clients : Deliver(h, c)
  \/ BroadcastDone(h) \/ PollerWake(h)

TransferStep(t) ==
  \/ SuspendAll(t) \/ TransferBegin(t) \/ TransferEnd(t) \/ ResumeAll(t)
  \/ \E h \in Hubs : SuspendOne(t, h) \/ ResumeOne(t, h)

ConfigureStep(g) == ConfigureFind(g) \/ ConfigureSuspend(g) \/ ConfigureEnd(g)

Next ==
  \/ \E c \in Clients : ClientStep(c)
  \/ PurgeScan
  \/ \E h \in Hubs : PurgeOne(h) \/ PollerStep(h)
  \/ \E t \in Transfers : TransferStep(t)
  \/ \E g \in Configures : ConfigureStep(g)

Spec == Init /\ [][Next]_vars

(* A thread in the middle of a call goes on.  A lock is let go by whoever   *)
(* holds it, and every holder pauses before it asks again, so that a waiter *)
(* gets it in the end (SF); a transfer is a finite number of FTP calls, so  *)
(* that it ends.  Nothing makes a client, a transfer or a configure start.  *)
Fairness ==
  /\ \A c \in Clients : WF_vars(Subscribe(c) \/ Snapshot(c) \/ RemoveHub(c))
  /\ WF_vars(\E h \in Hubs : PurgeOne(h))
  /\ \A h \in Hubs : WF_vars(PollerStep(h)) /\ SF_vars(PollLock(h))
  /\ \A t \in Transfers :
       /\ WF_vars(TransferEnd(t) \/ \E h \in Hubs : SuspendOne(t, h) \/ ResumeOne(t, h))
       /\ SF_vars(TransferBegin(t)) /\ SF_vars(ResumeAll(t))
  /\ \A g \in Configures : WF_vars(ConfigureSuspend(g) \/ ConfigureEnd(g))

FairSpec == Spec /\ Fairness

------------------------------------------------------------------------------
TypeOK ==
  /\ registry \in [Keys -> Hubs \cup {NoHub}]
  /\ purging \in SUBSET Hubs
  /\ hubKey \in [Hubs -> Keys]
  /\ subs \in [Hubs -> SUBSET Clients]
  /\ stopEvent \in [Hubs -> BOOLEAN]
  /\ reconfigure \in [Hubs -> BOOLEAN]
  /\ suspendCount \in [Hubs -> Nat]
  /\ poller \in [Hubs -> {"dead", "top", "waiting", "polling", "answered", "broadcast",
                          "event", "failed", "error", "sleeping"}]
  /\ errorReported \in [Hubs -> BOOLEAN]
  /\ targets \in [Hubs -> SUBSET Clients]
  /\ requestLock \in Hubs \cup Transfers \cup {NoOne}
  /\ cpc \in [Clients -> {"idle", "found", "subscribed", "open", "removing"}]
  /\ chub \in [Clients -> Hubs \cup {NoHub}]
  /\ seen \in [Clients -> BOOLEAN]
  /\ tpc \in [Transfers -> {"idle", "suspended", "transferring", "resuming"}]
  /\ todo \in [Transfers -> SUBSET Hubs]
  /\ held \in [Transfers -> SUBSET Hubs]
  /\ gpc \in [Configures -> {"idle", "found", "configuring", "done"}]
  /\ ghub \in [Configures -> Hubs \cup {NoHub}]

\* The hub's poll thread runs and has not been told to stop.
Live(h) == poller[h] # "dead" /\ ~stopEvent[h]

\* No device is polled for nobody: a poll thread that goes on polling has a
\* subscriber, whatever subscribes, closes and purges overlap (subscribe and
\* unsubscribe decide under the hub's lock, purge_stale_hubs does not take it).
NoIdlePolling == \A h \in Hubs : Live(h) => subs[h] # {}

\* The module's docstring, "one shared case-status watch connection per device
\* in one PC process": no device has two hubs that go on polling it.
OneWatchPerDevice == \A h, k \in Hubs : Live(h) /\ Live(k) /\ hubKey[h] = hubKey[k] => h = k

\* A RecordWorker subscribes, then takes a snapshot: between the two it misses
\* no status.  Unless a broadcast is on its way, the latest status the hub has
\* is one the recorder was given, as its snapshot or in its queue.
NothingMissed ==
  \A c \in Clients \ GuiClients :
    cpc[c] = "open" /\ poller[chub[c]] \notin {"broadcast", "event"} => seen[c]

\* suspend_all_watch_hubs holds for the length of the transfer: a hub it has
\* suspended stays suspended until resume_all_watch_hubs, whatever configure_device
\* suspends and resumes meanwhile.
HeldHubsSuspended == \A t \in Transfers : \A h \in held[t] : suspendCount[h] > 0

\* configure_device "pause[s] the persistent status socket before changing this
\* device's IP": the hub it has suspended stays so until it resumes it.
ConfiguredHubSuspended ==
  \A g \in Configures :
    gpc[g] = "configuring" /\ ghub[g] # NoHub => suspendCount[ghub[g]] > 0

\* A watch that stays open is served: its hub asks the device again and again,
\* through transfers, configures, failures and the comings and goings of others.
Served ==
  \A c \in Clients : cpc[c] = "open" ~> (cpc[c] # "open" \/ poller[chub[c]] = "polling")
==============================================================================
