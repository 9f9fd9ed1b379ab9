------------------------------ MODULE DeviceDesk ------------------------------
(***************************************************************************)
(* The main window's devices (testagent_gui.py): discovery and automatic   *)
(* configuration, the runtime of each link, its one command thread, the    *)
(* probes and their slots, the follow-up of a command, the recording       *)
(* button with its queued command, and what becomes of a runtime whose     *)
(* link goes away.                                                         *)
(*                                                                         *)
(* The window's thread handles one event at a time; signals of worker      *)
(* threads reach it in the order they were emitted (events).  The device   *)
(* and the network are the outcomes a worker may report.  A timer may fire *)
(* at any time after it is set; a dialog is open between two steps.        *)
(* The device page is the active one.                                      *)
(***************************************************************************)
EXTENDS Naturals, Sequences, FiniteSets

CONSTANTS
  Keys,          \* link keys
  MaxRuntimes,   \* bound on DeviceRuntime objects, for TLC only
  Commands,      \* command threads: a bound on those that exist at a time
  NoCommand,
  MaxProbes,     \* _max_active_probes, 2 in the code
  MaxSteps       \* bound on what the user, timers and discoveries start, for TLC only

ASSUME DeskAssumption ==
  /\ Keys # {}
  /\ MaxRuntimes \in Nat \ {0}
  /\ NoCommand \notin Commands
  /\ MaxProbes \in Nat

VARIABLES
  rt,            \* the DeviceRuntime objects
  current,       \* runtimes: the object of each key, 0 if there is none
  retired,       \* _retired_runtimes
  command,       \* the command threads with their workers
  events,        \* signals on their way to the window's thread
  probes,        \* _active_probe_count
  catalogAfter,  \* _catalog_refresh_after_probe
  recordings,    \* _manual_recording_keys
  inflight,      \* _manual_record_commands_inflight
  queued,        \* _pending_manual_record_commands: what waits for the command thread
  question,      \* the dialog toggle_device_record_selected waits for
  search,        \* the discovery thread
  auto,          \* _discovery_auto_configure
  provision,     \* the links BatchConfigureWorker still has, or not running
  refreshBtn,    \* whether refresh_btn is enabled
  closing,       \* _closing
  steps,         \* counts what was started
  dropped,       \* history: a discovery for the automatic configuration was ignored
  stray          \* history: a dialog was answered for a runtime that had gone

commandVars == <<command, events, probes, catalogAfter>>
recordVars == <<recordings, inflight, queued, question, stray>>
searchVars == <<search, auto, provision, refreshBtn, dropped>>
deskVars == <<rt, current, retired, commandVars, recordVars, searchVars, closing, steps>>

Ids == 1 .. MaxRuntimes
NoRuntime == [key |-> CHOOSE k \in Keys : TRUE, configured |-> FALSE, online |-> "unknown",
           invalid |-> FALSE, thread |-> NoCommand, starting |-> FALSE]
NewRuntime(k, conf) == [NoRuntime EXCEPT !.key = k, !.configured = conf]
IsCurrent(i) == current[rt[i].key] = i

\* Objects nothing refers to: they are garbage, and their ids are used again.
FreeIds == {i \in Ids : /\ ~IsCurrent(i) /\ i \notin retired /\ question.id # i
                        /\ \A c \in Commands : command[c].at # "free" => command[c].owner # i}
FreeId == CHOOSE i \in FreeIds : TRUE

Idle == [at |-> "free", owner |-> 1, purpose |-> "other", cancelled |-> FALSE]
Alive(c) == c # NoCommand /\ command[c].at \in {"run", "emitted"}
Step == steps < MaxSteps /\ steps' = steps + 1

-----------------------------------------------------------------------------
(* Command threads.                                                        *)

\* _start_command: not while closing and not while the runtime's thread runs.
MayStart(i) == ~closing /\ ~Alive(rt[i].thread)
Launch(i, purpose, c) ==
  /\ command[c].at = "free"
  /\ command' = [command EXCEPT ![c] =
                   [at |-> "run", owner |-> i, purpose |-> purpose, cancelled |-> FALSE]]

\* CommandWorker.run: nothing is emitted after a cancellation.  "invalid" is an error
\* that names WinError 10049, "ok" a reply with code 0.
Emit(c) ==
  LET purpose == command[c].purpose IN
  /\ command[c].at = "run"
  /\ command' = [command EXCEPT ![c].at = "emitted"]
  /\ IF command[c].cancelled THEN UNCHANGED events
     ELSE \E outcome \in {"ok", "rejected", "error", "invalid"}, on, stale \in BOOLEAN :
            /\ ~(on /\ stale) /\ (on \/ stale => purpose = "probe" /\ outcome = "ok")
            /\ events' = Append(events, [kind |-> "reply", command |-> c, outcome |-> outcome,
                                         recording |-> on, stale |-> stale])
  /\ UNCHANGED <<rt, current, retired, probes, catalogAfter, recordVars, searchVars, closing,
                 steps>>

\* The thread has quit; its finished signal is queued.
Quit(c) ==
  /\ command[c].at = "emitted"
  /\ command' = [command EXCEPT ![c].at = "ended"]
  /\ events' = Append(events, [kind |-> "finished", command |-> c])
  /\ UNCHANGED <<rt, current, retired, probes, catalogAfter, recordVars, searchVars, closing,
                 steps>>

\* Mutant: the limit is compared with <=.
SlotLeftInclusive == probes <= MaxProbes
SlotLeft == probes < MaxProbes

\* _probe_runtime: the slot is taken before _start_command may refuse.
Probe(i) ==
  /\ ~Alive(rt[i].thread) /\ SlotLeft
  /\ probes' = probes + 1
  /\ IF closing THEN UNCHANGED <<rt, command>>
     ELSE \E c \in Commands : /\ Launch(i, "probe", c)
                              /\ rt' = [rt EXCEPT ![i].thread = c]

\* The timer and a refresh pass over links that are invalid.
ProbeTick(k) ==
  /\ Step /\ current[k] # 0
  /\ rt[current[k]].configured /\ ~rt[current[k]].invalid
  /\ Probe(current[k])
  /\ UNCHANGED <<current, retired, events, catalogAfter, recordVars, searchVars, closing>>

\* A button of the selected device: status, stop, reboot, a photo, ...
OtherCommand(k) ==
  /\ Step /\ current[k] # 0 /\ MayStart(current[k])
  /\ \E c \in Commands : /\ Launch(current[k], "other", c)
                         /\ rt' = [rt EXCEPT ![current[k]].thread = c]
  /\ UNCHANGED <<current, retired, events, probes, catalogAfter, recordVars, searchVars, closing>>

-----------------------------------------------------------------------------
(* The handlers of a command's signals.  e is the event, c its command.    *)

Event(kind) == events # <<>> /\ Head(events).kind = kind
Handled == events' = Tail(events)
Reply == Head(events)
Owner == command[Head(events).command].owner
Purpose == command[Head(events).command].purpose
IsRecord(purpose) == purpose \in {"record_start", "record_stop"}

GiveSlotBack == IF Purpose = "probe" /\ probes > 0 THEN probes - 1 ELSE probes

\* The runtime has gone meanwhile, or is another one: nothing happens.
ForeignReply ==
  /\ Event("reply") /\ ~IsCurrent(Owner) /\ Handled
  /\ UNCHANGED <<rt, current, retired, command, probes, catalogAfter, recordVars, searchVars,
                 closing, steps>>

\* _on_command_result.
OnResult ==
  LET i == Owner
      k == rt[i].key
      ok == Reply.outcome = "ok"
  IN
  /\ Event("reply") /\ IsCurrent(i) /\ Reply.outcome \in {"ok", "rejected"} /\ Handled
  /\ inflight' = IF IsRecord(Purpose) THEN inflight \ {k} ELSE inflight
  /\ catalogAfter' = IF Reply.stale THEN catalogAfter \cup {k} ELSE catalogAfter
  /\ recordings' =
       CASE ok /\ (Purpose = "record_start" \/ Reply.recording) -> recordings \cup {k}
         [] ok /\ Purpose = "record_stop" -> recordings \ {k}
         [] ok /\ Purpose = "probe" /\ ~rt[i].starting -> recordings \ {k}
         [] OTHER -> recordings
  /\ rt' = [rt EXCEPT ![i].online = "yes",
                      ![i].starting = IF ok /\ Purpose = "record_start" THEN TRUE
                                      ELSE @ /\ ~Reply.recording /\ ~(ok /\ Purpose = "record_stop")]
  /\ probes' = GiveSlotBack
  /\ UNCHANGED <<current, retired, command, queued, question, stray, searchVars, closing, steps>>

\* _on_command_error; for an address that is no longer valid it returns early.
OnInvalid ==
  /\ Event("reply") /\ IsCurrent(Owner) /\ Reply.outcome = "invalid" /\ Handled
  /\ rt' = [rt EXCEPT ![Owner].online = "no", ![Owner].invalid = TRUE]
  /\ UNCHANGED <<current, retired, command, probes, catalogAfter, recordVars, searchVars,
                 closing, steps>>

OnError ==
  LET k == rt[Owner].key IN
  /\ Event("reply") /\ IsCurrent(Owner) /\ Reply.outcome = "error" /\ Handled
  /\ inflight' = IF IsRecord(Purpose) THEN inflight \ {k} ELSE inflight
  /\ recordings' = IF Purpose = "record_start" THEN recordings \ {k} ELSE recordings
  /\ rt' = [rt EXCEPT ![Owner].online = "no",
                      ![Owner].starting = @ /\ Purpose # "record_start"]
  /\ probes' = GiveSlotBack
  /\ UNCHANGED <<current, retired, command, catalogAfter, queued, question, stray, searchVars,
                 closing, steps>>

\* Mutant: the reference to the thread is cleared whatever thread it is.
ClearedAnyway(i, c) == [rt EXCEPT ![i].thread = NoCommand]
Cleared(i, c) == [rt EXCEPT ![i].thread = IF @ = c THEN NoCommand ELSE @]

\* _thread_cleanup: the reference is cleared, and a stale catalogue is read.
ThreadCleanup ==
  LET c == Head(events).command
      i == Owner
      k == rt[i].key
      mine == Cleared(i, c)
  IN
  /\ Event("finished") /\ Handled
  /\ IF ~IsCurrent(i)
     THEN /\ rt' = IF i \in retired THEN mine ELSE rt
          /\ command' = [command EXCEPT ![c] = Idle]
          /\ UNCHANGED catalogAfter
     ELSE /\ catalogAfter' = catalogAfter \ {k}
          /\ IF k \in catalogAfter /\ rt[i].online = "yes" /\ ~closing
                /\ ~Alive(mine[i].thread)
             THEN /\ rt' = [mine EXCEPT ![i].thread = c]
                  /\ command' = [command EXCEPT ![c] =
                                   [Idle EXCEPT !.at = "run", !.owner = i, !.purpose = "catalog"]]
             ELSE rt' = mine /\ command' = [command EXCEPT ![c] = Idle]
  /\ UNCHANGED <<current, retired, probes, recordVars, searchVars, closing, steps>>

Handle == ForeignReply \/ OnResult \/ OnInvalid \/ OnError \/ ThreadCleanup

-----------------------------------------------------------------------------
(* The recording button.                                                   *)

NoQuestion == [id |-> 0, what |-> "none"]

\* toggle_device_record_selected up to its dialog.
AskRecord(k) ==
  LET i == current[k] IN
  /\ Step /\ i # 0 /\ rt[i].online = "yes" /\ question = NoQuestion
  /\ queued[k].id = 0 /\ k \notin inflight
  /\ question' = [id |-> i, what |-> IF k \in recordings THEN "record_stop" ELSE "record_start"]
  /\ UNCHANGED <<rt, current, retired, commandVars, recordings, inflight, queued, stray,
                 searchVars, closing>>

RefuseRecord ==
  /\ question # NoQuestion /\ question' = NoQuestion
  /\ UNCHANGED <<rt, current, retired, commandVars, recordings, inflight, queued, stray,
                 searchVars, closing, steps>>

\* Confirmed: it is sent, or queued behind the command that runs.
ConfirmRecord ==
  LET i == question.id
      k == rt[i].key
  IN
  /\ i # 0 /\ question' = NoQuestion
  /\ stray' = (stray \/ ~IsCurrent(i))
  /\ \/ /\ Alive(rt[i].thread)
        /\ queued' = [queued EXCEPT ![k] = question]
        /\ UNCHANGED <<rt, command, inflight>>
     \/ /\ MayStart(i) /\ inflight' = inflight \cup {k}
        /\ \E c \in Commands : Launch(i, question.what, c) /\ rt' = [rt EXCEPT ![i].thread = c]
        /\ UNCHANGED queued
     \/ /\ closing /\ ~Alive(rt[i].thread)
        /\ UNCHANGED <<rt, command, inflight, queued>>
  /\ UNCHANGED <<current, retired, events, probes, catalogAfter, recordings, searchVars, closing,
                 steps>>

\* Mutant: what was sent or given up stays queued.
StillQueued(k) == queued' = [queued EXCEPT ![k] = @]
Unqueued(k) == queued' = [queued EXCEPT ![k] = NoQuestion]

\* The conditions under which _flush_pending_manual_record_command gives up.
GivenUp(k) == closing \/ current[k] # queued[k].id \/ rt[queued[k].id].online # "yes"

\* The timer of the queued command: it gives up, waits on, or sends it.
FlushRecord(k) ==
  LET i == queued[k].id IN
  /\ i # 0
  /\ \/ /\ GivenUp(k) \/ Alive(rt[i].thread)   \* given up, or the 30 s have passed
        /\ Unqueued(k)
        /\ UNCHANGED <<rt, command, inflight>>
     \/ /\ ~GivenUp(k) /\ MayStart(i)
        /\ Unqueued(k) /\ inflight' = inflight \cup {k}
        /\ \E c \in Commands : /\ Launch(i, queued[k].what, c)
                               /\ rt' = [rt EXCEPT ![i].thread = c]
  /\ UNCHANGED <<current, retired, events, probes, catalogAfter, recordings, question, stray,
                 searchVars, closing, steps>>

\* _reconcile_pending_record_start, three seconds after a start was taken.
Reconcile(k) ==
  LET i == current[k] IN
  /\ i # 0 /\ rt[i].starting
  /\ \/ /\ ~Alive(rt[i].thread) /\ SlotLeft
        /\ probes' = probes + 1
        /\ \/ /\ closing
              /\ rt' = [rt EXCEPT ![i].starting = FALSE]
              /\ UNCHANGED command
           \/ /\ ~closing
              /\ \E c \in Commands : /\ Launch(i, "probe", c)
                                     /\ rt' = [rt EXCEPT ![i].thread = c, ![i].starting = FALSE]
     \/ /\ Alive(rt[i].thread) \/ ~SlotLeft
        /\ rt' = [rt EXCEPT ![i].starting = FALSE]
        /\ UNCHANGED <<command, probes>>
  /\ UNCHANGED <<current, retired, events, catalogAfter, recordVars, searchVars, closing, steps>>

Record == RefuseRecord \/ ConfirmRecord \/ \E k \in Keys : AskRecord(k) \/ FlushRecord(k) \/ Reconcile(k)

-----------------------------------------------------------------------------
(* Runtimes that go away.                                                  *)

Stopped(i) == ~Alive(rt[i].thread)
CancelAll(ids) == [c \in Commands |-> IF command[c].at # "free" /\ command[c].owner \in ids
                                         /\ rt[command[c].owner].thread = c
                                      THEN [command[c] EXCEPT !.cancelled = TRUE] ELSE command[c]]
\* Mutant: a runtime whose thread still runs is forgotten.
NoneKept(ids) == {}
StillRunning(ids) == {i \in ids : ~Stopped(i)}

\* Of a runtime that has gone only the key and the thread are looked at again.
Gone(i) == [NewRuntime(rt[i].key, FALSE) EXCEPT !.thread = rt[i].thread]
Released(ids) == [i \in Ids |-> IF i \in ids /\ Stopped(i)
                                THEN [rt[i] EXCEPT !.thread = NoCommand] ELSE rt[i]]

\* _reap_retired_runtimes, from the poll timer.
Reap ==
  /\ retired # {}
  /\ command' = CancelAll(retired)
  /\ rt' = Released(retired)
  /\ retired' = StillRunning(retired)
  /\ UNCHANGED <<current, events, probes, catalogAfter, recordVars, searchVars, closing, steps>>

\* refresh_devices(discovered): links that are gone are retired, new ones get a runtime.
Refreshed(listed, conf) ==
  LET gone == {k \in Keys : current[k] # 0} \ listed
      lost == {current[k] : k \in gone}
      new == IF FreeIds = {} THEN {} ELSE {k \in listed : current[k] = 0}
  IN
  /\ \A k, l \in new : k = l                          \* at most one new link per discovery
  /\ inflight' = inflight \ gone
  /\ queued' = [k \in Keys |-> IF k \in gone THEN NoQuestion ELSE queued[k]]
  /\ command' = CancelAll(lost)
  /\ retired' = retired \cup StillRunning(lost)
  /\ current' = [k \in Keys |-> IF k \in gone THEN 0 ELSE IF k \in new THEN FreeId ELSE current[k]]
  /\ rt' = [i \in Ids |->
              IF new # {} /\ i = FreeId THEN NewRuntime(CHOOSE k \in new : TRUE, conf)
              ELSE IF i \in lost THEN IF Stopped(i) THEN NewRuntime(rt[i].key, FALSE) ELSE Gone(i)
              ELSE IF i \in FreeIds THEN NoRuntime
              ELSE IF IsCurrent(i) /\ i \notin lost THEN [rt[i] EXCEPT !.configured = conf, !.invalid = FALSE] ELSE rt[i]]

-----------------------------------------------------------------------------
(* Discovery and automatic configuration.                                  *)

\* _start_device_discovery: refused only while the thread itself is alive.
StartDiscovery(configure) ==
  /\ search' = "run" /\ auto' = configure
  /\ dropped' = (dropped \/ (auto /\ ~refreshBtn /\ search = "told" /\ ~configure))
  /\ refreshBtn' = (refreshBtn /\ ~configure)

\* The refresh button, or a refresh without it (page change, timers).
Discover(configure) ==
  /\ Step /\ ~closing /\ search # "run"
  /\ configure => refreshBtn /\ provision = "off"
  /\ StartDiscovery(configure)
  /\ UNCHANGED <<rt, current, retired, commandVars, recordVars, provision, closing>>

\* The thread emits its result or error and ends.
Discovered ==
  /\ search = "run" /\ search' = "told"
  /\ \/ \E listed \in SUBSET Keys, conf \in BOOLEAN :
          events' = Append(events, [kind |-> "found", keys |-> listed, conf |-> conf])
     \/ events' = Append(events, [kind |-> "unfound"])
  /\ UNCHANGED <<rt, current, retired, command, probes, catalogAfter, recordVars, auto, provision,
                 refreshBtn, dropped, closing, steps>>

Told == search' = IF search = "told" THEN "off" ELSE search

\* _on_device_discovered.
OnDiscovered ==
  LET e == Head(events) IN
  /\ Event("found") /\ Handled /\ Told
  /\ IF closing
     THEN /\ dropped' = (dropped \/ auto)
          /\ UNCHANGED <<rt, current, retired, command, inflight, queued, provision, refreshBtn>>
     ELSE /\ Refreshed(e.keys, e.conf)
          /\ IF auto /\ e.keys # {} THEN provision' = "run" /\ UNCHANGED refreshBtn
             ELSE refreshBtn' = (refreshBtn \/ auto) /\ UNCHANGED provision
          /\ UNCHANGED dropped
  /\ UNCHANGED <<probes, catalogAfter, recordings, question, stray, auto, closing, steps>>

\* Mutant: an error leaves the buttons as they are.
OnUndiscoveredSilent ==
  /\ Event("unfound") /\ Handled /\ Told
  /\ dropped' = (dropped \/ (closing /\ auto))
  /\ UNCHANGED <<rt, current, retired, command, probes, catalogAfter, recordVars, auto, provision,
                 refreshBtn, closing, steps>>

\* _on_device_discovery_error.
OnUndiscovered ==
  /\ Event("unfound") /\ Handled /\ Told
  /\ refreshBtn' = (refreshBtn \/ (auto /\ ~closing))
  /\ dropped' = (dropped \/ (closing /\ auto))
  /\ UNCHANGED <<rt, current, retired, command, probes, catalogAfter, recordVars, auto, provision,
                 closing, steps>>

\* BatchConfigureWorker and _on_network_configured: one link is configured, or not.
Provisioned(k) ==
  /\ provision = "run" /\ current[k] # 0
  /\ \E success \in BOOLEAN :
       rt' = [rt EXCEPT ![current[k]].configured = success, ![current[k]].online = "unknown"]
  /\ rt' # rt
  /\ UNCHANGED <<current, retired, commandVars, recordVars, searchVars, closing, steps>>

\* _on_auto_config_finished: the buttons are back, and the links are discovered again.
ProvisionDone ==
  /\ provision = "run" /\ provision' = "off"
  /\ IF ~closing /\ search # "run"
     THEN /\ search' = "run" /\ auto' = FALSE
          /\ refreshBtn' = TRUE /\ UNCHANGED dropped
     ELSE refreshBtn' = TRUE /\ UNCHANGED <<search, auto, dropped>>
  /\ UNCHANGED <<rt, current, retired, commandVars, recordVars, closing, steps>>

Searching == Discovered \/ OnDiscovered \/ OnUndiscovered \/ ProvisionDone

-----------------------------------------------------------------------------
(* closeEvent, as far as the window stays: the user answers no, or a       *)
(* command thread does not end within its five seconds.                    *)

CloseAsk ==
  /\ Step /\ ~closing /\ closing' = TRUE
  /\ UNCHANGED <<rt, current, retired, commandVars, recordVars, searchVars>>

CloseRefused ==
  /\ closing /\ closing' = FALSE
  /\ UNCHANGED <<rt, current, retired, commandVars, recordVars, searchVars, steps>>

CloseBlocked ==
  LET ids == retired \cup {current[k] : k \in {l \in Keys : current[l] # 0}} IN
  /\ closing /\ \E i \in ids : ~Stopped(i)
  /\ closing' = FALSE
  /\ command' = CancelAll(ids) /\ rt' = Released(ids)
  /\ retired' = StillRunning(ids)
  /\ UNCHANGED <<current, events, probes, catalogAfter, recordVars, searchVars, steps>>

Close == CloseAsk \/ CloseRefused \/ CloseBlocked

-----------------------------------------------------------------------------

\* The first discovery has found some links, all of them configured, or none.
DeskInit ==
  /\ current \in [Keys -> Ids \cup {0}]
  /\ \A k, l \in Keys : k # l => current[k] = 0 \/ current[k] # current[l]
  /\ rt = [i \in Ids |-> IF \E k \in Keys : current[k] = i
                         THEN NewRuntime(CHOOSE k \in Keys : current[k] = i, TRUE) ELSE NoRuntime]
  /\ retired = {}
  /\ command = [c \in Commands |-> Idle] /\ events = <<>>
  /\ probes = 0 /\ catalogAfter = {}
  /\ recordings = {} /\ inflight = {} /\ queued = [k \in Keys |-> NoQuestion]
  /\ question = NoQuestion
  /\ search = "off" /\ auto = FALSE /\ provision = "off" /\ refreshBtn = TRUE
  /\ closing = FALSE /\ steps = 0 /\ dropped = FALSE /\ stray = FALSE

Thread(c) == Emit(c) \/ Quit(c)
User == \E k \in Keys : ProbeTick(k) \/ OtherCommand(k)
Discovery == Discover(TRUE) \/ Discover(FALSE) \/ \E k \in Keys : Provisioned(k)

DeskNext ==
  \/ User \/ Discovery \/ Searching \/ Handle \/ Record \/ Reap \/ Close
  \/ \E c \in Commands : Thread(c)

\* Requests have timeouts, so threads end; the window's loop handles its events and timers.
DeskFairness ==
  /\ \A c \in Commands : WF_deskVars(Thread(c))
  /\ WF_deskVars(Handle) /\ WF_deskVars(Searching) /\ WF_deskVars(Reap)
  /\ WF_deskVars(CloseRefused \/ CloseBlocked)
  /\ \A k \in Keys : WF_deskVars(FlushRecord(k))

DeskSpec == DeskInit /\ [][DeskNext]_deskVars /\ DeskFairness

\* The runs of the window in which it is never asked to close.
OpenSpec == DeskInit /\ [][DeskNext /\ ~closing']_deskVars

-----------------------------------------------------------------------------
(* Properties.                                                             *)

Probing == {c \in Commands : command[c].at # "free" /\ command[c].purpose = "probe"}

\* At most _max_active_probes probes are on their way at a time, whatever devices go
\* away or are closed meanwhile: the count is never below the probes that run.
ProbesBounded == Cardinality({c \in Probing : command[c].at = "run"}) <= MaxProbes

\* A device has one command at a time: a thread of a current runtime that still runs is
\* the one it refers to, even when the end of an earlier thread is handled late.
OneCommandPerDevice ==
  \A c \in Commands : Alive(c) /\ IsCurrent(command[c].owner) => rt[command[c].owner].thread = c

\* Every running command thread belongs to a runtime the window still knows, so that
\* closing waits for it; unless a recording dialog was answered for a runtime that had gone.
ThreadsKnown ==
  stray \/ \A c \in Commands : Alive(c) =>
             command[c].owner \in retired \cup {current[k] : k \in Keys}

\* A recording command that waits for the command thread is sent or given up.
QueuedRecordResolved == \A k \in Keys : queued[k].id # 0 ~> queued[k].id = 0

\* The refresh button comes back after an automatic configuration, unless its discovery
\* was overtaken by another one or arrived while the window was asked to close.
RefreshComesBack == ~refreshBtn ~> (refreshBtn \/ dropped)

\* Probing pauses for an invalid link only until it is discovered again (link_invalid:
\* "paused until refresh"): while no probe is under way a slot is free.
ProbingResumes == Probing = {} => probes < MaxProbes
================================================================================
