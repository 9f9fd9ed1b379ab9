------------------------------- MODULE RecordRun -------------------------------
(***************************************************************************)
(* Recording one run of a test case: the GUI's RecordWorker                *)
(* (testagent_gui.py), which starts the case and follows it through the    *)
(* device's watch hub, and the command line's run_record                   *)
(* (testagent_client.py), which follows it on a connection of its own.     *)
(* Both ask the same device to run the same case, and each ends with a     *)
(* final status, the verdict the record is filed under.                    *)
(*                                                                         *)
(* Runs are numbered in the order the device starts them; the number is    *)
(* the status's started_at_ms.  A status is a copy of the device's, taken  *)
(* when the device answered and read whenever its reader gets to it.       *)
(* "ended" stands for the terminal states finished, failed, stopped and    *)
(* error.  Time is nondeterministic: a deadline that is set may pass at    *)
(* any moment.                                                             *)
(***************************************************************************)
EXTENDS Naturals, Sequences

CONSTANTS
  Recorders,    \* one recording each
  GuiRecorders, \* those that are RecordWorkers; the others are run_records
  MaxRuns,      \* bound on the runs of the case, for model checking only
  MaxInbox,     \* bound on the statuses on their way to a recorder, likewise
  MaxBusy       \* the code -10 statuses run_record puts up with, 60 in the program

ASSUME RecordRunAssumption ==
  /\ GuiRecorders \subseteq Recorders
  /\ MaxRuns \in Nat \ {0} /\ MaxInbox \in Nat \ {0} /\ MaxBusy \in Nat

VARIABLES
  dev,          \* the device's status for the case: its state and latest run
  uiQueue,      \* starts that timed out and may still be in the device's UI queue
  hub,          \* what the hub's poll thread is doing with the status it polled
  polled,       \* that status
  lastStatus,   \* the hub's _last_status
  pc,           \* where each recording is
  baseline,     \* baseline_started_at_ms
  active,       \* active_started_at_ms
  confirmed,    \* start_confirmed
  armed,        \* start_confirmation_deadline is set
  busy,         \* code_minus10_count
  inbox,        \* statuses on their way to the recorder
  final,        \* final_status: the verdict, and the run a terminal status is of
  own,          \* history: the run its command started, 0 if none
  doubtful,     \* history: the reply to its command was ambiguous
  disturbed     \* history: it may have been shown a run of somebody else

deviceVars == <<dev, uiQueue>>
hubVars == <<hub, polled, lastStatus>>
localVars == <<baseline, active, confirmed, armed, busy>>
historyVars == <<own, doubtful, disturbed>>
vars == <<deviceVars, hubVars, pc, localVars, inbox, final, historyVars>>

States == {"idle", "running", "ended"}
Status == [state : States, run : 0 .. MaxRuns]

\* A status the hub never had, and one with code -10.
NoStatus == [state |-> "idle", run |-> 0]
BusyStatus == [state |-> "busy", run |-> 0]

\* is_current_case_running and is_terminal_status: the status is of the case.
IsRunning(s) == s.state = "running"
IsTerminal(s) == s.state = "ended"

Verdicts == {"none", "rejected", "unconfirmed", "lost", "timeout", "busy"} \cup States

Init ==
  /\ dev \in {NoStatus} \cup [state : {"running", "ended"}, run : {1}]
  /\ uiQueue = {}
  /\ hub = "idle"
  /\ polled = NoStatus
  /\ lastStatus \in {NoStatus, dev}
  /\ pc = [r \in Recorders |-> "idle"]
  /\ baseline = [r \in Recorders |-> 0]
  /\ active = [r \in Recorders |-> 0]
  /\ confirmed = [r \in Recorders |-> FALSE]
  /\ armed = [r \in Recorders |-> FALSE]
  /\ busy = [r \in Recorders |-> 0]
  /\ inbox = [r \in Recorders |-> <<>>]
  /\ final = [r \in Recorders |-> [verdict |-> "none", run |-> 0]]
  /\ own = [r \in Recorders |-> 0]
  /\ doubtful = [r \in Recorders |-> FALSE]
  /\ disturbed = [r \in Recorders |-> FALSE]

\* It has read a status and goes on.
ReadOn(r) ==
  /\ inbox' = [inbox EXCEPT ![r] = Tail(@)]
  /\ UNCHANGED <<pc, final>>

Active(r) == pc[r] \notin {"idle", "done"}

\* The recording ends with this final status; nothing reads its inbox any more.
Conclude(r, verdict, run) ==
  /\ inbox' = [inbox EXCEPT ![r] = <<>>]
  /\ pc' = [pc EXCEPT ![r] = "done"]
  /\ final' = [final EXCEPT ![r] = [verdict |-> verdict, run |-> run]]

------------------------------------------------------------------------------
(* The device.                                                             *)

\* It starts a run for r, which the other recordings under way may see.
StartRun(r) ==
  /\ ~IsRunning(dev) /\ dev.run < MaxRuns
  /\ dev' = [state |-> "running", run |-> dev.run + 1]
  /\ own' = [own EXCEPT ![r] = dev.run + 1]
  /\ disturbed' = [q \in Recorders |-> disturbed[q] \/ (q # r /\ Active(q))]

DeviceFinish ==
  /\ IsRunning(dev)
  /\ dev' = [dev EXCEPT !.state = "ended"]
  /\ UNCHANGED <<uiQueue, hubVars, pc, localVars, inbox, final, historyVars>>

\* A start whose reply was ambiguous reaches the device's UI after all, or not.
LateStart(r) ==
  /\ r \in uiQueue
  /\ uiQueue' = uiQueue \ {r}
  /\ \/ StartRun(r)
     \/ UNCHANGED <<dev, own, disturbed>>
  /\ UNCHANGED <<hubVars, pc, localVars, inbox, final, doubtful>>

------------------------------------------------------------------------------
(* The hub: WatchHub._run polls, stores and broadcasts.                    *)

HubPoll ==
  /\ hub = "idle"
  /\ hub' = "polled"
  /\ polled' = dev
  /\ UNCHANGED <<deviceVars, lastStatus, pc, localVars, inbox, final, historyVars>>

HubStore ==
  /\ hub = "polled"
  /\ hub' = "stored"
  /\ lastStatus' = polled
  /\ UNCHANGED <<deviceVars, polled, pc, localVars, inbox, final, historyVars>>

HubBroadcast ==
  /\ hub = "stored"
  /\ \A r \in GuiRecorders : Len(inbox[r]) < MaxInbox
  /\ hub' = "idle"
  /\ polled' = NoStatus
  /\ inbox' = [r \in Recorders |->
                 IF r \in GuiRecorders /\ Active(r) THEN Append(inbox[r], polled) ELSE inbox[r]]
  /\ UNCHANGED <<deviceVars, lastStatus, pc, localVars, final, historyVars>>

------------------------------------------------------------------------------
(* Starting the case.                                                      *)

\* RecordWorker._run subscribes to the hub first; its confirmation deadline is
\* set from the beginning.  Statuses of the run under way, and one of a run that
\* the hub is about to broadcast, may reach it.
Subscribe(r) ==
  /\ r \in GuiRecorders
  /\ pc[r] = "idle"
  /\ pc' = [pc EXCEPT ![r] = "subscribed"]
  /\ armed' = [armed EXCEPT ![r] = TRUE]
  /\ disturbed' = [disturbed EXCEPT ![r] = IsRunning(dev) \/ IsRunning(polled)]
  /\ UNCHANGED <<deviceVars, hubVars, baseline, active, confirmed, busy, inbox, final,
                 own, doubtful>>

\* What the snapshot of the hub's status says is running already.
BaselineOf(s) == IF IsRunning(s) THEN s.run ELSE 0

TakeBaseline(r) ==
  /\ pc[r] = "subscribed"
  /\ baseline' = [baseline EXCEPT ![r] = BaselineOf(lastStatus)]
  /\ pc' = [pc EXCEPT ![r] = "requesting"]
  /\ UNCHANGED <<deviceVars, hubVars, active, confirmed, armed, busy, inbox, final, historyVars>>

\* run_record goes straight to the request.
BeginRecord(r) ==
  /\ r \in Recorders \ GuiRecorders
  /\ pc[r] = "idle"
  /\ pc' = [pc EXCEPT ![r] = "requesting"]
  /\ disturbed' = [disturbed EXCEPT ![r] = IsRunning(dev)]
  /\ UNCHANGED <<deviceVars, hubVars, localVars, inbox, final, own, doubtful>>

\* The device refuses, because it runs a case or for a reason of its own.
Rejected(r) ==
  /\ pc[r] = "requesting"
  /\ Conclude(r, "rejected", 0)
  /\ UNCHANGED <<deviceVars, hubVars, localVars, historyVars>>

\* Fault: any run of the case will do.
AnyRun(r, run) == TRUE

\* The run is not the one that the baseline was taken from, nor an older one.
BeyondBaseline(r, run) == baseline[r] = 0 \/ run > baseline[r]

\* The run counts as confirmed when the reply shows it and it is not the one
\* the baseline was taken from.
Accepted(r) ==
  /\ pc[r] = "requesting"
  /\ StartRun(r)
  /\ pc' = [pc EXCEPT ![r] = "waiting"]
  /\ \/ /\ r \in GuiRecorders
        /\ active' = [active EXCEPT ![r] = dev'.run]
        /\ LET ok == BeyondBaseline(r, dev'.run)
           IN  /\ confirmed' = [confirmed EXCEPT ![r] = ok]
               /\ armed' = [armed EXCEPT ![r] = ~ok]
     \/ UNCHANGED <<active, confirmed, armed>>  \* code 0 without the status, or run_record
  /\ UNCHANGED <<uiQueue, hubVars, baseline, busy, inbox, final, doubtful>>

\* is_ambiguous_start_reply: code -10, the start may still reach the device.
Ambiguous(r) ==
  /\ pc[r] = "requesting"
  /\ uiQueue' = uiQueue \cup {r}
  /\ doubtful' = [doubtful EXCEPT ![r] = TRUE]
  /\ armed' = [armed EXCEPT ![r] = TRUE]
  /\ pc' = [pc EXCEPT ![r] = "waiting"]
  /\ UNCHANGED <<dev, hubVars, baseline, active, confirmed, busy, inbox, final, own, disturbed>>

\* The probe or the request fails; the device may have started the run before
\* its reply was lost.  While run_record watches, its connection may fail too: a
\* device silent for _recv_exact's five seconds is one reason.
ConnectionLost(r) ==
  /\ \/ /\ pc[r] = "requesting"
        /\ StartRun(r) \/ UNCHANGED <<dev, own, disturbed>>
     \/ /\ pc[r] = "waiting" /\ r \notin GuiRecorders
        /\ UNCHANGED <<dev, own, disturbed>>
  /\ Conclude(r, "lost", 0)
  /\ UNCHANGED <<uiQueue, hubVars, localVars, doubtful>>

------------------------------------------------------------------------------
(* Waiting for the end of the run.                                         *)

\* The device pushes its status to run_record's connection, or code -10.
DevicePush(r) ==
  /\ r \notin GuiRecorders
  /\ pc[r] = "waiting"
  /\ Len(inbox[r]) < MaxInbox
  /\ \E s \in {dev, BusyStatus} : inbox' = [inbox EXCEPT ![r] = Append(@, s)]
  /\ UNCHANGED <<deviceVars, hubVars, pc, localVars, final, historyVars>>

\* Fault: a terminal status counts before the start is confirmed.
EndsUnconfirmed(r, s) == IsTerminal(s) /\ s.run >= active[r]

\* The status ends a RecordWorker's recording, with what it has confirmed.
EndsRecord(r, s) ==
  /\ confirmed'[r] /\ IsTerminal(s)
  /\ active'[r] = 0 \/ s.run >= active'[r]

GuiEvent(r) ==
  /\ r \in GuiRecorders
  /\ pc[r] = "waiting"
  /\ inbox[r] # <<>>
  /\ LET s == Head(inbox[r])
     IN  /\ IF IsRunning(s) /\ BeyondBaseline(r, s.run)
            THEN /\ confirmed' = [confirmed EXCEPT ![r] = TRUE]
                 /\ active' = [active EXCEPT ![r] = s.run]
                 /\ armed' = [armed EXCEPT ![r] = FALSE]
            ELSE UNCHANGED <<confirmed, active, armed>>
         /\ IF EndsRecord(r, s) THEN Conclude(r, s.state, s.run) ELSE ReadOn(r)
  /\ UNCHANGED <<deviceVars, hubVars, baseline, busy, historyVars>>

\* Fault: run_record puts up with busy statuses for ever.
Endless(n) == FALSE

\* code_minus10_count is over the limit.
TooBusy(n) == n > MaxBusy

CliEvent(r) ==
  /\ r \notin GuiRecorders
  /\ pc[r] = "waiting"
  /\ inbox[r] # <<>>
  /\ LET s == Head(inbox[r])
     IN  /\ armed' = [armed EXCEPT ![r] = @ /\ ~IsRunning(s)]
         /\ busy' = [busy EXCEPT ![r] = IF s = BusyStatus THEN @ + 1 ELSE 0]
         /\ \/ /\ TooBusy(busy'[r])
               /\ Conclude(r, "busy", 0)
            \/ /\ IsTerminal(s)
               /\ Conclude(r, s.state, s.run)
            \/ /\ ~TooBusy(busy'[r]) /\ ~IsTerminal(s)
               /\ ReadOn(r)
  /\ UNCHANGED <<deviceVars, hubVars, baseline, active, confirmed, historyVars>>

\* Ten seconds without a confirmation.
ConfirmationExpires(r) ==
  /\ pc[r] = "waiting"
  /\ armed[r]
  /\ Conclude(r, "unconfirmed", 0)
  /\ UNCHANGED <<deviceVars, hubVars, localVars, historyVars>>

\* wait_timeout is over, or the user stops a RecordWorker.  run_record then asks
\* the device once more and takes whatever it answers; when it cannot connect, the
\* exception ends it without a record.
WaitExpires(r) ==
  /\ pc[r] = "waiting"
  /\ \/ Conclude(r, "timeout", 0)
     \/ /\ r \notin GuiRecorders
        /\ \/ Conclude(r, dev.state, dev.run)
           \/ \E v \in {"busy", "none"} : Conclude(r, v, 0)
  /\ UNCHANGED <<deviceVars, hubVars, localVars, historyVars>>

------------------------------------------------------------------------------
RecorderStep(r) ==
  \/ Subscribe(r) \/ TakeBaseline(r) \/ BeginRecord(r)
  \/ Rejected(r) \/ Accepted(r) \/ Ambiguous(r) \/ ConnectionLost(r)
  \/ DevicePush(r) \/ GuiEvent(r) \/ CliEvent(r)
  \/ ConfirmationExpires(r) \/ WaitExpires(r)

Next ==
  \/ DeviceFinish
  \/ HubPoll \/ HubStore \/ HubBroadcast
  \/ \E r \in Recorders : LateStart(r) \/ RecorderStep(r)

Spec == Init /\ [][Next]_vars

------------------------------------------------------------------------------
TypeOK ==
  /\ dev \in Status /\ polled \in Status /\ lastStatus \in Status
  /\ uiQueue \in SUBSET Recorders
  /\ hub \in {"idle", "polled", "stored"}
  /\ pc \in [Recorders -> {"idle", "subscribed", "requesting", "waiting", "done"}]
  /\ baseline \in [Recorders -> 0 .. MaxRuns]
  /\ active \in [Recorders -> 0 .. MaxRuns]
  /\ confirmed \in [Recorders -> BOOLEAN]
  /\ armed \in [Recorders -> BOOLEAN]
  /\ busy \in [Recorders -> 0 .. MaxBusy + 1]
  /\ inbox \in [Recorders -> Seq(Status \cup {BusyStatus})]
  /\ final \in [Recorders -> [verdict : Verdicts, run : 0 .. MaxRuns]]
  /\ own \in [Recorders -> 0 .. MaxRuns]
  /\ doubtful \in [Recorders -> BOOLEAN]
  /\ disturbed \in [Recorders -> BOOLEAN]

Decided(r) == final[r].verdict = "ended"

\* The run that was under way when a RecordWorker subscribed, and any older one,
\* is never what it reports, whatever statuses of it still arrive.
BaselineNotReported ==
  \A r \in GuiRecorders : Decided(r) /\ baseline[r] > 0 => final[r].run > baseline[r]

\* A recording that nobody else's run came near reports its own run.  That takes
\* a RecordWorker even an ambiguous start, but not run_record, which believes the
\* first terminal status it is shown.
UndisturbedReportsOwn ==
  \A r \in Recorders :
    Decided(r) /\ ~disturbed[r] /\ (doubtful[r] => r \in GuiRecorders) => final[r].run = own[r]

\* What the GUI tells its user: the recording starts the selected case, records
\* its status and saves the result.  The result is then the result of that run.
ReportsOwn == \A r \in Recorders : Decided(r) => final[r].run = own[r]
==============================================================================
