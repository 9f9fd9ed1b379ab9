------------------------------- MODULE AppTest -------------------------------
(***************************************************************************)
(* The App test page (apptest_page.py): one case in a thread of the GUI,   *)
(* and case3 with case4 in two processes that a second thread watches.     *)
(* The threads talk to the window by signals, which it handles in order;   *)
(* the processes by a queue of results and a shared cancel event.          *)
(*                                                                         *)
(* run_case (apptest/services) is seen from outside: it is cancelled       *)
(* before it starts, or runs and ends passed, failed or, when its token is *)
(* set, cancelled.                                                         *)
(***************************************************************************)
EXTENDS Naturals, Sequences

CONSTANT MaxRunStarts          \* bound on runs started, for TLC only

ASSUME AppTestAssumption == MaxRunStarts \in Nat

VARIABLES
  page,       \* the widgets: buttons, the badge, the labels of the cloud cases
  caseRun,    \* CaseController: its thread, the token, the signals on their way
  cloud,      \* ConcurrentCloudController and the run() of its worker
  procs       \* the processes: what they are doing, what they have put in the queue

appTestVars == <<page, caseRun, cloud, procs>>

CloudCases == {"case3", "case4"}
StartOrder == <<"case3", "case4">>

NoResult == [c \in CloudCases |-> "none"]
NotSpawned == [c \in CloudCases |-> [at |-> "none", told |-> "none"]]
SingleOff == [at |-> "off", token |-> FALSE, signals |-> <<>>]
CloudOff == [at |-> "off", event |-> "none", started |-> 0, alive |-> FALSE, late |-> "no",
             got |-> NoResult, signals |-> <<>>, orphans |-> FALSE]

\* The statuses _normalize_result knows; a run is cancelled only when its token is set.
Outcomes(token) == {"passed", "failed"} \cup (IF token THEN {"cancelled"} ELSE {})

-----------------------------------------------------------------------------
(* One case: CaseController, CaseWorker and the page's handlers.           *)

SingleRuns == caseRun.at \in {"created", "running", "quit"}      \* QThread.isRunning
CloudRuns == cloud.at \notin {"off", "ended"}

\* _start_run asks the first controller only.
StartRun ==
  /\ ~page.closed /\ page.runBtn /\ ~SingleRuns /\ page.starts < MaxRunStarts
  /\ caseRun' = [SingleOff EXCEPT !.at = "created"]
  /\ page' = [page EXCEPT !.runBtn = FALSE, !.stopBtn = TRUE, !.badge = "starting", !.starts = @ + 1]
  /\ UNCHANGED <<cloud, procs>>

\* The token exists before the thread does: a stop is never too early.
StopRun ==
  /\ ~page.closed /\ page.stopBtn
  /\ caseRun' = [caseRun EXCEPT !.token = TRUE]
  /\ page' = [page EXCEPT !.badge = "stopping"]
  /\ UNCHANGED <<cloud, procs>>

CaseSays(signal) == caseRun' = [caseRun EXCEPT !.at = "quit", !.signals = @ \o <<signal, "finished">>]

\* run_case, which looks at the token before anything else, or raises.
CaseBegins ==
  /\ caseRun.at = "created"
  /\ IF caseRun.token THEN CaseSays("result") ELSE caseRun' = [caseRun EXCEPT !.at = "running"]
  /\ UNCHANGED <<page, cloud, procs>>

CaseReports ==
  /\ caseRun.at = "running" /\ caseRun.signals = <<>>
  /\ caseRun' = [caseRun EXCEPT !.signals = <<"progress">>]
  /\ UNCHANGED <<page, cloud, procs>>

CaseEnds ==
  /\ caseRun.at = "running"
  /\ \E signal \in {"result", "error"} : CaseSays(signal)
  /\ UNCHANGED <<page, cloud, procs>>

BadgeAfter(signal) ==
  CASE signal = "progress" -> "running"
    [] signal = "result" -> "over"
    [] signal = "error" -> "failed"
    [] OTHER -> page.badge

\* The page handles the next signal; finished makes the thread quit.
CaseSignal ==
  /\ ~page.closed /\ caseRun.signals # <<>>
  /\ LET signal == Head(caseRun.signals) IN
       /\ caseRun' = [caseRun EXCEPT !.signals = Tail(@), !.at = IF signal = "finished" THEN "ended" ELSE @]
       /\ page' = [page EXCEPT !.badge = BadgeAfter(signal)]
  /\ UNCHANGED <<cloud, procs>>

\* _on_thread_finished, then _on_finished.
CaseFinished ==
  /\ ~page.closed /\ caseRun.at = "ended" /\ caseRun' = SingleOff
  /\ page' = [page EXCEPT !.runBtn = TRUE, !.stopBtn = FALSE,
                          !.badge = IF @ \in {"starting", "stopping"} THEN "idle" ELSE @]
  /\ UNCHANGED <<cloud, procs>>

-----------------------------------------------------------------------------
(* The two cloud cases: the page, and the processes.                       *)

StartCloud ==
  /\ ~page.closed /\ page.cloudStart /\ ~SingleRuns /\ ~CloudRuns /\ page.starts < MaxRunStarts
  /\ cloud' = [CloudOff EXCEPT !.at = "created"] /\ procs' = NotSpawned
  /\ page' = [page EXCEPT !.cloudStart = FALSE, !.cloudStop = TRUE, !.starts = @ + 1,
                          !.label = [c \in CloudCases |-> "running"]]
  /\ UNCHANGED caseRun

\* ConcurrentCloudWorker.cancel: there is no event before run() has made one.
Cancelled(run) == [run EXCEPT !.event = IF @ = "none" THEN "none" ELSE "set"]

StopCloud ==
  /\ ~page.closed /\ page.cloudStop
  /\ cloud' = Cancelled(cloud) /\ page' = [page EXCEPT !.cloudStop = FALSE]
  /\ UNCHANGED <<caseRun, procs>>

\* _run_cloud_case_process puts the result of run_case, and the process ends; or it dies.
ProcessTells(c) ==
  /\ procs[c].at = "working" /\ procs[c].told = "none"
  /\ \E status \in Outcomes(cloud.event = "set") : procs' = [procs EXCEPT ![c].told = status]
  /\ UNCHANGED <<page, caseRun, cloud>>

ProcessEnds(c) ==
  /\ procs[c].at = "working" /\ procs' = [procs EXCEPT ![c].at = "exited"]
  /\ UNCHANGED <<page, caseRun, cloud>>

-----------------------------------------------------------------------------
(* ConcurrentCloudWorker.run.                                              *)

CloudBegins ==
  /\ cloud.at = "created" /\ cloud' = [cloud EXCEPT !.at = "spawn", !.event = "clear"]
  /\ UNCHANGED <<page, caseRun, procs>>

SpawnNext ==
  /\ cloud.at = "spawn"
  /\ procs' = [procs EXCEPT ![StartOrder[cloud.started + 1]].at = "working"]
  /\ cloud' = [cloud EXCEPT !.started = @ + 1,
                            !.at = IF cloud.started + 1 = Len(StartOrder) THEN "look" ELSE "spawn"]
  /\ UNCHANGED <<page, caseRun>>

\* start() raises: the worker forgets the process that is already running.
SpawnFails ==
  /\ cloud.at = "spawn"
  /\ cloud' = [cloud EXCEPT !.at = "quit", !.signals = <<"error", "finished">>,
                            !.orphans = cloud.started > 0]
  /\ UNCHANGED <<page, caseRun, procs>>

LookWhoLives ==
  /\ cloud.at = "look"
  /\ cloud' = [cloud EXCEPT !.at = "drain", !.alive = \E c \in CloudCases : procs[c].at = "working"]
  /\ UNCHANGED <<page, caseRun, procs>>

DrainQueue ==
  /\ cloud.at = "drain"
  /\ cloud' = [cloud EXCEPT !.at = "decide", !.got = [c \in CloudCases |-> procs[c].told]]
  /\ UNCHANGED <<page, caseRun, procs>>

Over(run) == [run EXCEPT !.at = "join"]

\* Mutant: the processes are looked at after the queue.
DecideNow ==
  /\ cloud.at = "decide"
  /\ IF \A c \in CloudCases : procs[c].at # "working"
     THEN cloud' = Over(cloud) /\ UNCHANGED procs
     ELSE cloud' = [cloud EXCEPT !.at = "look"] /\ UNCHANGED procs
  /\ UNCHANGED <<page, caseRun>>

\* Mutant: the 15 seconds begin again at every pass.
DecideAgain ==
  /\ cloud.at = "decide"
  /\ cloud' = IF ~cloud.alive THEN Over(cloud)
              ELSE [cloud EXCEPT !.at = "look", !.late = IF cloud.event = "set" THEN "soon" ELSE "no"]
  /\ UNCHANGED <<page, caseRun, procs>>

\* The loop ends when nobody was alive before the queue was emptied (a result that is
\* missing then is waited for during two seconds, in vain); and 15 s after a stop,
\* with the processes that still live terminated.
Decide ==
  /\ cloud.at = "decide"
  /\ IF ~cloud.alive THEN cloud' = Over(cloud) /\ UNCHANGED procs
     ELSE IF cloud.event = "set" /\ cloud.late = "yes"
     THEN /\ cloud' = Over(cloud)
          /\ procs' = [c \in CloudCases |->
                         IF procs[c].at = "working" THEN [procs[c] EXCEPT !.at = "killed"] ELSE procs[c]]
     ELSE /\ cloud' = [cloud EXCEPT !.at = "look",
                                    !.late = IF cloud.event = "set" /\ @ = "no" THEN "soon" ELSE @]
          /\ UNCHANGED procs
  /\ UNCHANGED <<page, caseRun>>

StopDeadline ==
  /\ cloud.late = "soon" /\ cloud' = [cloud EXCEPT !.late = "yes"]
  /\ UNCHANGED <<page, caseRun, procs>>

\* Joined; a case without a result is cancelled after a stop, and else failed.
CloudEnds ==
  /\ cloud.at = "join"
  /\ LET missing == IF cloud.event = "set" THEN "cancelled" ELSE "failed" IN
       cloud' = [cloud EXCEPT !.at = "quit", !.signals = <<"result", "finished">>,
                   !.got = [c \in CloudCases |-> IF @[c] = "none" THEN missing ELSE @[c]]]
  /\ UNCHANGED <<page, caseRun, procs>>

WatchProcesses == CloudBegins \/ SpawnNext \/ SpawnFails \/ LookWhoLives \/ DrainQueue \/ Decide \/ CloudEnds

\* _on_cloud_result, _on_error (the badge of the other controller), and the thread quits.
CloudSignal ==
  /\ ~page.closed /\ cloud.signals # <<>>
  /\ LET signal == Head(cloud.signals) IN
       /\ cloud' = [cloud EXCEPT !.signals = Tail(@), !.at = IF signal = "finished" THEN "ended" ELSE @]
       /\ page' = CASE signal = "result" -> [page EXCEPT !.label = cloud.got]
                    [] signal = "error" -> [page EXCEPT !.badge = "failed"]
                    [] OTHER -> page
  /\ UNCHANGED <<caseRun, procs>>

CloudFinished ==
  /\ ~page.closed /\ cloud.at = "ended"
  /\ cloud' = [cloud EXCEPT !.at = "off"]
  /\ page' = [page EXCEPT !.cloudStart = TRUE, !.cloudStop = FALSE]
  /\ UNCHANGED <<caseRun, procs>>

\* shutdown: both are asked to stop, and the window goes after at most five seconds each.
Shutdown ==
  /\ ~page.closed /\ page' = [page EXCEPT !.closed = TRUE]
  /\ caseRun' = [caseRun EXCEPT !.token = (@ \/ caseRun.at # "off")]
  /\ cloud' = IF cloud.at = "off" THEN cloud ELSE Cancelled(cloud)
  /\ UNCHANGED procs

-----------------------------------------------------------------------------

AppTestInit ==
  /\ page = [runBtn |-> TRUE, stopBtn |-> FALSE, cloudStart |-> TRUE, cloudStop |-> FALSE,
             badge |-> "idle", label |-> NoResult, starts |-> 0, closed |-> FALSE]
  /\ caseRun = SingleOff /\ cloud = CloudOff /\ procs = NotSpawned

ClicksOnPage == StartRun \/ StopRun \/ StartCloud \/ StopCloud \/ Shutdown
OneCase == CaseBegins \/ CaseReports \/ CaseEnds
CaseToPage == CaseSignal \/ CaseFinished
CloudToPage == CloudSignal \/ CloudFinished
CloudProcess == \E c \in CloudCases : ProcessTells(c) \/ ProcessEnds(c)

AppTestNext == ClicksOnPage \/ OneCase \/ CaseToPage \/ CloudToPage \/ CloudProcess \/ WatchProcesses \/ StopDeadline

\* The watching thread runs, its deadline passes and the window handles its signals; the
\* user, the cases and their processes may do nothing for ever.
AppTestFairness ==
  /\ WF_appTestVars(WatchProcesses) /\ WF_appTestVars(StopDeadline)
  /\ WF_appTestVars(CaseToPage) /\ WF_appTestVars(CloudToPage)

AppTestSpec == AppTestInit /\ [][AppTestNext]_appTestVars /\ AppTestFairness

-----------------------------------------------------------------------------
(* Properties.                                                             *)

\* The page shows of each cloud case what its process said last, however the end of the
\* process, its result and the polling interleave; it shows passed only if the process
\* said so, even when a process died or had to be terminated.
CloudLabelsTrue ==
  cloud.at = "off" /\ cloud.started = Len(StartOrder) =>
    \A c \in CloudCases :
      /\ page.label[c] = "passed" => procs[c].told = "passed"
      /\ procs[c].told # "none" /\ cloud.late # "yes" => page.label[c] = procs[c].told

\* Once the cancel event of the cloud cases is set, no process lives and the page is ready
\* again sooner or later, even if the cases never look at the event.
StopEndsCloudRuns ==
  cloud.event = "set" ~> \/ page.closed
                         \/ cloud.at = "off" /\ \A c \in CloudCases : procs[c].at # "working"
                         \/ cloud.orphans
================================================================================
