------------------------------ MODULE OtgMonitor ------------------------------
(***************************************************************************)
(* OtgMonitorService and the OTG section that starts and stops it: one     *)
(* file is copied to the drive each time it is plugged in, the copy gets   *)
(* the next number, and a report keeps the history and the last number.    *)
(*                                                                         *)
(* Every start makes a service with a thread of its own.  A stop waits for *)
(* the thread, but not longer than 3 s, and a copy may be longer.          *)
(***************************************************************************)
EXTENDS Naturals

CONSTANTS
  Services,        \* a bound on starts: the services are 1..Services
  MaxInsertions    \* bound on insertions, for TLC only

ASSUME OtgAssumption == Services \in Nat /\ MaxInsertions \in Nat

VARIABLES
  drive,      \* plugged in or not, and how often it was
  service,    \* each service: its thread, stop event, place, number
  section,    \* the service the section knows (0: none), one it is joining, starts
  report,     \* history.jsonl, as how often a number is in it, and latest_summary.json
  excused     \* history: a stop has timed out, a report could not be written, or the
              \* window was closed during one

otgVars == <<drive, service, section, report, excused>>

Numbers == 1..Services * (MaxInsertions + 1)
NoService == [at |-> "none", stop |-> FALSE, removal |-> FALSE, count |-> 0]
ServiceAlive(s) == s # 0 /\ service[s].at \notin {"none", "gone"}
Set(s, at) == service' = [service EXCEPT ![s].at = at]

-----------------------------------------------------------------------------
(* The drive, and the section.                                             *)

Plug ==
  /\ drive.times < MaxInsertions \/ drive.in
  /\ drive' = [in |-> ~drive.in, times |-> IF drive.in THEN drive.times ELSE drive.times + 1]
  /\ UNCHANGED <<service, section, report, excused>>

\* Mutant: every service counts from the beginning.
CountFromZero == 0

\* _load_previous_count: 0 too when the file is unreadable.
PreviousCount == IF report.summary = "torn" THEN 0 ELSE report.last

\* _toggle_service without a running service; start() may refuse (no source file).
StartMonitor ==
  /\ section.joining = 0 /\ section.starts < Services
  /\ ~ServiceAlive(section.known)
  /\ LET s == section.starts + 1 IN
       /\ service' = [service EXCEPT ![s] = [NoService EXCEPT !.at = "look", !.count = PreviousCount]]
       /\ section' = [known |-> s, joining |-> 0, starts |-> s]
  /\ UNCHANGED <<drive, report, excused>>

StopMonitor ==
  /\ section.joining = 0 /\ ServiceAlive(section.known)
  /\ service' = [service EXCEPT ![section.known].stop = TRUE]
  /\ section' = [section EXCEPT !.joining = section.known]
  /\ UNCHANGED <<drive, report, excused>>

\* join returns when the thread has ended or the time is over; the section forgets the
\* service in either case.
Joined ==
  /\ section.joining # 0
  /\ section' = [section EXCEPT !.joining = 0, !.known = 0]
  /\ excused' = (excused \/ ServiceAlive(section.joining))
  /\ UNCHANGED <<drive, service, report>>

\* The window is closed and opened again: the threads are daemons and end where they are.
Restart ==
  /\ \E s \in DOMAIN service : service[s].at # "none"
  /\ service' = [s \in DOMAIN service |-> IF ServiceAlive(s) THEN [service[s] EXCEPT !.at = "gone"] ELSE service[s]]
  /\ section' = [section EXCEPT !.known = 0, !.joining = 0]
  /\ LET torn == \E s \in DOMAIN service : service[s].at \in {"history", "summary"} IN
       /\ excused' = (excused \/ torn)
       /\ report' \in {report, IF torn THEN [report EXCEPT !.summary = "torn"] ELSE report}
  /\ UNCHANGED drive

-----------------------------------------------------------------------------
(* _monitor_loop.                                                          *)

\* The top of the loop.
Look(s) ==
  /\ service[s].at = "look"
  /\ service' = [service EXCEPT
       ![s].at = IF service[s].stop THEN "gone"
                 ELSE IF drive.in /\ ~service[s].removal THEN "copy" ELSE "nap",
       ![s].removal = IF service[s].stop THEN @ ELSE @ /\ drive.in]
  /\ UNCHANGED <<drive, section, report, excused>>

\* An exception counts as a transfer: the drive must be removed first.
TransferFails(s) == service' = [service EXCEPT ![s].at = "nap", ![s].removal = TRUE]

\* _copy_random_file up to the lock: the drive may be gone, or full.
CopyFile(s) ==
  /\ service[s].at = "copy"
  /\ \/ drive.in /\ service' = [service EXCEPT ![s].at = "history", ![s].count = @ + 1]
     \/ TransferFails(s)
  /\ UNCHANGED <<drive, section, report, excused>>

\* _write_report: the history, then the summary; neither write is atomic.
WriteHistory(s) ==
  /\ service[s].at = "history"
  /\ \/ /\ report' = [report EXCEPT !.history[service[s].count] = @ + 1]
        /\ Set(s, "summary") /\ UNCHANGED excused
     \/ TransferFails(s) /\ excused' = TRUE /\ UNCHANGED report
  /\ UNCHANGED <<drive, section>>

WriteSummary(s) ==
  /\ service[s].at = "summary" /\ TransferFails(s)
  /\ \/ report' = [report EXCEPT !.summary = "whole", !.last = service[s].count] /\ UNCHANGED excused
     \/ report' \in {report, [report EXCEPT !.summary = "torn"]} /\ excused' = TRUE
  /\ UNCHANGED <<drive, section>>

Nap(s) == service[s].at = "nap" /\ Set(s, "look") /\ UNCHANGED <<drive, section, report, excused>>

-----------------------------------------------------------------------------

OtgInit ==
  /\ drive = [in |-> FALSE, times |-> 0]
  /\ service = [s \in 1..Services |-> NoService]
  /\ section = [known |-> 0, joining |-> 0, starts |-> 0]
  /\ report = [history |-> [n \in Numbers |-> 0], summary |-> "whole", last |-> 0]
  /\ excused = FALSE

Monitor(s) == Look(s) \/ CopyFile(s) \/ WriteHistory(s) \/ WriteSummary(s) \/ Nap(s)

OtgNext ==
  \/ Plug \/ StartMonitor \/ StopMonitor \/ Joined \/ Restart
  \/ \E s \in 1..Services : Monitor(s)

OtgSpec == OtgInit /\ [][OtgNext]_otgVars

-----------------------------------------------------------------------------
(* Properties.                                                             *)

\* No two transfers have the same number in the history, over any number of stops, starts
\* and restarts, unless a stop ran out of time while its thread was copying, a report could
\* not be written, or the window was closed during one.
NumbersUnique == excused \/ \A n \in Numbers : report.history[n] <= 1
================================================================================
