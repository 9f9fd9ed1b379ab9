------------------------------ MODULE Downloads ------------------------------
(***************************************************************************)
(* The download pressure of case3 and case4: what is expected of the file  *)
(* (core/integrity), the pool of downloads (core/pressure), the attempts   *)
(* of one download (clients/cloud_client) and the rows of the report       *)
(* (MetricsRecorder).  The user may stop the case at any time.             *)
(*                                                                         *)
(* A file is intact, altered (other bytes, or other bytes of another       *)
(* length) or empty; a digest or a length is absent, right or malformed.   *)
(***************************************************************************)
EXTENDS Naturals, FiniteSets

CONSTANTS
  Total,      \* iterations
  Workers,    \* threads of the pool
  Retries     \* CloudClient.retry_attempts

ASSUME DownloadsAssumption == Total \in Nat \ {0} /\ Workers \in Nat \ {0} /\ Retries \in Nat \ {0}

VARIABLES
  expect,     \* what the metadata and the configuration give; then what is checked
  phase,      \* where the case is
  pool,       \* next iteration, futures not yet collected, counts, failures, last content
  task,       \* the downloads
  row,        \* metrics.csv: the outcome written for each iteration
  stopped     \* the cancellation token

downloadVars == <<expect, phase, pool, task, row, stopped>>

Iterations == 1..Total
WorkerCount == IF Workers < Total THEN Workers ELSE Total

Field == {"absent", "right", "malformed"}
Metadata == [sha : Field, cfgSha : Field, md5 : Field, cfgMd5 : Field, size : Field]

\* resolve_integrity_expectation: the length, then SHA-256 before MD5, and of each the
\* metadata before the configuration.
FirstGiven(a, b) == IF a # "absent" THEN a ELSE b
Digest(m) == FirstGiven(FirstGiven(m.sha, m.cfgSha), FirstGiven(m.md5, m.cfgMd5))
Malformed(m) == m.size = "malformed" \/ Digest(m) = "malformed"
Verified(m) == Digest(m) = "right"

NotSubmitted == [at |-> "none", attempt |-> 0, file |-> "none"]
Downloading == {i \in Iterations : task[i].at \in {"asking", "reading"}}
Finished(i) == task[i].at \in {"fetched", "failed", "cancelled", "revoked"}

-----------------------------------------------------------------------------
(* run_case3 and run_case4, up to the pool.                                *)

\* The request for the metadata, with its own attempts, fails; or its answer is malformed,
\* or says what is expected; the first downloads are submitted.
Begin ==
  /\ phase = "metadata"
  /\ \/ phase' = "failed" /\ UNCHANGED <<expect, pool, task>>
     \/ /\ ~Malformed(expect) /\ phase' = "pool"
        /\ expect' = [digest |-> Verified(expect), size |-> expect.size = "right"]
        /\ pool' = [pool EXCEPT !.next = WorkerCount + 1, !.pending = 1..WorkerCount]
        /\ task' = [i \in Iterations |-> IF i <= WorkerCount THEN [NotSubmitted EXCEPT !.at = "queued"] ELSE NotSubmitted]
  /\ UNCHANGED <<row, stopped>>

Stop == ~stopped /\ phase \in {"pool", "join"} /\ stopped' = TRUE /\ UNCHANGED <<expect, phase, pool, task, row>>

-----------------------------------------------------------------------------
(* download_one and download_file, in a thread of the pool.                *)

To(i, at) == task' = [task EXCEPT ![i].at = at]
Row(i, ok) == row' = [row EXCEPT ![i] = IF ok THEN "ok" ELSE "error"]

Picked(i) ==
  /\ task[i].at = "queued" /\ Cardinality(Downloading) < WorkerCount
  /\ task' = [task EXCEPT ![i].at = IF stopped THEN "cancelled" ELSE "asking", ![i].attempt = 1]
  /\ UNCHANGED <<expect, phase, pool, row, stopped>>

\* No connection, or 502, 503, 504: another attempt, without a look at the token.  The
\* last one raises, or gives its answer as any other status.
Attempt(i) ==
  /\ task[i].at = "asking"
  /\ \/ task[i].attempt < Retries /\ task' = [task EXCEPT ![i].attempt = @ + 1] /\ UNCHANGED row
     \/ task[i].attempt = Retries /\ To(i, "failed") /\ Row(i, FALSE)
     \/ task' = [task EXCEPT ![i].at = "reading"] /\ UNCHANGED row
  /\ UNCHANGED <<expect, phase, pool, stopped>>

\* Every chunk asks the token; the body may break off; a status that is no success, an
\* empty file, another length or another digest than expected is a failure.
Arrives(i) ==
  /\ task[i].at = "reading"
  /\ \/ stopped /\ To(i, "cancelled") /\ Row(i, FALSE)
     \/ To(i, "failed") /\ Row(i, FALSE)
     \/ \E file \in {"intact", "altered"}, sameLength \in BOOLEAN :
          /\ ~stopped
          /\ file = "intact" => sameLength
          /\ expect.digest => file = "intact"
          /\ expect.size => sameLength
          /\ task' = [task EXCEPT ![i].at = "fetched", ![i].file = file] /\ Row(i, TRUE)
  /\ UNCHANGED <<expect, phase, pool, stopped>>

-----------------------------------------------------------------------------
(* run_download_pressure, in the thread of the case.                       *)

ShouldStop(failed) == stopped \/ (pool.stopFirst /\ failed # {})

\* Submitted again: as many as were collected, up to the last iteration.
Refill(done, failed) ==
  LET left == pool.pending \ done
      last == IF pool.next + Cardinality(done) - 1 > Total THEN Total ELSE pool.next + Cardinality(done) - 1
  IN [pending |-> left \cup (pool.next..last), next |-> last + 1, new |-> pool.next..last]

\* The futures that are done, in any order; then all that wait are cancelled, or the pool is
\* filled again.
Collect ==
  LET done == {i \in pool.pending : Finished(i)}
      fetched == {i \in done : task[i].at = "fetched"}
      failed == pool.failed \cup {i \in done : task[i].at = "failed"}
      more == Refill(done, failed)
  IN /\ phase = "pool" /\ done # {}
     /\ \E last \in IF fetched = {} THEN {pool.last} ELSE fetched :
          IF ShouldStop(failed)
          THEN /\ pool' = [pool EXCEPT !.pending = @ \ done, !.completed = @ + Cardinality(done),
                                       !.failed = failed, !.last = last]
               /\ task' = [i \in Iterations |-> IF i \in pool.pending /\ task[i].at = "queued"
                                                THEN [task[i] EXCEPT !.at = "revoked"] ELSE task[i]]
               /\ phase' = "join"
          ELSE /\ pool' = [pool EXCEPT !.pending = more.pending, !.next = more.next, !.failed = failed,
                                       !.completed = @ + Cardinality(done), !.last = last]
               /\ task' = [i \in Iterations |-> IF i \in more.new THEN [NotSubmitted EXCEPT !.at = "queued"] ELSE task[i]]
               /\ phase' = IF more.pending = {} THEN "join" ELSE "pool"
     /\ UNCHANGED <<expect, row, stopped>>

\* Mutant: the failures are the only question.
VerdictUnasked ==
  IF pool.failed # {} \/ pool.last = 0 THEN "failed" ELSE "accepted"

\* The stop is asked for a last time, then the failures, then whether there is a file.
Verdict ==
  IF stopped THEN "cancelled" ELSE IF pool.failed # {} \/ pool.last = 0 THEN "failed" ELSE "accepted"

\* The executor waits for the downloads that run; what they bring is not collected.
Join ==
  /\ phase = "join" /\ Downloading = {} /\ \A i \in Iterations : task[i].at # "queued"
  /\ phase' = Verdict
  /\ UNCHANGED <<expect, pool, task, row, stopped>>

-----------------------------------------------------------------------------

DownloadsInit ==
  /\ expect \in Metadata /\ phase = "metadata" /\ stopped = FALSE
  /\ pool \in {[next |-> 1, pending |-> {}, completed |-> 0, failed |-> {}, last |-> 0,
                stopFirst |-> s] : s \in BOOLEAN}
  /\ task = [i \in Iterations |-> NotSubmitted] /\ row = [i \in Iterations |-> "none"]

Download(i) == Picked(i) \/ Attempt(i) \/ Arrives(i)

DownloadsNext == Begin \/ Stop \/ Collect \/ Join \/ \E i \in Iterations : Download(i)

DownloadsSpec == DownloadsInit /\ [][DownloadsNext]_downloadVars

-----------------------------------------------------------------------------
(* Properties.                                                             *)

\* A case that passes has downloaded the file as often as it was asked to, every time with
\* the digest and the length it knew, and has one row without an error for each time: a
\* stop at any moment, or a failure that nobody collected, never leaves it passed.
PassedMeansAll ==
  phase = "accepted" =>
    /\ pool.completed = Total /\ pool.last \in Iterations
    /\ \A i \in Iterations :
         /\ task[i].at = "fetched" /\ row[i] = "ok"
         /\ expect.digest => task[i].file = "intact"
================================================================================
