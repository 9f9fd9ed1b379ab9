------------------------------- MODULE ProfileStore -------------------------------
(***************************************************************************)
(* The file of PC profiles (testagent/custom_profiles.py) and the GUIs     *)
(* that share it: the lock, the new document in a temporary file, the      *)
(* last-good backup, the renames, and what is left when a process dies or  *)
(* the PC loses power.                                                     *)
(*                                                                         *)
(* A document is the number of the save that wrote it; 0 is the one that   *)
(* was there, Absent no file at all.  Content that was written and not     *)
(* fsynced, and a rename whose directory was not, may be undone by a power *)
(* loss; a temporary file has a name of its own and is never read.         *)
(***************************************************************************)
EXTENDS Naturals, FiniteSets

CONSTANTS
  Guis,       \* processes that have the file open in an editor
  Nobody,     \* the owner of the free lock
  Absent, Broken,
  MaxSaves    \* bound on saves, for TLC only

ASSUME ProfileStoreAssumption ==
  Nobody \notin Guis /\ Absent \notin Nat /\ Broken \notin Nat /\ Absent # Broken /\ MaxSaves \in Nat

VARIABLES
  active,     \* the profile file: as processes see it, and as the disk may bring it back
  backup,     \* the .bak file
  temp,       \* the temporary file of each process
  copy,       \* the temporary backup of each process
  lock,       \* owner of the .lock file
  pc,         \* where each process is in save
  seen,       \* the document each process has loaded or saved last; Broken: load_error
  saves,      \* counts the saves begun
  kept,       \* history: the last save that has returned, with its directory synced
  before      \* history: the document active before the active one; the backup there
              \* is if there was none, and after a power loss

storeVars == <<active, backup, temp, copy, lock, pc, seen, saves, kept, before>>

File(now, disk, firm) == [now |-> now, disk |-> disk, firm |-> firm]
NoTemp == [doc |-> Absent, firm |-> FALSE]

-----------------------------------------------------------------------------
(* load and _file_lock.                                                    *)

\* The lock is taken, the file read and the lock let go; or the lock is not free for 5 s.
Load(g) ==
  /\ pc[g] = "closed"
  /\ pc' = [pc EXCEPT ![g] = "idle"]
  /\ \/ lock = Nobody /\ seen' = [seen EXCEPT ![g] = active.now]
     \/ lock # Nobody /\ seen' = [seen EXCEPT ![g] = Broken]
  /\ UNCHANGED <<active, backup, temp, copy, lock, saves, kept, before>>

\* Mutant: the lock is not asked.
LockIgnored == TRUE
LockIsFree == lock = Nobody

\* save: refused after a load that failed; otherwise it waits for the lock, or gives up.
SaveBegin(g) ==
  /\ pc[g] = "idle" /\ seen[g] # Broken /\ saves < MaxSaves
  /\ LockIsFree /\ lock' = g
  /\ saves' = saves + 1 /\ pc' = [pc EXCEPT ![g] = "write"]
  /\ temp' = [temp EXCEPT ![g] = [doc |-> saves + 1, firm |-> FALSE]]
  /\ UNCHANGED <<active, backup, copy, seen, kept, before>>

\* Mutant: the document is renamed without fsync.
SaveUnsynced(g) ==
  /\ pc[g] = "write" /\ pc' = [pc EXCEPT ![g] = "copy"]
  /\ UNCHANGED <<active, backup, temp, copy, lock, seen, saves, kept, before>>

\* The document is written and fsynced.
SaveSynced(g) ==
  /\ pc[g] = "write" /\ pc' = [pc EXCEPT ![g] = "copy"]
  /\ temp' = [temp EXCEPT ![g].firm = TRUE]
  /\ UNCHANGED <<active, backup, copy, lock, seen, saves, kept, before>>

\* Mutant: a backup that is there is left alone.
BackupCopyOnce(g) ==
  /\ pc[g] = "copy"
  /\ IF active.now = Absent \/ backup.now # Absent
     THEN pc' = [pc EXCEPT ![g] = "replace"] /\ UNCHANGED copy
     ELSE /\ pc' = [pc EXCEPT ![g] = "backup"]
          /\ copy' = [copy EXCEPT ![g] = [doc |-> active.now, firm |-> TRUE]]
  /\ UNCHANGED <<active, backup, temp, lock, seen, saves, kept, before>>

\* _backup_current_file: a durable copy of the active file, if there is one.
BackupCopy(g) ==
  /\ pc[g] = "copy"
  /\ IF active.now = Absent THEN pc' = [pc EXCEPT ![g] = "replace"] /\ UNCHANGED copy
     ELSE /\ pc' = [pc EXCEPT ![g] = "backup"]
          /\ copy' = [copy EXCEPT ![g] = [doc |-> active.now, firm |-> TRUE]]
  /\ UNCHANGED <<active, backup, temp, lock, seen, saves, kept, before>>

BackupReplace(g) ==
  /\ pc[g] = "backup" /\ pc' = [pc EXCEPT ![g] = "replace"]
  /\ \E synced \in BOOLEAN :
       backup' = File(copy[g].doc, IF synced THEN copy[g].doc ELSE backup.disk, copy[g].firm)
  /\ copy' = [copy EXCEPT ![g] = NoTemp]
  /\ UNCHANGED <<active, temp, lock, seen, saves, kept, before>>

\* temporary.replace(self._path).
SaveReplace(g) ==
  /\ pc[g] = "replace" /\ pc' = [pc EXCEPT ![g] = "sync"]
  /\ active' = File(temp[g].doc, active.disk, temp[g].firm)
  /\ before' = IF active.now = Absent THEN backup.now ELSE active.now
  /\ temp' = [temp EXCEPT ![g] = NoTemp]
  /\ UNCHANGED <<backup, copy, lock, seen, saves, kept>>

\* _fsync_parent, which some systems refuse; then the lock is let go and save returns.
SaveEnd(g) ==
  /\ pc[g] = "sync" /\ pc' = [pc EXCEPT ![g] = "idle"]
  /\ lock' = Nobody /\ seen' = [seen EXCEPT ![g] = active.now]
  /\ \/ active' = [active EXCEPT !.disk = @] /\ UNCHANGED kept
     \/ active' = [active EXCEPT !.disk = active.now] /\ kept' = active.now
  /\ UNCHANGED <<backup, temp, copy, saves, before>>

\* An OSError while writing or copying: the finally removes the temporary files.
SaveFails(g) ==
  /\ pc[g] \in {"write", "copy", "backup", "replace"} /\ pc' = [pc EXCEPT ![g] = "idle"]
  /\ lock' = Nobody
  /\ temp' = [temp EXCEPT ![g] = NoTemp] /\ copy' = [copy EXCEPT ![g] = NoTemp]
  /\ UNCHANGED <<active, backup, seen, saves, kept, before>>

-----------------------------------------------------------------------------
(* Processes that die, and the PC that does.                               *)

\* The system lets the lock go; the temporary files stay and are not read again.
Die(g) ==
  /\ pc[g] # "closed" /\ pc' = [pc EXCEPT ![g] = "closed"]
  /\ lock' = IF lock = g THEN Nobody ELSE lock
  /\ temp' = [temp EXCEPT ![g] = NoTemp] /\ copy' = [copy EXCEPT ![g] = NoTemp]
  /\ seen' = [seen EXCEPT ![g] = Absent]
  /\ UNCHANGED <<active, backup, saves, kept, before>>

AfterPowerLoss(f) == {File(d, d, TRUE) : d \in {f.disk, IF f.firm THEN f.now ELSE Broken}}

PowerLoss ==
  /\ \E g \in Guis : pc[g] # "closed"
  /\ pc' = [g \in Guis |-> "closed"] /\ lock' = Nobody
  /\ temp' = [g \in Guis |-> NoTemp] /\ copy' = [g \in Guis |-> NoTemp]
  /\ seen' = [g \in Guis |-> Absent]
  /\ active' \in AfterPowerLoss(active) /\ backup' \in AfterPowerLoss(backup)
  /\ before' = backup'.now
  /\ UNCHANGED <<saves, kept>>

-----------------------------------------------------------------------------

StoreInit ==
  /\ active \in {File(Absent, Absent, TRUE), File(0, 0, TRUE)} /\ backup = File(Absent, Absent, TRUE)
  /\ temp = [g \in Guis |-> NoTemp] /\ copy = [g \in Guis |-> NoTemp]
  /\ lock = Nobody /\ pc = [g \in Guis |-> "closed"] /\ seen = [g \in Guis |-> Absent]
  /\ saves = 0 /\ kept = active.now /\ before = Absent

StoreSave(g) == SaveBegin(g) \/ SaveSynced(g) \/ BackupCopy(g) \/ BackupReplace(g) \/ SaveReplace(g)
                \/ SaveEnd(g) \/ SaveFails(g)

StoreNext == PowerLoss \/ \E g \in Guis : Load(g) \/ StoreSave(g) \/ Die(g)

StoreSpec == StoreInit /\ [][StoreNext]_storeVars

-----------------------------------------------------------------------------
(* Properties.                                                             *)

\* The profile file and its backup are complete documents at every moment, also after a
\* process died inside save or the PC lost power there.
FilesWhole == active.now # Broken /\ backup.now # Broken

\* A save that has returned survives: the file is that save's document or a later one's,
\* and so is what a power loss would bring back.
SavedSurvives ==
  kept \in Nat => /\ active.now \in Nat /\ active.now >= kept
                  /\ active.disk \in Nat /\ active.disk >= kept

\* The backup is the last good file: while nobody is saving it is the document before the
\* active one, or the active one itself when a save was cut off; never an older one.
BackupIsLastGood ==
  lock = Nobody => backup.now \in {before, active.now}
================================================================================
