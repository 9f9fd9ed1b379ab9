---------------------------- MODULE EvictingQueue ----------------------------
(***************************************************************************)
(* The eviction policy of SubscriptionQueue.put (testagent/watch_hub.py):  *)
(* a bounded deque of notifications.  A notification is any record with a  *)
(* field critical; _is_critical_event decides that field in the code, from *)
(* the kind of the item and the status the event carries.                  *)
(***************************************************************************)
EXTENDS Naturals, Sequences, SequencesExt

CONSTANT MaxSize    \* SubscriptionQueue.__init__(maxsize), 256 in the program

ASSUME MaxSizeAssumption == MaxSize \in Nat \ {0}

\* Positions of the notifications that may be thrown away.
RoutineAt(q) == {i \in DOMAIN q : ~q[i].critical}

\* A full queue refuses a routine notification when it holds none to evict.
Accepts(q, item) ==
  \/ Len(q) < MaxSize
  \/ RoutineAt(q) # {}
  \/ item.critical

\* Fault: the oldest goes, whatever it is.
VictimOldest(q) == 1

\* What a full queue gives up for an accepted notification: its oldest routine
\* one, and its oldest one of all when every notification in it is critical.
Victim(q) == IF RoutineAt(q) # {} THEN Min(RoutineAt(q)) ELSE 1

\* Fault: one item too many.
EnqueueOffByOne(q, item) ==
  IF Len(q) <= MaxSize THEN Append(q, item)
  ELSE Append(RemoveAt(q, Victim(q)), item)

\* put, but for the notification.
Enqueue(q, item) ==
  IF ~Accepts(q, item) THEN q
  ELSE IF Len(q) < MaxSize THEN Append(q, item)
  ELSE Append(RemoveAt(q, Victim(q)), item)
==============================================================================
