-------------------------- MODULE SubscriptionQueue --------------------------
(***************************************************************************)
(* One SubscriptionQueue of testagent/watch_hub.py: the hub's poll thread  *)
(* (and, for "finished", the thread that closes the subscription) puts     *)
(* notifications, one consumer takes them.  The consumer is the Qt timer   *)
(* of the GUI (get_nowait) or a RecordWorker (get with a timeout).         *)
(*                                                                         *)
(* Every method runs under the queue's own Condition, so each is a single  *)
(* action; the wait inside get is what splits it in two.  An item carries  *)
(* two numbers the code does not have, its place among all puts (id) and   *)
(* among the critical ones (rank): with critCount, delivered and lost they *)
(* are history variables that the properties need.                         *)
(***************************************************************************)
EXTENDS EvictingQueue

CONSTANT MaxPuts    \* bound on the number of puts, for model checking only

ASSUME MaxPutsAssumption == MaxPuts \in Nat

VARIABLES
  items,        \* self._items, oldest first
  consumer,     \* where the one consumer is inside get
  putCount,     \* history: puts so far
  critCount,    \* history: critical puts so far
  delivered,    \* history: id of the last item the consumer took, 0 if none
  lost          \* history: ranks of the critical items that were evicted

vars == <<items, consumer, putCount, critCount, delivered, lost>>

Item == [id : Nat \ {0}, critical : BOOLEAN, rank : Nat]

Init ==
  /\ items = <<>>
  /\ consumer = "idle"
  /\ putCount = 0
  /\ critCount = 0
  /\ delivered = 0
  /\ lost = {}

\* The critical items that q holds and r no longer does, by rank.
CriticalsDropped(q, r) ==
  {q[i].rank : i \in {j \in DOMAIN q : q[j].critical /\ \A k \in DOMAIN r : r[k] # q[j]}}

\* Fault: put does not notify.
Unnotified(q, item) == consumer

\* The consumer after put's notify: one that waits is woken for the item.  One
\* whose wait has just expired gets nothing from the notification.
Notified(q, item) ==
  IF consumer = "waiting" /\ Accepts(q, item) THEN "notified" ELSE consumer

\* put: evict or refuse, append, and notify.
Put(critical) ==
  /\ putCount < MaxPuts
  /\ putCount' = putCount + 1
  /\ critCount' = IF critical THEN critCount + 1 ELSE critCount
  /\ LET item == [id |-> putCount', critical |-> critical, rank |-> critCount']
     IN  /\ items' = Enqueue(items, item)
         /\ consumer' = Notified(items, item)
  /\ lost' = lost \cup CriticalsDropped(items, items')
  /\ UNCHANGED delivered

\* Fault: the newest item is taken.
TakeNewest ==
  /\ items # <<>>
  /\ items' = Front(items)
  /\ delivered' = Last(items).id
  /\ UNCHANGED <<putCount, critCount, lost>>

\* popleft
Take ==
  /\ items # <<>>
  /\ items' = Tail(items)
  /\ delivered' = Head(items).id
  /\ UNCHANGED <<putCount, critCount, lost>>

\* get_nowait, and get when an item is there: both pop under the lock.
GetNow ==
  /\ consumer = "idle"
  /\ Take
  /\ UNCHANGED consumer

\* get on an empty queue: the consumer releases the lock and sleeps.
GetWait ==
  /\ consumer = "idle"
  /\ items = <<>>
  /\ consumer' = "waiting"
  /\ UNCHANGED <<items, putCount, critCount, delivered, lost>>

\* The notified consumer has the lock again; it looks at the items once more.
Woken ==
  /\ consumer = "notified"
  /\ consumer' = "idle"
  /\ IF items = <<>> THEN UNCHANGED <<items, putCount, critCount, delivered, lost>>
                     ELSE Take

\* The wait expires: wait() is going to return False ...
Expire ==
  /\ consumer = "waiting"
  /\ consumer' = "expired"
  /\ UNCHANGED <<items, putCount, critCount, delivered, lost>>

\* ... and once the lock is held again get raises Empty, whatever was put.
RaiseEmpty ==
  /\ consumer = "expired"
  /\ consumer' = "idle"
  /\ UNCHANGED <<items, putCount, critCount, delivered, lost>>

Next ==
  \/ \E critical \in BOOLEAN : Put(critical)
  \/ GetNow
  \/ GetWait
  \/ Woken
  \/ Expire
  \/ RaiseEmpty

Spec == Init /\ [][Next]_vars

------------------------------------------------------------------------------
\* Types, and the bound that keeps the program's memory finite: the queue never
\* holds more than MaxSize notifications.
TypeOK ==
  /\ items \in Seq(Item)
  /\ Len(items) <= MaxSize
  /\ consumer \in {"idle", "waiting", "notified", "expired"}
  /\ putCount \in Nat
  /\ critCount \in Nat
  /\ delivered \in Nat
  /\ lost \in SUBSET Nat

\* Eviction takes items out of the middle of the deque, yet what remains is in
\* the order it was put and newer than all the consumer has seen: no status is
\* delivered after a later one.
InPutOrder ==
  /\ \A i, j \in DOMAIN items : i < j => items[i].id < items[j].id
  /\ \A i \in DOMAIN items : delivered < items[i].id /\ items[i].id <= putCount
  /\ delivered <= putCount

\* What the queue really promises a slow consumer: a critical notification is
\* gone only after MaxSize newer critical ones were put, so the last MaxSize
\* terminal or error notifications always reach the consumer.
RecentCriticalsKept == \A r \in lost : critCount - r >= MaxSize

\* The consumer never sleeps in get while a notification is there for it.
NoSleepOnItems == consumer = "waiting" => items = <<>>
==============================================================================
