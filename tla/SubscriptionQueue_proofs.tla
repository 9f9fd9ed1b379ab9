----------------------- MODULE SubscriptionQueue_proofs -----------------------
(***************************************************************************)
(* The promises of SubscriptionQueue for every queue size and every number *)
(* of puts.                                                                *)
(***************************************************************************)
EXTENDS SubscriptionQueue, SequenceTheorems, WellFoundedInduction, TLAPS

USE MaxSizeAssumption, MaxPutsAssumption

------------------------------------------------------------------------------
(* The eviction policy.                                                    *)

\* A non-empty set of positions has a least element, which Min returns.
LEMMA MinOfPositions ==
  ASSUME NEW S \in SUBSET Nat, S # {}
  PROVE  /\ Min(S) \in S
         /\ \A y \in S : Min(S) <= y
<1> DEFINE R == {ss \in Nat \X Nat : ss[1] < ss[2]}
<1>1. OpToRel(<, Nat) = R
  BY DEF OpToRel
<1>2. IsWellFoundedOn(R, Nat)
  BY <1>1, NatLessThanWellFounded
<1>3. \E x \in S : \A y \in S : ~ (<<y, x>> \in R)
  <2> HIDE DEF R
  <2> QED
    BY <1>2, WFMin
<1>4. ASSUME NEW x \in Nat, NEW y \in Nat, ~ (<<y, x>> \in R)
      PROVE  x <= y
  <2>1. ~ (y < x)
    BY <1>4
  <2> QED
    BY <2>1
<1>5. \E x \in S : \A y \in S : x <= y
  <2> HIDE DEF R
  <2> QED
    BY <1>3, <1>4
<1> QED
  BY <1>5 DEF Min

\* r is q without its position v.
Removal(q, v, r) ==
  /\ r \in Seq(Item)
  /\ Len(r) = Len(q) - 1
  /\ \A j \in 1 .. Len(q) - 1 : r[j] = IF j < v THEN q[j] ELSE q[j + 1]

\* The deque's del self._items[v] and popleft() are both removals.
LEMMA RemoveAtIsRemoval ==
  ASSUME NEW q \in Seq(Item), NEW v \in 1 .. Len(q)
  PROVE  Removal(q, v, RemoveAt(q, v))
<1> DEFINE front == SubSeq(q, 1, v - 1)
           back  == SubSeq(q, v + 1, Len(q))
<1>1. /\ front \in Seq(Item)
      /\ Len(front) = v - 1
      /\ \A i \in 1 .. v - 1 : front[i] = q[i]
  <2>1. \A i \in 1 .. v - 1 : q[i] \in Item
    OBVIOUS
  <2> QED
    BY <2>1, SubSeqProperties
<1>2. /\ back \in Seq(Item)
      /\ Len(back) = Len(q) - v
      /\ \A i \in 1 .. Len(q) - v : back[i] = q[v + i]
  <2>1. \A i \in v + 1 .. Len(q) : q[i] \in Item
    OBVIOUS
  <2>2. v + 1 \in Int /\ Len(q) \in Int
    OBVIOUS
  <2>3. /\ SubSeq(q, v + 1, Len(q)) \in Seq(Item)
        /\ Len(SubSeq(q, v + 1, Len(q)))
             = IF v + 1 <= Len(q) THEN Len(q) - (v + 1) + 1 ELSE 0
        /\ \A i \in 1 .. Len(q) - (v + 1) + 1 :
              SubSeq(q, v + 1, Len(q))[i] = q[v + 1 + i - 1]
    BY <2>1, <2>2, SubSeqProperties
  <2> QED
    BY <2>3
<1>3. RemoveAt(q, v) = front \o back
  BY DEF RemoveAt
<1> HIDE DEF front, back
<1>4. /\ front \o back \in Seq(Item)
      /\ Len(front \o back) = Len(front) + Len(back)
      /\ \A i \in 1 .. Len(front) + Len(back) :
            (front \o back)[i] = IF i <= Len(front) THEN front[i] ELSE back[i - Len(front)]
  BY <1>1, <1>2, ConcatProperties
<1>5. ASSUME NEW j \in 1 .. Len(q) - 1
      PROVE  (front \o back)[j] = IF j < v THEN q[j] ELSE q[j + 1]
  BY <1>1, <1>2, <1>4
<1> QED
  BY <1>1, <1>2, <1>3, <1>4, <1>5 DEF Removal

\* popleft takes position 1 away.
LEMMA TailIsRemoval ==
  ASSUME NEW q \in Seq(Item), q # <<>>
  PROVE  /\ Removal(q, 1, Tail(q))
         /\ Head(q) = q[1]
         /\ 1 \in 1 .. Len(q)
  BY HeadTailProperties DEF Removal

\* The victim of a full queue is a position of it, a routine one if it has any.
LEMMA VictimPosition ==
  ASSUME NEW q \in Seq(Item), Len(q) = MaxSize
  PROVE  /\ Victim(q) \in 1 .. Len(q)
         /\ RoutineAt(q) # {} => ~q[Victim(q)].critical
         /\ RoutineAt(q) = {} => Victim(q) = 1 /\ \A i \in 1 .. Len(q) : q[i].critical
<1>1. RoutineAt(q) \in SUBSET Nat
  BY DEF RoutineAt
<1>2. CASE RoutineAt(q) # {}
  <2>1. Victim(q) \in RoutineAt(q)
    BY <1>1, <1>2, MinOfPositions DEF Victim
  <2> QED
    BY <1>2, <2>1 DEF RoutineAt
<1>3. CASE RoutineAt(q) = {}
  BY <1>3 DEF Victim, RoutineAt
<1> QED
  BY <1>2, <1>3

\* What Enqueue does, in the three cases of the code.
LEMMA EnqueueCases ==
  ASSUME NEW q \in Seq(Item), Len(q) <= MaxSize, NEW item \in Item
  PROVE  \/ /\ ~Accepts(q, item)
            /\ Enqueue(q, item) = q
         \/ /\ Accepts(q, item)
            /\ Len(q) < MaxSize
            /\ Enqueue(q, item) = Append(q, item)
         \/ /\ Accepts(q, item)
            /\ Len(q) = MaxSize
            /\ \E r : /\ Removal(q, Victim(q), r)
                      /\ Enqueue(q, item) = Append(r, item)
<1>1. CASE Len(q) < MaxSize
  BY <1>1 DEF Enqueue, Accepts
<1>2. CASE Len(q) = MaxSize
  BY <1>2, VictimPosition, RemoveAtIsRemoval DEF Enqueue
<1> QED
  BY <1>1, <1>2

------------------------------------------------------------------------------
(* The order of the queue: what a removal and an append keep.              *)

\* ids grow along q, above lo and up to hi.
IdsBetween(lo, q, hi) ==
  /\ lo \in Nat /\ hi \in Nat /\ lo <= hi
  /\ \A i \in 1 .. Len(q) : lo < q[i].id /\ q[i].id <= hi
  /\ \A i, j \in 1 .. Len(q) : i < j => q[i].id < q[j].id

\* Ranks grow with every critical item, so a run of critical items is spaced at
\* least as widely as its positions.
CriticalRun(q, i, j) == \A k \in i .. j : q[k].critical
Spaced(q, i, j) == q[i].rank + (j - i) <= q[j].rank

RanksGrow(q) ==
  \A i, j \in 1 .. Len(q) : i < j => /\ q[i].rank <= q[j].rank
                                     /\ q[j].critical => q[i].rank < q[j].rank
RunsSpaced(q) ==
  \A i, j \in 1 .. Len(q) : i <= j /\ CriticalRun(q, i, j) => Spaced(q, i, j)

RanksUpTo(q, n) ==
  /\ \A i \in 1 .. Len(q) : q[i].rank <= n
  /\ RanksGrow(q)
  /\ RunsSpaced(q)

\* Every item of a queue has its three fields, of their types.
LEMMA ItemFields ==
  ASSUME NEW q \in Seq(Item), NEW i \in 1 .. Len(q)
  PROVE  /\ q[i].id \in Nat \ {0}
         /\ q[i].rank \in Nat
         /\ q[i].critical \in BOOLEAN
<1>1. q[i] \in Item
  OBVIOUS
<1> QED
  BY <1>1 DEF Item

\* Removing an item keeps the ids increasing and in their bounds.
LEMMA IdsAfterRemoval ==
  ASSUME NEW q \in Seq(Item), NEW v \in 1 .. Len(q), NEW r, Removal(q, v, r),
         NEW lo, NEW hi, IdsBetween(lo, q, hi)
  PROVE  IdsBetween(lo, r, hi)
<1>1. ASSUME NEW i \in 1 .. Len(r)
      PROVE  lo < r[i].id /\ r[i].id <= hi
  <2>1. r[i] = q[i] \/ r[i] = q[i + 1]
    BY DEF Removal
  <2>2. i \in 1 .. Len(q) /\ i + 1 \in 1 .. Len(q)
    BY DEF Removal
  <2> QED
    BY <2>1, <2>2 DEF IdsBetween
<1>2. ASSUME NEW i \in 1 .. Len(r), NEW j \in 1 .. Len(r), i < j
      PROVE  r[i].id < r[j].id
  <2>1. PICK a \in 1 .. Len(q), b \in 1 .. Len(q) : a < b /\ r[i] = q[a] /\ r[j] = q[b]
    <3>1. CASE j < v
      BY <1>2, <3>1 DEF Removal
    <3>2. CASE i < v /\ v <= j
      <4>1. r[i] = q[i] /\ r[j] = q[j + 1] /\ i \in 1 .. Len(q) /\ j + 1 \in 1 .. Len(q)
        BY <3>2 DEF Removal
      <4> QED
        BY <1>2, <4>1
    <3>3. CASE v <= i
      <4>1. /\ r[i] = q[i + 1] /\ r[j] = q[j + 1]
            /\ i + 1 \in 1 .. Len(q) /\ j + 1 \in 1 .. Len(q)
        BY <1>2, <3>3 DEF Removal
      <4> QED
        BY <1>2, <4>1
    <3> QED
      BY <3>1, <3>2, <3>3 DEF Removal
  <2> QED
    BY <2>1 DEF IdsBetween
<1> QED
  BY <1>1, <1>2 DEF IdsBetween

\* Appending the item of the latest put keeps the ids increasing.
LEMMA IdsAfterAppend ==
  ASSUME NEW q \in Seq(Item), NEW lo, NEW hi, IdsBetween(lo, q, hi),
         NEW item \in Item, item.id = hi + 1
  PROVE  IdsBetween(lo, Append(q, item), hi + 1)
<1> DEFINE r == Append(q, item)
<1>1. /\ r \in Seq(Item)
      /\ Len(r) = Len(q) + 1
      /\ \A i \in 1 .. Len(q) : r[i] = q[i]
      /\ r[Len(q) + 1] = item
  BY AppendProperties
<1> HIDE DEF r
<1>2. lo \in Nat /\ hi \in Nat /\ lo <= hi
  BY DEF IdsBetween
<1>3. ASSUME NEW i \in 1 .. Len(q)
      PROVE  /\ r[i].id \in Nat
             /\ lo < r[i].id
             /\ r[i].id <= hi
  BY <1>1, ItemFields DEF IdsBetween
<1>4. ASSUME NEW i \in 1 .. Len(r)
      PROVE  lo < r[i].id /\ r[i].id <= hi + 1
  BY <1>1, <1>2, <1>3
<1>5. ASSUME NEW i \in 1 .. Len(r), NEW j \in 1 .. Len(r), i < j
      PROVE  r[i].id < r[j].id
  <2>1. CASE j <= Len(q)
    <3>1. i \in 1 .. Len(q) /\ j \in 1 .. Len(q) /\ r[i] = q[i] /\ r[j] = q[j]
      BY <1>1, <1>5, <2>1
    <3> QED
      BY <1>5, <3>1 DEF IdsBetween
  <2>2. CASE j = Len(q) + 1
    BY <1>1, <1>2, <1>3, <1>5, <2>2
  <2> QED
    BY <1>1, <2>1, <2>2
<1>6. IdsBetween(lo, r, hi + 1)
  BY <1>2, <1>4, <1>5 DEF IdsBetween
<1> QED
  BY <1>6 DEF r

\* Removing an item keeps the ranks of the critical items spaced.
LEMMA RanksAfterRemoval ==
  ASSUME NEW q \in Seq(Item), NEW v \in 1 .. Len(q), NEW r, Removal(q, v, r),
         NEW n \in Nat, RanksUpTo(q, n)
  PROVE  RanksUpTo(r, n)
<1>1. RanksGrow(q) /\ RunsSpaced(q)
  BY DEF RanksUpTo
<1>2. \A i \in 1 .. Len(r) : r[i].rank <= n
  BY DEF Removal, RanksUpTo
<1>3. ASSUME NEW i \in 1 .. Len(r), NEW j \in 1 .. Len(r), i < j
      PROVE  /\ r[i].rank <= r[j].rank
             /\ r[j].critical => r[i].rank < r[j].rank
  <2>1. PICK a \in 1 .. Len(q), b \in 1 .. Len(q) : a < b /\ r[i] = q[a] /\ r[j] = q[b]
    <3>1. CASE j < v
      <4>1. r[i] = q[i] /\ r[j] = q[j] /\ i \in 1 .. Len(q) /\ j \in 1 .. Len(q)
        BY <1>3, <3>1 DEF Removal
      <4> QED
        BY <1>3, <4>1
    <3>2. CASE i < v /\ v <= j
      <4>1. r[i] = q[i] /\ r[j] = q[j + 1] /\ i \in 1 .. Len(q) /\ j + 1 \in 1 .. Len(q)
        BY <3>2 DEF Removal
      <4> QED
        BY <1>3, <4>1
    <3>3. CASE v <= i
      <4>1. /\ r[i] = q[i + 1] /\ r[j] = q[j + 1]
            /\ i + 1 \in 1 .. Len(q) /\ j + 1 \in 1 .. Len(q)
        BY <1>3, <3>3 DEF Removal
      <4> QED
        BY <1>3, <4>1
    <3> QED
      BY <3>1, <3>2, <3>3 DEF Removal
  <2> QED
    BY <1>1, <2>1 DEF RanksGrow
<1>4. ASSUME NEW i \in 1 .. Len(r), NEW j \in 1 .. Len(r), i <= j, CriticalRun(r, i, j)
      PROVE  Spaced(r, i, j)
  <2>1. CASE j < v
    <3>1. CriticalRun(q, i, j) /\ i \in 1 .. Len(q) /\ j \in 1 .. Len(q)
      BY <1>4, <2>1 DEF CriticalRun, Removal
    <3>2. Spaced(q, i, j)
      BY <1>1, <1>4, <3>1 DEF RunsSpaced
    <3> QED
      BY <1>4, <2>1, <3>2 DEF Spaced, Removal
  <2>2. CASE v <= i
    <3>1. i + 1 \in 1 .. Len(q) /\ j + 1 \in 1 .. Len(q)
      BY DEF Removal
    <3>2. CriticalRun(q, i + 1, j + 1)
      <4> SUFFICES ASSUME NEW k \in i + 1 .. j + 1 PROVE q[k].critical
        BY DEF CriticalRun
      <4>1. k - 1 \in i .. j
        BY DEF Removal
      <4>2. k - 1 \in 1 .. Len(q) - 1 /\ ~(k - 1 < v) /\ (k - 1) + 1 = k
        BY <2>2, <4>1 DEF Removal
      <4>3. r[k - 1] = q[k]
        BY <4>2 DEF Removal
      <4> QED
        BY <1>4, <4>1, <4>3 DEF CriticalRun
    <3>3. Spaced(q, i + 1, j + 1)
      BY <1>1, <1>4, <3>1, <3>2 DEF RunsSpaced
    <3>4. r[i] = q[i + 1] /\ r[j] = q[j + 1] /\ (j + 1) - (i + 1) = j - i
      BY <1>4, <2>2 DEF Removal
    <3> QED
      BY <3>3, <3>4 DEF Spaced
  <2>3. CASE i < v /\ v <= j
    <3>1. /\ i \in 1 .. Len(q) /\ v - 1 \in 1 .. Len(q) /\ i <= v - 1
          /\ v + 1 \in 1 .. Len(q) /\ j + 1 \in 1 .. Len(q) /\ v + 1 <= j + 1
      BY <2>3 DEF Removal
    <3>2. CriticalRun(q, i, v - 1)
      <4> SUFFICES ASSUME NEW k \in i .. v - 1 PROVE q[k].critical
        BY DEF CriticalRun
      <4>1. k \in i .. j /\ r[k] = q[k]
        BY <2>3 DEF Removal
      <4> QED
        BY <1>4, <4>1 DEF CriticalRun
    <3>3. CriticalRun(q, v + 1, j + 1)
      <4> SUFFICES ASSUME NEW k \in v + 1 .. j + 1 PROVE q[k].critical
        BY DEF CriticalRun
      <4>1. k - 1 \in i .. j /\ r[k - 1] = q[(k - 1) + 1]
        BY <2>3 DEF Removal
      <4> QED
        BY <1>4, <4>1 DEF CriticalRun
    <3>4. Spaced(q, i, v - 1) /\ Spaced(q, v + 1, j + 1)
      BY <1>1, <3>1, <3>2, <3>3 DEF RunsSpaced
    <3>5. q[v - 1].rank < q[v + 1].rank
      <4>1. q[v + 1].critical
        BY <2>3, <3>3 DEF CriticalRun
      <4> QED
        BY <1>1, <3>1, <4>1 DEF RanksGrow
    <3>6. r[i] = q[i] /\ r[j] = q[j + 1]
      <4>1. /\ i \in 1 .. Len(q) - 1 /\ i < v
            /\ j \in 1 .. Len(q) - 1 /\ ~(j < v)
        BY <2>3 DEF Removal
      <4> QED
        BY <4>1 DEF Removal
    <3>7. /\ q[i].rank \in Nat /\ q[j + 1].rank \in Nat
          /\ q[v - 1].rank \in Nat /\ q[v + 1].rank \in Nat
      BY <3>1, ItemFields
    <3>8. /\ q[i].rank + ((v - 1) - i) <= q[v - 1].rank
          /\ q[v + 1].rank + ((j + 1) - (v + 1)) <= q[j + 1].rank
      BY <3>4 DEF Spaced
    <3>9. i \in Int /\ j \in Int /\ v \in Int
      BY DEF Removal
    <3>10. q[i].rank + (j - i) <= q[j + 1].rank
      <4> DEFINE a == q[i].rank
                 b == q[v - 1].rank
                 c == q[v + 1].rank
                 d == q[j + 1].rank
      <4>1. a \in Nat /\ b \in Nat /\ c \in Nat /\ d \in Nat
        BY <3>7
      <4>2. a + ((v - 1) - i) <= b /\ b < c /\ c + ((j + 1) - (v + 1)) <= d
        BY <3>5, <3>8
      <4> HIDE DEF a, b, c, d
      <4>3. a + (j - i) <= d
        BY <3>9, <4>1, <4>2
      <4> QED
        BY <4>3 DEF a, d
    <3> QED
      BY <3>6, <3>10 DEF Spaced
  <2> QED
    BY <2>1, <2>2, <2>3 DEF Removal
<1> QED
  BY <1>2, <1>3, <1>4 DEF RanksUpTo, RanksGrow, RunsSpaced

\* Appending the item of the latest put keeps them spaced as well.
LEMMA RanksAfterAppend ==
  ASSUME NEW q \in Seq(Item), NEW n \in Nat, RanksUpTo(q, n), NEW item \in Item,
         item.rank = IF item.critical THEN n + 1 ELSE n
  PROVE  RanksUpTo(Append(q, item), item.rank)
<1> DEFINE r == Append(q, item)
<1>1. /\ r \in Seq(Item)
      /\ Len(r) = Len(q) + 1
      /\ \A i \in 1 .. Len(q) : r[i] = q[i]
      /\ r[Len(q) + 1] = item
  BY AppendProperties
<1> HIDE DEF r
<1>2. \A i \in 1 .. Len(r) : r[i].rank \in Nat
  BY <1>1, ItemFields
<1>3. RanksGrow(q) /\ RunsSpaced(q)
  BY DEF RanksUpTo
<1>4. \A i \in 1 .. Len(q) : q[i].rank <= n /\ r[i].rank <= n
  BY <1>1 DEF RanksUpTo
<1>5. \A i \in 1 .. Len(r) : r[i].rank <= item.rank
  BY <1>1, <1>2, <1>4
<1>6. ASSUME NEW i \in 1 .. Len(r), NEW j \in 1 .. Len(r), i < j
      PROVE  /\ r[i].rank <= r[j].rank
             /\ r[j].critical => r[i].rank < r[j].rank
  <2>1. CASE j <= Len(q)
    <3>1. i \in 1 .. Len(q) /\ j \in 1 .. Len(q) /\ r[i] = q[i] /\ r[j] = q[j]
      BY <1>1, <1>6, <2>1
    <3> QED
      BY <1>3, <1>6, <3>1 DEF RanksGrow
  <2>2. CASE j = Len(q) + 1
    <3>1. i \in 1 .. Len(q) /\ r[j] = item
      BY <1>1, <1>6, <2>2
    <3>2. r[i].rank \in Nat /\ r[i].rank <= n
      BY <1>2, <1>4, <3>1
    <3> QED
      BY <3>1, <3>2
  <2> QED
    BY <1>1, <2>1, <2>2
<1>7. ASSUME NEW i \in 1 .. Len(r), NEW j \in 1 .. Len(r), i <= j, CriticalRun(r, i, j)
      PROVE  Spaced(r, i, j)
  <2>1. CASE j <= Len(q)
    <3>1. i \in 1 .. Len(q) /\ j \in 1 .. Len(q) /\ r[i] = q[i] /\ r[j] = q[j]
      BY <1>1, <1>7, <2>1
    <3>2. CriticalRun(q, i, j)
      BY <1>1, <1>7, <2>1 DEF CriticalRun
    <3> QED
      BY <1>3, <1>7, <3>1, <3>2 DEF RunsSpaced, Spaced
  <2>2. CASE i = j
    BY <1>2, <2>2 DEF Spaced
  <2>3. CASE j = Len(q) + 1 /\ i < j
    <3>1. i \in 1 .. Len(q) /\ Len(q) \in 1 .. Len(q) /\ i <= Len(q)
      BY <1>1, <2>3
    <3>2. CriticalRun(q, i, Len(q))
      BY <1>1, <1>7, <2>3 DEF CriticalRun
    <3>3. Spaced(q, i, Len(q))
      BY <1>3, <3>1, <3>2 DEF RunsSpaced
    <3>4. r[Len(q)].rank < r[j].rank
      <4>1. r[j].critical
        BY <1>7, <2>3 DEF CriticalRun
      <4>2. Len(q) \in 1 .. Len(r) /\ Len(q) < j
        BY <1>1, <2>3, <3>1
      <4> QED
        BY <1>6, <4>1, <4>2
    <3>5. r[i] = q[i] /\ r[Len(q)] = q[Len(q)]
      BY <1>1, <3>1
    <3>6. r[i].rank \in Nat /\ r[Len(q)].rank \in Nat /\ r[j].rank \in Nat
      BY <1>1, <1>2, <3>1
    <3>7. q[i].rank + (Len(q) - i) <= q[Len(q)].rank
      BY <3>3 DEF Spaced
    <3>8. r[i].rank + (j - i) <= r[j].rank
      <4> DEFINE a == r[i].rank
                 b == r[Len(q)].rank
                 d == r[j].rank
      <4>1. a \in Nat /\ b \in Nat /\ d \in Nat
        BY <3>6
      <4>2. a + (Len(q) - i) <= b /\ b < d
        BY <3>4, <3>5, <3>7
      <4> HIDE DEF a, b, d
      <4>3. a + (j - i) <= d
        BY <2>3, <3>1, <4>1, <4>2
      <4> QED
        BY <4>3 DEF a, d
    <3> QED
      BY <3>8 DEF Spaced
  <2> QED
    BY <1>1, <1>7, <2>1, <2>2, <2>3
<1> QED
  BY <1>5, <1>6, <1>7 DEF RanksUpTo, RanksGrow, RunsSpaced, r

------------------------------------------------------------------------------
(* The inductive invariant.                                                *)

\* A notification wakes the consumer for an item that is still there.
NotifiedHasItem == consumer = "notified" => items # <<>>

\* TypeOK and the promises are not inductive: that a critical item is evicted
\* only behind MaxSize newer ones rests on how ranks are spaced in the queue.
IInv ==
  /\ TypeOK
  /\ IdsBetween(delivered, items, putCount)
  /\ RanksUpTo(items, critCount)
  /\ RecentCriticalsKept
  /\ NoSleepOnItems
  /\ NotifiedHasItem

\* A critical item stays far enough behind as critCount grows.
LEMMA StillBehind ==
  ASSUME NEW n \in Nat, NEW m \in Nat, n <= m, NEW rank \in Nat, n - rank >= MaxSize
  PROVE  m - rank >= MaxSize
  OBVIOUS

\* The empty queue satisfies the invariant.
LEMMA InitIInv == Init => IInv
<1> SUFFICES ASSUME Init PROVE IInv
  OBVIOUS
<1> USE DEF Init
<1>1. items \in Seq(Item) /\ Len(items) = 0
  OBVIOUS
<1> QED
  BY <1>1 DEF IInv, TypeOK, IdsBetween, RanksUpTo, RanksGrow, RunsSpaced,
              RecentCriticalsKept, NoSleepOnItems, NotifiedHasItem

\* Taking the head keeps the invariant of the items and moves delivered up.
LEMMA TakeIInv ==
  ASSUME IInv, Take
  PROVE  /\ items' \in Seq(Item)
         /\ Len(items') <= MaxSize
         /\ delivered' \in Nat
         /\ IdsBetween(delivered', items', putCount')
         /\ RanksUpTo(items', critCount')
         /\ RecentCriticalsKept'
         /\ UNCHANGED <<putCount, critCount, lost>>
<1> USE DEF IInv, TypeOK, Take
<1>1. /\ Removal(items, 1, items')
      /\ Head(items) = items[1]
      /\ 1 \in 1 .. Len(items)
  BY TailIsRemoval
<1>2. IdsBetween(delivered, items', putCount)
  BY <1>1, IdsAfterRemoval
<1>3. items[1].id \in Nat /\ items[1].id <= putCount
  BY <1>1, ItemFields DEF IdsBetween
<1>4. \A i \in 1 .. Len(items') : items[1].id < items'[i].id
  BY <1>1 DEF Removal, IdsBetween
<1>5. IdsBetween(delivered', items', putCount)
  BY <1>1, <1>2, <1>3, <1>4 DEF IdsBetween
<1>6. RanksUpTo(items', critCount)
  BY <1>1, RanksAfterRemoval
<1> QED
  BY <1>1, <1>3, <1>5, <1>6 DEF Removal, RecentCriticalsKept

\* A put keeps the items in order and drops a critical item only if all of the
\* queue is critical, in which case MaxSize newer critical items remain.
LEMMA PutIInv ==
  ASSUME IInv, NEW critical \in BOOLEAN, Put(critical)
  PROVE  IInv'
<1> DEFINE item == [id |-> putCount', critical |-> critical, rank |-> critCount']
<1> USE DEF IInv, TypeOK
<1>1. /\ putCount' = putCount + 1
      /\ critCount' = IF critical THEN critCount + 1 ELSE critCount
      /\ items' = Enqueue(items, item)
      /\ consumer' = IF consumer = "waiting" /\ Accepts(items, item)
                     THEN "notified" ELSE consumer
      /\ lost' = lost \cup CriticalsDropped(items, items')
      /\ delivered' = delivered
  BY DEF Put, Notified
<1>2. /\ item \in Item
      /\ item.id = putCount + 1
      /\ item.rank = IF item.critical THEN critCount + 1 ELSE critCount
      /\ item.rank = critCount'
      /\ item.critical = critical
      /\ putCount' \in Nat /\ critCount' \in Nat
  BY <1>1 DEF Item
<1> HIDE DEF item
<1>3. IdsBetween(delivered, items, putCount')
  <2>1. \A i \in 1 .. Len(items) : items[i].id \in Nat
    BY ItemFields
  <2> QED
    BY <1>1, <2>1 DEF IdsBetween
<1>4. CASE ~Accepts(items, item) /\ items' = items
  <2>1. ~critical
    BY <1>2, <1>4 DEF Accepts
  <2>2. CriticalsDropped(items, items') = {}
    BY <1>4 DEF CriticalsDropped
  <2>3. consumer' = consumer /\ lost' = lost /\ critCount' = critCount
    BY <1>1, <1>4, <2>1, <2>2
  <2> QED
    BY <1>1, <1>2, <1>3, <1>4, <2>3
       DEF RecentCriticalsKept, NoSleepOnItems, NotifiedHasItem
<1>5. CASE Accepts(items, item) /\ Len(items) < MaxSize /\ items' = Append(items, item)
  <2>1. /\ items' \in Seq(Item)
        /\ Len(items') = Len(items) + 1
        /\ \A i \in 1 .. Len(items) : items'[i] = items[i]
        /\ items' # <<>>
    BY <1>2, <1>5, AppendProperties
  <2>2. IdsBetween(delivered', items', putCount')
    BY <1>1, <1>2, <1>5, IdsAfterAppend
  <2>3. RanksUpTo(items', critCount')
    BY <1>2, <1>5, RanksAfterAppend
  <2>4. CriticalsDropped(items, items') = {}
    BY <2>1 DEF CriticalsDropped
  <2>5. lost' = lost /\ critCount' >= critCount /\ critCount' \in Nat
    BY <1>1, <1>2, <2>4
  <2>6. RecentCriticalsKept'
    <3> SUFFICES ASSUME NEW rank \in lost PROVE critCount' - rank >= MaxSize
      BY <2>5 DEF RecentCriticalsKept
    <3>1. critCount - rank >= MaxSize /\ rank \in Nat /\ critCount \in Nat
      BY DEF RecentCriticalsKept
    <3> HIDE DEF IInv, TypeOK
    <3> QED
      BY <2>5, <3>1, StillBehind
  <2>7. consumer' # "waiting" /\ consumer' \in {"idle", "waiting", "notified", "expired"}
    BY <1>1, <1>5
  <2>8. TypeOK'
    <3>1. Len(items') <= MaxSize
      BY <1>5, <2>1
    <3> QED
      BY <1>1, <1>2, <2>1, <2>5, <2>7, <3>1
  <2> QED
    BY <2>1, <2>2, <2>3, <2>6, <2>7, <2>8 DEF NoSleepOnItems, NotifiedHasItem
<1>6. ASSUME Accepts(items, item), Len(items) = MaxSize,
             NEW r, Removal(items, Victim(items), r), items' = Append(r, item)
      PROVE  IInv'
  <2> DEFINE v == Victim(items)
  <2>1. v \in 1 .. Len(items)
    BY <1>6, VictimPosition
  <2>2. r \in Seq(Item) /\ Len(r) = Len(items) - 1
    BY <1>6 DEF Removal
  <2>3. /\ items' \in Seq(Item)
        /\ Len(items') = Len(items)
        /\ \A i \in 1 .. Len(items) - 1 : items'[i] = r[i]
        /\ items' # <<>>
    BY <1>2, <1>6, <2>2, AppendProperties
  <2>4. IdsBetween(delivered', items', putCount')
    <3>1. IdsBetween(delivered, r, putCount)
      BY <1>6, <2>1, IdsAfterRemoval
    <3> QED
      BY <1>1, <1>2, <1>6, <2>2, <3>1, IdsAfterAppend
  <2>5. RanksUpTo(items', critCount')
    <3>1. RanksUpTo(r, critCount)
      BY <1>6, <2>1, RanksAfterRemoval
    <3> QED
      BY <1>2, <1>6, <2>2, <3>1, RanksAfterAppend
  <2>6. \A j \in 1 .. Len(items) :
           j # v => \E k \in 1 .. Len(items') : items'[k] = items[j]
    <3> SUFFICES ASSUME NEW j \in 1 .. Len(items), j # v
                 PROVE  \E k \in 1 .. Len(items') : items'[k] = items[j]
      OBVIOUS
    <3>1. CASE j < v
      <4>1. j \in 1 .. Len(items) - 1 /\ r[j] = items[j]
        BY <1>6, <2>1, <3>1 DEF Removal
      <4> QED
        BY <2>3, <4>1
    <3>2. CASE v < j
      <4>1. j - 1 \in 1 .. Len(items) - 1 /\ ~(j - 1 < v) /\ (j - 1) + 1 = j
        BY <2>1, <3>2
      <4>2. r[j - 1] = items[j]
        BY <1>6, <4>1 DEF Removal
      <4>3. items'[j - 1] = items[j] /\ j - 1 \in 1 .. Len(items')
        BY <2>3, <4>1, <4>2
      <4> QED
        BY <4>3
    <3> QED
      BY <2>1, <3>1, <3>2
  <2>7. ASSUME NEW rank \in CriticalsDropped(items, items')
        PROVE  rank = items[v].rank /\ items[v].critical
    BY <2>6 DEF CriticalsDropped
  <2>8. ASSUME items[v].critical
        PROVE  critCount' - items[v].rank >= MaxSize /\ items[v].rank \in Nat
    <3>1. v = 1 /\ \A i \in 1 .. Len(items) : items[i].critical
      BY <1>6, <2>8, VictimPosition
    <3>2. critCount' = critCount + 1
      BY <1>1, <1>2, <1>6, <2>8, VictimPosition DEF Accepts
    <3>3. 1 \in 1 .. Len(items) /\ Len(items) \in 1 .. Len(items) /\ 1 <= Len(items)
      BY <1>6
    <3>4. CriticalRun(items, 1, Len(items))
      BY <3>1 DEF CriticalRun
    <3>5. Spaced(items, 1, Len(items)) /\ items[Len(items)].rank <= critCount
      BY <3>3, <3>4 DEF RanksUpTo, RunsSpaced
    <3>6. items[1].rank \in Nat /\ items[Len(items)].rank \in Nat
      BY <3>3, ItemFields
    <3> QED
      BY <1>6, <3>1, <3>2, <3>5, <3>6 DEF Spaced
  <2>9. RecentCriticalsKept' /\ lost' \in SUBSET Nat
    <3>1. critCount' >= critCount /\ critCount' \in Nat
      BY <1>1
    <3> SUFFICES ASSUME NEW rank \in lost'
                 PROVE  critCount' - rank >= MaxSize /\ rank \in Nat
      BY DEF RecentCriticalsKept
    <3>2. CASE rank \in lost
      <4>1. critCount - rank >= MaxSize /\ rank \in Nat /\ critCount \in Nat
        BY <3>2 DEF RecentCriticalsKept
      <4> HIDE DEF IInv, TypeOK
      <4> QED
        BY <3>1, <4>1, StillBehind
    <3>3. CASE rank \in CriticalsDropped(items, items')
      BY <2>7, <2>8, <3>3
    <3> QED
      BY <1>1, <3>2, <3>3
  <2> QED
    BY <1>1, <1>2, <1>6, <2>3, <2>4, <2>5, <2>9 DEF NoSleepOnItems, NotifiedHasItem
<1> QED
  BY <1>1, <1>2, <1>4, <1>5, <1>6, EnqueueCases

\* Every method of the queue preserves the invariant.
LEMMA NextIInv == IInv /\ [Next]_vars => IInv'
<1> SUFFICES ASSUME IInv, [Next]_vars PROVE IInv'
  OBVIOUS
<1> USE DEF IInv, TypeOK
<1>1. ASSUME NEW critical \in BOOLEAN, Put(critical)
      PROVE  IInv'
  BY <1>1, PutIInv
<1>2. CASE GetNow
  BY <1>2, TakeIInv DEF GetNow, NoSleepOnItems, NotifiedHasItem
<1>3. CASE GetWait
  BY <1>3 DEF GetWait, RecentCriticalsKept, NoSleepOnItems, NotifiedHasItem
<1>4. CASE Woken
  <2>1. items # <<>> /\ Take /\ consumer' = "idle"
    BY <1>4 DEF Woken, NotifiedHasItem
  <2> QED
    BY <2>1, TakeIInv DEF NoSleepOnItems, NotifiedHasItem
<1>5. CASE Expire
  BY <1>5 DEF Expire, RecentCriticalsKept, NoSleepOnItems, NotifiedHasItem
<1>6. CASE RaiseEmpty
  BY <1>6 DEF RaiseEmpty, RecentCriticalsKept, NoSleepOnItems, NotifiedHasItem
<1>7. CASE UNCHANGED vars
  BY <1>7 DEF vars, RecentCriticalsKept, NoSleepOnItems, NotifiedHasItem
<1> QED
  BY <1>1, <1>2, <1>3, <1>4, <1>5, <1>6, <1>7 DEF Next

\* The inductive invariant holds in every reachable state.
LEMMA Invariant == Spec => []IInv
  BY InitIInv, NextIInv, PTL DEF Spec

------------------------------------------------------------------------------
\* The queue is well typed and never longer than MaxSize.
THEOREM TypeCorrect == Spec => []TypeOK
<1>1. IInv => TypeOK
  BY DEF IInv
<1> QED
  BY <1>1, Invariant, PTL

\* Notifications reach the consumer in the order of their puts.
THEOREM DeliveryInPutOrder == Spec => []InPutOrder
<1>1. IInv => InPutOrder
  BY DEF IInv, TypeOK, InPutOrder, IdsBetween
<1> QED
  BY <1>1, Invariant, PTL

\* However slow the consumer, the last MaxSize critical notifications survive.
THEOREM CriticalRetention == Spec => []RecentCriticalsKept
<1>1. IInv => RecentCriticalsKept
  BY DEF IInv
<1> QED
  BY <1>1, Invariant, PTL

\* The condition variable is used without a lost wakeup.
THEOREM NoLostWakeup == Spec => [](NoSleepOnItems /\ NotifiedHasItem)
<1>1. IInv => NoSleepOnItems /\ NotifiedHasItem
  BY DEF IInv
<1> QED
  BY <1>1, Invariant, PTL
==============================================================================
