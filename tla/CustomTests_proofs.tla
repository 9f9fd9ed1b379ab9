------------------------- MODULE CustomTests_proofs -------------------------
(***************************************************************************)
(* The custom tests of the editor: a plan keeps the promises of its        *)
(* preview, whatever its steps, cycles and cleanups and whatever the       *)
(* device offers; and the profile file survives kills, errors and power    *)
(* losses, whatever the number of processes and of saves.                  *)
(***************************************************************************)
EXTENDS ProfileStore, CustomRules, FiniteSetTheorems, SequenceTheorems, TLAPS

-----------------------------------------------------------------------------
(* Induction, as a fact about a set of numbers.                            *)

\* A set of numbers with 0 and all its successors is Nat: the least number outside it would
\* have a predecessor inside.
LEMMA Induction ==
  ASSUME NEW T \in SUBSET Nat, 0 \in T, \A n \in T : n + 1 \in T
  PROVE  T = Nat
<1> DEFINE R == OpToRel(<, Nat)
<1> SUFFICES ASSUME Nat \ T # {} PROVE FALSE
  OBVIOUS
<1>1. PICK n \in Nat \ T : \A m \in Nat \ T : ~(<<m, n>> \in R)
  <2>1. IsWellFoundedOn(R, Nat)
    BY NatLessThanWellFounded
  <2>2. Nat \ T \subseteq Nat
    OBVIOUS
  <2> HIDE DEF R
  <2> QED
    BY <2>1, <2>2, WFMin, Zenon
<1>2. <<n - 1, n>> \in R <=> n - 1 \in Nat
  BY <1>1 DEF OpToRel
<1> HIDE DEF R
<1>3. n # 0
  BY <1>1
<1>4. n - 1 \in Nat
  BY <1>1, <1>3
<1>5. n - 1 \in T
  BY <1>1, <1>2, <1>4
<1>6. (n - 1) + 1 = n
  BY <1>1
<1> QED
  BY <1>1, <1>5, <1>6

-----------------------------------------------------------------------------
(* Sums over finite sets.                                                  *)

Units(f, S) == UNION {{e} \X (1..f[e]) : e \in S}

LEMMA SumUnits == \A f, S : SumOver(f, S) = Cardinality(Units(f, S))
  BY DEF SumOver, Units

\* A unit is an element with one of the numbers it counts for.
LEMMA UnitsAre ==
  ASSUME NEW f, NEW S, NEW u
  PROVE  u \in Units(f, S) <=> \E e \in S : \E k \in 1..f[e] : u = <<e, k>>
<1>1. u \in Units(f, S) <=> \E e \in S : u \in {e} \X (1..f[e])
  BY DEF Units
<1>2. \A e : u \in {e} \X (1..f[e]) <=> \E k \in 1..f[e] : u = <<e, k>>
  OBVIOUS
<1> QED
  BY <1>1, <1>2

\* A sum of numbers over a finite set is a number.
LEMMA UnitsFinite ==
  ASSUME NEW f, NEW S, IsFiniteSet(S), \A e \in S : f[e] \in Nat
  PROVE  IsFiniteSet(Units(f, S)) /\ SumOver(f, S) \in Nat
<1> DEFINE own == [e \in S |-> {e} \X (1..f[e])]
           T == {own[e] : e \in S}
<1>1. own \in Surjection(S, T)
  BY DEF Surjection
<1>2. IsFiniteSet(T)
  BY <1>1, FS_Surjection
<1>3. ASSUME NEW e \in S PROVE IsFiniteSet(own[e])
  <2>1. IsFiniteSet({e}) /\ IsFiniteSet(1..f[e])
    <3>1. 1 \in Int /\ f[e] \in Int
      OBVIOUS
    <3> QED
      BY <3>1, FS_Singleton, FS_Interval, Zenon
  <2> QED
    BY <2>1, FS_Product
<1>4. \A t \in T : IsFiniteSet(t)
  BY <1>3
<1>5. Units(f, S) = UNION T
  BY DEF Units
<1> HIDE DEF T
<1>6. IsFiniteSet(Units(f, S))
  BY <1>2, <1>4, <1>5, FS_UNION
<1> QED
  BY <1>6, FS_CardinalityType, SumUnits

LEMMA SumEmpty == \A f : SumOver(f, {}) = 0
<1>1. \A f : Units(f, {}) = {}
  BY DEF Units
<1> QED
  BY <1>1, SumUnits, FS_EmptySet

LEMMA SumOne ==
  ASSUME NEW f, NEW x, f[x] \in Nat
  PROVE  SumOver(f, {x}) = f[x]
<1>1. Units(f, {x}) = {x} \X (1..f[x])
  BY DEF Units
<1>2. IsFiniteSet({x}) /\ Cardinality({x}) = 1
  BY FS_Singleton
<1>3. IsFiniteSet(1..f[x]) /\ Cardinality(1..f[x]) = f[x]
  BY FS_Interval
<1>4. Cardinality({x} \X (1..f[x])) = 1 * f[x]
  BY <1>2, <1>3, FS_Product, Zenon
<1>5. SumOver(f, {x}) = 1 * f[x]
  BY <1>1, <1>4, SumUnits, Zenon
<1> QED
  BY <1>5

\* The sum over two sets without a common element.
LEMMA SumUnion ==
  ASSUME NEW f, NEW S, NEW T, IsFiniteSet(S), IsFiniteSet(T), S \cap T = {},
         \A e \in S \cup T : f[e] \in Nat
  PROVE  SumOver(f, S \cup T) = SumOver(f, S) + SumOver(f, T)
<1>1. IsFiniteSet(Units(f, S)) /\ IsFiniteSet(Units(f, T)) /\ SumOver(f, S) \in Nat /\ SumOver(f, T) \in Nat
  BY UnitsFinite
<1>2. Units(f, S \cup T) = Units(f, S) \cup Units(f, T)
  BY DEF Units
<1>3. Units(f, S) \cap Units(f, T) = {}
  BY UnitsAre
<1>4. Cardinality(Units(f, S) \cup Units(f, T)) = Cardinality(Units(f, S)) + Cardinality(Units(f, T)) - 0
  BY <1>1, <1>3, FS_Union, FS_EmptySet
<1>5. /\ SumOver(f, S) = Cardinality(Units(f, S)) /\ SumOver(f, T) = Cardinality(Units(f, T))
      /\ SumOver(f, S \cup T) = Cardinality(Units(f, S) \cup Units(f, T))
  BY <1>2, SumUnits, Zenon
<1> QED
  BY <1>1, <1>4, <1>5

\* The sum when one element joins.
LEMMA SumAdd ==
  ASSUME NEW f, NEW S, NEW x, IsFiniteSet(S), x \notin S, \A e \in S \cup {x} : f[e] \in Nat
  PROVE  SumOver(f, S \cup {x}) = SumOver(f, S) + f[x]
<1>1. IsFiniteSet({x}) /\ S \cap {x} = {} /\ f[x] \in Nat
  BY FS_Singleton
<1>2. SumOver(f, S \cup {x}) = SumOver(f, S) + SumOver(f, {x})
  BY <1>1, SumUnion, Zenon
<1> QED
  BY <1>1, <1>2, SumOne

\* A part sums to no more than the whole.
LEMMA SumSubset ==
  ASSUME NEW f, NEW T, NEW S \in SUBSET T, IsFiniteSet(T), \A e \in T : f[e] \in Nat
  PROVE  SumOver(f, S) <= SumOver(f, T)
<1>1. IsFiniteSet(Units(f, T))
  BY UnitsFinite
<1>2. Units(f, S) \in SUBSET Units(f, T)
  BY DEF Units
<1> QED
  BY <1>1, <1>2, FS_Subset, SumUnits

\* What has its place in T, element by element, is no more than what is there.
LEMMA SumPlaced ==
  ASSUME NEW f, NEW S, NEW T, NEW place \in Injection(S, T), IsFiniteSet(T),
         \A e \in T : f[e] \in Nat, \A e \in S : f[e] \in Nat /\ f[e] <= f[place[e]]
  PROVE  SumOver(f, S) <= SumOver(f, T)
<1> DEFINE g == [u \in Units(f, S) |-> <<place[u[1]], u[2]>>]
<1>1. place \in [S -> T] /\ \A a, b \in S : place[a] = place[b] => a = b
  BY DEF Injection, IsInjective
<1>2. ASSUME NEW u \in Units(f, S)
      PROVE  u = <<u[1], u[2]>> /\ u[1] \in S /\ u[2] \in 1..f[u[1]]
  BY UnitsAre
<1>3. g \in [Units(f, S) -> Units(f, T)]
  <2>1. ASSUME NEW u \in Units(f, S) PROVE <<place[u[1]], u[2]>> \in Units(f, T)
    <3>1. place[u[1]] \in T /\ u[2] \in 1..f[place[u[1]]]
      BY <1>1, <1>2
    <3> QED
      BY <3>1, UnitsAre
  <2> QED
    BY <2>1
<1>4. \A u, w \in Units(f, S) : g[u] = g[w] => u = w
  BY <1>1, <1>2
<1>5. g \in Injection(Units(f, S), Units(f, T))
  BY <1>3, <1>4 DEF Injection, IsInjective
<1>6. IsFiniteSet(Units(f, T))
  BY UnitsFinite
<1> HIDE DEF g
<1> QED
  BY <1>5, <1>6, FS_Injection, SumUnits

-----------------------------------------------------------------------------
(* The cycles of the cleanups.                                             *)

\* Division by the frequency.
LEMMA Division ==
  ASSUME NEW f \in Nat \ {0}, NEW c \in Nat
  PROVE  \E q \in Nat, r \in 0..f - 1 : c = q * f + r /\ c \div f = q /\ c % f = r
<1>1. c \div f \in Nat /\ c % f \in 0..f - 1 /\ c = (c \div f) * f + (c % f)
  OBVIOUS
<1> QED
  BY <1>1

LEMMA Multiples ==
  ASSUME NEW f \in Nat \ {0}, NEW q \in Nat, NEW r \in 0..f - 1
  PROVE  (q * f + r) \div f = q /\ (q * f + r) % f = r
  OBVIOUS

\* The next cleanup is ahead, no more than one frequency away; it is at once if it is due,
\* and otherwise stays the same in the next cycle.
LEMMA NextCleanup ==
  ASSUME NEW f \in Nat, NEW cycles \in Nat, NEW c \in 0..cycles - 1
  PROVE  LET next == NextCleanupCycle(f, c, cycles) IN
         /\ next \in c + 1..cycles
         /\ f # 0 => next <= c + f
         /\ Due(f, c) => next = c + 1
         /\ ~Due(f, c) /\ c + 1 < cycles => NextCleanupCycle(f, c + 1, cycles) = next
<1> DEFINE next == NextCleanupCycle(f, c, cycles)
<1>1. CASE f = 0
  BY <1>1 DEF NextCleanupCycle, Due
<1>2. CASE f # 0
  <2>0. f \in Nat \ {0} /\ c \in Nat
    BY <1>2
  <2>1. PICK q \in Nat, r \in 0..f - 1 : c = q * f + r
    BY <2>0, Division, Zenon
  <2>2. (c + f) \div f = q + 1
    <3>1. c + f = (q + 1) * f + r
      BY <1>2, <2>1
    <3> QED
      BY <1>2, <2>1, <3>1, Multiples
  <2>3. next = IF (q + 1) * f < cycles THEN (q + 1) * f ELSE cycles
    BY <1>2, <2>2 DEF NextCleanupCycle
  <2>4. (q + 1) * f = c + f - r
    BY <1>2, <2>1
  <2>5. next \in c + 1..cycles /\ next <= c + f
    BY <1>2, <2>3, <2>4
  <2>6. Due(f, c) <=> r = f - 1
    <3>1. CASE r = f - 1
      <4>1. c + 1 = (q + 1) * f + 0
        BY <1>2, <2>1, <3>1
      <4>2. ((q + 1) * f + 0) % f = 0
        BY <2>0, Multiples
      <4> QED
        BY <2>0, <3>1, <4>1, <4>2 DEF Due
    <3>2. CASE r # f - 1
      <4>1. c + 1 = q * f + (r + 1) /\ r + 1 \in 0..f - 1
        BY <1>2, <2>1, <3>2
      <4>2. (q * f + (r + 1)) % f = r + 1
        BY <2>0, <4>1, Multiples
      <4> QED
        BY <2>0, <3>2, <4>1, <4>2 DEF Due
    <3> QED
      BY <3>1, <3>2
  <2>7. Due(f, c) => next = c + 1
    BY <1>2, <2>3, <2>4, <2>6
  <2>8. ASSUME ~Due(f, c), c + 1 < cycles PROVE NextCleanupCycle(f, c + 1, cycles) = next
    <3>1. (c + 1) + f = (q + 1) * f + (r + 1) /\ r + 1 \in 0..f - 1
      BY <1>2, <2>1, <2>6, <2>8
    <3>2. ((c + 1) + f) \div f = q + 1
      BY <1>2, <3>1, Multiples
    <3> QED
      BY <1>2, <2>3, <3>2 DEF NextCleanupCycle
  <2> QED
    BY <1>2, <2>5, <2>7, <2>8
<1> QED
  BY <1>1, <1>2

-----------------------------------------------------------------------------
(* The plans, and the loop over their cycles.                              *)

StepTypes ==
  [action : Actions, option : Nat, once : BOOLEAN, seconds : Nat, rate : Nat, waits : BOOLEAN,
   interval : Nat, ui : BOOLEAN]
Checks == {"baseline", "file", "playback"}
PlanTypes ==
  [cycles : Nat \ {0}, steps : Seq(StepTypes), settle : Nat, cycleInterval : Nat, cleanupWaits : Nat,
   photoCheck : Checks, photoEvery : Nat, photoCleanup : Nat,
   videoCheck : Checks, videoEvery : Nat, videoCleanup : Nat]

\* The parts of a plan.
LEMMA StepsOf ==
  ASSUME NEW p \in PlanTypes
  PROVE  /\ Len(p.steps) \in Nat /\ DOMAIN p.steps = 1..Len(p.steps)
         /\ \A i \in DOMAIN p.steps : p.steps[i] \in StepTypes
         /\ p.cycles \in Nat \ {0} /\ {p.photoCleanup, p.videoCleanup, p.cycleInterval} \subseteq Nat
         /\ {p.settle, p.cleanupWaits} \subseteq Nat
  BY DEF PlanTypes

LEMMA BelowFinite == ASSUME NEW n \in Nat PROVE IsFiniteSet(0..n - 1)
<1>1. 0 \in Int /\ n - 1 \in Int
  OBVIOUS
<1> QED
  BY <1>1, FS_Interval, Zenon

LEMMA StepsFinite == ASSUME NEW p \in PlanTypes PROVE IsFiniteSet(DOMAIN p.steps)
<1>1. DOMAIN p.steps = 1..Len(p.steps) /\ Len(p.steps) \in Nat
  BY StepsOf
<1>2. 1 \in Int /\ Len(p.steps) \in Int
  BY <1>1
<1>3. IsFiniteSet(1..Len(p.steps))
  BY <1>2, FS_Interval, Zenon
<1> QED
  BY <1>1, <1>3, Zenon

\* What a cycle makes is a number.
LEMMA MadeIsNumber ==
  ASSUME NEW p \in PlanTypes, NEW c, NEW kinds
  PROVE  MadeInCycle(p, c, kinds) \in Nat
<1> DEFINE S == {i \in DOMAIN p.steps : Runs(p, c, i) /\ p.steps[i].action \in kinds}
<1>1. IsFiniteSet(DOMAIN p.steps)
  BY StepsFinite
<1>2. IsFiniteSet(S)
  BY <1>1, FS_Subset
<1> QED
  BY <1>2, FS_CardinalityType DEF MadeInCycle

TrackedTypes == [photos : Nat, videos : Nat, most : Nat]

\* What the loop knows after a cycle.
LEMMA AfterCycleIs ==
  ASSUME NEW p \in PlanTypes, NEW c \in Nat, NEW known \in TrackedTypes
  PROVE  LET photos == known.photos + (IF p.photoCleanup = 0 THEN 0 ELSE MadeInCycle(p, c, {Photo}))
             videos == known.videos + (IF p.videoCleanup = 0 THEN 0 ELSE MadeInCycle(p, c, Videos5))
             next == AfterCycle(p, c, known)
         IN /\ photos \in Nat /\ videos \in Nat /\ next \in TrackedTypes
            /\ next.photos = (IF Due(p.photoCleanup, c) THEN 0 ELSE photos)
            /\ next.videos = (IF Due(p.videoCleanup, c) THEN 0 ELSE videos)
            /\ next.most = (IF photos + videos > known.most THEN photos + videos ELSE known.most)
            /\ known.most <= next.most /\ photos + videos <= next.most
<1> DEFINE photos == known.photos + (IF p.photoCleanup = 0 THEN 0 ELSE MadeInCycle(p, c, {Photo}))
           videos == known.videos + (IF p.videoCleanup = 0 THEN 0 ELSE MadeInCycle(p, c, Videos5))
<1>1. known.photos \in Nat /\ known.videos \in Nat /\ known.most \in Nat
  BY DEF TrackedTypes
<1>2. photos \in Nat /\ videos \in Nat
  BY <1>1, MadeIsNumber
<1>3. AfterCycle(p, c, known) =
        [photos |-> IF Due(p.photoCleanup, c) THEN 0 ELSE photos,
         videos |-> IF Due(p.videoCleanup, c) THEN 0 ELSE videos,
         most |-> IF photos + videos > known.most THEN photos + videos ELSE known.most]
  BY DEF AfterCycle
<1> DEFINE p1 == IF Due(p.photoCleanup, c) THEN 0 ELSE photos
           v1 == IF Due(p.videoCleanup, c) THEN 0 ELSE videos
           m1 == IF photos + videos > known.most THEN photos + videos ELSE known.most
<1> HIDE DEF photos, videos
<1>4. p1 \in Nat /\ v1 \in Nat /\ m1 \in Nat /\ known.most <= m1 /\ photos + videos <= m1
  BY <1>1, <1>2
<1>5. AfterCycle(p, c, known) = [photos |-> p1, videos |-> v1, most |-> m1]
  BY <1>3
<1> HIDE DEF p1, v1, m1
<1>6. /\ AfterCycle(p, c, known) \in TrackedTypes
      /\ AfterCycle(p, c, known).photos = p1 /\ AfterCycle(p, c, known).videos = v1
      /\ AfterCycle(p, c, known).most = m1
  BY <1>4, <1>5 DEF TrackedTypes
<1> QED
  BY <1>2, <1>4, <1>6 DEF photos, videos, p1, v1, m1

\* The recursive function of the loop exists: it has an outcome, cycle after cycle.
LEMMA LoopEnds ==
  ASSUME NEW p \in PlanTypes, NEW N \in Nat
  PROVE  \E f \in [0..N -> TrackedTypes] :
           f[0] = NothingTracked /\ \A c \in 0..N - 1 : f[c + 1] = AfterCycle(p, c, f[c])
<1> DEFINE Outcome(n) ==
             \E f \in [0..n -> TrackedTypes] :
               f[0] = NothingTracked /\ \A c \in 0..n - 1 : f[c + 1] = AfterCycle(p, c, f[c])
           T == {n \in Nat : Outcome(n)}
<1>1. 0 \in T
  <2> DEFINE f == [c \in 0..0 |-> NothingTracked]
  <2>1. f \in [0..0 -> TrackedTypes] /\ f[0] = NothingTracked /\ 0..0 - 1 = {}
    BY DEF NothingTracked, TrackedTypes
  <2> HIDE DEF f
  <2> QED
    BY <2>1
<1>2. ASSUME NEW n \in T PROVE n + 1 \in T
  <2>1. PICK f \in [0..n -> TrackedTypes] :
          f[0] = NothingTracked /\ \A c \in 0..n - 1 : f[c + 1] = AfterCycle(p, c, f[c])
    BY <1>2
  <2> DEFINE g == [c \in 0..n + 1 |-> IF c = n + 1 THEN AfterCycle(p, n, f[n]) ELSE f[c]]
  <2>2. n \in Nat /\ n \in 0..n
    BY <1>2
  <2>3. f[n] \in TrackedTypes
    BY <2>1, <2>2
  <2>4. AfterCycle(p, n, f[n]) \in TrackedTypes
    BY <2>2, <2>3, AfterCycleIs
  <2>5. g \in [0..n + 1 -> TrackedTypes]
    BY <2>1, <2>2, <2>4
  <2>6. g[0] = NothingTracked
    BY <2>1, <2>2
  <2>7. ASSUME NEW c \in 0..n PROVE g[c + 1] = AfterCycle(p, c, g[c])
    <3>1. c \in 0..n + 1 /\ c + 1 \in 0..n + 1 /\ c # n + 1
      BY <2>2, <2>7
    <3>2. CASE c = n
      BY <2>2, <3>1, <3>2
    <3>3. CASE c # n
      <4>1. c \in 0..n - 1 /\ c + 1 # n + 1
        BY <2>2, <3>3
      <4> QED
        BY <2>1, <3>1, <4>1
    <3> QED
      BY <3>2, <3>3
  <2>8. (n + 1) - 1 = n /\ n + 1 \in Nat
    BY <2>2
  <2> HIDE DEF g
  <2>9. Outcome(n + 1)
    BY <2>5, <2>6, <2>7, <2>8
  <2> QED
    BY <2>8, <2>9
<1> HIDE DEF Outcome
<1>3. T = Nat
  BY <1>1, <1>2, Induction
<1> QED
  BY <1>3 DEF Outcome

\* The loop starts with nothing and goes on with AfterCycle.
LEMMA TrackedLoop ==
  ASSUME NEW p \in PlanTypes
  PROVE  LET after == TrackedAfter(p) IN
         /\ after \in [0..p.cycles -> TrackedTypes] /\ after[0] = NothingTracked
         /\ \A c \in 0..p.cycles - 1 : after[c + 1] = AfterCycle(p, c, after[c])
<1> DEFINE N == p.cycles
           IsLoop(f) == f = [n \in 0..N |-> IF n = 0 THEN NothingTracked ELSE AfterCycle(p, n - 1, f[n - 1])]
<1>1. N \in Nat
  BY StepsOf
<1>2. NothingTracked \in TrackedTypes
  BY DEF NothingTracked, TrackedTypes
<1>4. \E f \in [0..N -> TrackedTypes] :
        f[0] = NothingTracked /\ \A c \in 0..N - 1 : f[c + 1] = AfterCycle(p, c, f[c])
  BY <1>1, LoopEnds
<1>5. \E f : IsLoop(f)
  <2>1. PICK f \in [0..N -> TrackedTypes] :
          f[0] = NothingTracked /\ \A c \in 0..N - 1 : f[c + 1] = AfterCycle(p, c, f[c])
    BY <1>4
  <2>2. ASSUME NEW n \in 0..N, n # 0 PROVE f[n] = AfterCycle(p, n - 1, f[n - 1])
    <3>1. n - 1 \in 0..N - 1 /\ (n - 1) + 1 = n /\ n - 1 \in Nat /\ n - 1 \in 0..N
      BY <1>1, <2>2
    <3> QED
      BY <2>1, <3>1
  <2>3. IsLoop(f)
    BY <2>1, <2>2
  <2> QED
    BY <2>3
<1>6. IsLoop(TrackedAfter(p))
  <2>1. TrackedAfter(p) = CHOOSE f : IsLoop(f)
    BY DEF TrackedAfter
  <2> HIDE DEF IsLoop
  <2> QED
    BY <1>5, <2>1
<1> DEFINE after == TrackedAfter(p)
<1>7. after[0] = NothingTracked /\ DOMAIN after = 0..N
  BY <1>1, <1>6
<1>8. ASSUME NEW c \in 0..N - 1 PROVE after[c + 1] = AfterCycle(p, c, after[c])
  <2>1. c + 1 \in 0..N /\ c + 1 # 0 /\ (c + 1) - 1 = c
    BY <1>1
  <2> QED
    BY <1>6, <2>1
<1> DEFINE T == {n \in Nat : n <= N => after[n] \in TrackedTypes}
<1>9. T = Nat
  <2> HIDE DEF after
  <2>1. 0 \in T
    BY <1>2, <1>7
  <2>2. ASSUME NEW n \in T PROVE n + 1 \in T
    <3>1. CASE n + 1 <= N
      <4>1. n \in 0..N - 1 /\ after[n] \in TrackedTypes
        BY <1>1, <3>1
      <4>2. AfterCycle(p, n, after[n]) \in TrackedTypes
        BY <4>1, AfterCycleIs
      <4> QED
        BY <1>8, <4>1, <4>2
    <3> QED
      BY <3>1
  <2> HIDE DEF T
  <2>3. T \in SUBSET Nat
    BY DEF T
  <2> QED
    BY <2>1, <2>2, <2>3, Induction
<1>10. after \in [0..N -> TrackedTypes]
  <2>1. \A n \in 0..N : after[n] \in TrackedTypes
    BY <1>1, <1>9
  <2> QED
    BY <1>6, <1>7, <2>1
<1> QED
  BY <1>7, <1>8, <1>10

\* What was tracked at most only grows, and is never less than what is tracked.
LEMMA MostGrows ==
  ASSUME NEW p \in PlanTypes, NEW c \in 0..p.cycles
  PROVE  LET after == TrackedAfter(p) IN
         after[c].photos + after[c].videos <= after[c].most /\ after[c].most <= after[p.cycles].most
<1> DEFINE after == TrackedAfter(p)
           N == p.cycles
<1>1. /\ N \in Nat /\ after \in [0..N -> TrackedTypes] /\ after[0] = NothingTracked
      /\ \A n \in 0..N - 1 : after[n + 1] = AfterCycle(p, n, after[n])
  BY StepsOf, TrackedLoop
<1> HIDE DEF after
<1>2. ASSUME NEW n \in 0..N - 1
      PROVE  /\ after[n].most <= after[n + 1].most
             /\ after[n + 1].photos + after[n + 1].videos <= after[n + 1].most
  <2>1. n \in Nat /\ after[n] \in TrackedTypes /\ after[n + 1] = AfterCycle(p, n, after[n])
    BY <1>1
  <2> DEFINE known == after[n]
             next == AfterCycle(p, n, known)
             photos == known.photos + (IF p.photoCleanup = 0 THEN 0 ELSE MadeInCycle(p, n, {Photo}))
             videos == known.videos + (IF p.videoCleanup = 0 THEN 0 ELSE MadeInCycle(p, n, Videos5))
  <2>2. known \in TrackedTypes
    BY <2>1
  <2> HIDE DEF known
  <2>3. /\ photos \in Nat /\ videos \in Nat /\ next \in TrackedTypes
        /\ next.photos = (IF Due(p.photoCleanup, n) THEN 0 ELSE photos)
        /\ next.videos = (IF Due(p.videoCleanup, n) THEN 0 ELSE videos)
        /\ known.most <= next.most /\ photos + videos <= next.most
    BY <2>1, <2>2, AfterCycleIs, Zenon
  <2>4. next.most \in Nat
    BY <2>3 DEF TrackedTypes
  <2> HIDE DEF photos, videos, next
  <2>5. next.photos + next.videos <= next.most
    BY <2>3, <2>4
  <2> QED
    BY <2>1, <2>3, <2>5, Zenon DEF known, next
<1>3. after[c].photos + after[c].videos <= after[c].most
  <2>1. CASE c = 0
    BY <1>1, <2>1 DEF NothingTracked
  <2>2. CASE c # 0
    <3>1. c - 1 \in 0..N - 1 /\ (c - 1) + 1 = c
      BY <1>1, <2>2
    <3> QED
      BY <1>2, <3>1
  <2> QED
    BY <2>1, <2>2
<1> DEFINE T == {n \in Nat : c + n <= N => after[c].most <= after[c + n].most}
<1>4. T = Nat
  <2>1. 0 \in T
    BY <1>1 DEF TrackedTypes
  <2>2. ASSUME NEW n \in T PROVE n + 1 \in T
    <3>1. CASE c + (n + 1) <= N
      <4>1. c + n \in 0..N - 1 /\ (c + n) + 1 = c + (n + 1) /\ c + n \in 0..N /\ c + (n + 1) \in 0..N
        BY <1>1, <3>1
      <4>2. after[c].most \in Nat /\ after[c + n].most \in Nat /\ after[c + (n + 1)].most \in Nat
        BY <1>1, <4>1 DEF TrackedTypes
      <4>3. after[c].most <= after[c + n].most /\ after[c + n].most <= after[c + (n + 1)].most
        BY <1>1, <1>2, <4>1
      <4> QED
        BY <4>2, <4>3
    <3> QED
      BY <3>1
  <2> HIDE DEF T
  <2>3. T \in SUBSET Nat
    BY DEF T
  <2> QED
    BY <2>1, <2>2, <2>3, Induction
<1>5. N - c \in Nat /\ c + (N - c) = N
  BY <1>1
<1>6. after[c].most <= after[N].most
  BY <1>4, <1>5
<1> QED
  BY <1>3, <1>6 DEF after

-----------------------------------------------------------------------------
(* What has been executed, and what is kept until the next cleanup.        *)

\* Up to step s of cycle c.
Past(p, c, s) == {e \in Executed(p) : e[1] < c \/ (e[1] = c /\ e[2] <= s)}
MadeUpTo(p, c, s, kinds) ==
  Cardinality({i \in DOMAIN p.steps : i <= s /\ Runs(p, c, i) /\ p.steps[i].action \in kinds})

\* Step i of cycle c is the next one after step s.
NextStep(p, c, s, i) ==
  /\ c \in 0..p.cycles - 1 /\ s \in 0..Len(p.steps) /\ i \in s + 1..Len(p.steps)
  /\ Runs(p, c, i) /\ \A j \in s + 1..i - 1 : ~Runs(p, c, j)

\* No step of cycle c comes after step s.
LastStep(p, c, s) == c \in 0..p.cycles - 1 /\ s \in 0..Len(p.steps) /\ ~Follows(p, c, s)

MediaActions == {Photo} \cup Videos5

\* The executed steps are finitely many, of the plan's cycles and steps.
LEMMA ExecutedIs ==
  ASSUME NEW p \in PlanTypes
  PROVE  /\ IsFiniteSet(Executed(p))
         /\ \A e \in Executed(p) :
              /\ e = <<e[1], e[2]>> /\ e[1] \in Nat /\ e[1] < p.cycles
              /\ e[2] \in DOMAIN p.steps /\ e[2] \in Nat /\ 1 <= e[2] /\ e[2] <= Len(p.steps)
              /\ Runs(p, e[1], e[2])
         /\ \A c \in 0..p.cycles - 1, i \in DOMAIN p.steps : Runs(p, c, i) <=> <<c, i>> \in Executed(p)
<1>1. IsFiniteSet(0..p.cycles - 1) /\ IsFiniteSet(DOMAIN p.steps)
  <2>1. p.cycles \in Nat
    BY StepsOf
  <2> QED
    BY <2>1, BelowFinite, StepsFinite
<1>2. IsFiniteSet((0..p.cycles - 1) \X DOMAIN p.steps)
  BY <1>1, FS_Product
<1>3. IsFiniteSet(Executed(p))
  BY <1>2, FS_Subset DEF Executed
<1>4. \A e \in Executed(p) :
        /\ e = <<e[1], e[2]>> /\ e[1] \in Nat /\ e[1] < p.cycles
        /\ e[2] \in DOMAIN p.steps /\ e[2] \in Nat /\ 1 <= e[2] /\ e[2] <= Len(p.steps)
        /\ Runs(p, e[1], e[2])
  BY StepsOf DEF Executed
<1>5. \A c \in 0..p.cycles - 1, i \in DOMAIN p.steps : Runs(p, c, i) <=> <<c, i>> \in Executed(p)
  BY DEF Executed
<1> QED
  BY <1>3, <1>4, <1>5

\* Sizes are numbers.
LEMMA MediaIs ==
  ASSUME NEW p \in PlanTypes
  PROVE  /\ \A i \in DOMAIN p.steps : MediaSize(p.steps[i]) \in Nat
         /\ \A e \in Executed(p) : Sizes(p)[e] = MediaSize(p.steps[e[2]]) /\ Sizes(p)[e] \in Nat
<1>1. \A i \in DOMAIN p.steps : MediaSize(p.steps[i]) \in Nat
  <2> SUFFICES ASSUME NEW i \in DOMAIN p.steps PROVE MediaSize(p.steps[i]) \in Nat
    OBVIOUS
  <2>1. p.steps[i].rate \in Nat /\ p.steps[i].seconds \in Nat
    BY StepsOf DEF StepTypes
  <2>2. p.steps[i].rate * p.steps[i].seconds \in Nat
    BY <2>1
  <2> QED
    BY <2>2 DEF MediaSize
<1> QED
  BY <1>1, ExecutedIs DEF Sizes

\* The next step joins what is past.
LEMMA PastNext ==
  ASSUME NEW p \in PlanTypes, NEW c, NEW s, NEW i, NextStep(p, c, s, i)
  PROVE  /\ <<c, i>> \in Executed(p) /\ <<c, i>> \notin Past(p, c, s)
         /\ Past(p, c, i) = Past(p, c, s) \cup {<<c, i>>}
<1>1. /\ c \in Nat /\ s \in Nat /\ i \in Nat /\ s < i /\ i \in DOMAIN p.steps
      /\ <<c, i>> \in Executed(p)
  BY StepsOf, ExecutedIs DEF NextStep
<1>2. ASSUME NEW e \in Executed(p), e[1] = c, e[2] <= i PROVE e[2] <= s \/ e = <<c, i>>
  <2>1. e = <<e[1], e[2]>> /\ e[2] \in Nat /\ Runs(p, c, e[2])
    BY <1>2, ExecutedIs
  <2>2. e[2] \notin s + 1..i - 1
    BY <2>1 DEF NextStep
  <2> QED
    BY <1>1, <1>2, <2>1, <2>2
<1>3. \A e \in Executed(p) : e[1] \in Nat /\ e[2] \in Nat
  BY ExecutedIs
<1>4. ASSUME NEW e \in Executed(p) PROVE e \in Past(p, c, i) <=> e \in Past(p, c, s) \/ e = <<c, i>>
  BY <1>1, <1>2, <1>3 DEF Past
<1>5. Past(p, c, i) \subseteq Executed(p) /\ Past(p, c, s) \subseteq Executed(p)
  BY DEF Past
<1> QED
  BY <1>1, <1>4, <1>5 DEF Past

\* At the end of a cycle the next one begins where it stopped; the last one ends it all.
LEMMA PastEnd ==
  ASSUME NEW p \in PlanTypes, NEW c, NEW s, LastStep(p, c, s)
  PROVE  /\ Past(p, c + 1, 0) = Past(p, c, s)
         /\ c + 1 = p.cycles => Past(p, c + 1, 0) = Executed(p)
<1>1. c \in Nat /\ s \in Nat /\ c < p.cycles /\ p.cycles \in Nat
  BY StepsOf DEF LastStep
<1>2. ASSUME NEW e \in Executed(p) PROVE e \in Past(p, c + 1, 0) <=> e \in Past(p, c, s)
  <2>1. e[1] \in Nat /\ e[2] \in Nat /\ 1 <= e[2] /\ e[2] <= Len(p.steps) /\ Runs(p, e[1], e[2])
    BY ExecutedIs
  <2>2. e[1] = c => e[2] <= s
    BY <1>1, <2>1, StepsOf DEF LastStep, Follows
  <2> QED
    BY <1>1, <2>1, <2>2 DEF Past
<1>3. c + 1 = p.cycles => \A e \in Executed(p) : e \in Past(p, c + 1, 0)
  BY ExecutedIs DEF Past
<1> QED
  BY <1>2, <1>3 DEF Past

\* At the beginning nothing is past.
LEMMA PastBegin == ASSUME NEW p \in PlanTypes PROVE Past(p, 0, 0) = {}
  BY ExecutedIs DEF Past

\* What is kept, when a step is executed.
LEMMA RetainedNext ==
  ASSUME NEW p \in PlanTypes, NEW c, NEW s, NEW i, NextStep(p, c, s, i), NEW action \in MediaActions
  PROVE  RetainedBudget(p, action, c, s)
           = RetainedBudget(p, action, c, i)
             + (IF p.steps[i].action = action THEN MediaSize(p.steps[i]) ELSE 0)
<1> DEFINE f == CleanupEvery(p, action)
           next == NextCleanupCycle(f, c, p.cycles)
<1>1. /\ c \in 0..p.cycles - 1 /\ c \in Nat /\ s \in Nat /\ i \in Nat /\ s < i /\ i \in DOMAIN p.steps
      /\ <<c, i>> \in Executed(p) /\ f \in Nat /\ p.cycles \in Nat
  BY StepsOf, ExecutedIs DEF NextStep, CleanupEvery
<1>2. next \in Nat /\ c < next
  BY <1>1, NextCleanup
<1> HIDE DEF next
<1>3. \A t : Retained(p, action, c, t) =
               {e \in Executed(p) : /\ p.steps[e[2]].action = action
                                    /\ e[1] >= c /\ (e[1] = c => e[2] > t) /\ e[1] < next}
  BY DEF Retained, next
<1>4. ASSUME NEW e \in Executed(p), e[1] = c, e[2] > s PROVE e[2] > i \/ e = <<c, i>>
  <2>1. e = <<e[1], e[2]>> /\ e[2] \in Nat /\ Runs(p, c, e[2])
    BY <1>4, ExecutedIs
  <2>2. e[2] \notin s + 1..i - 1
    BY <2>1 DEF NextStep
  <2> QED
    BY <1>1, <1>4, <2>1, <2>2
<1>5. \A e \in Executed(p) : e[1] \in Nat /\ e[2] \in Nat
  BY ExecutedIs
<1> DEFINE after == Retained(p, action, c, i)
           own == IF p.steps[i].action = action THEN {<<c, i>>} ELSE {}
<1>6. ASSUME NEW e \in Executed(p)
      PROVE  e \in Retained(p, action, c, s) <=> e \in after \/ e \in own
  BY <1>1, <1>2, <1>3, <1>4, <1>5
<1>7. Retained(p, action, c, s) = after \cup own /\ <<c, i>> \notin after /\ after \subseteq Executed(p)
  BY <1>1, <1>3, <1>6
<1>8. IsFiniteSet(after) /\ \A e \in after \cup {<<c, i>>} : Sizes(p)[e] \in Nat
  BY <1>1, <1>7, ExecutedIs, MediaIs, FS_Subset
<1>9. SumOver(Sizes(p), after) \in Nat
  BY <1>8, UnitsFinite
<1>10. Sizes(p)[<<c, i>>] = MediaSize(p.steps[i])
  BY <1>1, MediaIs
<1> HIDE DEF after
<1>11. CASE p.steps[i].action = action
  <2>1. Retained(p, action, c, s) = after \cup {<<c, i>>}
    BY <1>7, <1>11
  <2>2. SumOver(Sizes(p), after \cup {<<c, i>>}) = SumOver(Sizes(p), after) + Sizes(p)[<<c, i>>]
    BY <1>7, <1>8, SumAdd
  <2> QED
    BY <1>10, <1>11, <2>1, <2>2 DEF RetainedBudget, after
<1>12. CASE p.steps[i].action # action
  <2>1. Retained(p, action, c, s) = after
    BY <1>7, <1>12
  <2> QED
    BY <1>9, <1>12, <2>1 DEF RetainedBudget, after
<1> QED
  BY <1>11, <1>12

\* The first cleanup.
LEMMA FirstCleanup ==
  ASSUME NEW f \in Nat, NEW cycles \in Nat \ {0}
  PROVE  NextCleanupCycle(f, 0, cycles) = IF f # 0 /\ f < cycles THEN f ELSE cycles
<1>1. CASE f = 0
  BY <1>1 DEF NextCleanupCycle
<1>2. CASE f # 0
  <2>0. f \in Nat \ {0} /\ 1 \in Nat /\ 0 \in 0..f - 1
    BY <1>2
  <2>1. (1 * f + 0) \div f = 1
    BY <2>0, Multiples, Zenon
  <2>2. 1 * f + 0 = f /\ 0 + f = f
    OBVIOUS
  <2>3. (0 + f) \div f = 1
    BY <2>1, <2>2
  <2> QED
    BY <1>2, <2>2, <2>3 DEF NextCleanupCycle
<1> QED
  BY <1>1, <1>2

\* What is kept is executed, and its budget a number.
LEMMA RetainedAre ==
  ASSUME NEW p \in PlanTypes, NEW action \in MediaActions, NEW c, NEW s
  PROVE  /\ Retained(p, action, c, s) \subseteq Executed(p)
         /\ IsFiniteSet(Retained(p, action, c, s))
         /\ \A e \in Retained(p, action, c, s) : Sizes(p)[e] \in Nat
         /\ RetainedBudget(p, action, c, s) \in Nat
<1> DEFINE S == Retained(p, action, c, s)
<1>1. S \subseteq Executed(p)
  BY DEF Retained
<1>2. IsFiniteSet(S)
  BY <1>1, ExecutedIs, FS_Subset
<1>3. \A e \in S : Sizes(p)[e] \in Nat
  BY <1>1, MediaIs
<1> HIDE DEF S
<1>4. SumOver(Sizes(p), S) \in Nat
  BY <1>2, <1>3, UnitsFinite
<1> QED
  BY <1>1, <1>2, <1>3, <1>4 DEF RetainedBudget, S

\* Without a cleanup, as much is still to come as before the end of the cycle.
LEMMA RetainedOn ==
  ASSUME NEW p \in PlanTypes, NEW c, NEW s, LastStep(p, c, s), c + 1 < p.cycles, NEW action \in MediaActions,
         ~Due(CleanupEvery(p, action), c)
  PROVE  RetainedBudget(p, action, c + 1, 0) = RetainedBudget(p, action, c, s)
<1> DEFINE f == CleanupEvery(p, action)
           next == NextCleanupCycle(f, c, p.cycles)
<1>1. /\ c \in 0..p.cycles - 1 /\ c \in Nat /\ s \in Nat /\ f \in Nat /\ p.cycles \in Nat
  BY StepsOf DEF LastStep, CleanupEvery
<1>2. NextCleanupCycle(f, c + 1, p.cycles) = next /\ next \in Nat
  <2>1. c + 1 < p.cycles /\ ~Due(f, c)
    OBVIOUS
  <2>2. c \in 0..p.cycles - 1 /\ f \in Nat /\ p.cycles \in Nat
    BY <1>1
  <2> HIDE DEF f
  <2>3. /\ NextCleanupCycle(f, c, p.cycles) \in c + 1..p.cycles
        /\ ~Due(f, c) /\ c + 1 < p.cycles
             => NextCleanupCycle(f, c + 1, p.cycles) = NextCleanupCycle(f, c, p.cycles)
    BY <2>2, NextCleanup, Zenon
  <2> QED
    BY <1>1, <2>1, <2>3
<1> HIDE DEF next
<1>3. ASSUME NEW e \in Executed(p)
      PROVE  (e[1] >= c + 1 /\ (e[1] = c + 1 => e[2] > 0)) <=> (e[1] >= c /\ (e[1] = c => e[2] > s))
  <2>1. e[1] \in Nat /\ e[2] \in Nat /\ 1 <= e[2] /\ e[2] <= Len(p.steps) /\ Runs(p, e[1], e[2])
    BY ExecutedIs
  <2>2. e[1] = c => e[2] <= s
    BY <1>1, <2>1, StepsOf DEF LastStep, Follows
  <2> QED
    BY <1>1, <2>1, <2>2
<1>4. Retained(p, action, c + 1, 0)
        = {e \in Executed(p) : /\ p.steps[e[2]].action = action
                               /\ e[1] >= c + 1 /\ (e[1] = c + 1 => e[2] > 0) /\ e[1] < next}
  BY <1>2 DEF Retained
<1>5. Retained(p, action, c, s)
        = {e \in Executed(p) : /\ p.steps[e[2]].action = action
                               /\ e[1] >= c /\ (e[1] = c => e[2] > s) /\ e[1] < next}
  BY DEF Retained, next
<1>6. Retained(p, action, c + 1, 0) = Retained(p, action, c, s)
  BY <1>3, <1>4, <1>5
<1> QED
  BY <1>6 DEF RetainedBudget

\* After a cleanup, no more is to come than from the beginning to the first cleanup: each step
\* has its place there, the same number of cycles earlier.
LEMMA RetainedAnew ==
  ASSUME NEW p \in PlanTypes, NEW c \in Nat, c + 1 < p.cycles, NEW action \in MediaActions
  PROVE  CleanupEvery(p, action) # 0 => RetainedBudget(p, action, c + 1, 0) <= RetainedBudget(p, action, 0, 0)
<1> SUFFICES ASSUME CleanupEvery(p, action) # 0
             PROVE  RetainedBudget(p, action, c + 1, 0) <= RetainedBudget(p, action, 0, 0)
  OBVIOUS
<1> DEFINE f == CleanupEvery(p, action)
           S == Retained(p, action, c + 1, 0)
           T == Retained(p, action, 0, 0)
           place == [e \in S |-> <<e[1] - (c + 1), e[2]>>]
<1>1. /\ c + 1 \in 0..p.cycles - 1 /\ f \in Nat /\ f # 0 /\ p.cycles \in Nat \ {0}
  BY StepsOf DEF CleanupEvery
<1>2. /\ NextCleanupCycle(f, c + 1, p.cycles) \in Nat
      /\ NextCleanupCycle(f, c + 1, p.cycles) <= c + 1 + f /\ NextCleanupCycle(f, c + 1, p.cycles) <= p.cycles
  <2> HIDE DEF f
  <2>1. p.cycles \in Nat /\ c + 1 \in 0..p.cycles - 1 /\ f \in Nat
    BY <1>1
  <2>2. /\ NextCleanupCycle(f, c + 1, p.cycles) \in (c + 1) + 1..p.cycles
        /\ f # 0 => NextCleanupCycle(f, c + 1, p.cycles) <= (c + 1) + f
    BY <2>1, NextCleanup, Zenon
  <2> QED
    BY <1>1, <2>2
<1>3. NextCleanupCycle(f, 0, p.cycles) = IF f < p.cycles THEN f ELSE p.cycles
  BY <1>1, FirstCleanup
<1>4. ASSUME NEW e \in S
      PROVE  /\ e = <<e[1], e[2]>> /\ e[1] \in Nat /\ e[1] >= c + 1 /\ <<e[1] - (c + 1), e[2]>> \in T
             /\ Sizes(p)[<<e[1] - (c + 1), e[2]>>] = Sizes(p)[e] /\ Sizes(p)[e] \in Nat
  <2> DEFINE b == e[1] - (c + 1)
  <2>1. e \in Executed(p) /\ p.steps[e[2]].action = action /\ e[1] >= c + 1
        /\ e[1] < NextCleanupCycle(f, c + 1, p.cycles)
    BY DEF Retained
  <2>2. /\ e = <<e[1], e[2]>> /\ e[1] \in Nat /\ e[1] < p.cycles /\ e[2] \in DOMAIN p.steps
        /\ e[2] \in Nat /\ 1 <= e[2] /\ Runs(p, e[1], e[2])
    BY <2>1, ExecutedIs
  <2>3. b \in 0..p.cycles - 1 /\ b \in Nat /\ b < f /\ b < p.cycles /\ e[1] # 0
    BY <1>1, <1>2, <2>1, <2>2
  <2>4. Runs(p, b, e[2])
    BY <2>2, <2>3 DEF Runs
  <2>5. <<b, e[2]>> \in Executed(p)
    BY <2>2, <2>3, <2>4, ExecutedIs
  <2>6. b < NextCleanupCycle(f, 0, p.cycles)
    BY <1>1, <1>3, <2>3
  <2>7. <<b, e[2]>> \in T
    <3>1. <<b, e[2]>>[1] = b /\ <<b, e[2]>>[2] = e[2]
      OBVIOUS
    <3>2. b >= 0 /\ e[2] > 0
      BY <2>2, <2>3
    <3> HIDE DEF b
    <3> QED
      BY <2>1, <2>5, <2>6, <3>1, <3>2 DEF Retained
  <2>8. Sizes(p)[<<b, e[2]>>] = Sizes(p)[e] /\ Sizes(p)[e] \in Nat
    BY <2>1, <2>5, MediaIs
  <2> QED
    BY <2>1, <2>2, <2>7, <2>8
<1>5. place \in [S -> T]
  BY <1>4
<1>6. \A a, b \in S : place[a] = place[b] => a = b
  BY <1>4, <1>1
<1>7. place \in Injection(S, T)
  BY <1>5, <1>6 DEF Injection, IsInjective
<1>8. \A e \in S : Sizes(p)[place[e]] = Sizes(p)[e]
  BY <1>4
<1>9. \A e \in S : Sizes(p)[e] \in Nat /\ Sizes(p)[e] <= Sizes(p)[place[e]]
  BY <1>4, <1>8
<1>10. IsFiniteSet(T) /\ \A e \in T : Sizes(p)[e] \in Nat
  BY RetainedAre
<1> HIDE DEF S, T, place
<1>11. SumOver(Sizes(p), S) <= SumOver(Sizes(p), T)
  BY <1>7, <1>9, <1>10, SumPlaced
<1> QED
  BY <1>11 DEF RetainedBudget, S, T

-----------------------------------------------------------------------------
(* What has been made, and the time it took.                               *)

\* The steps of a set of which one more is counted.
LEMMA OneMore ==
  ASSUME NEW S, NEW x, IsFiniteSet(S), x \notin S
  PROVE  Cardinality(S \cup {x}) = Cardinality(S) + 1 /\ Cardinality(S) \in Nat
  BY FS_AddElement, FS_CardinalityType

\* What a cycle has made grows with its next step, by one at most.
LEMMA MadeNext ==
  ASSUME NEW p \in PlanTypes, NEW c, NEW s, NEW i, NextStep(p, c, s, i), NEW kinds
  PROVE  /\ MadeUpTo(p, c, s, kinds) \in Nat
         /\ MadeUpTo(p, c, i, kinds)
              = MadeUpTo(p, c, s, kinds) + (IF p.steps[i].action \in kinds THEN 1 ELSE 0)
<1> DEFINE S == {j \in DOMAIN p.steps : j <= s /\ Runs(p, c, j) /\ p.steps[j].action \in kinds}
           T == {j \in DOMAIN p.steps : j <= i /\ Runs(p, c, j) /\ p.steps[j].action \in kinds}
<1>1. /\ c \in Nat /\ s \in Nat /\ i \in Nat /\ s < i /\ i \in DOMAIN p.steps /\ Runs(p, c, i)
      /\ DOMAIN p.steps = 1..Len(p.steps) /\ Len(p.steps) \in Nat
  BY StepsOf DEF NextStep
<1>2. \A j \in DOMAIN p.steps : j <= i /\ Runs(p, c, j) => j <= s \/ j = i
  BY <1>1 DEF NextStep
<1>3. IsFiniteSet(S) /\ i \notin S
  <2>1. IsFiniteSet(DOMAIN p.steps)
    BY StepsFinite
  <2>2. S \in SUBSET DOMAIN p.steps
    OBVIOUS
  <2>3. i \notin S
    BY <1>1
  <2> HIDE DEF S
  <2> QED
    BY <2>1, <2>2, <2>3, FS_Subset
<1>4. T = IF p.steps[i].action \in kinds THEN S \cup {i} ELSE S
  BY <1>1, <1>2
<1>5. MadeUpTo(p, c, s, kinds) = Cardinality(S) /\ MadeUpTo(p, c, i, kinds) = Cardinality(T)
  BY DEF MadeUpTo
<1> HIDE DEF S, T
<1>6. Cardinality(S) \in Nat /\ Cardinality(S \cup {i}) = Cardinality(S) + 1
  BY <1>3, OneMore
<1> QED
  BY <1>4, <1>5, <1>6

\* At its beginning it has made nothing.
LEMMA MadeBegin ==
  ASSUME NEW p \in PlanTypes, NEW c, NEW kinds
  PROVE  MadeUpTo(p, c, 0, kinds) = 0
<1>1. {j \in DOMAIN p.steps : j <= 0 /\ Runs(p, c, j) /\ p.steps[j].action \in kinds} = {}
  BY StepsOf
<1> QED
  BY <1>1, FS_EmptySet DEF MadeUpTo

\* At its end it has made what it makes.
LEMMA MadeEnd ==
  ASSUME NEW p \in PlanTypes, NEW c, NEW s, LastStep(p, c, s), NEW kinds
  PROVE  MadeUpTo(p, c, s, kinds) = MadeInCycle(p, c, kinds)
<1>1. \A j \in DOMAIN p.steps : Runs(p, c, j) => j <= s
  BY StepsOf DEF LastStep, Follows
<1>2. {j \in DOMAIN p.steps : j <= s /\ Runs(p, c, j) /\ p.steps[j].action \in kinds}
        = {j \in DOMAIN p.steps : Runs(p, c, j) /\ p.steps[j].action \in kinds}
  BY <1>1
<1> QED
  BY <1>2 DEF MadeUpTo, MadeInCycle

\* Meanwhile it has made no more than that.
LEMMA MadeAtMost ==
  ASSUME NEW p \in PlanTypes, NEW c, NEW s, NEW kinds
  PROVE  MadeUpTo(p, c, s, kinds) \in Nat /\ MadeUpTo(p, c, s, kinds) <= MadeInCycle(p, c, kinds)
<1> DEFINE S == {j \in DOMAIN p.steps : j <= s /\ Runs(p, c, j) /\ p.steps[j].action \in kinds}
           T == {j \in DOMAIN p.steps : Runs(p, c, j) /\ p.steps[j].action \in kinds}
<1>1. IsFiniteSet(DOMAIN p.steps)
  BY StepsFinite
<1>2. IsFiniteSet(T)
  BY <1>1, FS_Subset
<1>3. S \in SUBSET T
  OBVIOUS
<1>4. IsFiniteSet(S) /\ Cardinality(S) <= Cardinality(T)
  BY <1>2, <1>3, FS_Subset
<1> QED
  BY <1>4, FS_CardinalityType DEF MadeUpTo, MadeInCycle

\* The media that have been made up to step s of cycle c.
MadeTill(p, c, s, kinds) == Cardinality({e \in Past(p, c, s) : p.steps[e[2]].action \in kinds})

\* What the run has made grows the same way.
LEMMA MadeTillNext ==
  ASSUME NEW p \in PlanTypes, NEW c, NEW s, NEW i, NextStep(p, c, s, i), NEW kinds
  PROVE  /\ MadeTill(p, c, s, kinds) \in Nat
         /\ MadeTill(p, c, i, kinds)
              = MadeTill(p, c, s, kinds) + (IF p.steps[i].action \in kinds THEN 1 ELSE 0)
<1> DEFINE S == {e \in Past(p, c, s) : p.steps[e[2]].action \in kinds}
           T == {e \in Past(p, c, i) : p.steps[e[2]].action \in kinds}
           x == <<c, i>>
<1>1. x \notin Past(p, c, s) /\ Past(p, c, i) = Past(p, c, s) \cup {x} /\ x[2] = i
  BY PastNext
<1>2. IsFiniteSet(S) /\ x \notin S
  <2>1. S \subseteq Executed(p)
    BY DEF Past
  <2> QED
    BY <1>1, <2>1, ExecutedIs, FS_Subset
<1>3. T = IF p.steps[i].action \in kinds THEN S \cup {x} ELSE S
  BY <1>1
<1>4. MadeTill(p, c, s, kinds) = Cardinality(S) /\ MadeTill(p, c, i, kinds) = Cardinality(T)
  BY DEF MadeTill
<1> HIDE DEF S, T, x
<1>5. Cardinality(S) \in Nat /\ Cardinality(S \cup {x}) = Cardinality(S) + 1
  BY <1>2, OneMore
<1> QED
  BY <1>3, <1>4, <1>5

\* A cycle that cleans up is one more of those that do.
LEMMA CleaningNext ==
  ASSUME NEW p \in PlanTypes, NEW c \in Nat
  PROVE  /\ Cardinality(CleaningCycles(p, c)) \in Nat
         /\ Cardinality(CleaningCycles(p, c + 1))
              = Cardinality(CleaningCycles(p, c)) + (IF Cleans(p, c) THEN 1 ELSE 0)
<1> DEFINE S == CleaningCycles(p, c)
<1>1. CleaningCycles(p, c + 1) = IF Cleans(p, c) THEN S \cup {c} ELSE S
  BY DEF CleaningCycles
<1>2. IsFiniteSet(S) /\ c \notin S
  <2>1. S \in SUBSET (0..c - 1) /\ c \notin S
    BY DEF CleaningCycles
  <2>2. IsFiniteSet(0..c - 1)
    BY BelowFinite
  <2> HIDE DEF S
  <2> QED
    BY <2>1, <2>2, FS_Subset
<1> HIDE DEF S
<1>3. Cardinality(S) \in Nat /\ Cardinality(S \cup {c}) = Cardinality(S) + 1
  BY <1>2, OneMore
<1> QED
  BY <1>1, <1>3 DEF S

\* A video that is played back in some cycles only takes no longer than one that always is.
LEMMA StepTimeIs ==
  ASSUME NEW p \in PlanTypes, NEW step \in StepTypes, NEW checked \in BOOLEAN, NEW due \in BOOLEAN
  PROVE  /\ StepTime(p, step, checked) \in Nat
         /\ StepTime(p, step, checked /\ due) \in Nat
         /\ StepTime(p, step, checked /\ due) <= StepTime(p, step, checked)
<1>1. p.settle \in Nat /\ step.seconds \in Nat
  BY StepsOf DEF StepTypes
<1> DEFINE own == (IF step.action = "rotate" THEN 6 ELSE 4) + (IF step.waits THEN p.settle ELSE 0)
<1>2. own \in Nat
  BY <1>1
<1> HIDE DEF own
<1>3. \A b : StepTime(p, step, b) = own + (CASE IsVideo(step) -> step.seconds + 10 + (IF b THEN 12 ELSE 0)
                                             [] step.action = Photo -> 10
                                             [] OTHER -> 0)
  BY DEF StepTime, own
<1>4. CASE IsVideo(step)
  <2>1. step.action # Photo
    BY <1>4 DEF IsVideo, Videos5, Photo
  <2>2. \A b : StepTime(p, step, b) = own + (step.seconds + 10 + (IF b THEN 12 ELSE 0))
    BY <1>3, <1>4, <2>1
  <2> QED
    BY <1>1, <1>2, <2>2
<1>5. CASE ~IsVideo(step) /\ step.action = Photo
  <2>1. \A b : StepTime(p, step, b) = own + 10
    BY <1>3, <1>5
  <2> QED
    BY <1>2, <2>1
<1>6. CASE ~IsVideo(step) /\ step.action # Photo
  <2>1. \A b : StepTime(p, step, b) = own + 0
    BY <1>3, <1>6
  <2> QED
    BY <1>2, <2>1
<1> QED
  BY <1>4, <1>5, <1>6

\* Times are numbers.
LEMMA TimesAre ==
  ASSUME NEW p \in PlanTypes
  PROVE  /\ \A c : \A i \in DOMAIN p.steps : Interval(p, c, i) \in Nat
         /\ \A e \in Executed(p) :
              /\ Times(p)[e] = StepTime(p, p.steps[e[2]], p.videoCheck = "playback") + Interval(p, e[1], e[2])
              /\ Times(p)[e] \in Nat
<1>1. ASSUME NEW c, NEW i \in DOMAIN p.steps PROVE Interval(p, c, i) \in Nat
  BY StepsOf DEF Interval, StepTypes
<1>2. ASSUME NEW e \in Executed(p)
      PROVE  /\ Times(p)[e] = StepTime(p, p.steps[e[2]], p.videoCheck = "playback") + Interval(p, e[1], e[2])
             /\ Times(p)[e] \in Nat
  <2>1. Times(p)[e] = StepTime(p, p.steps[e[2]], p.videoCheck = "playback") + Interval(p, e[1], e[2])
    BY DEF Times
  <2>2. e[2] \in DOMAIN p.steps /\ p.steps[e[2]] \in StepTypes
    BY ExecutedIs, StepsOf
  <2>3. (p.videoCheck = "playback") \in BOOLEAN
    OBVIOUS
  <2>4. StepTime(p, p.steps[e[2]], p.videoCheck = "playback") \in Nat
    BY <2>2, <2>3, StepTimeIs, Zenon
  <2> QED
    BY <1>1, <2>1, <2>2, <2>4
<1> QED
  BY <1>1, <1>2

\* The estimate of what has been executed.
TimeTill(p, c, s) == SumOver(Times(p), Past(p, c, s))

\* The estimate of what is past grows with the next step, by its time.
LEMMA TimeNext ==
  ASSUME NEW p \in PlanTypes, NEW c, NEW s, NEW i, NextStep(p, c, s, i)
  PROVE  /\ TimeTill(p, c, s) \in Nat
         /\ TimeTill(p, c, i)
              = TimeTill(p, c, s) + (StepTime(p, p.steps[i], p.videoCheck = "playback") + Interval(p, c, i))
<1> DEFINE S == Past(p, c, s)
           x == <<c, i>>
<1>1. x \in Executed(p) /\ x \notin S /\ Past(p, c, i) = S \cup {x} /\ S \subseteq Executed(p)
  BY PastNext DEF Past
<1>2. IsFiniteSet(S) /\ \A e \in S \cup {x} : Times(p)[e] \in Nat
  BY <1>1, ExecutedIs, TimesAre, FS_Subset
<1>3. Times(p)[x] = StepTime(p, p.steps[x[2]], p.videoCheck = "playback") + Interval(p, x[1], x[2])
  BY <1>1, TimesAre
<1>4. x[1] = c /\ x[2] = i
  OBVIOUS
<1> HIDE DEF S, x
<1>5. SumOver(Times(p), S \cup {x}) = SumOver(Times(p), S) + Times(p)[x]
  BY <1>1, <1>2, SumAdd
<1>6. SumOver(Times(p), S) \in Nat
  BY <1>2, UnitsFinite
<1>7. TimeTill(p, c, i) = TimeTill(p, c, s) + Times(p)[x] /\ TimeTill(p, c, s) \in Nat
  BY <1>1, <1>5, <1>6 DEF TimeTill, S
<1> QED
  BY <1>3, <1>4, <1>7

-----------------------------------------------------------------------------
(* The inputs, and what they are made of.                                  *)

\* The actions, and the fields that list their choices.
LEMMA ActionsAre ==
  /\ DOMAIN OptionsOf
       = {"nav", "target", "mode", "video", "verify", "click", "swipe", "slider", "record", "slow"}
  /\ \A a \in DOMAIN OptionsOf : OptionsOf[a] \in Fields
  /\ "pages" \in Fields
  /\ {Photo, "record", "slow", "rotate", "click"} \subseteq Actions
<1>1. DOMAIN OptionsOf
        = {"nav", "target", "mode", "video", "verify", "click", "swipe", "slider", "record", "slow"}
  BY DEF OptionsOf
<1>2. \A a \in DOMAIN OptionsOf : OptionsOf[a] \in Fields
  BY DEF Fields
<1>3. OptionsOf["nav"] = "pages"
  BY DEF OptionsOf
<1> QED
  BY <1>1, <1>2, <1>3 DEF Actions, Photo, Policies, Videos5

LEMMA Step5Types ==
  ASSUME NEW action \in Actions, NEW seconds \in Nat, NEW rate \in Nat
  PROVE  Step5(action, seconds, rate) \in StepTypes
  BY DEF Step5, StepTypes

\* The steps, the plans and the capabilities that are looked at are of their types.
LEMMA ChoicesTypes == StepChoices \subseteq StepTypes
<1>1. ASSUME NEW step \in StepTypes, NEW once \in BOOLEAN PROVE [step EXCEPT !.once = once] \in StepTypes
  BY Zenon DEF StepTypes
<1>2. ASSUME NEW step \in StepTypes, NEW b \in BOOLEAN
      PROVE  [step EXCEPT !.waits = b] \in StepTypes /\ [step EXCEPT !.ui = b] \in StepTypes
  BY Zenon DEF StepTypes
<1>3. /\ Step5(Photo, 0, 0) \in StepTypes /\ Step5("record", 4, 5) \in StepTypes
      /\ Step5("slow", 2, 12) \in StepTypes
      /\ [Step5("rotate", 0, 0) EXCEPT !.waits = TRUE] \in StepTypes
      /\ [Step5("click", 0, 0) EXCEPT !.ui = TRUE] \in StepTypes
  <2>1. {0, 2, 4, 5, 12} \subseteq Nat
    OBVIOUS
  <2>2. Step5("rotate", 0, 0) \in StepTypes /\ Step5("click", 0, 0) \in StepTypes
    BY <2>1, ActionsAre, Step5Types
  <2> QED
    BY <1>2, <2>1, <2>2, ActionsAre, Step5Types
<1> DEFINE S == {Step5(Photo, 0, 0), Step5("record", 4, 5), Step5("slow", 2, 12),
                 [Step5("rotate", 0, 0) EXCEPT !.waits = TRUE], [Step5("click", 0, 0) EXCEPT !.ui = TRUE]}
<1>4. StepChoices = UNION {Repeatable(step) : step \in S}
  BY DEF StepChoices
<1>5. S \subseteq StepTypes
  BY <1>3
<1> HIDE DEF S
<1>6. \A step \in StepTypes : Repeatable(step) \subseteq StepTypes
  BY <1>1 DEF Repeatable
<1> QED
  BY <1>4, <1>5, <1>6

LEMMA PlansTypes == Plans \subseteq PlanTypes
<1> SUFFICES ASSUME NEW p \in Plans PROVE p \in PlanTypes
  OBVIOUS
<1>0. MaxCycles \in Nat /\ MaxSteps5 \in Nat
  BY CustomRulesAssumption
<1>1. /\ 1..MaxCycles \subseteq Nat \ {0} /\ {1} \subseteq Nat /\ {2} \subseteq Nat /\ {3} \subseteq Nat
      /\ {0, 1} \subseteq Nat /\ 0..2 \subseteq Nat /\ 0..MaxCycles \subseteq Nat
  BY <1>0
<1>2. {"baseline", "file"} \subseteq Checks /\ {"baseline", "playback"} \subseteq Checks
  BY DEF Checks
<1>3. UNION {[1..n -> StepChoices] : n \in 1..MaxSteps5} \subseteq Seq(StepTypes)
  <2> SUFFICES ASSUME NEW n \in 1..MaxSteps5, NEW t \in [1..n -> StepChoices] PROVE t \in Seq(StepTypes)
    OBVIOUS
  <2>1. n \in Nat
    BY <1>0
  <2> QED
    BY <2>1, ChoicesTypes
<1>4. p \in [cycles : 1..MaxCycles, steps : UNION {[1..n -> StepChoices] : n \in 1..MaxSteps5},
             settle : {1}, cycleInterval : {2}, cleanupWaits : {3},
             photoCheck : {"baseline", "file"}, photoEvery : {0, 1}, photoCleanup : 0..MaxCycles,
             videoCheck : {"baseline", "playback"}, videoEvery : 0..2, videoCleanup : 0..MaxCycles]
  BY Zenon DEF Plans
<1> QED
  BY <1>1, <1>2, <1>3, <1>4, Zenon DEF PlanTypes

LEMMA SimplePlanTypes == SimplePlan \in PlanTypes
<1> DEFINE step == [Step5(Photo, 0, 0) EXCEPT !.once = FALSE]
           p == [cycles |-> 1, steps |-> [i \in 1..1 |-> step], settle |-> 1, cycleInterval |-> 2,
                 cleanupWaits |-> 3, photoCheck |-> "baseline", photoEvery |-> 0, photoCleanup |-> 0,
                 videoCheck |-> "baseline", videoEvery |-> 0, videoCleanup |-> 0]
<1>0. MaxCycles \in Nat \ {0} /\ MaxSteps5 \in Nat \ {0}
  BY CustomRulesAssumption
<1>1. step \in StepChoices
  <2>1. step \in Repeatable(Step5(Photo, 0, 0))
    BY DEF Repeatable
  <2> HIDE DEF step
  <2> QED
    BY <2>1 DEF StepChoices
<1> HIDE DEF step
<1>2. p.steps \in UNION {[1..n -> StepChoices] : n \in 1..MaxSteps5}
  <2>1. 1 \in 1..MaxSteps5 /\ p.steps \in [1..1 -> StepChoices]
    BY <1>0, <1>1
  <2> HIDE DEF p
  <2> QED
    BY <2>1
<1>3. p.cycles \in 1..MaxCycles /\ 0 \in 0..MaxCycles /\ 0 \in 0..2
  BY <1>0
<1>4. p \in Plans
  BY <1>2, <1>3 DEF Plans
<1>5. p.cycles = 1 /\ Len(p.steps) = 1
  <2>1. p.steps = [i \in 1..1 |-> step] /\ p.cycles = 1
    OBVIOUS
  <2> HIDE DEF p
  <2>2. p.steps \in Seq(StepChoices) /\ DOMAIN p.steps = 1..1
    BY <1>1, <2>1
  <2> QED
    BY <2>1, <2>2
<1> HIDE DEF p
<1>6. SimplePlan \in Plans
  BY <1>4, <1>5 DEF SimplePlan
<1> QED
  BY <1>6, PlansTypes

-----------------------------------------------------------------------------
(* The inductive invariant.                                                *)

CapsTypes ==
  [actions : SUBSET Actions, options : [Fields -> SUBSET {0, 1}], ui : BOOLEAN, maxCycles : Nat,
   maxSteps : Nat, cleanup : BOOLEAN, manifest : BOOLEAN, storageKnown : BOOLEAN, available : Nat, safe : Nat]
Pairs == [p : Nat, v : Nat]
C01Types ==
  [at : {"asked", "edited", "refused", "running", "done"}, cycle : Nat, step : Nat, photos : Nat,
   videos : Nat, kept : Pairs, tracked : Pairs, peak : Nat, time : Nat]
RulesTypes ==
  /\ caps \in CapsTypes /\ caps.safe <= caps.available
  /\ plan \in PlanTypes
  /\ c01 \in C01Types

Shown(p) ==
  [counts |-> MediaCounts(p), budget |-> StorageBudget(p, 0, 0), tracked |-> MaxTracked(p),
   runtime |-> EstimatedRuntime(p)]
\* The preview of a plan that runs, and what its validation told.
Previewed ==
  c01.at \in {"running", "done"} =>
    /\ preview = Shown(plan)
    /\ MaxTracked(plan) <= TrackLimit
    /\ caps.storageKnown => caps.safe + StorageBudget(plan, 0, 0) <= caps.available

Offered == c01.at = "edited" => Accepted(caps)

\* Where the run is.
Placed ==
  /\ c01.at = "running" => c01.cycle \in 0..plan.cycles - 1 /\ c01.step \in 0..Len(plan.steps)
  /\ c01.at = "done" => c01.cycle = plan.cycles /\ c01.step = 0

\* What it has made.
Counted ==
  c01.at \in {"running", "done"} =>
    /\ c01.photos = MadeTill(plan, c01.cycle, c01.step, {Photo})
    /\ c01.videos = MadeTill(plan, c01.cycle, c01.step, Videos5)

\* What is kept, and is still to come before it is deleted.
Kept ==
  c01.at = "running" =>
    /\ c01.kept.p + RetainedBudget(plan, Photo, c01.cycle, c01.step) <= RetainedBudget(plan, Photo, 0, 0)
    /\ c01.kept.v + (RetainedBudget(plan, "record", c01.cycle, c01.step)
                     + RetainedBudget(plan, "slow", c01.cycle, c01.step))
         <= RetainedBudget(plan, "record", 0, 0) + RetainedBudget(plan, "slow", 0, 0)

\* What is tracked, as the loop knows it, with what the cycle has made.
TrackedBy(photos, videos) ==
  LET known == TrackedAfter(plan)[c01.cycle] IN
  /\ c01.tracked.p = known.photos + (IF plan.photoCleanup = 0 THEN 0 ELSE photos)
  /\ c01.tracked.v = known.videos + (IF plan.videoCleanup = 0 THEN 0 ELSE videos)
Tracked ==
  c01.at \in {"running", "done"} =>
    /\ TrackedBy(MadeUpTo(plan, c01.cycle, c01.step, {Photo}), MadeUpTo(plan, c01.cycle, c01.step, Videos5))
    /\ LET most == TrackedAfter(plan)[c01.cycle].most
       IN c01.peak = IF Total5(c01.tracked) > most THEN Total5(c01.tracked) ELSE most

\* The time it took, beside its estimate.
Intervals == (IF c01.at = "done" THEN plan.cycles - 1 ELSE c01.cycle) * plan.cycleInterval
Cleanups == Cardinality(CleaningCycles(plan, c01.cycle)) * CleanupTime(plan)
Timed ==
  c01.at \in {"running", "done"} =>
    c01.time <= TimeTill(plan, c01.cycle, c01.step) + Intervals + Cleanups

RulesInv == RulesTypes /\ Previewed /\ Offered /\ Placed /\ Counted /\ Kept /\ Tracked /\ Timed

-----------------------------------------------------------------------------
(* It holds at first, and the editor keeps it.                             *)

\* So are the capabilities, which leave the safe amount free.
LEMMA CapsInit ==
  /\ Caps(Actions, FullOptions) \subseteq CapsTypes /\ SmallCaps \subseteq CapsTypes
  /\ \A c \in Caps(Actions, FullOptions) \cup SmallCaps : c.safe <= c.available
<1>0. MaxCycles \in Nat /\ MaxSteps5 \in Nat
  BY CustomRulesAssumption
<1>1. ASSUME NEW actions \in SUBSET Actions, NEW options \in [Fields -> SUBSET {0, 1}],
             NEW c \in Caps(actions, options)
      PROVE  c \in CapsTypes /\ c.safe <= c.available
  <2>1. /\ {actions} \subseteq SUBSET Actions /\ {options} \subseteq [Fields -> SUBSET {0, 1}]
        /\ {TRUE} \subseteq BOOLEAN /\ {MaxCycles} \subseteq Nat /\ {MaxSteps5} \subseteq Nat
        /\ {60, 300} \subseteq Nat /\ {10} \subseteq Nat
    BY <1>0
  <2>2. c \in CapsTypes
    <3> DEFINE A == {actions}
               O == {options}
               T == {TRUE}
               C == {MaxCycles}
               M == {MaxSteps5}
               V == {60, 300}
               F == {10}
    <3>1. c \in [actions : A, options : O, ui : T, maxCycles : C, maxSteps : M, cleanup : T, manifest : T,
                 storageKnown : T, available : V, safe : F]
      BY DEF Caps
    <3>2. /\ A \subseteq SUBSET Actions /\ O \subseteq [Fields -> SUBSET {0, 1}] /\ T \subseteq BOOLEAN
          /\ C \subseteq Nat /\ M \subseteq Nat /\ V \subseteq Nat /\ F \subseteq Nat
      BY <2>1
    <3> HIDE DEF A, O, T, C, M, V, F
    <3> QED
      BY <3>1, <3>2, Zenon DEF CapsTypes
  <2>3. c.safe \in {10} /\ c.available \in {60, 300}
    BY Zenon DEF Caps
  <2> QED
    BY <2>2, <2>3
<1>2. FullOptions \in [Fields -> SUBSET {0, 1}]
  BY DEF FullOptions
<1>3. ASSUME NEW a \in Actions, NEW own \in {{}, {0}, {1}}, NEW pages \in {{}, {1}}
      PROVE  {a} \in SUBSET Actions /\ SmallOptions(a, own, pages) \in [Fields -> SUBSET {0, 1}]
  BY DEF SmallOptions
<1>4. ASSUME NEW c \in SmallCaps PROVE c \in CapsTypes /\ c.safe <= c.available
  <2>1. PICK a \in Actions, own \in {{}, {0}, {1}}, pages \in {{}, {1}} :
          c \in Caps({a}, SmallOptions(a, own, pages))
    BY DEF SmallCaps
  <2> QED
    BY <1>1, <1>3, <2>1, Zenon
<1>5. Actions \in SUBSET Actions
  OBVIOUS
<1>6. \A c \in Caps(Actions, FullOptions) : c \in CapsTypes /\ c.safe <= c.available
  BY <1>1, <1>2, <1>5, Zenon
<1> QED
  BY <1>4, <1>6

LEMMA BegunTypes ==
  ASSUME NEW at \in {"asked", "edited", "refused", "running", "done"}
  PROVE  [Begun EXCEPT !.at = at] \in C01Types /\ [Begun EXCEPT !.at = at].at = at
<1>1. 0 \in Nat
  OBVIOUS
<1>2. [p |-> 0, v |-> 0] \in Pairs
  BY DEF Pairs
<1>3. Begun \in C01Types
  BY <1>1, <1>2 DEF Begun, C01Types
<1> QED
  BY <1>3 DEF C01Types

LEMMA RulesInitInv == ASSUME RulesInit PROVE RulesInv
<1>1. c01 \in C01Types /\ c01.at = "asked"
  BY BegunTypes DEF RulesInit
<1>2. plan \in PlanTypes
  BY PlansTypes, SimplePlanTypes DEF RulesInit
<1>3. caps \in CapsTypes /\ caps.safe <= caps.available
  BY CapsInit DEF RulesInit
<1> QED
  BY <1>1, <1>2, <1>3 DEF RulesInv, RulesTypes, Previewed, Offered, Placed, Counted, Kept, Tracked, Timed

LEMMA ReadInv == ASSUME RulesInv, ReadCapabilities PROVE RulesInv'
<1>1. c01 \in C01Types /\ RulesTypes
  BY DEF RulesInv, RulesTypes
<1>2. /\ c01' \in C01Types /\ c01'.at \in {"edited", "refused"} /\ caps' = caps /\ plan' = plan
      /\ c01'.at = "edited" => Accepted(caps)
  BY <1>1 DEF ReadCapabilities, C01Types
<1>3. RulesTypes'
  BY <1>1, <1>2 DEF RulesTypes
<1>4. Offered'
  BY <1>2 DEF Offered
<1> QED
  BY <1>2, <1>3, <1>4 DEF RulesInv, Previewed, Placed, Counted, Kept, Tracked, Timed

\* Without a step that makes media there is nothing to store.
LEMMA NothingStored ==
  ASSUME NEW p \in PlanTypes, ~HasStep(p, {Photo} \cup Videos5)
  PROVE  StorageBudget(p, 0, 0) = 0
<1>1. ASSUME NEW action \in MediaActions PROVE RetainedBudget(p, action, 0, 0) = 0
  <2>1. Retained(p, action, 0, 0) = {}
    BY ExecutedIs DEF Retained, HasStep, MediaActions
  <2> QED
    BY <2>1, SumEmpty DEF RetainedBudget
<1>2. RetainedBudget(p, Photo, 0, 0) = 0 /\ RetainedBudget(p, "record", 0, 0) = 0
      /\ RetainedBudget(p, "slow", 0, 0) = 0
  BY <1>1 DEF MediaActions, Videos5
<1> QED
  BY <1>2 DEF StorageBudget

LEMMA SaveInv == ASSUME RulesInv, SavePlan PROVE RulesInv'
<1>1. c01 \in C01Types /\ caps \in CapsTypes /\ caps.safe <= caps.available /\ plan \in PlanTypes
      /\ caps' = caps /\ plan' = plan
  BY DEF RulesInv, RulesTypes, SavePlan
<1>2. CASE ~Valid(plan, caps)
  <2>1. c01' \in C01Types /\ c01'.at = "refused"
    BY <1>1, <1>2 DEF SavePlan, C01Types
  <2> QED
    BY <1>1, <2>1 DEF RulesInv, RulesTypes, Previewed, Offered, Placed, Counted, Kept, Tracked, Timed
<1>3. CASE Valid(plan, caps)
  <2>1. c01' = Begun /\ preview' = Shown(plan)
    BY <1>3 DEF SavePlan, Shown
  <2>2. Begun = [Begun EXCEPT !.at = "running"]
    BY DEF Begun
  <2>3. /\ c01' \in C01Types /\ c01'.at = "running" /\ c01'.cycle = 0 /\ c01'.step = 0
        /\ c01'.photos = 0 /\ c01'.videos = 0 /\ c01'.peak = 0 /\ c01'.time = 0
        /\ c01'.kept.p = 0 /\ c01'.kept.v = 0 /\ c01'.tracked.p = 0 /\ c01'.tracked.v = 0
    <3>1. c01' \in C01Types
      BY <2>1, <2>2, BegunTypes
    <3> QED
      BY <2>1, <3>1 DEF Begun
  <2>4. RulesTypes'
    BY <1>1, <2>3 DEF RulesTypes
  <2>5. Previewed'
    <3>1. MaxTracked(plan) <= TrackLimit
      BY <1>3 DEF Valid
    <3>2. caps.storageKnown => caps.safe + StorageBudget(plan, 0, 0) <= caps.available
      <4>1. CASE HasStep(plan, {Photo} \cup Videos5)
        BY <1>3, <4>1 DEF Valid
      <4>2. CASE ~HasStep(plan, {Photo} \cup Videos5)
        <5>1. StorageBudget(plan, 0, 0) = 0
          BY <1>1, <4>2, NothingStored
        <5>2. caps.safe \in Nat
          BY <1>1 DEF CapsTypes
        <5> QED
          BY <1>1, <5>1, <5>2
      <4> QED
        BY <4>1, <4>2
    <3> QED
      BY <1>1, <2>1, <3>1, <3>2 DEF Previewed
  <2>6. Placed'
    BY <1>1, <2>3, StepsOf DEF Placed
  <2>7. Counted'
    <3>1. \A kinds : MadeTill(plan, 0, 0, kinds) = 0
      BY <1>1, PastBegin, FS_EmptySet DEF MadeTill
    <3> QED
      BY <1>1, <2>3, <3>1 DEF Counted
  <2>8. Kept'
    <3>1. \A action \in MediaActions : RetainedBudget(plan, action, 0, 0) \in Nat
      BY <1>1, RetainedAre
    <3>2. RetainedBudget(plan, Photo, 0, 0) \in Nat /\ RetainedBudget(plan, "record", 0, 0) \in Nat
          /\ RetainedBudget(plan, "slow", 0, 0) \in Nat
      BY <3>1 DEF MediaActions, Videos5
    <3> QED
      BY <1>1, <2>3, <3>2 DEF Kept
  <2>9. Tracked'
    <3>1. TrackedAfter(plan)[0] = NothingTracked
      BY <1>1, TrackedLoop
    <3>2. \A kinds : MadeUpTo(plan, 0, 0, kinds) = 0
      BY <1>1, MadeBegin
    <3> QED
      BY <1>1, <2>3, <3>1, <3>2 DEF Tracked, TrackedBy, NothingTracked, Total5
  <2>10. Timed'
    <3>1. TimeTill(plan, 0, 0) = 0
      BY <1>1, PastBegin, SumEmpty DEF TimeTill
    <3>2. Cardinality(CleaningCycles(plan, 0)) = 0
      <4>1. CleaningCycles(plan, 0) = {}
        BY DEF CleaningCycles
      <4> QED
        BY <4>1, FS_EmptySet
    <3>3. CleanupTime(plan) \in Nat /\ plan.cycleInterval \in Nat
      BY <1>1, StepsOf DEF CleanupTime
    <3>4. Intervals' = 0 /\ Cleanups' = 0
      BY <1>1, <2>3, <3>2, <3>3 DEF Intervals, Cleanups
    <3> QED
      BY <1>1, <2>3, <3>1, <3>4 DEF Timed
  <2>11. Offered'
    BY <2>3 DEF Offered
  <2> QED
    BY <2>4, <2>5, <2>6, <2>7, <2>8, <2>9, <2>10, <2>11 DEF RulesInv
<1> QED
  BY <1>2, <1>3

-----------------------------------------------------------------------------
(* A step of the run keeps it.                                             *)

One(b) == IF b THEN 1 ELSE 0

\* What RunStep does with step i.
Ran(i) ==
  LET step == plan.steps[i]
      photo == One(step.action = Photo)
      video == One(IsVideo(step))
  IN /\ NextStep(plan, c01.cycle, c01.step, i)
     /\ i \in DOMAIN plan.steps
     /\ c01.at = "running" /\ c01'.at = "running" /\ c01'.cycle = c01.cycle /\ c01'.step = i
     /\ caps' = caps /\ plan' = plan /\ preview' = preview
     /\ c01'.photos = c01.photos + photo /\ c01'.videos = c01.videos + video
     /\ c01'.kept.p = c01.kept.p + MediaSize(step) * photo
     /\ c01'.kept.v = c01.kept.v + MediaSize(step) * video
     /\ c01'.tracked.p = c01.tracked.p + (IF plan.photoCleanup = 0 THEN 0 ELSE photo)
     /\ c01'.tracked.v = c01.tracked.v + (IF plan.videoCleanup = 0 THEN 0 ELSE video)
     /\ c01'.peak = (IF Total5(c01'.tracked) > c01.peak THEN Total5(c01'.tracked) ELSE c01.peak)
     /\ c01'.time = c01.time + Interval(plan, c01.cycle, i)
                      + StepTime(plan, step, plan.videoCheck = "playback" /\ Due(plan.videoEvery, c01.cycle))

LEMMA C01Fields ==
  ASSUME c01 \in C01Types
  PROVE  /\ {c01.cycle, c01.step, c01.photos, c01.videos, c01.peak, c01.time} \subseteq Nat
         /\ c01.kept = [p |-> c01.kept.p, v |-> c01.kept.v] /\ {c01.kept.p, c01.kept.v} \subseteq Nat
         /\ c01.tracked = [p |-> c01.tracked.p, v |-> c01.tracked.v]
         /\ {c01.tracked.p, c01.tracked.v} \subseteq Nat
  BY DEF C01Types, Pairs

\* RunStep is Ran, for the step it takes.
LEMMA RanIs ==
  ASSUME RulesInv, RunStep
  PROVE  c01' \in C01Types /\ \E i \in DOMAIN plan.steps : Ran(i)
<1>1. /\ c01 \in C01Types /\ plan \in PlanTypes /\ c01.at = "running"
      /\ c01.cycle \in 0..plan.cycles - 1 /\ c01.step \in 0..Len(plan.steps)
  BY DEF RulesInv, RulesTypes, Placed, RunStep
<1> DEFINE photo(i) == IF plan.steps[i].action = Photo THEN 1 ELSE 0
           video(i) == IF IsVideo(plan.steps[i]) THEN 1 ELSE 0
           tracked(i) == Added(c01.tracked, IF plan.photoCleanup = 0 THEN 0 ELSE photo(i),
                                            IF plan.videoCleanup = 0 THEN 0 ELSE video(i))
           left(i) == Added(c01.kept, MediaSize(plan.steps[i]) * photo(i),
                                      MediaSize(plan.steps[i]) * video(i))
           peak(i) == IF Total5(tracked(i)) > c01.peak THEN Total5(tracked(i)) ELSE c01.peak
           time(i) == c01.time + Interval(plan, c01.cycle, i)
                        + StepTime(plan, plan.steps[i], plan.videoCheck = "playback"
                                                        /\ Due(plan.videoEvery, c01.cycle))
<1>2. PICK i \in c01.step + 1..Len(plan.steps) :
        /\ Runs(plan, c01.cycle, i) /\ \A j \in c01.step + 1..i - 1 : ~Runs(plan, c01.cycle, j)
        /\ c01' = [c01 EXCEPT !.step = i, !.photos = @ + photo(i), !.videos = @ + video(i),
                     !.kept = left(i), !.tracked = tracked(i), !.peak = peak(i), !.time = time(i)]
  BY DEF RunStep
<1>3. NextStep(plan, c01.cycle, c01.step, i) /\ i \in DOMAIN plan.steps /\ i \in Nat
  BY <1>1, <1>2, StepsOf DEF NextStep
<1>4. photo(i) \in Nat /\ video(i) \in Nat
  OBVIOUS
<1>5. MediaSize(plan.steps[i]) \in Nat
  BY <1>1, <1>3, MediaIs
<1>6. /\ left(i) = [p |-> c01.kept.p + MediaSize(plan.steps[i]) * photo(i),
                    v |-> c01.kept.v + MediaSize(plan.steps[i]) * video(i)]
      /\ tracked(i) = [p |-> c01.tracked.p + (IF plan.photoCleanup = 0 THEN 0 ELSE photo(i)),
                       v |-> c01.tracked.v + (IF plan.videoCleanup = 0 THEN 0 ELSE video(i))]
  BY DEF Added
<1>7. /\ MediaSize(plan.steps[i]) * photo(i) \in Nat /\ MediaSize(plan.steps[i]) * video(i) \in Nat
      /\ (IF plan.photoCleanup = 0 THEN 0 ELSE photo(i)) \in Nat
      /\ (IF plan.videoCleanup = 0 THEN 0 ELSE video(i)) \in Nat
  BY <1>4, <1>5
<1> HIDE DEF photo, video
<1>8. left(i) \in Pairs /\ tracked(i) \in Pairs /\ Total5(tracked(i)) \in Nat
  <2> DEFINE a == c01.kept.p + MediaSize(plan.steps[i]) * photo(i)
             b == c01.kept.v + MediaSize(plan.steps[i]) * video(i)
             d == c01.tracked.p + (IF plan.photoCleanup = 0 THEN 0 ELSE photo(i))
             e == c01.tracked.v + (IF plan.videoCleanup = 0 THEN 0 ELSE video(i))
  <2>0. c01.kept.p \in Nat /\ c01.kept.v \in Nat /\ c01.tracked.p \in Nat /\ c01.tracked.v \in Nat
    BY <1>1, C01Fields
  <2>2. a \in Nat /\ b \in Nat /\ d \in Nat /\ e \in Nat
    <3> DEFINE m == MediaSize(plan.steps[i]) * photo(i)
               n == MediaSize(plan.steps[i]) * video(i)
               k == IF plan.photoCleanup = 0 THEN 0 ELSE photo(i)
               l == IF plan.videoCleanup = 0 THEN 0 ELSE video(i)
    <3>1. m \in Nat /\ n \in Nat /\ k \in Nat /\ l \in Nat
      BY <1>7
    <3>2. a = c01.kept.p + m /\ b = c01.kept.v + n /\ d = c01.tracked.p + k /\ e = c01.tracked.v + l
      OBVIOUS
    <3> HIDE DEF m, n, k, l
    <3>3. c01.kept.p + m \in Nat
      BY <2>0, <3>1
    <3>4. c01.kept.v + n \in Nat
      BY <2>0, <3>1
    <3>5. c01.tracked.p + k \in Nat
      BY <2>0, <3>1
    <3>6. c01.tracked.v + l \in Nat
      BY <2>0, <3>1
    <3> QED
      BY <3>2, <3>3, <3>4, <3>5, <3>6, Zenon
  <2>3. left(i) = [p |-> a, v |-> b] /\ tracked(i) = [p |-> d, v |-> e]
    BY <1>6
  <2> HIDE DEF a, b, d, e, left, tracked
  <2>1. left(i) \in Pairs /\ tracked(i) \in Pairs
    BY <2>2, <2>3 DEF Pairs
  <2> HIDE DEF tracked
  <2> QED
    BY <2>1 DEF Total5, Pairs
<1>9. peak(i) \in Nat
  <2> HIDE DEF tracked
  <2> QED
    BY <1>1, <1>8, C01Fields
<1>10. time(i) \in Nat
  <2>1. plan.steps[i] \in StepTypes /\ Interval(plan, c01.cycle, i) \in Nat
    BY <1>1, <1>3, StepsOf, TimesAre
  <2>2. (plan.videoCheck = "playback") \in BOOLEAN /\ Due(plan.videoEvery, c01.cycle) \in BOOLEAN
    BY DEF Due
  <2>3. StepTime(plan, plan.steps[i], plan.videoCheck = "playback" /\ Due(plan.videoEvery, c01.cycle)) \in Nat
    BY <1>1, <2>1, <2>2, StepTimeIs, Zenon
  <2> QED
    BY <1>1, <2>1, <2>3, C01Fields
<1> HIDE DEF left, tracked, peak, time
<1>11. c01.photos + photo(i) \in Nat /\ c01.videos + video(i) \in Nat
  <2>1. c01.photos \in Nat /\ c01.videos \in Nat
    BY <1>1, C01Fields
  <2> QED
    BY <1>4, <2>1
<1>12. c01' \in C01Types
  BY <1>1, <1>2, <1>3, <1>8, <1>9, <1>10, <1>11, Zenon DEF C01Types
<1>13. /\ c01'.at = "running" /\ c01'.cycle = c01.cycle /\ c01'.step = i
       /\ c01'.photos = c01.photos + photo(i) /\ c01'.videos = c01.videos + video(i)
       /\ c01'.kept = left(i) /\ c01'.tracked = tracked(i) /\ c01'.peak = peak(i) /\ c01'.time = time(i)
  BY <1>1, <1>2 DEF C01Types
<1>14. caps' = caps /\ plan' = plan /\ preview' = preview
  BY DEF RunStep
<1>15. Ran(i)
  BY <1>1, <1>3, <1>6, <1>13, <1>14 DEF Ran, One, photo, video, peak, time
<1> QED
  BY <1>3, <1>12, <1>15

\* A medium that is made leaves the budget of those to come.
LEMMA RanKept == ASSUME RulesInv, c01' \in C01Types, NEW i, Ran(i) PROVE Kept'
<1> DEFINE c == c01.cycle
           step == plan.steps[i]
           RB(action, s) == RetainedBudget(plan, action, c, s)
<1>1. /\ c01 \in C01Types /\ plan \in PlanTypes /\ plan' = plan /\ c01'.cycle = c /\ c01'.step = i
      /\ NextStep(plan, c, c01.step, i) /\ i \in DOMAIN plan.steps /\ MediaSize(step) \in Nat
      /\ c01'.kept.p = c01.kept.p + MediaSize(step) * One(step.action = Photo)
      /\ c01'.kept.v = c01.kept.v + MediaSize(step) * One(IsVideo(step))
  BY MediaIs DEF RulesInv, RulesTypes, Ran
<1>2. /\ c01.kept.p + RB(Photo, c01.step) <= RetainedBudget(plan, Photo, 0, 0)
      /\ c01.kept.v + (RB("record", c01.step) + RB("slow", c01.step))
           <= RetainedBudget(plan, "record", 0, 0) + RetainedBudget(plan, "slow", 0, 0)
  BY DEF RulesInv, Kept, Ran
<1>3. Photo \in MediaActions /\ "record" \in MediaActions /\ "slow" \in MediaActions
  BY DEF MediaActions, Videos5
<1>4. \A action \in MediaActions :
        /\ RB(action, i) \in Nat /\ RetainedBudget(plan, action, 0, 0) \in Nat
        /\ RB(action, c01.step) = RB(action, i) + (IF step.action = action THEN MediaSize(step) ELSE 0)
  BY <1>1, RetainedAre, RetainedNext
<1>5. {c01.kept.p, c01.kept.v} \subseteq Nat
  BY <1>1, C01Fields
<1> DEFINE size == MediaSize(step)
           p0 == RetainedBudget(plan, Photo, 0, 0)
           v0 == RetainedBudget(plan, "record", 0, 0) + RetainedBudget(plan, "slow", 0, 0)
<1>6. c01'.kept.p + RB(Photo, i) <= p0
  <2>1. size * One(step.action = Photo) = IF step.action = Photo THEN size ELSE 0
    BY <1>1 DEF One
  <2> HIDE DEF RB, size, p0
  <2>2. RB(Photo, i) \in Nat /\ RB(Photo, c01.step) = RB(Photo, i) + (IF step.action = Photo THEN size ELSE 0)
    BY <1>3, <1>4 DEF size
  <2>3. p0 \in Nat /\ size \in Nat /\ c01.kept.p + RB(Photo, c01.step) <= p0
        /\ c01'.kept.p = c01.kept.p + size * One(step.action = Photo)
    BY <1>1, <1>2, <1>3, <1>4 DEF p0, size
  <2> QED
    BY <1>5, <2>1, <2>2, <2>3
<1>7. c01'.kept.v + (RB("record", i) + RB("slow", i)) <= v0
  <2>1. size * One(IsVideo(step)) = (IF step.action = "record" THEN size ELSE 0)
                                    + (IF step.action = "slow" THEN size ELSE 0)
    BY <1>1 DEF One, IsVideo, Videos5
  <2> HIDE DEF RB, size, v0
  <2>2. /\ RB("record", i) \in Nat
        /\ RB("record", c01.step) = RB("record", i) + (IF step.action = "record" THEN size ELSE 0)
        /\ RB("slow", i) \in Nat
        /\ RB("slow", c01.step) = RB("slow", i) + (IF step.action = "slow" THEN size ELSE 0)
    BY <1>3, <1>4 DEF size
  <2>3. v0 \in Nat /\ size \in Nat /\ c01.kept.v + (RB("record", c01.step) + RB("slow", c01.step)) <= v0
        /\ c01'.kept.v = c01.kept.v + size * One(IsVideo(step))
    BY <1>1, <1>2, <1>3, <1>4 DEF v0, size
  <2> QED
    BY <1>5, <2>1, <2>2, <2>3
<1> QED
  BY <1>1, <1>6, <1>7 DEF Kept

\* It is tracked if its kind is cleaned up, and the peak is raised with it.
LEMMA RanTracked == ASSUME RulesInv, c01' \in C01Types, NEW i, Ran(i) PROVE Tracked'
<1> DEFINE c == c01.cycle
           s == c01.step
           step == plan.steps[i]
           known == TrackedAfter(plan)[c]
<1>1. /\ c01 \in C01Types /\ plan \in PlanTypes /\ plan' = plan /\ c01'.cycle = c /\ c01'.step = i
      /\ NextStep(plan, c, s, i) /\ c \in 0..plan.cycles
      /\ c01'.tracked.p = c01.tracked.p + (IF plan.photoCleanup = 0 THEN 0 ELSE One(step.action = Photo))
      /\ c01'.tracked.v = c01.tracked.v + (IF plan.videoCleanup = 0 THEN 0 ELSE One(IsVideo(step)))
      /\ c01'.peak = (IF Total5(c01'.tracked) > c01.peak THEN Total5(c01'.tracked) ELSE c01.peak)
  BY StepsOf DEF RulesInv, RulesTypes, Ran, NextStep
<1>2. /\ c01.tracked.p = known.photos + (IF plan.photoCleanup = 0 THEN 0 ELSE MadeUpTo(plan, c, s, {Photo}))
      /\ c01.tracked.v = known.videos + (IF plan.videoCleanup = 0 THEN 0 ELSE MadeUpTo(plan, c, s, Videos5))
      /\ c01.peak = IF Total5(c01.tracked) > known.most THEN Total5(c01.tracked) ELSE known.most
  BY DEF RulesInv, Tracked, TrackedBy, Ran
<1>3. known \in TrackedTypes
  BY <1>1, TrackedLoop
<1>4. /\ MadeUpTo(plan, c, s, {Photo}) \in Nat /\ MadeUpTo(plan, c, s, Videos5) \in Nat
      /\ MadeUpTo(plan, c, i, {Photo}) = MadeUpTo(plan, c, s, {Photo}) + One(step.action = Photo)
      /\ MadeUpTo(plan, c, i, Videos5) = MadeUpTo(plan, c, s, Videos5) + One(IsVideo(step))
  BY <1>1, MadeNext DEF One, IsVideo
<1>5. One(step.action = Photo) \in {0, 1} /\ One(IsVideo(step)) \in {0, 1}
  BY DEF One
<1> HIDE DEF c, s, step, known
<1>6. known.photos \in Nat /\ known.videos \in Nat /\ known.most \in Nat
  BY <1>3 DEF TrackedTypes
<1>7. /\ c01'.tracked.p = known.photos + (IF plan.photoCleanup = 0 THEN 0 ELSE MadeUpTo(plan, c, i, {Photo}))
      /\ c01'.tracked.v = known.videos + (IF plan.videoCleanup = 0 THEN 0 ELSE MadeUpTo(plan, c, i, Videos5))
  BY <1>1, <1>2, <1>4, <1>5, <1>6
<1>8. c01'.peak = IF Total5(c01'.tracked) > known.most THEN Total5(c01'.tracked) ELSE known.most
  <2>1. /\ Total5(c01.tracked) \in Nat /\ Total5(c01'.tracked) \in Nat
        /\ Total5(c01.tracked) <= Total5(c01'.tracked)
    BY <1>1, <1>5, C01Fields DEF Total5
  <2> QED
    BY <1>1, <1>2, <1>6, <2>1
<1> QED
  BY <1>1, <1>7, <1>8 DEF Tracked, TrackedBy, known, c

\* It takes no longer than its estimate.
LEMMA RanTimed == ASSUME RulesInv, c01' \in C01Types, NEW i, Ran(i) PROVE Timed'
<1> DEFINE c == c01.cycle
           s == c01.step
           step == plan.steps[i]
           checked == plan.videoCheck = "playback"
           due == Due(plan.videoEvery, c)
<1>1. /\ c01 \in C01Types /\ plan \in PlanTypes /\ plan' = plan /\ c01'.cycle = c /\ c01'.step = i
      /\ c01.at = "running" /\ c01'.at = "running"
      /\ NextStep(plan, c, s, i) /\ c \in Nat /\ i \in DOMAIN plan.steps /\ step \in StepTypes
      /\ c01'.time = c01.time + Interval(plan, c, i) + StepTime(plan, step, checked /\ due)
  BY StepsOf DEF RulesInv, RulesTypes, Ran, NextStep
<1>2. c01.time <= TimeTill(plan, c, s) + Intervals + Cleanups
  BY <1>1 DEF RulesInv, Timed
<1>3. Intervals' = Intervals /\ Cleanups' = Cleanups
  BY <1>1 DEF Intervals, Cleanups
<1>4. Intervals \in Nat /\ Cleanups \in Nat
  <2>1. Cardinality(CleaningCycles(plan, c)) \in Nat
    BY <1>1, CleaningNext
  <2>2. CleanupTime(plan) \in Nat /\ plan.cycleInterval \in Nat
    BY <1>1, StepsOf DEF CleanupTime
  <2> HIDE DEF c
  <2> QED
    BY <1>1, <2>1, <2>2 DEF Intervals, Cleanups, c
<1>5. checked \in BOOLEAN /\ due \in BOOLEAN
  BY DEF Due
<1> HIDE DEF checked, due, step
<1>6. /\ StepTime(plan, step, checked) \in Nat /\ StepTime(plan, step, checked /\ due) \in Nat
      /\ StepTime(plan, step, checked /\ due) <= StepTime(plan, step, checked)
  BY <1>1, <1>5, StepTimeIs, Zenon
<1>7. Interval(plan, c, i) \in Nat
  BY <1>1, TimesAre
<1>8. /\ TimeTill(plan, c, s) \in Nat
      /\ TimeTill(plan, c, i) = TimeTill(plan, c, s) + (StepTime(plan, step, checked) + Interval(plan, c, i))
  BY <1>1, TimeNext DEF step, checked
<1>9. c01.time \in Nat
  BY <1>1, C01Fields
<1> HIDE DEF c, s
<1>10. c01'.time <= TimeTill(plan, c, i) + Intervals + Cleanups
  BY <1>1, <1>2, <1>4, <1>6, <1>7, <1>8, <1>9
<1> QED
  BY <1>1, <1>3, <1>10 DEF Timed

\* A step of the run keeps the invariant.
LEMMA RunInv == ASSUME RulesInv, RunStep PROVE RulesInv'
<1>1. PICK i \in DOMAIN plan.steps : Ran(i)
  BY RanIs
<1>2. c01' \in C01Types
  BY RanIs
<1>3. /\ plan \in PlanTypes /\ NextStep(plan, c01.cycle, c01.step, i) /\ caps' = caps /\ plan' = plan
      /\ preview' = preview /\ c01.at = "running" /\ c01'.at = "running"
      /\ c01'.cycle = c01.cycle /\ c01'.step = i
  BY <1>1 DEF RulesInv, RulesTypes, Ran
<1>4. RulesTypes'
  BY <1>2, <1>3 DEF RulesInv, RulesTypes
<1>5. Previewed'
  BY <1>3 DEF RulesInv, Previewed
<1>6. Offered'
  BY <1>3 DEF Offered
<1>7. Placed'
  BY <1>3, StepsOf DEF Placed, NextStep
<1>8. Counted'
  <2>1. /\ c01'.photos = c01.photos + One(plan.steps[i].action = Photo)
        /\ c01'.videos = c01.videos + One(IsVideo(plan.steps[i]))
    BY <1>1 DEF Ran
  <2>2. /\ c01.photos = MadeTill(plan, c01.cycle, c01.step, {Photo})
        /\ c01.videos = MadeTill(plan, c01.cycle, c01.step, Videos5)
    BY <1>3 DEF RulesInv, Counted
  <2>3. /\ MadeTill(plan, c01.cycle, i, {Photo})
             = MadeTill(plan, c01.cycle, c01.step, {Photo}) + One(plan.steps[i].action = Photo)
        /\ MadeTill(plan, c01.cycle, i, Videos5)
             = MadeTill(plan, c01.cycle, c01.step, Videos5) + One(IsVideo(plan.steps[i]))
    BY <1>3, MadeTillNext DEF One, IsVideo
  <2> QED
    BY <1>3, <2>1, <2>2, <2>3 DEF Counted
<1>9. Kept' /\ Tracked' /\ Timed'
  BY <1>1, <1>2, RanKept, RanTracked, RanTimed
<1> QED
  BY <1>4, <1>5, <1>6, <1>7, <1>8, <1>9 DEF RulesInv

-----------------------------------------------------------------------------
(* The end of a cycle keeps it.                                            *)

\* What EndCycle does.
Ended ==
  LET c == c01.cycle
      last == c + 1 = plan.cycles
  IN /\ LastStep(plan, c, c01.step)
     /\ c01.at = "running" /\ c01'.at = (IF last THEN "done" ELSE "running")
     /\ c01'.cycle = c + 1 /\ c01'.step = 0
     /\ caps' = caps /\ plan' = plan /\ preview' = preview
     /\ c01'.photos = c01.photos /\ c01'.videos = c01.videos /\ c01'.peak = c01.peak
     /\ c01'.kept.p = (IF Due(plan.photoCleanup, c) THEN 0 ELSE c01.kept.p)
     /\ c01'.kept.v = (IF Due(plan.videoCleanup, c) THEN 0 ELSE c01.kept.v)
     /\ c01'.tracked.p = (IF Due(plan.photoCleanup, c) THEN 0 ELSE c01.tracked.p)
     /\ c01'.tracked.v = (IF Due(plan.videoCleanup, c) THEN 0 ELSE c01.tracked.v)
     /\ c01'.time = c01.time + (IF last THEN 0 ELSE plan.cycleInterval)
                      + (IF Cleans(plan, c) THEN CleanupTime(plan) ELSE 0)

\* EndCycle is Ended.
LEMMA EndedIs == ASSUME RulesInv, EndCycle PROVE c01' \in C01Types /\ Ended
<1>1. /\ c01 \in C01Types /\ plan \in PlanTypes /\ c01.at = "running"
      /\ LastStep(plan, c01.cycle, c01.step) /\ c01.cycle \in Nat
  BY DEF RulesInv, RulesTypes, Placed, EndCycle, LastStep, C01Types
<1> DEFINE c == c01.cycle
           last == c + 1 = plan.cycles
           at == IF last THEN "done" ELSE "running"
           Left(pair) == [p |-> IF Due(plan.photoCleanup, c) THEN 0 ELSE pair.p,
                          v |-> IF Due(plan.videoCleanup, c) THEN 0 ELSE pair.v]
           left == Left(c01.kept)
           tracked == Left(c01.tracked)
           time == c01.time + (IF last THEN 0 ELSE plan.cycleInterval)
                     + (IF Cleans(plan, c) THEN CleanupTime(plan) ELSE 0)
<1>2. c01' = [c01 EXCEPT !.at = at, !.cycle = c + 1, !.step = 0, !.kept = left, !.tracked = tracked,
                !.time = time]
  BY DEF EndCycle
<1>3. left \in Pairs /\ tracked \in Pairs
  BY <1>1, C01Fields DEF Pairs
<1>4. time \in Nat
  <2>1. c01.time \in Nat /\ plan.cycleInterval \in Nat /\ CleanupTime(plan) \in Nat
    BY <1>1, C01Fields, StepsOf DEF CleanupTime
  <2> QED
    BY <2>1
<1>5. /\ left.p = (IF Due(plan.photoCleanup, c) THEN 0 ELSE c01.kept.p)
      /\ left.v = (IF Due(plan.videoCleanup, c) THEN 0 ELSE c01.kept.v)
      /\ tracked.p = (IF Due(plan.photoCleanup, c) THEN 0 ELSE c01.tracked.p)
      /\ tracked.v = (IF Due(plan.videoCleanup, c) THEN 0 ELSE c01.tracked.v)
  OBVIOUS
<1>6. at \in {"running", "done"} /\ c + 1 \in Nat /\ 0 \in Nat
  BY <1>1
<1>7. caps' = caps /\ plan' = plan /\ preview' = preview
  BY DEF EndCycle
<1> HIDE DEF at, left, tracked, time
<1>8. c01' \in C01Types
  BY <1>1, <1>2, <1>3, <1>4, <1>6 DEF C01Types
<1>9. /\ c01'.at = at /\ c01'.cycle = c + 1 /\ c01'.step = 0 /\ c01'.photos = c01.photos
      /\ c01'.videos = c01.videos /\ c01'.peak = c01.peak /\ c01'.kept = left /\ c01'.tracked = tracked
      /\ c01'.time = time
  BY <1>1, <1>2 DEF C01Types
<1> QED
  BY <1>1, <1>5, <1>7, <1>8, <1>9 DEF Ended, at, time

\* The media of one cleanup: what is left of them, and what is still to come.
LEMMA KeptEnd ==
  ASSUME NEW p \in PlanTypes, NEW c, NEW s, LastStep(p, c, s), c + 1 < p.cycles, NEW action \in MediaActions
  PROVE  /\ RetainedBudget(p, action, c + 1, 0) \in Nat /\ RetainedBudget(p, action, c, s) \in Nat
         /\ RetainedBudget(p, action, 0, 0) \in Nat
         /\ Due(CleanupEvery(p, action), c)
              => RetainedBudget(p, action, c + 1, 0) <= RetainedBudget(p, action, 0, 0)
         /\ ~Due(CleanupEvery(p, action), c)
              => RetainedBudget(p, action, c + 1, 0) = RetainedBudget(p, action, c, s)
<1>1. c \in Nat
  BY StepsOf DEF LastStep
<1>2. Due(CleanupEvery(p, action), c) => CleanupEvery(p, action) # 0
  BY DEF Due
<1>3. /\ RetainedBudget(p, action, c + 1, 0) \in Nat /\ RetainedBudget(p, action, c, s) \in Nat
      /\ RetainedBudget(p, action, 0, 0) \in Nat
  BY RetainedAre
<1>4. Due(CleanupEvery(p, action), c)
        => RetainedBudget(p, action, c + 1, 0) <= RetainedBudget(p, action, 0, 0)
  BY <1>1, <1>2, RetainedAnew
<1>5. ~Due(CleanupEvery(p, action), c)
        => RetainedBudget(p, action, c + 1, 0) = RetainedBudget(p, action, c, s)
  BY RetainedOn
<1> QED
  BY <1>3, <1>4, <1>5

\* A cleanup deletes what is kept; without one, as much is still to come.
LEMMA EndKept == ASSUME RulesInv, c01' \in C01Types, Ended PROVE Kept'
<1> SUFFICES ASSUME c01'.at = "running" PROVE Kept'
  BY DEF Kept
<1> DEFINE c == c01.cycle
           s == c01.step
           p0 == RetainedBudget(plan, Photo, 0, 0)
           r0 == RetainedBudget(plan, "record", 0, 0)
           w0 == RetainedBudget(plan, "slow", 0, 0)
           p1 == RetainedBudget(plan, Photo, c, s)
           r1 == RetainedBudget(plan, "record", c, s)
           w1 == RetainedBudget(plan, "slow", c, s)
           p2 == RetainedBudget(plan, Photo, c + 1, 0)
           r2 == RetainedBudget(plan, "record", c + 1, 0)
           w2 == RetainedBudget(plan, "slow", c + 1, 0)
<1>1. /\ c01 \in C01Types /\ plan \in PlanTypes /\ plan' = plan /\ c01'.cycle = c + 1 /\ c01'.step = 0
      /\ LastStep(plan, c, s)
      /\ c01'.kept.p = (IF Due(plan.photoCleanup, c) THEN 0 ELSE c01.kept.p)
      /\ c01'.kept.v = (IF Due(plan.videoCleanup, c) THEN 0 ELSE c01.kept.v)
  BY DEF RulesInv, RulesTypes, Ended
<1>2. c + 1 < plan.cycles
  <2>1. c + 1 # plan.cycles
    BY DEF Ended
  <2> QED
    BY <1>1, <2>1, StepsOf DEF LastStep
<1>3. c01.kept.p + p1 <= p0 /\ c01.kept.v + (r1 + w1) <= r0 + w0
  BY DEF RulesInv, Kept, Ended
<1>4. c01.kept.p \in Nat /\ c01.kept.v \in Nat
  BY <1>1, C01Fields
<1>5. /\ CleanupEvery(plan, Photo) = plan.photoCleanup
      /\ CleanupEvery(plan, "record") = plan.videoCleanup /\ CleanupEvery(plan, "slow") = plan.videoCleanup
  BY DEF CleanupEvery, Photo
<1>6. Photo \in MediaActions /\ "record" \in MediaActions /\ "slow" \in MediaActions
  BY DEF MediaActions, Videos5
<1>7. /\ p2 \in Nat /\ p1 \in Nat /\ p0 \in Nat
      /\ Due(plan.photoCleanup, c) => p2 <= p0
      /\ ~Due(plan.photoCleanup, c) => p2 = p1
  BY <1>1, <1>2, <1>5, <1>6, KeptEnd
<1>8. /\ r2 \in Nat /\ r1 \in Nat /\ r0 \in Nat
      /\ Due(plan.videoCleanup, c) => r2 <= r0
      /\ ~Due(plan.videoCleanup, c) => r2 = r1
  BY <1>1, <1>2, <1>5, <1>6, KeptEnd
<1>9. /\ w2 \in Nat /\ w1 \in Nat /\ w0 \in Nat
      /\ Due(plan.videoCleanup, c) => w2 <= w0
      /\ ~Due(plan.videoCleanup, c) => w2 = w1
  BY <1>1, <1>2, <1>5, <1>6, KeptEnd
<1> HIDE DEF p0, r0, w0, p1, r1, w1, p2, r2, w2
<1>10. c01'.kept.p + p2 <= p0
  BY <1>1, <1>3, <1>4, <1>7
<1>11. c01'.kept.v + (r2 + w2) <= r0 + w0
  BY <1>1, <1>3, <1>4, <1>8, <1>9
<1> QED
  BY <1>1, <1>10, <1>11 DEF Kept, p0, r0, w0, p2, r2, w2

\* The loop of the estimate has gone on by the same cycle.
LEMMA EndTracked == ASSUME RulesInv, c01' \in C01Types, Ended PROVE Tracked'
<1> DEFINE c == c01.cycle
           s == c01.step
           known == TrackedAfter(plan)[c]
           next == TrackedAfter(plan)[c + 1]
<1>1. /\ c01 \in C01Types /\ plan \in PlanTypes /\ plan' = plan /\ c01'.cycle = c + 1 /\ c01'.step = 0
      /\ LastStep(plan, c, s) /\ c \in Nat /\ c \in 0..plan.cycles - 1 /\ c \in 0..plan.cycles
      /\ c01'.tracked.p = (IF Due(plan.photoCleanup, c) THEN 0 ELSE c01.tracked.p)
      /\ c01'.tracked.v = (IF Due(plan.videoCleanup, c) THEN 0 ELSE c01.tracked.v)
      /\ c01'.peak = c01.peak
  BY StepsOf DEF RulesInv, RulesTypes, Ended, LastStep
<1>2. /\ c01.tracked.p = known.photos + (IF plan.photoCleanup = 0 THEN 0 ELSE MadeUpTo(plan, c, s, {Photo}))
      /\ c01.tracked.v = known.videos + (IF plan.videoCleanup = 0 THEN 0 ELSE MadeUpTo(plan, c, s, Videos5))
      /\ c01.peak = IF Total5(c01.tracked) > known.most THEN Total5(c01.tracked) ELSE known.most
  BY DEF RulesInv, Tracked, TrackedBy, Ended
<1>3. known \in TrackedTypes /\ next = AfterCycle(plan, c, known)
  BY <1>1, TrackedLoop
<1>4. /\ MadeUpTo(plan, c, s, {Photo}) = MadeInCycle(plan, c, {Photo})
      /\ MadeUpTo(plan, c, s, Videos5) = MadeInCycle(plan, c, Videos5)
      /\ MadeUpTo(plan, c + 1, 0, {Photo}) = 0 /\ MadeUpTo(plan, c + 1, 0, Videos5) = 0
  BY <1>1, MadeEnd, MadeBegin
<1> DEFINE t == c01.tracked.p
           u == c01.tracked.v
<1>5. /\ t \in Nat /\ u \in Nat /\ next \in TrackedTypes
      /\ next.photos = (IF Due(plan.photoCleanup, c) THEN 0 ELSE t)
      /\ next.videos = (IF Due(plan.videoCleanup, c) THEN 0 ELSE u)
      /\ next.most = (IF t + u > known.most THEN t + u ELSE known.most)
  <2> DEFINE photos == known.photos + (IF plan.photoCleanup = 0 THEN 0 ELSE MadeInCycle(plan, c, {Photo}))
             videos == known.videos + (IF plan.videoCleanup = 0 THEN 0 ELSE MadeInCycle(plan, c, Videos5))
  <2>1. t = photos /\ u = videos
    BY <1>2, <1>4
  <2> HIDE DEF t, u, known, next, c
  <2>2. /\ photos \in Nat /\ videos \in Nat /\ AfterCycle(plan, c, known) \in TrackedTypes
        /\ AfterCycle(plan, c, known).photos = (IF Due(plan.photoCleanup, c) THEN 0 ELSE photos)
        /\ AfterCycle(plan, c, known).videos = (IF Due(plan.videoCleanup, c) THEN 0 ELSE videos)
        /\ AfterCycle(plan, c, known).most
             = (IF photos + videos > known.most THEN photos + videos ELSE known.most)
    BY <1>1, <1>3, AfterCycleIs, Zenon
  <2> HIDE DEF photos, videos
  <2> QED
    BY <1>3, <2>1, <2>2, Zenon
<1>6. known.most \in Nat /\ next.photos \in Nat /\ next.videos \in Nat
  BY <1>3, <1>5 DEF TrackedTypes
<1> HIDE DEF t, u, next, known
<1>7. c01'.tracked.p = next.photos /\ c01'.tracked.v = next.videos
  BY <1>1, <1>5 DEF t, u
<1>8. c01'.peak = next.most
  BY <1>1, <1>2, <1>5 DEF Total5, t, u
<1>9. Total5(c01'.tracked) <= next.most /\ Total5(c01'.tracked) \in Nat /\ next.most \in Nat
  BY <1>5, <1>6, <1>7 DEF Total5
<1>10. c01'.peak = IF Total5(c01'.tracked) > next.most THEN Total5(c01'.tracked) ELSE next.most
  BY <1>8, <1>9
<1>11. /\ c01'.tracked.p
            = next.photos + (IF plan.photoCleanup = 0 THEN 0 ELSE MadeUpTo(plan, c + 1, 0, {Photo}))
       /\ c01'.tracked.v
            = next.videos + (IF plan.videoCleanup = 0 THEN 0 ELSE MadeUpTo(plan, c + 1, 0, Videos5))
  BY <1>4, <1>6, <1>7
<1> QED
  BY <1>1, <1>10, <1>11 DEF Tracked, TrackedBy, next

\* A cleanup and the interval take the time of the estimate.
LEMMA EndTimed == ASSUME RulesInv, c01' \in C01Types, Ended PROVE Timed'
<1> DEFINE c == c01.cycle
           s == c01.step
           last == c + 1 = plan.cycles
           ci == plan.cycleInterval
           ct == CleanupTime(plan)
           n == Cardinality(CleaningCycles(plan, c))
           m == Cardinality(CleaningCycles(plan, c + 1))
           t == TimeTill(plan, c, s)
<1>1. /\ c01 \in C01Types /\ plan \in PlanTypes /\ plan' = plan /\ c01'.cycle = c + 1 /\ c01'.step = 0
      /\ LastStep(plan, c, s) /\ c \in Nat /\ c01.at = "running"
      /\ c01'.at = (IF last THEN "done" ELSE "running")
      /\ c01'.time = c01.time + (IF last THEN 0 ELSE ci) + (IF Cleans(plan, c) THEN ct ELSE 0)
  BY StepsOf DEF RulesInv, RulesTypes, Ended, LastStep
<1>2. c01.time <= t + Intervals + Cleanups
  BY <1>1 DEF RulesInv, Timed
<1>3. Intervals = c * ci /\ Cleanups = n * ct
  BY <1>1 DEF Intervals, Cleanups
<1>4. ci \in Nat /\ ct \in Nat
  BY <1>1, StepsOf DEF CleanupTime
<1>5. n \in Nat /\ m = n + (IF Cleans(plan, c) THEN 1 ELSE 0)
  BY <1>1, CleaningNext
<1>6. TimeTill(plan, c + 1, 0) = t /\ t \in Nat
  <2>1. Past(plan, c + 1, 0) = Past(plan, c, s) /\ Past(plan, c, s) \subseteq Executed(plan)
    BY <1>1, PastEnd DEF Past
  <2>2. IsFiniteSet(Past(plan, c, s)) /\ \A e \in Past(plan, c, s) : Times(plan)[e] \in Nat
    BY <1>1, <2>1, ExecutedIs, TimesAre, FS_Subset
  <2>3. SumOver(Times(plan), Past(plan, c, s)) \in Nat
    BY <2>2, UnitsFinite
  <2> QED
    BY <2>1, <2>3 DEF TimeTill
<1>7. Cleanups' = m * ct
  BY <1>1 DEF Cleanups
<1>8. Intervals' = (IF last THEN c ELSE c + 1) * ci
  <2>1. last => plan.cycles - 1 = c
    BY <1>1
  <2> QED
    BY <1>1, <2>1 DEF Intervals
<1>9. c01.time \in Nat
  BY <1>1, C01Fields
<1> HIDE DEF c, s, last, ci, ct, n, m, t
<1>10. (IF last THEN c ELSE c + 1) * ci = c * ci + (IF last THEN 0 ELSE ci)
  BY <1>1, <1>4
<1>11. m * ct = n * ct + (IF Cleans(plan, c) THEN ct ELSE 0)
  BY <1>4, <1>5
<1>12. c * ci \in Nat /\ n * ct \in Nat
  BY <1>1, <1>4, <1>5
<1> DEFINE i0 == c * ci
           k0 == n * ct
           i1 == IF last THEN 0 ELSE ci
           k1 == IF Cleans(plan, c) THEN ct ELSE 0
<1>13. i0 \in Nat /\ k0 \in Nat /\ i1 \in Nat /\ k1 \in Nat
  BY <1>4, <1>12
<1>14. /\ Intervals' = i0 + i1 /\ Cleanups' = k0 + k1 /\ c01'.time = c01.time + i1 + k1
       /\ c01.time <= t + i0 + k0
  BY <1>1, <1>2, <1>3, <1>7, <1>8, <1>10, <1>11
<1> HIDE DEF i0, k0, i1, k1
<1>15. c01'.time <= t + Intervals' + Cleanups'
  BY <1>6, <1>9, <1>13, <1>14
<1> QED
  BY <1>1, <1>6, <1>15 DEF Timed

\* The end of a cycle keeps the invariant.
LEMMA EndInv == ASSUME RulesInv, EndCycle PROVE RulesInv'
<1>1. Ended /\ c01' \in C01Types
  BY EndedIs
<1>2. /\ plan \in PlanTypes /\ LastStep(plan, c01.cycle, c01.step) /\ caps' = caps /\ plan' = plan
      /\ preview' = preview /\ c01.at = "running" /\ c01'.cycle = c01.cycle + 1 /\ c01'.step = 0
      /\ c01'.at = (IF c01.cycle + 1 = plan.cycles THEN "done" ELSE "running")
  BY <1>1 DEF RulesInv, RulesTypes, Ended
<1>3. RulesTypes'
  BY <1>1, <1>2 DEF RulesInv, RulesTypes
<1>4. Previewed'
  BY <1>2 DEF RulesInv, Previewed
<1>5. Offered'
  BY <1>2 DEF Offered
<1>6. Placed'
  <2>1. c01.cycle \in 0..plan.cycles - 1 /\ plan.cycles \in Nat /\ Len(plan.steps) \in Nat
    BY <1>2, StepsOf DEF LastStep
  <2> QED
    BY <1>2, <2>1 DEF Placed
<1>7. Counted'
  <2>1. c01'.photos = c01.photos /\ c01'.videos = c01.videos
    BY <1>1 DEF Ended
  <2>2. /\ c01.photos = MadeTill(plan, c01.cycle, c01.step, {Photo})
        /\ c01.videos = MadeTill(plan, c01.cycle, c01.step, Videos5)
    BY <1>2 DEF RulesInv, Counted
  <2>3. \A kinds : MadeTill(plan, c01.cycle + 1, 0, kinds) = MadeTill(plan, c01.cycle, c01.step, kinds)
    BY <1>2, PastEnd DEF MadeTill
  <2> QED
    BY <1>2, <2>1, <2>2, <2>3 DEF Counted
<1>8. Kept' /\ Tracked' /\ Timed'
  BY <1>1, EndKept, EndTracked, EndTimed
<1> QED
  BY <1>3, <1>4, <1>5, <1>6, <1>7, <1>8 DEF RulesInv

-----------------------------------------------------------------------------
(* What it tells.                                                          *)

\* A product with a larger number is no smaller.
LEMMA MoreTimes ==
  ASSUME NEW a \in Nat, NEW b \in Nat, a <= b, NEW k \in Nat
  PROVE  a * k <= b * k /\ a * k \in Nat /\ b * k \in Nat
<1>1. b - a \in Nat /\ b = a + (b - a)
  OBVIOUS
<1> DEFINE d == b - a
<1>2. (a + d) * k = a * k + d * k
  BY <1>1
<1>3. a * k \in Nat /\ d * k \in Nat
  BY <1>1
<1> HIDE DEF d
<1>4. b = a + d
  BY <1>1 DEF d
<1> QED
  BY <1>2, <1>3, <1>4

\* The estimate, before it is cut off at the maximum.
Total(p) ==
  TimeTill(p, p.cycles, 0) + (p.cycles - 1) * p.cycleInterval
  + Cardinality(CleaningCycles(p, p.cycles)) * CleanupTime(p)

\* At the end everything is past.
LEMMA AllPast == ASSUME NEW p \in PlanTypes PROVE Past(p, p.cycles, 0) = Executed(p)
  BY ExecutedIs DEF Past

\* The estimate is the total, cut off.
LEMMA EstimateIs ==
  ASSUME NEW p \in PlanTypes
  PROVE  /\ Total(p) \in Nat
         /\ EstimatedRuntime(p) = IF Total(p) < MaxRuntime THEN Total(p) ELSE MaxRuntime
<1>1. p.cycles \in Nat \ {0} /\ p.cycleInterval \in Nat /\ CleanupTime(p) \in Nat
  BY StepsOf DEF CleanupTime
<1>2. TimeTill(p, p.cycles, 0) = SumOver(Times(p), Executed(p))
  BY AllPast DEF TimeTill
<1>3. SumOver(Times(p), Executed(p)) \in Nat
  BY ExecutedIs, TimesAre, UnitsFinite
<1>4. Cardinality(CleaningCycles(p, p.cycles)) \in Nat
  BY <1>1, CleaningNext
<1>5. (p.cycles - 1) * p.cycleInterval \in Nat
  BY <1>1
<1>6. Cardinality(CleaningCycles(p, p.cycles)) * CleanupTime(p) \in Nat
  BY <1>1, <1>4
<1>7. Total(p) \in Nat
  BY <1>2, <1>3, <1>5, <1>6 DEF Total
<1>8. EstimatedRuntime(p) = IF Total(p) < MaxRuntime THEN Total(p) ELSE MaxRuntime
  BY <1>2 DEF EstimatedRuntime, Total
<1> QED
  BY <1>7, <1>8

\* What has been done so far is in the total.
LEMMA TimeSoFar ==
  ASSUME NEW p \in PlanTypes, NEW c \in 0..p.cycles - 1, NEW s
  PROVE  TimeTill(p, c, s) + c * p.cycleInterval + Cardinality(CleaningCycles(p, c)) * CleanupTime(p)
           <= Total(p)
<1> DEFINE ci == p.cycleInterval
           ct == CleanupTime(p)
           n == Cardinality(CleaningCycles(p, c))
           m == Cardinality(CleaningCycles(p, p.cycles))
           t == TimeTill(p, c, s)
           all == TimeTill(p, p.cycles, 0)
<1>1. /\ p.cycles \in Nat \ {0} /\ ci \in Nat /\ ct \in Nat
      /\ c \in Nat /\ c <= p.cycles - 1 /\ p.cycles - 1 \in Nat
  BY StepsOf DEF CleanupTime
<1>2. t <= all /\ t \in Nat /\ all \in Nat
  <2>1. Past(p, c, s) \in SUBSET Executed(p) /\ Past(p, p.cycles, 0) = Executed(p)
    BY AllPast DEF Past
  <2>2. IsFiniteSet(Executed(p)) /\ \A e \in Executed(p) : Times(p)[e] \in Nat
    BY ExecutedIs, TimesAre
  <2>3. SumOver(Times(p), Past(p, c, s)) <= SumOver(Times(p), Executed(p))
    BY <2>1, <2>2, SumSubset
  <2>4. IsFiniteSet(Past(p, c, s))
    BY <2>1, <2>2, FS_Subset
  <2>5. SumOver(Times(p), Past(p, c, s)) \in Nat /\ SumOver(Times(p), Executed(p)) \in Nat
    BY <2>1, <2>2, <2>4, UnitsFinite
  <2> QED
    BY <2>1, <2>3, <2>5 DEF TimeTill
<1>3. n <= m /\ n \in Nat /\ m \in Nat
  <2>1. CleaningCycles(p, c) \in SUBSET CleaningCycles(p, p.cycles)
    BY <1>1 DEF CleaningCycles
  <2>2. IsFiniteSet(CleaningCycles(p, p.cycles))
    <3>1. CleaningCycles(p, p.cycles) \in SUBSET (0..p.cycles - 1)
      BY DEF CleaningCycles
    <3>2. IsFiniteSet(0..p.cycles - 1)
      BY <1>1, BelowFinite
    <3> QED
      BY <3>1, <3>2, FS_Subset
  <2>3. n <= m
    BY <2>1, <2>2, FS_Subset
  <2> QED
    BY <1>1, <2>3, CleaningNext
<1> HIDE DEF ci, ct, n, m, t, all
<1>4. c * ci <= (p.cycles - 1) * ci /\ c * ci \in Nat /\ (p.cycles - 1) * ci \in Nat
  BY <1>1, MoreTimes
<1>5. n * ct <= m * ct /\ n * ct \in Nat /\ m * ct \in Nat
  BY <1>1, <1>3, MoreTimes
<1>6. t + c * ci + n * ct <= all + (p.cycles - 1) * ci + m * ct
  <2> DEFINE x == c * ci
             y == n * ct
             z == (p.cycles - 1) * ci
             w == m * ct
  <2>1. x \in Nat /\ y \in Nat /\ z \in Nat /\ w \in Nat /\ x <= z /\ y <= w
    BY <1>4, <1>5
  <2> HIDE DEF x, y, z, w
  <2>2. t + x + y <= all + z + w
    BY <1>2, <2>1
  <2> QED
    BY <2>2 DEF x, y, z, w
<1> QED
  BY <1>6 DEF Total, ci, ct, n, m, t, all

\* The PC watches a run as long as it is estimated to last.
LEMMA Watched ==
  ASSUME NEW estimate \in Nat, estimate <= MaxRuntime
  PROVE  estimate <= MonitorTimeout(estimate)
<1>1. MaxRuntime \in Nat /\ MinGrace \in Nat /\ EndGrace \in Nat
  BY CustomRulesAssumption
<1>2. estimate \div 5 \in Nat
  OBVIOUS
<1> DEFINE grace == IF estimate \div 5 > MinGrace THEN estimate \div 5 ELSE MinGrace
<1>3. grace \in Nat
  BY <1>1, <1>2
<1> HIDE DEF grace
<1>4. MonitorTimeout(estimate)
        = IF estimate = 0 \/ estimate > MaxRuntime \/ estimate + grace > MaxRuntime + EndGrace
          THEN MaxRuntime + EndGrace ELSE estimate + grace
  BY DEF MonitorTimeout, grace
<1> QED
  BY <1>1, <1>3, <1>4

\* The invariant tells what a run keeps within, what it has announced and what is offered.
LEMMA RunningTold == ASSUME RulesInv PROVE RunWithinPreview
<1> SUFFICES ASSUME c01.at = "running" PROVE RunWithinPreview
  BY DEF RunWithinPreview
<1> DEFINE c == c01.cycle
           s == c01.step
           after == TrackedAfter(plan)
<1>1. /\ c01 \in C01Types /\ plan \in PlanTypes /\ caps \in CapsTypes /\ preview = Shown(plan)
      /\ MaxTracked(plan) <= TrackLimit
      /\ caps.storageKnown => caps.safe + StorageBudget(plan, 0, 0) <= caps.available
      /\ c \in 0..plan.cycles - 1 /\ c \in Nat /\ c \in 0..plan.cycles /\ c + 1 \in 0..plan.cycles
  BY StepsOf DEF RulesInv, RulesTypes, Previewed, Placed
<1>2. /\ preview.budget = StorageBudget(plan, 0, 0) /\ preview.tracked = MaxTracked(plan)
      /\ preview.runtime = EstimatedRuntime(plan)
  BY <1>1 DEF Shown
<1>3. c01.kept.p \in Nat /\ c01.kept.v \in Nat /\ c01.time \in Nat
  BY <1>1, C01Fields
<1>4. /\ c01.kept.p + RetainedBudget(plan, Photo, c, s) <= RetainedBudget(plan, Photo, 0, 0)
      /\ Total5(c01.kept) <= StorageBudget(plan, 0, 0) /\ Total5(c01.kept) \in Nat
      /\ StorageBudget(plan, 0, 0) \in Nat
  <2>1. \A action \in MediaActions :
          RetainedBudget(plan, action, 0, 0) \in Nat /\ RetainedBudget(plan, action, c, s) \in Nat
    BY <1>1, RetainedAre
  <2>2. Photo \in MediaActions /\ "record" \in MediaActions /\ "slow" \in MediaActions
    BY DEF MediaActions, Videos5
  <2>3. /\ RetainedBudget(plan, Photo, 0, 0) \in Nat /\ RetainedBudget(plan, "record", 0, 0) \in Nat
        /\ RetainedBudget(plan, "slow", 0, 0) \in Nat
        /\ RetainedBudget(plan, Photo, c, s) \in Nat /\ RetainedBudget(plan, "record", c, s) \in Nat
        /\ RetainedBudget(plan, "slow", c, s) \in Nat
    BY <2>1, <2>2
  <2>4. /\ c01.kept.p + RetainedBudget(plan, Photo, c, s) <= RetainedBudget(plan, Photo, 0, 0)
        /\ c01.kept.v + (RetainedBudget(plan, "record", c, s) + RetainedBudget(plan, "slow", c, s))
             <= RetainedBudget(plan, "record", 0, 0) + RetainedBudget(plan, "slow", 0, 0)
    BY DEF RulesInv, Kept
  <2> QED
    BY <1>3, <2>3, <2>4 DEF Total5, StorageBudget
<1>5. caps.storageKnown => caps.safe + Total5(c01.kept) <= caps.available
  <2>1. caps.safe \in Nat /\ caps.available \in Nat
    BY <1>1 DEF CapsTypes
  <2> QED
    BY <1>1, <1>4, <2>1
<1>6. c01.peak <= MaxTracked(plan)
  <2>1. /\ after[c] \in TrackedTypes /\ after[plan.cycles] \in TrackedTypes /\ after[c + 1] \in TrackedTypes
        /\ after[c + 1] = AfterCycle(plan, c, after[c])
    BY <1>1, TrackedLoop, StepsOf
  <2>2. after[c].most <= after[plan.cycles].most /\ after[c + 1].most <= after[plan.cycles].most
    BY <1>1, MostGrows
  <2> DEFINE photos == after[c].photos + (IF plan.photoCleanup = 0 THEN 0 ELSE MadeInCycle(plan, c, {Photo}))
             videos == after[c].videos + (IF plan.videoCleanup = 0 THEN 0 ELSE MadeInCycle(plan, c, Videos5))
  <2>3. /\ c01.tracked.p
             = after[c].photos + (IF plan.photoCleanup = 0 THEN 0 ELSE MadeUpTo(plan, c, s, {Photo}))
        /\ c01.tracked.v
             = after[c].videos + (IF plan.videoCleanup = 0 THEN 0 ELSE MadeUpTo(plan, c, s, Videos5))
        /\ c01.peak = IF Total5(c01.tracked) > after[c].most THEN Total5(c01.tracked) ELSE after[c].most
    BY DEF RulesInv, Tracked, TrackedBy
  <2>4. /\ MadeUpTo(plan, c, s, {Photo}) \in Nat /\ MadeUpTo(plan, c, s, Videos5) \in Nat
        /\ MadeUpTo(plan, c, s, {Photo}) <= MadeInCycle(plan, c, {Photo})
        /\ MadeUpTo(plan, c, s, Videos5) <= MadeInCycle(plan, c, Videos5)
        /\ MadeInCycle(plan, c, {Photo}) \in Nat /\ MadeInCycle(plan, c, Videos5) \in Nat
    BY <1>1, MadeAtMost, MadeIsNumber
  <2> HIDE DEF after, c, s
  <2>5. photos + videos <= AfterCycle(plan, c, after[c]).most
    BY <1>1, <2>1, AfterCycleIs, Zenon
  <2>6. /\ after[c].photos \in Nat /\ after[c].videos \in Nat /\ after[c].most \in Nat
        /\ after[c + 1].most \in Nat /\ after[plan.cycles].most \in Nat
    BY <2>1 DEF TrackedTypes
  <2>7. c01.tracked.p <= photos /\ c01.tracked.v <= videos /\ photos \in Nat /\ videos \in Nat
    BY <2>3, <2>4, <2>6
  <2>8. c01.tracked.p \in Nat /\ c01.tracked.v \in Nat
    BY <1>1, C01Fields
  <2> HIDE DEF photos, videos
  <2>9. Total5(c01.tracked) <= after[c + 1].most /\ Total5(c01.tracked) \in Nat
    BY <2>1, <2>5, <2>6, <2>7, <2>8 DEF Total5
  <2>10. c01.peak <= after[plan.cycles].most
    BY <2>2, <2>3, <2>6, <2>9
  <2> QED
    BY <2>10 DEF MaxTracked, after
<1>7. preview.runtime < MaxRuntime => c01.time <= preview.runtime
  <2>1. Total(plan) \in Nat /\ preview.runtime = IF Total(plan) < MaxRuntime THEN Total(plan) ELSE MaxRuntime
    BY <1>1, <1>2, EstimateIs
  <2>2. c01.time <= TimeTill(plan, c, s) + c * plan.cycleInterval
                      + Cardinality(CleaningCycles(plan, c)) * CleanupTime(plan)
    BY DEF RulesInv, Timed, Intervals, Cleanups
  <2>3. TimeTill(plan, c, s) + c * plan.cycleInterval
          + Cardinality(CleaningCycles(plan, c)) * CleanupTime(plan) <= Total(plan)
    BY <1>1, TimeSoFar
  <2> DEFINE sofar == TimeTill(plan, c, s) + c * plan.cycleInterval
                        + Cardinality(CleaningCycles(plan, c)) * CleanupTime(plan)
  <2>4. sofar \in Int
    <3>1. plan.cycleInterval \in Nat /\ CleanupTime(plan) \in Nat
      BY <1>1, StepsOf DEF CleanupTime
    <3>2. Cardinality(CleaningCycles(plan, c)) \in Nat
      BY <1>1, CleaningNext
    <3>3. TimeTill(plan, c, s) \in Nat
      <4>1. Past(plan, c, s) \subseteq Executed(plan)
        BY DEF Past
      <4>2. IsFiniteSet(Past(plan, c, s)) /\ \A e \in Past(plan, c, s) : Times(plan)[e] \in Nat
        BY <1>1, <4>1, ExecutedIs, TimesAre, FS_Subset
      <4> QED
        BY <4>2, UnitsFinite DEF TimeTill
    <3>4. c * plan.cycleInterval \in Nat
      BY <1>1, <3>1
    <3>5. Cardinality(CleaningCycles(plan, c)) * CleanupTime(plan) \in Nat
      BY <3>1, <3>2
    <3> QED
      BY <3>3, <3>4, <3>5
  <2>5. c01.time <= sofar /\ sofar <= Total(plan)
    BY <2>2, <2>3
  <2> HIDE DEF sofar
  <2>6. MaxRuntime \in Nat
    BY CustomRulesAssumption
  <2> QED
    BY <1>3, <2>1, <2>4, <2>5, <2>6
<1> QED
  BY <1>1, <1>2, <1>4, <1>5, <1>6, <1>7 DEF RunWithinPreview

LEMMA DoneTold == ASSUME RulesInv PROVE RunAsAnnounced
<1> SUFFICES ASSUME c01.at = "done" PROVE RunAsAnnounced
  BY DEF RunAsAnnounced
<1>1. /\ c01 \in C01Types /\ plan \in PlanTypes /\ preview = Shown(plan)
      /\ c01.cycle = plan.cycles /\ c01.step = 0 /\ plan.cycles \in 0..plan.cycles
  BY StepsOf DEF RulesInv, RulesTypes, Previewed, Placed
<1>2. /\ preview.counts = MediaCounts(plan) /\ preview.tracked = MaxTracked(plan)
      /\ preview.runtime = EstimatedRuntime(plan)
  BY <1>1 DEF Shown
<1>3. c01.photos = preview.counts.photos /\ c01.videos = preview.counts.videos
  <2>1. /\ c01.photos = MadeTill(plan, plan.cycles, 0, {Photo})
        /\ c01.videos = MadeTill(plan, plan.cycles, 0, Videos5)
    BY <1>1 DEF RulesInv, Counted
  <2>2. Past(plan, plan.cycles, 0) = Executed(plan)
    BY <1>1, AllPast
  <2>3. /\ MediaCounts(plan).photos = Cardinality({e \in Executed(plan) : plan.steps[e[2]].action = Photo})
        /\ MediaCounts(plan).videos = Cardinality({e \in Executed(plan) : IsVideo(plan.steps[e[2]])})
    BY DEF MediaCounts
  <2>4. {e \in Executed(plan) : plan.steps[e[2]].action = Photo}
          = {e \in Executed(plan) : plan.steps[e[2]].action \in {Photo}}
    OBVIOUS
  <2> QED
    BY <1>2, <2>1, <2>2, <2>3, <2>4 DEF MadeTill, IsVideo
<1>4. c01.peak = preview.tracked
  <2> DEFINE last == TrackedAfter(plan)[plan.cycles]
  <2>1. last \in TrackedTypes /\ last.photos + last.videos <= last.most
    BY <1>1, TrackedLoop, MostGrows
  <2>2. MadeUpTo(plan, plan.cycles, 0, {Photo}) = 0 /\ MadeUpTo(plan, plan.cycles, 0, Videos5) = 0
    BY <1>1, MadeBegin
  <2>3. /\ c01.tracked.p = last.photos + (IF plan.photoCleanup = 0 THEN 0 ELSE 0)
        /\ c01.tracked.v = last.videos + (IF plan.videoCleanup = 0 THEN 0 ELSE 0)
        /\ c01.peak = IF Total5(c01.tracked) > last.most THEN Total5(c01.tracked) ELSE last.most
    BY <1>1, <2>2 DEF RulesInv, Tracked, TrackedBy
  <2> HIDE DEF last
  <2>4. last.photos \in Nat /\ last.videos \in Nat /\ last.most \in Nat
    BY <2>1 DEF TrackedTypes
  <2>5. c01.peak = last.most
    BY <2>1, <2>3, <2>4 DEF Total5
  <2> QED
    BY <1>2, <2>5 DEF MaxTracked, last
<1>5. preview.runtime < MaxRuntime => c01.time <= MonitorTimeout(preview.runtime)
  <2>1. Total(plan) \in Nat /\ preview.runtime = IF Total(plan) < MaxRuntime THEN Total(plan) ELSE MaxRuntime
    BY <1>1, <1>2, EstimateIs
  <2>2. c01.time <= Total(plan)
    BY <1>1 DEF RulesInv, Timed, Intervals, Cleanups, Total
  <2>3. MaxRuntime \in Nat /\ c01.time \in Nat
    BY <1>1, CustomRulesAssumption, C01Fields
  <2>4. ASSUME preview.runtime < MaxRuntime PROVE c01.time <= MonitorTimeout(preview.runtime)
    <3>1. preview.runtime = Total(plan) /\ Total(plan) <= MaxRuntime
      BY <2>1, <2>3, <2>4
    <3>2. Total(plan) <= MonitorTimeout(Total(plan))
      BY <2>1, <3>1, Watched
    <3>3. MonitorTimeout(Total(plan)) \in Nat
      <4>1. MaxRuntime \in Nat /\ MinGrace \in Nat /\ EndGrace \in Nat /\ Total(plan) \div 5 \in Nat
        BY <2>1, CustomRulesAssumption
      <4> QED
        BY <2>1, <4>1 DEF MonitorTimeout
    <3> QED
      BY <2>1, <2>2, <2>3, <3>1, <3>2, <3>3
  <2> QED
    BY <2>4
<1> QED
  BY <1>3, <1>4, <1>5 DEF RunAsAnnounced

LEMMA EditedTold == ASSUME RulesInv PROVE OfferedUsable
<1> SUFFICES ASSUME c01.at = "edited", NEW a \in caps.actions
             PROVE  \/ \E option \in 0..1 : ValidStep([Step5(a, 0, 0) EXCEPT !.option = option], caps)
                    \/ a = "verify" /\ caps.options["pages"] = {}
  BY DEF OfferedUsable
<1>1. caps \in CapsTypes /\ Accepted(caps)
  BY DEF RulesInv, RulesTypes, Offered
<1> DEFINE with(option) == [Step5(a, 0, 0) EXCEPT !.option = option]
<1>2. \A option : with(option).action = a /\ with(option).ui = FALSE /\ with(option).option = option
  BY DEF Step5
<1>3. CASE a \notin DOMAIN OptionsOf
  <2>1. a # "verify"
    BY <1>3, ActionsAre
  <2>2. ValidStep(with(0), caps)
    BY <1>2, <1>3, <2>1 DEF ValidStep
  <2> QED
    BY <2>2
<1>4. CASE a \in DOMAIN OptionsOf
  <2>1. /\ OptionsOf[a] \in Fields
        /\ caps.options[OptionsOf[a]] # {} /\ caps.options[OptionsOf[a]] \subseteq {0, 1}
    <3>1. OptionsOf[a] \in Fields
      BY <1>4, ActionsAre
    <3>2. caps.options \in [Fields -> SUBSET {0, 1}]
      BY <1>1 DEF CapsTypes
    <3> QED
      BY <1>1, <1>4, <3>1, <3>2 DEF Accepted
  <2>2. PICK option \in caps.options[OptionsOf[a]] : option \in {0, 1}
    BY <2>1
  <2>3. CASE a = "verify" /\ caps.options["pages"] = {}
    BY <2>3
  <2>4. CASE a # "verify" \/ caps.options["pages"] # {}
    <3>1. ValidStep(with(option), caps)
      BY <1>2, <2>2, <2>4 DEF ValidStep
    <3>2. option \in 0..1
      BY <2>2
    <3> QED
      BY <3>1, <3>2
  <2> QED
    BY <2>3, <2>4
<1> QED
  BY <1>3, <1>4

\* A step of the editor or of the run keeps the invariant.
LEMMA RulesNextInv == ASSUME RulesInv, [RulesNext]_rulesVars PROVE RulesInv'
<1>1. CASE UNCHANGED rulesVars
  BY <1>1 DEF rulesVars, RulesInv, RulesTypes, Previewed, Offered, Placed, Counted, Kept, Tracked,
              TrackedBy, Timed, Intervals, Cleanups
<1> QED
  BY <1>1, ReadInv, SaveInv, RunInv, EndInv DEF RulesNext

LEMMA RulesTold == ASSUME RulesInv PROVE PlanHolds
  BY RunningTold, DoneTold, EditedTold DEF PlanHolds

\* The editor before it has read the capabilities, with any plan, of any length, and any
\* capabilities that leave the safe amount of storage free.
AnyInit == RulesTypes /\ c01.at = "asked"

\* A plan of any cycles and steps, whatever their sizes and times, keeps the promises of
\* its preview when the device runs it (validate_config, the estimates of custom_config.py).
THEOREM AnyPlanHolds == AnyInit /\ [][RulesNext]_rulesVars => []PlanHolds
<1>1. AnyInit => RulesInv
  BY DEF AnyInit, RulesInv, Previewed, Offered, Placed, Counted, Kept, Tracked, Timed
<1>2. RulesInv /\ [RulesNext]_rulesVars => RulesInv'
  BY RulesNextInv
<1>3. RulesInv => PlanHolds
  BY RulesTold
<1> QED
  BY <1>1, <1>2, <1>3, PTL

\* The plans of the specification keep the promises of their previews.
THEOREM RulesHold == RulesSpec => []PlanHolds
<1>1. RulesInit => RulesInv
  BY RulesInitInv
<1>2. RulesInv /\ [RulesNext]_rulesVars => RulesInv'
  BY RulesNextInv
<1>3. RulesInv => PlanHolds
  BY RulesTold
<1> QED
  BY <1>1, <1>2, <1>3, PTL DEF RulesSpec

-----------------------------------------------------------------------------
(* The profile file.                                                       *)

USE ProfileStoreAssumption

Doc == Nat \cup {Absent}
Writing == {"write", "copy", "backup", "replace", "sync"}

\* What a file shows and what the disk has of it are documents, and what it shows was
\* flushed.
Durable(f) == f = File(f.now, f.disk, TRUE) /\ f.now \in Doc /\ f.disk \in Doc

StoreTypes ==
  /\ Durable(active) /\ Durable(backup)
  /\ temp \in [Guis -> [doc : Doc, firm : BOOLEAN]]
  /\ copy \in [Guis -> [doc : Doc, firm : BOOLEAN]]
  /\ lock \in Guis \cup {Nobody}
  /\ pc \in [Guis -> Writing \cup {"closed", "idle"}]
  /\ saves \in Nat /\ kept \in Doc

\* Only the owner of the lock is inside save, with the number of the last save begun;
\* its copies are flushed when they are renamed.
OwnerKnows ==
  \A g \in Guis :
    /\ pc[g] \in Writing => lock = g
    /\ pc[g] \in Writing \ {"sync"} => temp[g].doc = saves
    /\ pc[g] \in {"copy", "backup", "replace"} => temp[g].firm = TRUE
    /\ pc[g] = "backup" => copy[g] = [doc |-> active.now, firm |-> TRUE]
    /\ pc[g] = "replace" /\ active.now # Absent => backup.now = active.now

\* No document is of a later save than the last one begun.
NothingFromTheFuture ==
  /\ active.now \in Nat => active.now <= saves
  /\ active.disk \in Nat => active.disk <= saves
  /\ kept \in Nat => kept <= saves

\* BackupIsLastGood also while somebody is saving.
BackupFollows == backup.now \in {before, active.now}

StoreInv == StoreTypes /\ OwnerKnows /\ NothingFromTheFuture /\ SavedSurvives /\ BackupFollows

LEMMA InitStoreInv == StoreInit => StoreInv
BY DEF StoreInit, StoreInv, StoreTypes, Durable, Doc, Writing, OwnerKnows, NothingFromTheFuture,
       SavedSurvives, BackupFollows, File, NoTemp

\* Opening the file, and beginning a save.
LEMMA BeginStoreInv ==
  ASSUME StoreInv, NEW g \in Guis, Load(g) \/ SaveBegin(g)
  PROVE  StoreInv'
<1>1. CASE Load(g)
  BY <1>1 DEF Load, StoreInv, StoreTypes, Durable, Doc, Writing, OwnerKnows, NothingFromTheFuture,
              SavedSurvives, BackupFollows, File
<1>2. CASE SaveBegin(g)
  <2> USE <1>2 DEF SaveBegin, StoreInv
  <2>1. saves' \in Nat /\ saves < saves' /\ saves' \in Doc
    BY DEF StoreTypes, Doc
  <2>2. StoreTypes'
    BY <2>1 DEF StoreTypes, Durable, Doc, Writing, File
  <2>3. OwnerKnows'
    BY DEF StoreTypes, OwnerKnows, Writing, LockIsFree
  <2>4. NothingFromTheFuture'
    BY <2>1 DEF StoreTypes, Durable, NothingFromTheFuture, Doc
  <2> QED
    BY <2>2, <2>3, <2>4 DEF SavedSurvives, BackupFollows
<1> QED
  BY <1>1, <1>2

\* The new document and the backup.
LEMMA PrepareStoreInv ==
  ASSUME StoreInv, NEW g \in Guis, SaveSynced(g) \/ BackupCopy(g) \/ BackupReplace(g)
  PROVE  StoreInv'
<1> USE DEF StoreInv
<1>1. CASE SaveSynced(g)
  <2> USE <1>1 DEF SaveSynced
  <2>1. StoreTypes'
    BY DEF StoreTypes, Durable, Writing
  <2>2. OwnerKnows'
    BY DEF StoreTypes, OwnerKnows, Writing
  <2> QED
    BY <2>1, <2>2 DEF NothingFromTheFuture, SavedSurvives, BackupFollows
<1>2. CASE BackupCopy(g)
  <2>0. active.now \in Doc
    BY DEF StoreTypes, Durable
  <2> USE <1>2 DEF BackupCopy
  <2>1. copy' \in [Guis -> [doc : Doc, firm : BOOLEAN]]
    <3>1. [doc |-> active.now, firm |-> TRUE] \in [doc : Doc, firm : BOOLEAN]
      BY <2>0
    <3>2. copy' = copy \/ copy' = [copy EXCEPT ![g] = [doc |-> active.now, firm |-> TRUE]]
      BY DEF StoreTypes
    <3>3. copy \in [Guis -> [doc : Doc, firm : BOOLEAN]]
      BY DEF StoreTypes
    <3> HIDE <1>2 DEF BackupCopy
    <3> QED
      BY <3>1, <3>2, <3>3
  <2>2. pc' \in [Guis -> Writing \cup {"closed", "idle"}]
    BY DEF StoreTypes, Writing
  <2>3. StoreTypes'
    BY <2>1, <2>2 DEF StoreTypes, Durable
  <2>4. OwnerKnows'
    BY DEF StoreTypes, OwnerKnows, Writing
  <2> QED
    BY <2>3, <2>4 DEF NothingFromTheFuture, SavedSurvives, BackupFollows
<1>3. CASE BackupReplace(g)
  <2> USE <1>3 DEF BackupReplace
  <2>1. copy[g] = [doc |-> active.now, firm |-> TRUE]
    BY DEF OwnerKnows
  <2>2. PICK synced \in BOOLEAN :
          backup' = File(copy[g].doc, IF synced THEN copy[g].doc ELSE backup.disk, copy[g].firm)
    OBVIOUS
  <2>3. Durable(backup') /\ backup'.now = active.now
    BY <2>1, <2>2 DEF StoreTypes, Durable, File, Doc
  <2>4. StoreTypes'
    BY <2>3 DEF StoreTypes, Durable, Writing, NoTemp, Doc
  <2>5. OwnerKnows'
    BY <2>3 DEF StoreTypes, OwnerKnows, Writing
  <2> QED
    BY <2>3, <2>4, <2>5 DEF NothingFromTheFuture, SavedSurvives, BackupFollows
<1> QED
  BY <1>1, <1>2, <1>3

\* The rename that makes the save the active document.
LEMMA ReplaceStoreInv ==
  ASSUME StoreInv, NEW g \in Guis, SaveReplace(g)
  PROVE  StoreInv'
<1>1. temp[g].doc = saves /\ temp[g].firm = TRUE
  BY DEF SaveReplace, StoreInv, OwnerKnows, Writing
<1>2. active' = File(saves, active.disk, TRUE)
  BY <1>1 DEF SaveReplace
<1>3. active'.now = saves /\ active'.disk = active.disk
  BY <1>2 DEF File
<1>4. Durable(active')
  BY <1>2, <1>3 DEF StoreInv, StoreTypes, Durable, File, Doc
<1> USE DEF StoreInv, SaveReplace
<1>5. before' = backup.now
  BY DEF OwnerKnows
<1>6. StoreTypes'
  BY <1>4 DEF StoreTypes, Writing, NoTemp, Doc
<1>7. OwnerKnows'
  BY DEF StoreTypes, OwnerKnows, Writing
<1>8. NothingFromTheFuture' /\ SavedSurvives'
  BY <1>3 DEF StoreTypes, NothingFromTheFuture, SavedSurvives
<1>9. BackupFollows'
  BY <1>5 DEF BackupFollows
<1> QED
  BY <1>6, <1>7, <1>8, <1>9

\* A save that returns, fails, or is cut off with its process.
LEMMA EndStoreInv ==
  ASSUME StoreInv, NEW g \in Guis, SaveEnd(g) \/ SaveFails(g) \/ Die(g)
  PROVE  StoreInv'
<1> USE DEF StoreInv
<1>1. CASE SaveEnd(g)
  <2> USE <1>1 DEF SaveEnd
  <2>1. /\ active'.now = active.now /\ active'.disk \in {active.disk, active.now}
        /\ Durable(active')
        /\ kept' \in {kept, active.now}
        /\ kept' = active.now => active'.disk = active.now \/ kept = kept'
    BY DEF StoreTypes, Durable, File
  <2>2. StoreTypes'
    BY <2>1 DEF StoreTypes, Durable, Writing
  <2>3. OwnerKnows'
    BY <2>1 DEF StoreTypes, OwnerKnows, Writing
  <2>4. NothingFromTheFuture' /\ BackupFollows'
    BY <2>1 DEF NothingFromTheFuture, BackupFollows
  <2>5. SavedSurvives'
    BY DEF StoreTypes, Durable, File, Doc, SavedSurvives
  <2> QED
    BY <2>2, <2>3, <2>4, <2>5
<1>2. CASE SaveFails(g)
  BY <1>2 DEF SaveFails, StoreTypes, Durable, Doc, Writing, OwnerKnows, NothingFromTheFuture,
              SavedSurvives, BackupFollows, File, NoTemp
<1>3. CASE Die(g)
  BY <1>3 DEF Die, StoreTypes, Durable, Doc, Writing, OwnerKnows, NothingFromTheFuture,
              SavedSurvives, BackupFollows, File, NoTemp
<1> QED
  BY <1>1, <1>2, <1>3

\* What a power loss leaves of a durable file is one of its two documents.
LEMMA AfterPowerLossDurable ==
  ASSUME NEW f, Durable(f), NEW h \in AfterPowerLoss(f)
  PROVE  Durable(h) /\ h.now = h.disk /\ h.now \in {f.now, f.disk}
BY DEF Durable, AfterPowerLoss, File

LEMMA PowerLossStoreInv == StoreInv /\ PowerLoss => StoreInv'
<1> SUFFICES ASSUME StoreInv, PowerLoss PROVE StoreInv'
  OBVIOUS
<1> USE DEF StoreInv, PowerLoss
<1>1. Durable(active') /\ active'.now = active'.disk /\ active'.now \in {active.now, active.disk}
  BY AfterPowerLossDurable DEF StoreTypes
<1>2. Durable(backup')
  BY AfterPowerLossDurable DEF StoreTypes
<1>3. StoreTypes'
  BY <1>1, <1>2 DEF StoreTypes, NoTemp, Writing, Doc
<1>4. OwnerKnows'
  BY DEF OwnerKnows, Writing
<1>5. NothingFromTheFuture' /\ SavedSurvives' /\ BackupFollows'
  BY <1>1 DEF NothingFromTheFuture, SavedSurvives, BackupFollows
<1> QED
  BY <1>3, <1>4, <1>5

LEMMA NextStoreInv == StoreInv /\ [StoreNext]_storeVars => StoreInv'
<1> SUFFICES ASSUME StoreInv, [StoreNext]_storeVars PROVE StoreInv'
  OBVIOUS
<1>1. CASE PowerLoss
  BY <1>1, PowerLossStoreInv
<1>2. CASE \E g \in Guis : Load(g) \/ StoreSave(g) \/ Die(g)
  BY <1>2, BeginStoreInv, PrepareStoreInv, ReplaceStoreInv, EndStoreInv DEF StoreSave
<1>3. CASE UNCHANGED storeVars
  BY <1>3 DEF storeVars, StoreInv, StoreTypes, Durable, OwnerKnows, NothingFromTheFuture,
              SavedSurvives, BackupFollows
<1> QED
  BY <1>1, <1>2, <1>3 DEF StoreNext

LEMMA StoreInvHolds == StoreSpec => []StoreInv
BY InitStoreInv, NextStoreInv, PTL DEF StoreSpec

\* The profile file and its backup are complete documents at every moment (custom_profiles.py:
\* every document is flushed before it is renamed).
THEOREM FilesAlwaysWhole == StoreSpec => []FilesWhole
<1>1. StoreInv => FilesWhole
  BY DEF StoreInv, StoreTypes, Durable, Doc, FilesWhole
<1> QED
  BY <1>1, StoreInvHolds, PTL

\* A save that has returned, its directory synced, is never lost to a crash: the file shows it
\* or a later save, and so does the disk.
THEOREM SavesSurvive == StoreSpec => []SavedSurvives
<1>1. StoreInv => SavedSurvives
  BY DEF StoreInv
<1> QED
  BY <1>1, StoreInvHolds, PTL

\* Outside save the backup is the document before the active one, or the active one.
THEOREM BackupAlwaysLastGood == StoreSpec => []BackupIsLastGood
<1>1. StoreInv => BackupIsLastGood
  BY DEF StoreInv, BackupFollows, BackupIsLastGood
<1> QED
  BY <1>1, StoreInvHolds, PTL
=============================================================================
