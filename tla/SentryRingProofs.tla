-------------------------- MODULE SentryRingProofs --------------------------
(***************************************************************************)
(* The records of the central sentry under reports that preempt each       *)
(* other, for every length of the ring, every number of priorities and     *)
(* any number of reports: theorems about SentryRing.                       *)
(*                                                                         *)
(* The index may be set back, by a report that read it before others       *)
(* stepped it, but never behind where it stood when that report began, and *)
(* it is never further ahead of it than reports have taken a slot since.   *)
(***************************************************************************)
EXTENDS SentryRing, FiniteSetTheorems, TLAPS

(* The slot after i, and how far b is ahead of a.                          *)
Succ(i) == IF i + 1 = Size THEN 0 ELSE i + 1

Dist(a, b) == IF a <= b THEN b - a ELSE b - a + Size

(* Levels between l and k that are to step the index.                      *)
Between(l, k) == {j \in Level : l < j /\ j < k /\ pc[j] = "step"}

Stepping(l, k) == Cardinality(Between(l, k))

(* Seen from slot b, which stands for the slot of report r or for the next *)
(* one, the reports of the levels above l that came after r have moved the *)
(* index by no more than their number, and their slots lie as near.        *)
Bounded(b, r, l) ==
  /\ Dist(b, index) <= taken - r - Stepping(l, Levels + 1)
  /\ \A k \in Pending :
       l < k /\ id[k] > r => Dist(b, target[k]) <= id[k] - r - 1 - Stepping(l, k)

Base(l) == IF pc[l] = "step" THEN target[l] ELSE Succ(target[l])

(* A report preempts only older ones, and what is not lapped is recent.    *)
Order ==
  /\ \A l, k \in Pending : l < k => id[l] < id[k]
  /\ \A l \in Pending : id[l] \in 1 .. taken
  /\ \A l \in Pending : pc[l] = "step" => left[l] = Fields
  /\ \A l \in Level : pc[l] = "take" => left[l] = Fields
  /\ ~lapped => \A l \in Pending : taken - id[l] < Size

Near == \A l \in Pending : Bounded(Base(l), id[l], l)

(* What a report has stored so far is not overwritten.                     *)
Stored ==
  ~lapped => \A l \in Pending : pc[l] = "fill" =>
    \A f \in Fields \ left[l] : buffer[target[l]][f] = id[l]

(* A report that came while none was stepping finds, below it, none that   *)
(* is to step; a finished one knows its slot.                              *)
Outside == \A l, k \in Pending : k < l /\ id[l] \notin inside => pc[k] = "fill"

KeptAt(r, s) ==
  /\ Bounded(Succ(s), r, 0)
  /\ \A k \in Pending : id[k] < r => pc[k] = "fill"
  /\ ~lapped => \A k \in Pending : id[k] < r => target[k] # s
  /\ ~lapped /\ taken - r < Size => Holds(s, r)

Kept ==
  \A r \in (1 .. taken) \ inside : Finished(r) => \E s \in Slots : KeptAt(r, s)

-----------------------------------------------------------------------------
(* Slots.                                                                  *)

USE SentryRingAssumption

(* The step of the index is the next slot.                                 *)
LEMMA NextSlot ==
  ASSUME NEW i \in Slots
  PROVE  (i + 1) % Size = Succ(i) /\ Succ(i) \in Slots
<1>1. i \in Int /\ 0 <= i /\ i < Size
  BY DEF Slots
<1>2. CASE i + 1 = Size
  <2>1. (i + 1) % Size = 0
    BY <1>2, SMT
  <2> QED
    BY <1>2, <2>1 DEF Succ, Slots
<1>3. CASE i + 1 # Size
  <2>1. i + 1 \in 0 .. Size - 1
    BY <1>1, <1>3
  <2>2. (i + 1) % Size = i + 1
    BY <2>1, SMT
  <2> QED
    BY <1>3, <2>1, <2>2 DEF Succ, Slots
<1> QED
  BY <1>2, <1>3

(* A step takes an index at most one slot further.                         *)
LEMMA Distances ==
  ASSUME NEW a \in Slots, NEW b \in Slots
  PROVE  /\ Dist(a, b) \in 0 .. Size - 1
         /\ Dist(a, a) = 0
         /\ Dist(Succ(a), a) = Size - 1
         /\ Dist(a, Succ(b)) <= Dist(a, b) + 1
         /\ Dist(Succ(a), Succ(b)) = Dist(a, b)
BY DEF Dist, Succ, Slots

(* What lies less than a round after the slot following b is not b.        *)
LEMMA NotBehind ==
  ASSUME NEW a \in Slots, NEW b \in Slots, Dist(Succ(b), a) < Size - 1
  PROVE  a # b
BY Distances

-----------------------------------------------------------------------------
(* Counting the levels that are to step the index.                         *)

LEMMA BetweenFinite ==
  ASSUME NEW l, NEW k
  PROVE  IsFiniteSet(Between(l, k)) /\ Stepping(l, k) \in Nat
<1>1. IsFiniteSet(Level)
  BY FS_Interval DEF Level
<1>2. Between(l, k) \in SUBSET Level
  BY DEF Between
<1>3. IsFiniteSet(Between(l, k))
  BY <1>1, <1>2, FS_Subset
<1> QED
  BY <1>3, FS_CardinalityType DEF Stepping

(* While level x runs, all that are to step are below it, or x itself.     *)
LEMMA SteppingBelow ==
  ASSUME NEW x \in Level, Runs(x), NEW l \in 0 .. Levels, l < x
  PROVE  /\ pc[x] # "step" => Stepping(l, Levels + 1) = Stepping(l, x)
         /\ pc[x] = "step" => Stepping(l, Levels + 1) = Stepping(l, x) + 1
         /\ Stepping(x, Levels + 1) = 0
<1>1. Stepping(x, Levels + 1) = 0
  <2>1. Between(x, Levels + 1) = {}
    BY DEF Between, Runs, Level
  <2> QED
    BY <2>1, FS_EmptySet DEF Stepping
<1>2. ASSUME pc[x] # "step"
      PROVE  Stepping(l, Levels + 1) = Stepping(l, x)
  <2>1. Between(l, Levels + 1) = Between(l, x)
    BY <1>2 DEF Between, Runs, Level
  <2> QED
    BY <2>1 DEF Stepping
<1>3. ASSUME pc[x] = "step"
      PROVE  Stepping(l, Levels + 1) = Stepping(l, x) + 1
  <2>1. Between(l, Levels + 1) = Between(l, x) \cup {x} /\ x \notin Between(l, x)
    BY <1>3 DEF Between, Runs, Level
  <2>2. Cardinality(Between(l, x) \cup {x}) = Cardinality(Between(l, x)) + 1
    BY <2>1, BetweenFinite, FS_AddElement
  <2> QED
    BY <2>1, <2>2 DEF Stepping
<1> QED
  BY <1>1, <1>2, <1>3

(* A step of level x leaves the count below it.                            *)
LEMMA SteppingKept ==
  ASSUME NEW x \in Level, \A j \in Level : j # x => pc'[j] = pc[j], NEW l, NEW k \in Level, k <= x
  PROVE  Stepping(l, k)' = Stepping(l, k)
<1>1. Between(l, k)' = Between(l, k)
  BY DEF Between, Level
<1> QED
  BY <1>1 DEF Stepping

-----------------------------------------------------------------------------
(* Bounded is kept by every level above, whose report came after r.        *)

(* A statement that touches neither the ring's index nor a slot taken.     *)
LEMMA BoundedStill ==
  ASSUME NEW b, NEW r, NEW l,
         UNCHANGED <<index, taken, target, id>>, Pending' \subseteq Pending,
         \A j \in Level : pc'[j] = "step" <=> pc[j] = "step",
         Bounded(b, r, l)
  PROVE  Bounded(b, r, l)'
<1>1. \A k : Stepping(l, k)' = Stepping(l, k)
  <2>1. \A k : Between(l, k)' = Between(l, k)
    BY DEF Between
  <2> QED
    BY <2>1 DEF Stepping
<1>2. index' = index /\ taken' = taken /\ target' = target /\ id' = id
  OBVIOUS
<1> QED
  BY <1>1, <1>2, Zenon DEF Bounded

(* A higher level takes a slot.                                            *)
LEMMA BoundedTake ==
  ASSUME TypeOK, NEW x \in Level, take(x), NEW l \in 0 .. Levels, l < x,
         NEW b \in Slots, NEW r \in 0 .. taken, Bounded(b, r, l)
  PROVE  Bounded(b, r, l)'
<1> DEFINE n == Stepping(l, x)
<1>1. /\ pc[x] = "take" /\ Runs(x) /\ pc' = [pc EXCEPT ![x] = "step"]
      /\ index' = index /\ taken' = taken + 1
      /\ target' = [target EXCEPT ![x] = index] /\ id' = [id EXCEPT ![x] = taken + 1]
  BY DEF take
<1>2. n \in Nat /\ Stepping(l, Levels + 1) = n
  BY <1>1, SteppingBelow, BetweenFinite
<1>3. pc \in [Level -> {"idle", "take", "step", "fill"}] /\ x \in Level
  BY DEF TypeOK
<1>4. \A k \in Level : k <= x => Stepping(l, k)' = Stepping(l, k)
  BY <1>1, <1>3, SteppingKept
<1>5. Stepping(l, Levels + 1)' = n + 1
  <2>1. Between(l, Levels + 1)' = Between(l, x) \cup {x} /\ x \notin Between(l, x)
    BY <1>1, <1>3 DEF Between, Runs, Level
  <2>2. Cardinality(Between(l, x) \cup {x}) = Cardinality(Between(l, x)) + 1
    BY <2>1, BetweenFinite, FS_AddElement
  <2> QED
    BY <2>1, <2>2 DEF Stepping
<1>6. Dist(b, index) <= taken - r - n
  BY <1>2 DEF Bounded
<1>7. taken \in Nat /\ index \in Slots /\ Dist(b, index) \in Int
  BY Distances DEF TypeOK
<1>8. Dist(b, index)' <= taken' - r - Stepping(l, Levels + 1)'
  BY <1>1, <1>2, <1>5, <1>6, <1>7 DEF Dist
<1>9. ASSUME NEW k \in Pending', l < k, id'[k] > r
      PROVE  Dist(b, target'[k]) <= id'[k] - r - 1 - Stepping(l, k)'
  <2>1. k \in Level /\ k <= x
    BY <1>1, <1>3, <1>9 DEF Pending, Runs, Level
  <2>2. CASE k = x
    <3>1. target'[k] = index /\ id'[k] = taken + 1
      BY <1>1, <2>2 DEF TypeOK
    <3>2. Stepping(l, k)' = n
      BY <1>4, <2>1, <2>2
    <3> QED
      BY <1>2, <1>6, <1>7, <3>1, <3>2
  <2>3. CASE k # x
    <3>1. k \in Pending /\ target'[k] = target[k] /\ id'[k] = id[k]
      BY <1>1, <1>3, <1>9, <2>3 DEF Pending, TypeOK
    <3>2. Stepping(l, k)' = Stepping(l, k)
      BY <1>4, <2>1
    <3> QED
      BY <1>9, <3>1, <3>2 DEF Bounded
  <2> QED
    BY <2>2, <2>3
<1> QED
  BY <1>8, <1>9 DEF Bounded

(* A higher level steps the index, from its own slot or from where it is.  *)
LEMMA BoundedStep ==
  ASSUME TypeOK, NEW x \in Level, step(x), NEW l \in 0 .. Levels, l < x,
         NEW b \in Slots, NEW r \in 0 .. taken, id[x] > r, id[x] <= taken,
         Bounded(b, r, l)
  PROVE  Bounded(b, r, l)'
<1> DEFINE n == Stepping(l, x)
<1>1. /\ pc[x] = "step" /\ Runs(x) /\ pc' = [pc EXCEPT ![x] = "fill"]
      /\ taken' = taken /\ target' = target /\ id' = id
  BY DEF step
<1>2. PICK i \in {target[x], index} : index' = (i + 1) % Size
  BY DEF step
<1>3. pc \in [Level -> {"idle", "take", "step", "fill"}] /\ x \in Pending
  BY <1>1 DEF TypeOK, Pending
<1>4. n \in Nat /\ Stepping(l, Levels + 1) = n + 1
  BY <1>1, SteppingBelow, BetweenFinite
<1>5. \A k \in Level : k <= x => Stepping(l, k)' = Stepping(l, k)
  BY <1>1, <1>3, SteppingKept
<1>6. Stepping(l, Levels + 1)' = n
  <2>1. Between(l, Levels + 1)' = Between(l, x)
    BY <1>1, <1>3 DEF Between, Runs, Level
  <2> QED
    BY <2>1 DEF Stepping
<1>7. /\ taken \in Nat /\ id[x] \in Nat /\ index \in Slots /\ target[x] \in Slots
      /\ index' = Succ(i) /\ i \in Slots
  BY <1>2, NextSlot DEF TypeOK
<1>8. Dist(b, i) <= taken - r - n - 1
  <2>1. CASE i = index
    BY <1>4, <1>7, <2>1 DEF Bounded
  <2>2. CASE i = target[x]
    <3>1. Dist(b, target[x]) <= id[x] - r - 1 - n
      BY <1>3 DEF Bounded
    <3> QED
      BY <1>4, <1>7, <2>2, <3>1, Distances
  <2> QED
    BY <1>2, <2>1, <2>2
<1>9. Dist(b, index') <= taken - r - n
  <2>1. Dist(b, Succ(i)) <= Dist(b, i) + 1 /\ Dist(b, i) \in Int /\ Dist(b, Succ(i)) \in Int
    BY <1>7, Distances, NextSlot
  <2> QED
    BY <1>4, <1>7, <1>8, <2>1
<1>10. ASSUME NEW k \in Pending', l < k, id'[k] > r
       PROVE  Dist(b, target'[k]) <= id'[k] - r - 1 - Stepping(l, k)'
  <2>1. k \in Pending /\ k \in Level /\ k <= x
    BY <1>1, <1>3, <1>10 DEF Pending, Runs, Level
  <2>2. Stepping(l, k)' = Stepping(l, k)
    BY <1>5, <2>1
  <2> QED
    BY <1>1, <1>10, <2>1, <2>2 DEF Bounded
<1> QED
  BY <1>1, <1>6, <1>9, <1>10 DEF Bounded, Dist

-----------------------------------------------------------------------------
(* The types.                                                              *)

LEMMA StepTypeOK == TypeOK /\ [Next]_vars => TypeOK'
<1> SUFFICES ASSUME TypeOK, [Next]_vars PROVE TypeOK'
  OBVIOUS
<1>1. CASE UNCHANGED vars
  BY <1>1 DEF vars, TypeOK
<1>2. ASSUME NEW l \in Level, report(l)
      PROVE  TypeOK'
  BY <1>2 DEF report, TypeOK
<1>3. ASSUME NEW l \in Level, take(l)
      PROVE  TypeOK'
  <2>1. taken \in Nat /\ taken' = taken + 1 /\ 0 .. taken \subseteq 0 .. taken'
    BY <1>3 DEF take, TypeOK
  <2>2. index' \in Slots /\ target' \in [Level -> Slots] /\ left' \in [Level -> SUBSET Fields]
    BY <1>3 DEF take, TypeOK
  <2>3. pc' \in [Level -> {"idle", "take", "step", "fill"}]
    BY <1>3 DEF take, TypeOK
  <2>4. id' \in [Level -> 0 .. taken']
    <3>1. id' = [id EXCEPT ![l] = taken'] /\ id \in [Level -> 0 .. taken]
      BY <1>3 DEF take, TypeOK
    <3> QED
      BY <2>1, <3>1
  <2>5. buffer' \in [Slots -> [Fields -> 0 .. taken']]
    <3>1. [Fields -> 0 .. taken] \subseteq [Fields -> 0 .. taken']
      BY <2>1
    <3> QED
      BY <1>3, <3>1 DEF take, TypeOK
  <2>6. inside' \subseteq 1 .. taken'
    BY <1>3, <2>1 DEF take, TypeOK
  <2>7. lapped' \in BOOLEAN
    BY <1>3 DEF take, TypeOK
  <2> QED
    BY <2>1, <2>2, <2>3, <2>4, <2>5, <2>6, <2>7 DEF TypeOK
<1>4. ASSUME NEW l \in Level, step(l)
      PROVE  TypeOK'
  <2>1. index' \in Slots
    BY <1>4, NextSlot DEF step, TypeOK
  <2> QED
    BY <1>4, <2>1 DEF step, TypeOK
<1>5. ASSUME NEW l \in Level, NEW f \in Fields, store(l, f)
      PROVE  TypeOK'
  <2>1. buffer' \in [Slots -> [Fields -> 0 .. taken']]
    BY <1>5 DEF store, TypeOK
  <2>2. left' \in [Level -> SUBSET Fields]
    BY <1>5 DEF store, TypeOK
  <2> QED
    BY <1>5, <2>1, <2>2 DEF store, TypeOK
<1>6. ASSUME NEW l \in Level, return(l)
      PROVE  TypeOK'
  BY <1>6 DEF return, TypeOK
<1> QED
  BY <1>1, <1>2, <1>3, <1>4, <1>5, <1>6 DEF Next

LEMMA InitTypeOK == Init => TypeOK
<1>1. Init => buffer \in [Slots -> [Fields -> 0 .. taken]]
  BY DEF Init, Default
<1>2. Init => left \in [Level -> SUBSET Fields] /\ inside \subseteq 1 .. taken
  BY DEF Init
<1>3. Init => index \in Slots /\ target \in [Level -> Slots] /\ id \in [Level -> 0 .. taken]
  BY DEF Init, Slots
<1>4. Init => pc \in [Level -> {"idle", "take", "step", "fill"}]
  BY DEF Init
<1>5. Init => taken \in Nat
  BY DEF Init
<1>6. Init => lapped \in BOOLEAN
  BY DEF Init
<1> QED
  BY <1>1, <1>2, <1>3, <1>4, <1>5, <1>6 DEF TypeOK

(* Every variable keeps its type, and the index stays in the ring.         *)
THEOREM TypeCorrect == Spec => []TypeOK
BY InitTypeOK, StepTypeOK, PTL DEF Spec

-----------------------------------------------------------------------------
(* What a level does leaves the pending levels below it as they are.       *)

LEMMA StepOrder == TypeOK /\ Order /\ [Next]_vars => Order'
<1> SUFFICES ASSUME TypeOK, Order, [Next]_vars PROVE Order'
  OBVIOUS
<1>0. pc \in [Level -> {"idle", "take", "step", "fill"}]
  BY DEF TypeOK
<1>1. CASE UNCHANGED vars
  BY <1>1 DEF vars, Order, Pending
<1>2. ASSUME NEW l \in Level, report(l)
      PROVE  Order'
  <2>1. Pending' = Pending /\ l \notin Pending
    BY <1>0, <1>2 DEF report, Pending
  <2> QED
    BY <1>0, <1>2, <2>1 DEF report, Order, TypeOK, Pending
<1>3. ASSUME NEW l \in Level, take(l)
      PROVE  Order'
  <2>1. Pending' = Pending \cup {l} /\ l \notin Pending /\ pc'[l] = "step"
    BY <1>0, <1>3 DEF take, Pending
  <2>2. id' = [id EXCEPT ![l] = taken + 1] /\ taken' = taken + 1 /\ left' = left /\ taken \in Nat
    BY <1>3 DEF take, TypeOK
  <2>3. \A k \in Pending : k < l
    BY <1>3 DEF take, Runs, Pending, Level
  <2>4. \A k \in Pending : id'[k] = id[k] /\ id[k] \in 1 .. taken
    BY <2>1, <2>2 DEF Order, Pending, TypeOK
  <2>5. id'[l] = taken + 1
    BY <2>2 DEF TypeOK
  <2>6. \A m, k \in Pending' : m < k => id'[m] < id'[k]
    BY <2>1, <2>2, <2>3, <2>4, <2>5 DEF Order, Level, Pending
  <2>7. \A k \in Pending' : id'[k] \in 1 .. taken'
    BY <2>1, <2>2, <2>4, <2>5
  <2>8. \A k \in Pending' : pc'[k] = "step" => left'[k] = Fields
    BY <1>0, <1>3, <2>1, <2>2 DEF Order, take, Pending
  <2>9. \A k \in Level : pc'[k] = "take" => left'[k] = Fields
    BY <1>0, <1>3, <2>2 DEF Order, take
  <2>10. ASSUME ~lapped', NEW k \in Pending'
         PROVE  taken' - id'[k] < Size
    <3>1. CASE k = l
      BY <2>2, <2>5, <3>1
    <3>2. CASE k \in Pending
      <4>1. ~(taken' - id[k] >= Size)
        BY <1>3, <2>10, <3>2 DEF take
      <4> QED
        BY <2>2, <2>4, <3>2, <4>1
    <3> QED
      BY <2>1, <3>1, <3>2
  <2> QED
    BY <2>6, <2>7, <2>8, <2>9, <2>10 DEF Order
<1>4. ASSUME NEW l \in Level, step(l)
      PROVE  Order'
  <2>1. Pending' = Pending
    BY <1>0, <1>4 DEF step, Pending
  <2> QED
    BY <1>0, <1>4, <2>1 DEF step, Order, Pending
<1>5. ASSUME NEW l \in Level, NEW f \in Fields, store(l, f)
      PROVE  Order'
  <2>1. Pending' = Pending /\ \A k \in Level : pc[k] # "fill" => left'[k] = left[k]
    BY <1>0, <1>5 DEF store, Pending, TypeOK
  <2> QED
    BY <1>0, <1>5, <2>1 DEF store, Order, Pending
<1>6. ASSUME NEW l \in Level, return(l)
      PROVE  Order'
  <2>1. Pending' = Pending \ {l} /\ \A k \in Level : pc'[k] \in {"idle", pc[k]}
    BY <1>0, <1>6 DEF return, Pending
  <2> QED
    BY <1>0, <1>6, <2>1 DEF return, Order, Pending
<1> QED
  BY <1>1, <1>2, <1>3, <1>4, <1>5, <1>6 DEF Next

LEMMA StepOutside == TypeOK /\ Outside /\ [Next]_vars => Outside'
<1> SUFFICES ASSUME TypeOK, Outside, [Next]_vars PROVE Outside'
  OBVIOUS
<1>0. pc \in [Level -> {"idle", "take", "step", "fill"}]
  BY DEF TypeOK
<1>1. CASE UNCHANGED vars
  BY <1>1 DEF vars, Outside, Pending
<1>2. ASSUME NEW l \in Level, report(l)
      PROVE  Outside'
  <2>1. Pending' = Pending /\ l \notin Pending
    BY <1>0, <1>2 DEF report, Pending
  <2> QED
    BY <1>0, <1>2, <2>1 DEF report, Outside, Pending
<1>3. ASSUME NEW l \in Level, take(l)
      PROVE  Outside'
  <2>1. Pending' = Pending \cup {l} /\ l \notin Pending /\ id' = [id EXCEPT ![l] = taken + 1]
    BY <1>0, <1>3 DEF take, Pending
  <2>2. \A k \in Pending : k < l /\ pc'[k] = pc[k] /\ id'[k] = id[k]
    <3> SUFFICES ASSUME NEW k \in Pending
                 PROVE  k < l /\ pc'[k] = pc[k] /\ id'[k] = id[k]
      OBVIOUS
    <3>1. k \in Level /\ k # l /\ pc[k] # "idle"
      BY <2>1 DEF Pending
    <3>2. k < l
      BY <1>3, <3>1 DEF take, Runs, Level
    <3>3. pc' = [pc EXCEPT ![l] = "step"] /\ id \in [Level -> Nat]
      BY <1>3 DEF take, TypeOK
    <3> QED
      BY <1>0, <2>1, <3>1, <3>2, <3>3
  <2>3. ASSUME NEW k \in Pending, id'[l] \notin inside'
        PROVE  pc'[k] = "fill"
    <3>1. id'[l] = taken'
      BY <1>3, <2>1 DEF take, TypeOK
    <3>2. ~\E m \in Level : pc[m] = "step"
      BY <1>3, <2>3, <3>1 DEF take
    <3> QED
      BY <2>2, <3>2 DEF Pending
  <2>4. inside \subseteq inside'
    BY <1>3 DEF take
  <2> QED
    BY <2>1, <2>2, <2>3, <2>4 DEF Outside, Level, Pending
<1>4. ASSUME NEW l \in Level, step(l)
      PROVE  Outside'
  <2>1. Pending' = Pending /\ \A k \in Level : pc[k] = "fill" => pc'[k] = "fill"
    BY <1>0, <1>4 DEF step, Pending
  <2> QED
    BY <1>4, <2>1 DEF step, Outside, Pending
<1>5. ASSUME NEW l \in Level, NEW f \in Fields, store(l, f)
      PROVE  Outside'
  BY <1>5 DEF store, Outside, Pending
<1>6. ASSUME NEW l \in Level, return(l)
      PROVE  Outside'
  <2>1. Pending' = Pending \ {l} /\ \A k \in Pending' : pc'[k] = pc[k]
    BY <1>0, <1>6 DEF return, Pending
  <2> QED
    BY <1>6, <2>1 DEF return, Outside
<1> QED
  BY <1>1, <1>2, <1>3, <1>4, <1>5, <1>6 DEF Next

(* The slots of pending reports lie near the ones of those they preempt.   *)
LEMMA StepNear == TypeOK /\ Order /\ Near /\ [Next]_vars => Near'
<1> SUFFICES ASSUME TypeOK, Order, Near, [Next]_vars PROVE Near'
  OBVIOUS
<1>0. pc \in [Level -> {"idle", "take", "step", "fill"}]
  BY DEF TypeOK
<1>a. ASSUME NEW m \in Pending
      PROVE  /\ m \in Level /\ m \in 0 .. Levels
             /\ target[m] \in Slots /\ Base(m) \in Slots /\ id[m] \in 0 .. taken
  BY <1>a, NextSlot DEF Pending, Base, TypeOK, Level
<1>1. ASSUME UNCHANGED <<index, taken, target, id>>, Pending' \subseteq Pending,
             \A j \in Level : pc'[j] = "step" <=> pc[j] = "step"
      PROVE  Near'
  <2>1. ASSUME NEW m \in Pending'
        PROVE  Bounded(Base(m), id[m], m)'
    <3>1. m \in Pending /\ m \in Level
      BY <1>1, <1>a, <2>1
    <3>2. PICK b : b = Base(m)
      OBVIOUS
    <3>3. PICK r : r = id[m]
      OBVIOUS
    <3>4. Bounded(b, r, m)
      BY <3>1, <3>2, <3>3 DEF Near
    <3>5. Bounded(b, r, m)'
      BY <1>1, <3>4, BoundedStill
    <3>6. Base(m)' = b /\ id'[m] = r
      BY <1>1, <3>1, <3>2, <3>3 DEF Base, Succ
    <3> QED
      BY <3>5, <3>6 DEF Bounded
  <2> QED
    BY <2>1 DEF Near
<1>2. CASE UNCHANGED vars
  BY <1>1, <1>2 DEF vars, Pending
<1>3. ASSUME NEW l \in Level, report(l)
      PROVE  Near'
  BY <1>0, <1>1, <1>3 DEF report, Pending
<1>4. ASSUME NEW l \in Level, NEW f \in Fields, store(l, f)
      PROVE  Near'
  BY <1>0, <1>1, <1>4 DEF store, Pending
<1>5. ASSUME NEW l \in Level, return(l)
      PROVE  Near'
  BY <1>0, <1>1, <1>5 DEF return, Pending
<1>6. ASSUME NEW l \in Level, take(l)
      PROVE  Near'
  <2>1. /\ pc[l] = "take" /\ Runs(l) /\ Pending' = Pending \cup {l} /\ l \notin Pending
        /\ pc' = [pc EXCEPT ![l] = "step"] /\ taken' = taken + 1 /\ index' = index
        /\ target' = [target EXCEPT ![l] = index] /\ id' = [id EXCEPT ![l] = taken + 1]
    BY <1>0, <1>6 DEF take, Pending
  <2>2. ASSUME NEW m \in Pending
        PROVE  Bounded(Base(m), id[m], m)'
    <3>1. m < l /\ m \in Level
      BY <2>1, <2>2 DEF Pending, Runs, Level
    <3>2. PICK b : b = Base(m)
      OBVIOUS
    <3>3. PICK r : r = id[m]
      OBVIOUS
    <3>4. Bounded(b, r, m) /\ b \in Slots /\ r \in 0 .. taken /\ m \in 0 .. Levels
      BY <1>a, <2>2, <3>2, <3>3 DEF Near
    <3>5. Bounded(b, r, m)'
      BY <1>6, <3>1, <3>4, BoundedTake
    <3>6. Base(m)' = b /\ id'[m] = r
      BY <2>1, <3>1, <3>2, <3>3 DEF Base, Succ
    <3> QED
      BY <3>5, <3>6 DEF Bounded
  <2>3. Bounded(Base(l), id[l], l)'
    <3>1. Base(l)' = index /\ id'[l] = taken + 1
      BY <1>0, <2>1 DEF Base, TypeOK
    <3>2. Dist(index, index) = 0 /\ taken \in Nat
      BY Distances DEF TypeOK
    <3>3. Stepping(l, Levels + 1)' = 0
      <4>1. Between(l, Levels + 1)' = {}
        BY <1>0, <2>1 DEF Between, Runs, Level
      <4> QED
        BY <4>1, FS_EmptySet DEF Stepping
    <3>4. ~\E k \in Pending' : l < k
      BY <2>1 DEF Pending, Runs, Level
    <3> QED
      BY <2>1, <3>1, <3>2, <3>3, <3>4 DEF Bounded, Dist
  <2> QED
    BY <2>1, <2>2, <2>3 DEF Near
<1>7. ASSUME NEW l \in Level, step(l)
      PROVE  Near'
  <2>1. /\ pc[l] = "step" /\ Runs(l) /\ Pending' = Pending /\ l \in Pending
        /\ pc' = [pc EXCEPT ![l] = "fill"] /\ taken' = taken /\ target' = target /\ id' = id
    BY <1>0, <1>7 DEF step, Pending
  <2>2. ASSUME NEW m \in Pending, m # l
        PROVE  Bounded(Base(m), id[m], m)'
    <3>1. m < l /\ m \in Level
      BY <2>1, <2>2 DEF Pending, Runs, Level
    <3>2. PICK b : b = Base(m)
      OBVIOUS
    <3>3. PICK r : r = id[m]
      OBVIOUS
    <3>4. Bounded(b, r, m) /\ b \in Slots /\ r \in 0 .. taken /\ m \in 0 .. Levels
      BY <1>a, <2>2, <3>2, <3>3 DEF Near
    <3>5. id[l] > r /\ id[l] <= taken
      BY <2>1, <2>2, <3>1, <3>3, <3>4 DEF Order, TypeOK
    <3>6. Bounded(b, r, m)'
      BY <1>7, <3>1, <3>4, <3>5, BoundedStep
    <3>7. Base(m)' = b /\ id'[m] = r
      BY <2>1, <2>2, <3>1, <3>2, <3>3 DEF Base, Succ
    <3> QED
      BY <3>6, <3>7 DEF Bounded
  <2>3. Bounded(Base(l), id[l], l)'
    <3>1. Base(l)' = Succ(target[l]) /\ id'[l] = id[l]
      BY <1>0, <2>1 DEF Base, Succ
    <3>2. PICK i \in {target[l], index} : index' = Succ(i)
      BY <1>7, NextSlot DEF step, TypeOK
    <3>3. target[l] \in Slots /\ index \in Slots /\ taken \in Nat /\ id[l] \in 1 .. taken
      BY <2>1 DEF TypeOK, Order
    <3>4. Dist(target[l], index) <= taken - id[l]
      <4>1. Base(l) = target[l] /\ Bounded(Base(l), id[l], l)
        BY <2>1 DEF Base, Near
      <4>2. Stepping(l, Levels + 1) \in Nat
        BY BetweenFinite
      <4>3. Dist(target[l], index) <= taken - id[l] - Stepping(l, Levels + 1)
        BY <4>1 DEF Bounded
      <4> QED
        BY <3>3, <4>2, <4>3, Distances
    <3>5. Dist(Succ(target[l]), index') <= taken - id[l]
      <4>1. Dist(Succ(target[l]), index') = Dist(target[l], i)
        BY <3>2, <3>3, Distances
      <4>2. Dist(target[l], target[l]) = 0
        BY <3>3, Distances
      <4> QED
        BY <3>2, <3>3, <3>4, <4>1, <4>2
    <3>6. Stepping(l, Levels + 1)' = 0
      <4>1. Between(l, Levels + 1)' = {}
        BY <1>0, <2>1 DEF Between, Runs, Level
      <4> QED
        BY <4>1, FS_EmptySet DEF Stepping
    <3>7. ~\E k \in Pending' : l < k
      BY <2>1 DEF Pending, Runs, Level
    <3>8. Dist(Base(l)', index') <= taken' - id'[l] - Stepping(l, Levels + 1)'
      BY <2>1, <3>1, <3>3, <3>5, <3>6
    <3> QED
      BY <3>7, <3>8 DEF Bounded, Dist
  <2> QED
    BY <2>1, <2>2, <2>3 DEF Near
<1> QED
  BY <1>2, <1>3, <1>4, <1>5, <1>6, <1>7 DEF Next

-----------------------------------------------------------------------------
(* Records are whole.                                                      *)

(* A report does not take the slot of one it preempts that has stepped the *)
(* index, but after a whole round of the ring.                             *)
LEMMA SlotsApart ==
  ASSUME TypeOK, Order, Near, ~lapped, NEW k \in Pending, NEW l \in Pending,
         k < l, pc[k] = "fill"
  PROVE  target[k] # target[l]
<1>1. /\ target[k] \in Slots /\ target[l] \in Slots
      /\ id[k] \in 1 .. taken /\ id[l] \in 1 .. taken /\ id[k] < id[l]
      /\ taken \in Nat /\ taken - id[k] < Size
  BY DEF TypeOK, Order, Pending
<1>2. Base(k) = Succ(target[k]) /\ Bounded(Base(k), id[k], k)
  BY DEF Base, Near
<1>3. Dist(Succ(target[k]), target[l]) <= id[l] - id[k] - 1 - Stepping(k, l)
  BY <1>1, <1>2 DEF Bounded
<1>4. Stepping(k, l) \in Nat
  BY BetweenFinite
<1>5. Dist(Succ(target[k]), target[l]) < Size - 1
  BY <1>1, <1>3, <1>4, NextSlot, Distances
<1> QED
  BY <1>1, <1>5, NotBehind

LEMMA StepStored == TypeOK /\ Order /\ Near /\ Stored /\ [Next]_vars => Stored'
<1> SUFFICES ASSUME TypeOK, Order, Near, Stored, [Next]_vars,
                    ~lapped', NEW m \in Pending', pc'[m] = "fill", NEW g \in Fields \ left'[m]
             PROVE  buffer'[target'[m]][g] = id'[m]
  BY DEF Stored
<1>0. pc \in [Level -> {"idle", "take", "step", "fill"}]
  BY DEF TypeOK
<1>1. CASE UNCHANGED vars
  BY <1>1 DEF vars, Stored, Pending
<1>2. ASSUME NEW l \in Level, report(l)
      PROVE  buffer'[target'[m]][g] = id'[m]
  <2>1. m \in Pending /\ m # l /\ pc[m] = "fill"
    BY <1>0, <1>2 DEF report, Pending
  <2> QED
    BY <1>2, <2>1 DEF report, Stored, TypeOK, Pending
<1>3. ASSUME NEW l \in Level, take(l)
      PROVE  buffer'[target'[m]][g] = id'[m]
  <2>1. m \in Pending /\ m # l /\ pc[m] = "fill" /\ ~lapped
    BY <1>0, <1>3 DEF take, Pending
  <2> QED
    BY <1>3, <2>1 DEF take, Stored, TypeOK, Pending
<1>4. ASSUME NEW l \in Level, step(l)
      PROVE  buffer'[target'[m]][g] = id'[m]
  <2>1. m \in Pending /\ left'[m] = left[m]
    BY <1>0, <1>4 DEF step, Pending
  <2>2. m # l
    BY <1>4, <2>1 DEF step, Order, Pending
  <2>3. pc[m] = "fill"
    BY <1>0, <1>4, <2>1, <2>2 DEF step, Pending
  <2> QED
    BY <1>4, <2>1, <2>3 DEF step, Stored
<1>5. ASSUME NEW l \in Level, NEW f \in Fields, store(l, f)
      PROVE  buffer'[target'[m]][g] = id'[m]
  <2>1. /\ m \in Pending /\ l \in Pending /\ pc[m] = "fill" /\ ~lapped /\ pc[l] = "fill"
        /\ Runs(l) /\ target' = target /\ id' = id
        /\ buffer' = [buffer EXCEPT ![target[l]][f] = id[l]]
        /\ left' = [left EXCEPT ![l] = left[l] \ {f}]
    BY <1>0, <1>5 DEF store, Pending
  <2>2. /\ target[l] \in Slots /\ target[m] \in Slots /\ m \in Level
        /\ buffer \in [Slots -> [Fields -> 0 .. taken]] /\ left \in [Level -> SUBSET Fields]
    BY <2>1 DEF TypeOK, Pending
  <2>3. CASE m = l
    <3>1. CASE g = f
      BY <2>1, <2>2, <2>3, <3>1
    <3>2. CASE g # f
      <4>1. g \in Fields \ left[m]
        BY <2>1, <2>2, <2>3, <3>2
      <4>2. buffer[target[m]][g] = id[m]
        BY <2>1, <4>1 DEF Stored
      <4> QED
        BY <2>1, <2>2, <2>3, <3>2, <4>2
    <3> QED
      BY <3>1, <3>2
  <2>4. CASE m # l
    <3>1. m < l
      BY <2>1, <2>2, <2>4 DEF Runs, Level, Pending
    <3>2. target[m] # target[l]
      BY <2>1, <3>1, SlotsApart
    <3>3. buffer[target[m]][g] = id[m]
      <4>1. g \in Fields \ left[m]
        BY <2>1, <2>2, <2>4
      <4> QED
        BY <2>1, <4>1 DEF Stored
    <3> QED
      BY <2>1, <2>2, <3>2, <3>3
  <2> QED
    BY <2>3, <2>4
<1>6. ASSUME NEW l \in Level, return(l)
      PROVE  buffer'[target'[m]][g] = id'[m]
  <2>1. m \in Pending /\ pc[m] = "fill"
    BY <1>0, <1>6 DEF return, Pending
  <2> QED
    BY <1>6, <2>1 DEF return, Stored
<1> QED
  BY <1>1, <1>2, <1>3, <1>4, <1>5, <1>6 DEF Next

LEMMA StepWhole ==
  TypeOK /\ Order /\ Stored /\ RecordsAreWhole /\ [Next]_vars => RecordsAreWhole'
<1> SUFFICES ASSUME TypeOK, Order, Stored, RecordsAreWhole, [Next]_vars,
                    ~lapped', NEW s \in Slots, \A m \in Pending' : target'[m] # s
             PROVE  \E r \in 0 .. taken' : \A g \in Fields : buffer'[s][g] = r
  BY DEF RecordsAreWhole, Holds
<1>0. pc \in [Level -> {"idle", "take", "step", "fill"}] /\ taken \in Nat
  BY DEF TypeOK
<1>1. ASSUME ~lapped, Pending \subseteq Pending', \A m \in Pending : target'[m] = target[m],
             buffer'[s] = buffer[s], taken' \in Nat, taken <= taken'
      PROVE  \E r \in 0 .. taken' : \A g \in Fields : buffer'[s][g] = r
  <2>1. \A m \in Pending : target[m] # s
    BY <1>1
  <2>2. PICK r \in 0 .. taken : \A g \in Fields : buffer[s][g] = r
    BY <1>1, <2>1 DEF RecordsAreWhole, Holds
  <2>3. r \in 0 .. taken'
    BY <1>0, <1>1, <2>2
  <2> QED
    BY <1>1, <2>2, <2>3
<1>2. CASE UNCHANGED vars
  BY <1>0, <1>1, <1>2 DEF vars, Pending
<1>3. ASSUME NEW l \in Level, report(l)
      PROVE  \E r \in 0 .. taken' : \A g \in Fields : buffer'[s][g] = r
  BY <1>0, <1>1, <1>3 DEF report, Pending
<1>4. ASSUME NEW l \in Level, take(l)
      PROVE  \E r \in 0 .. taken' : \A g \in Fields : buffer'[s][g] = r
  <2>1. Pending \subseteq Pending' /\ l \notin Pending /\ ~lapped /\ buffer' = buffer
        /\ taken' = taken + 1 /\ target' = [target EXCEPT ![l] = index]
    BY <1>0, <1>4 DEF take, Pending
  <2>2. \A m \in Pending : target'[m] = target[m]
    BY <2>1 DEF TypeOK, Pending
  <2> QED
    BY <1>0, <1>1, <2>1, <2>2
<1>5. ASSUME NEW l \in Level, step(l)
      PROVE  \E r \in 0 .. taken' : \A g \in Fields : buffer'[s][g] = r
  BY <1>0, <1>1, <1>5 DEF step, Pending
<1>6. ASSUME NEW l \in Level, NEW f \in Fields, store(l, f)
      PROVE  \E r \in 0 .. taken' : \A g \in Fields : buffer'[s][g] = r
  <2>1. /\ l \in Pending' /\ Pending' = Pending /\ ~lapped /\ target' = target /\ taken' = taken
        /\ buffer' = [buffer EXCEPT ![target[l]][f] = id[l]]
    BY <1>0, <1>6 DEF store, Pending
  <2>2. target[l] # s /\ target[l] \in Slots
    BY <2>1 DEF TypeOK, Pending
  <2>3. buffer'[s] = buffer[s]
    BY <2>1, <2>2 DEF TypeOK
  <2> QED
    BY <1>0, <1>1, <2>1, <2>3
<1>7. ASSUME NEW l \in Level, return(l)
      PROVE  \E r \in 0 .. taken' : \A g \in Fields : buffer'[s][g] = r
  <2>1. /\ Pending' = Pending \ {l} /\ l \in Pending /\ pc[l] = "fill" /\ left[l] = {} /\ ~lapped
        /\ UNCHANGED <<buffer, target, id, taken>>
    BY <1>0, <1>7 DEF return, Pending
  <2>2. CASE target[l] = s
    <3>1. \A g \in Fields : buffer[s][g] = id[l]
      BY <2>1, <2>2 DEF Stored
    <3>2. id[l] \in 0 .. taken
      BY <2>1 DEF TypeOK
    <3> QED
      BY <2>1, <3>1, <3>2
  <2>3. CASE target[l] # s
    <3>1. \A m \in Pending : target[m] # s
      BY <2>1, <2>3
    <3> QED
      BY <2>1, <3>1 DEF RecordsAreWhole, Holds
  <2> QED
    BY <2>2, <2>3
<1> QED
  BY <1>2, <1>3, <1>4, <1>5, <1>6, <1>7 DEF Next

-----------------------------------------------------------------------------
(* Reports are kept.                                                       *)

(* What a slot keeps stays, as long as no step lets go of the report.      *)
LEMMA StepKeptAt ==
  ASSUME TypeOK, Order, Near, [Next]_vars, NEW r \in 1 .. taken, Finished(r),
         NEW s \in Slots, KeptAt(r, s)
  PROVE  KeptAt(r, s)'
<1>0. pc \in [Level -> {"idle", "take", "step", "fill"}] /\ taken \in Nat
  BY DEF TypeOK
<1>a. Succ(s) \in Slots /\ r \in 0 .. taken /\ 0 \in 0 .. Levels
  BY NextSlot
<1>b. \A l \in Level : l \in Pending => id[l] \in 1 .. taken /\ id[l] # r /\ target[l] \in Slots
  BY DEF Order, Finished, TypeOK
<1>1. ASSUME UNCHANGED <<index, taken, target, id>>, Pending' \subseteq Pending, lapped' = lapped,
             \A j \in Level : pc'[j] = "step" <=> pc[j] = "step",
             \A j \in Pending' : pc'[j] = pc[j],
             ~lapped /\ taken - r < Size => buffer'[s] = buffer[s]
      PROVE  KeptAt(r, s)'
  <2>1. Bounded(Succ(s), r, 0)
    BY DEF KeptAt
  <2>2. PICK b : b = Succ(s)
    OBVIOUS
  <2>3. Bounded(b, r, 0)'
    BY <1>1, <2>1, <2>2, BoundedStill
  <2>4. \A k \in Pending' : id'[k] < r => pc'[k] = "fill"
    BY <1>1 DEF KeptAt
  <2>5. ~lapped' => \A k \in Pending' : id'[k] < r => target'[k] # s
    BY <1>1 DEF KeptAt
  <2>6. ~lapped' /\ taken' - r < Size => \A f \in Fields : buffer'[s][f] = r
    BY <1>1 DEF KeptAt, Holds
  <2> QED
    BY <2>2, <2>3, <2>4, <2>5, <2>6 DEF KeptAt, Holds, Succ
<1>2. CASE UNCHANGED vars
  BY <1>1, <1>2 DEF vars, Pending
<1>3. ASSUME NEW l \in Level, report(l)
      PROVE  KeptAt(r, s)'
  BY <1>0, <1>1, <1>3 DEF report, Pending
<1>4. ASSUME NEW l \in Level, take(l)
      PROVE  KeptAt(r, s)'
  <2>1. /\ Pending' = Pending \cup {l} /\ l \notin Pending /\ 0 < l
        /\ pc' = [pc EXCEPT ![l] = "step"] /\ taken' = taken + 1 /\ buffer' = buffer
        /\ target' = [target EXCEPT ![l] = index] /\ id' = [id EXCEPT ![l] = taken + 1]
    BY <1>0, <1>4 DEF take, Pending, Level
  <2>8. ~lapped' => ~lapped
    BY <1>4, Zenon DEF take
  <2>2. \A k \in Pending : pc'[k] = pc[k] /\ target'[k] = target[k] /\ id'[k] = id[k]
    BY <1>0, <2>1 DEF TypeOK, Pending
  <2>3. id'[l] = taken + 1 /\ ~(id'[l] < r)
    BY <1>0, <2>1 DEF TypeOK
  <2>4. Bounded(Succ(s), r, 0)'
    <3>1. Bounded(Succ(s), r, 0)
      BY DEF KeptAt
    <3> QED
      BY <1>4, <1>a, <2>1, <3>1, BoundedTake
  <2>5. \A k \in Pending' : id'[k] < r => pc'[k] = "fill"
    BY <2>1, <2>2, <2>3 DEF KeptAt
  <2>6. ~lapped' => \A k \in Pending' : id'[k] < r => target'[k] # s
    BY <2>8, <2>1, <2>2, <2>3 DEF KeptAt
  <2>7. ~lapped' /\ taken' - r < Size => \A f \in Fields : buffer'[s][f] = r
    BY <1>0, <2>8, <2>1 DEF KeptAt, Holds
  <2> QED
    BY <2>4, <2>5, <2>6, <2>7 DEF KeptAt, Holds
<1>5. ASSUME NEW l \in Level, step(l)
      PROVE  KeptAt(r, s)'
  <2>1. /\ Pending' = Pending /\ l \in Pending /\ pc[l] = "step" /\ 0 < l
        /\ pc' = [pc EXCEPT ![l] = "fill"] /\ UNCHANGED <<taken, buffer, target, id, lapped>>
    BY <1>0, <1>5 DEF step, Pending, Level
  <2>2. id[l] > r /\ id[l] <= taken
    BY <1>0, <1>b, <2>1 DEF KeptAt
  <2>3. Bounded(Succ(s), r, 0)'
    <3>1. Bounded(Succ(s), r, 0)
      BY DEF KeptAt
    <3> QED
      BY <1>5, <1>a, <2>1, <2>2, <3>1, BoundedStep
  <2>4. \A k \in Pending' : id'[k] < r => pc'[k] = "fill"
    BY <1>0, <2>1 DEF KeptAt, Pending
  <2>5. ~lapped' => \A k \in Pending' : id'[k] < r => target'[k] # s
    BY <2>1 DEF KeptAt
  <2>6. ~lapped' /\ taken' - r < Size => \A f \in Fields : buffer'[s][f] = r
    BY <2>1 DEF KeptAt, Holds
  <2> QED
    BY <2>3, <2>4, <2>5, <2>6 DEF KeptAt, Holds
<1>6. ASSUME NEW l \in Level, NEW f \in Fields, store(l, f)
      PROVE  KeptAt(r, s)'
  <2>1. /\ Pending' = Pending /\ l \in Pending
        /\ UNCHANGED <<index, taken, target, id, lapped, pc>>
        /\ buffer' = [buffer EXCEPT ![target[l]][f] = id[l]]
    BY <1>0, <1>6 DEF store, Pending
  <2>2. ASSUME ~lapped, taken - r < Size
        PROVE  target[l] # s
    <3>1. CASE id[l] < r
      BY <2>1, <2>2, <3>1 DEF KeptAt
    <3>2. CASE id[l] > r
      <4>1. /\ Dist(Succ(s), target[l]) <= id[l] - r - 1 - Stepping(0, l)
            /\ l > 0
        BY <2>1, <3>2 DEF KeptAt, Bounded, Level
      <4>2. Stepping(0, l) \in Nat
        BY BetweenFinite
      <4>3. Dist(Succ(s), target[l]) < Size - 1
        BY <1>0, <1>a, <1>b, <2>1, <2>2, <4>1, <4>2, Distances
      <4> QED
        BY <1>b, <2>1, <4>3, NotBehind
    <3> QED
      BY <1>b, <2>1, <3>1, <3>2
  <2>3. ~lapped /\ taken - r < Size => buffer'[s] = buffer[s]
    BY <2>1, <2>2 DEF TypeOK
  <2> QED
    BY <1>1, <2>1, <2>3
<1>7. ASSUME NEW l \in Level, return(l)
      PROVE  KeptAt(r, s)'
  BY <1>0, <1>1, <1>7 DEF return, Pending
<1> QED
  BY <1>2, <1>3, <1>4, <1>5, <1>6, <1>7 DEF Next

(* A report that ends is kept in its slot.                                 *)
LEMMA ReturnKept ==
  ASSUME TypeOK, Order, Near, Stored, Outside, NEW l \in Level, return(l), id[l] \notin inside
  PROVE  KeptAt(id[l], target[l])'
<1>0. pc \in [Level -> {"idle", "take", "step", "fill"}] /\ taken \in Nat
  BY DEF TypeOK
<1>1. /\ pc[l] = "fill" /\ Runs(l) /\ left[l] = {} /\ l \in Pending
      /\ Pending' = Pending \ {l} /\ pc' = [pc EXCEPT ![l] = "idle"]
      /\ UNCHANGED <<index, buffer, taken, target, id, lapped>>
  BY <1>0 DEF return, Pending
<1>2. /\ target[l] \in Slots /\ id[l] \in 1 .. taken /\ index \in Slots
      /\ Base(l) = Succ(target[l]) /\ Bounded(Base(l), id[l], l)
  BY <1>1 DEF TypeOK, Order, Base, Near
<1>3. \A k \in Pending' : k \in Pending /\ k < l /\ id[k] < id[l] /\ pc[k] = "fill" /\ pc'[k] = "fill"
  <2>1. \A k \in Pending' : k \in Pending /\ k < l /\ k # l
    BY <1>1 DEF Runs, Pending, Level
  <2>2. \A k \in Pending' : id[k] < id[l] /\ pc[k] = "fill"
    BY <1>1, <2>1 DEF Order, Outside
  <2> QED
    BY <1>0, <1>1, <2>1, <2>2
<1>4. Stepping(0, Levels + 1)' = 0
  <2>1. ~\E j \in Level : pc'[j] = "step"
    BY <1>0, <1>1, <1>3 DEF Pending
  <2>2. Between(0, Levels + 1)' = {}
    BY <2>1 DEF Between
  <2> QED
    BY <2>2, FS_EmptySet DEF Stepping
<1>5. Dist(Succ(target[l]), index) <= taken - id[l]
  <2>1. Dist(Succ(target[l]), index) <= taken - id[l] - Stepping(l, Levels + 1)
    BY <1>2 DEF Bounded
  <2>2. Stepping(l, Levels + 1) \in Nat
    BY BetweenFinite
  <2> QED
    BY <1>0, <1>2, <2>1, <2>2, NextSlot, Distances
<1>6. Bounded(Succ(target[l]), id[l], 0)'
  <2>1. Dist(Succ(target'[l]), index') <= taken' - id'[l] - Stepping(0, Levels + 1)'
    BY <1>0, <1>1, <1>2, <1>4, <1>5
  <2>2. \A k \in Pending' : ~(id'[k] > id'[l])
    BY <1>1, <1>2, <1>3 DEF TypeOK, Pending
  <2> QED
    BY <2>1, <2>2 DEF Bounded, Dist, Succ
<1>7. \A k \in Pending' : id'[k] < id'[l] => pc'[k] = "fill"
  BY <1>3
<1>8. ~lapped' => \A k \in Pending' : id'[k] < id'[l] => target'[k] # target'[l]
  BY <1>1, <1>3, SlotsApart
<1>9. ~lapped' => \A f \in Fields : buffer'[target'[l]][f] = id'[l]
  BY <1>1 DEF Stored
<1> QED
  BY <1>6, <1>7, <1>8, <1>9 DEF KeptAt, Holds

LEMMA StepKept ==
  TypeOK /\ Order /\ Near /\ Stored /\ Outside /\ Kept /\ [Next]_vars => Kept'
<1> SUFFICES ASSUME TypeOK, Order, Near, Stored, Outside, Kept, [Next]_vars,
                    NEW r \in (1 .. taken') \ inside', Finished(r)'
             PROVE  \E s \in Slots : KeptAt(r, s)'
  BY DEF Kept
<1>0. pc \in [Level -> {"idle", "take", "step", "fill"}] /\ taken \in Nat
  BY DEF TypeOK
<1>1. ASSUME r \in (1 .. taken) \ inside, Finished(r)
      PROVE  \E s \in Slots : KeptAt(r, s)'
  <2>1. PICK s \in Slots : KeptAt(r, s)
    BY <1>1 DEF Kept
  <2>2. KeptAt(r, s)'
    BY <1>1, <2>1, StepKeptAt
  <2> QED
    BY <2>2
<1>2. CASE UNCHANGED vars
  BY <1>1, <1>2 DEF vars, Finished, Pending
<1>3. ASSUME NEW l \in Level, report(l)
      PROVE  \E s \in Slots : KeptAt(r, s)'
  <2>1. Pending' = Pending /\ UNCHANGED <<taken, inside, id>>
    BY <1>0, <1>3 DEF report, Pending
  <2> QED
    BY <1>1, <2>1 DEF Finished
<1>4. ASSUME NEW l \in Level, take(l)
      PROVE  \E s \in Slots : KeptAt(r, s)'
  <2>1. /\ Pending' = Pending \cup {l} /\ l \notin Pending
        /\ taken' = taken + 1 /\ inside \subseteq inside' /\ id' = [id EXCEPT ![l] = taken + 1]
    BY <1>0, <1>4 DEF take, Pending
  <2>2. id'[l] = taken + 1 /\ \A k \in Pending : id'[k] = id[k]
    BY <2>1 DEF TypeOK, Pending
  <2>3. r # taken + 1 /\ Finished(r)
    BY <2>1, <2>2 DEF Finished
  <2> QED
    BY <1>0, <1>1, <2>1, <2>3
<1>5. ASSUME NEW l \in Level, step(l)
      PROVE  \E s \in Slots : KeptAt(r, s)'
  <2>1. Pending' = Pending /\ UNCHANGED <<taken, inside, id>>
    BY <1>0, <1>5 DEF step, Pending
  <2> QED
    BY <1>1, <2>1 DEF Finished
<1>6. ASSUME NEW l \in Level, NEW f \in Fields, store(l, f)
      PROVE  \E s \in Slots : KeptAt(r, s)'
  <2>1. Pending' = Pending /\ UNCHANGED <<taken, inside, id>>
    BY <1>0, <1>6 DEF store, Pending
  <2> QED
    BY <1>1, <2>1 DEF Finished
<1>7. ASSUME NEW l \in Level, return(l)
      PROVE  \E s \in Slots : KeptAt(r, s)'
  <2>1. Pending' = Pending \ {l} /\ UNCHANGED <<taken, inside, id, target>> /\ l \in Pending
    BY <1>0, <1>7 DEF return, Pending
  <2>2. CASE id[l] = r
    <3>1. PICK s \in Slots : s = target[l]
      BY DEF TypeOK
    <3>2. KeptAt(id[l], target[l])'
      BY <1>7, <2>1, <2>2, ReturnKept
    <3>3. id'[l] = r /\ target'[l] = s
      BY <2>1, <2>2, <3>1
    <3>4. KeptAt(r, s)'
      BY <3>2, <3>3 DEF KeptAt, Bounded, Holds
    <3> QED
      BY <3>4
  <2>3. CASE id[l] # r
    <3>1. Finished(r)
      BY <2>1, <2>3 DEF Finished
    <3> QED
      BY <1>1, <2>1, <3>1
  <2> QED
    BY <2>2, <2>3
<1> QED
  BY <1>2, <1>3, <1>4, <1>5, <1>6, <1>7 DEF Next

-----------------------------------------------------------------------------
IInv == TypeOK /\ Order /\ Near /\ Stored /\ RecordsAreWhole /\ Outside /\ Kept

LEMMA InitIInv == Init => IInv
<1> SUFFICES ASSUME Init PROVE IInv
  OBVIOUS
<1>1. Pending = {} /\ taken = 0
  BY DEF Init, Pending
<1>2. TypeOK
  BY InitTypeOK
<1>3. Order
  BY <1>1 DEF Init, Order
<1>4. Near /\ Stored /\ Outside
  BY <1>1 DEF Near, Stored, Outside
<1>5. RecordsAreWhole
  BY <1>1 DEF Init, RecordsAreWhole, Holds, Default
<1>6. Kept
  BY <1>1 DEF Kept
<1> QED
  BY <1>2, <1>3, <1>4, <1>5, <1>6 DEF IInv

LEMMA StepIInv == IInv /\ [Next]_vars => IInv'
BY StepTypeOK, StepOrder, StepNear, StepStored, StepWhole, StepOutside, StepKept DEF IInv

LEMMA Invariant == Spec => []IInv
BY InitIInv, StepIInv, PTL DEF Spec

(* A record nobody is writing is of one report, for every length of the    *)
(* ring, every number of priorities and any number of reports, unless a    *)
(* report is preempted by a whole round of the ring                        *)
(* (central_sentry.cpp:73-79).                                             *)
THEOREM RecordsWhole == Spec => []RecordsAreWhole
<1>1. IInv => RecordsAreWhole
  BY DEF IInv
<1> QED
  BY <1>1, Invariant, PTL

(* A report that came while none was stepping the index is kept until as   *)
(* many newer ones have come as the ring has records                       *)
(* (central_sentry.cpp:19-20).                                             *)
THEOREM ReportsKept == Spec => []ReportsAreKept
<1>1. IInv => ReportsAreKept
  BY DEF IInv, Kept, KeptAt, ReportsAreKept
<1> QED
  BY <1>1, Invariant, PTL
=============================================================================
