-------------------------- MODULE PeripheralProofs --------------------------
(***************************************************************************)
(* Proofs about three components that share no state: the indication of    *)
(* the red LED, the clock and the ADC pooler.                              *)
(*                                                                         *)
(* Indication, for every number of slots, step and times of a pass: once   *)
(* the readings have stood for two cycles, a cycle blinks as often as they *)
(* say, and a blink is short by no more than it came late.                 *)
(***************************************************************************)

EXTENDS Indication, Clock, AdcPooler, TLAPS

(* Since(s): visits since the one at slot s, with the last one, whole      *)
(* cycles apart.  Position: visits of this cycle, or of the one that has   *)
(* just ended.                                                             *)
Since(s) == IF 2 * s < i THEN i - 2 * s ELSE i - 2 * s + 2 * n
Position == IF i = 0 THEN 2 * n ELSE i

(* A slot that neither reading sets has not been visited since the         *)
(* readings changed.                                                       *)
Leftover == \A s \in state : s \in Slots(low, hot) \/ Since(s) > held

(* A cycle that began with no leftovers has blinked once for every slot    *)
(* set that it has passed.                                                 *)
One(b) == IF b THEN 1 ELSE 0
Passed(k) == One(Position > k)
Counted ==
  /\ held >= 2 * n + Position =>
       blinks = One(low) + (IF hot THEN Passed(2) + Passed(4) ELSE 0)
  /\ blinks <= Passed(0) + Passed(2) + Passed(4)

(* While the LED is on: what has passed and what is left of its step make  *)
(* a step, but for what it came late.                                      *)
Measured ==
  /\ leds.red = output \/ lit = step
  /\ output => lit + late + ahead >= step \/ lit = step \/ late = step

(* No blink has come before the first tick.                                *)
Unlit == pc = "boot" => lit = step

IInv == TypeOK /\ Leftover /\ Counted /\ Measured /\ Unlit
-----------------------------------------------------------------------------
LEMMA Constants ==
  /\ n \in Nat /\ n > 2 /\ step \in Nat /\ step > 0
  /\ boot_on \in Nat /\ message_on \in Nat /\ MaxLag \in Nat
  /\ \A d \in Passes : d \in Nat /\ d > 0
  /\ \A x \in Leftovers : x \in Int
BY IndicationAssumption

LEMMA SlotsType ==
  ASSUME NEW l \in BOOLEAN, NEW h \in BOOLEAN
  PROVE  /\ Slots(l, h) \subseteq 0 .. 2
         /\ 0 \in Slots(l, h) <=> l
         /\ 1 \in Slots(l, h) <=> h
         /\ 2 \in Slots(l, h) <=> h
BY DEF Slots

LEMMA ModSelf ==
  ASSUME NEW b \in Nat, b > 0
  PROVE  b % b = 0 /\ \A a \in 0 .. b - 1 : a % b = a
<1>1. b % b = 0
  OBVIOUS
<1>2. \A a \in 0 .. b - 1 : a % b = a
  OBVIOUS
<1> QED  BY <1>1, <1>2

LEMMA Halves ==
  ASSUME NEW k \in Nat
  PROVE  /\ k \div 2 \in Nat
         /\ k = 2 * (k \div 2) \/ k = 2 * (k \div 2) + 1
         /\ k % 2 = 0 <=> k = 2 * (k \div 2)
OBVIOUS

(* A visit goes to the next half slot.                                     *)
LEMMA NextHalf ==
  ASSUME i \in 0 .. 2 * n - 1, i' = (i + 1) % (n * 2)
  PROVE  /\ i' \in 0 .. 2 * n - 1 /\ Position' = i + 1
         /\ i' = i + 1 \/ (i = 2 * n - 1 /\ i' = 0)
<1>1. n * 2 \in Nat /\ n * 2 > 0 /\ n * 2 = 2 * n /\ i \in Nat
  BY Constants
<1>2. CASE i + 1 = n * 2
  <2>1. i' = 0
    BY <1>1, <1>2, ModSelf
  <2> QED  BY <1>1, <1>2, <2>1 DEF Position
<1>3. CASE i + 1 # n * 2
  <2>1. i + 1 \in 0 .. n * 2 - 1
    BY <1>1, <1>3
  <2>2. i' = i + 1
    BY <1>1, <2>1, ModSelf
  <2> QED  BY <1>1, <2>1, <2>2 DEF Position
<1> QED  BY <1>2, <1>3

LEMMA SinceType ==
  ASSUME i \in 0 .. 2 * n - 1, NEW s \in 0 .. 2
  PROVE  Since(s) \in 1 .. 2 * n
BY Constants DEF Since

LEMMA SinceNext ==
  ASSUME i \in 0 .. 2 * n - 1, i' = (i + 1) % (n * 2), NEW s \in 0 .. 2, s # i \div 2
  PROVE  Since(s)' = Since(s) + 1
<1>1. i \in Nat /\ 2 * s # i
  BY Constants, Halves
<1>2. i' = i + 1 \/ (i = 2 * n - 1 /\ i' = 0)
  BY NextHalf
<1> QED
  BY <1>1, <1>2, Constants DEF Since

LEMMA InitInv == Init => IInv
<1> SUFFICES ASSUME Init PROVE IInv
  OBVIOUS
<1>1. TypeOK
  <2>1. /\ ahead \in Int /\ 0 \in 0 .. 2 * n - 1 /\ boot_on \in 0 .. boot_on + message_on
        /\ 0 \in 0 .. 4 * n /\ 0 \in 0 .. n /\ 0 \in 0 .. step /\ step \in 0 .. step
    BY Constants DEF Init
  <2>2. leds \in [red : BOOLEAN, blue : BOOLEAN]
    BY DEF Init
  <2> QED  BY <2>1, <2>2 DEF Init, TypeOK
<1>2. Leftover
  BY DEF Init, Leftover
<1>3. Counted
  BY Constants DEF Init, Counted, Passed, Position, One
<1>4. Measured
  BY DEF Init, Measured
<1> QED  BY <1>1, <1>2, <1>3, <1>4 DEF IInv, Init, Unlit

-----------------------------------------------------------------------------
(* A tick.                                                                 *)

(* What a tick changes, when the step of the blinker is not over ...       *)
Waits(l, h) ==
  /\ ahead > 0
  /\ state' = state \cup Slots(l, h) /\ UNCHANGED <<i, output, ahead, blinks, lit, late>>
  /\ held' = IF l = low /\ h = hot THEN held ELSE 0

(* ... and when it is.                                                     *)
Visits(l, h) ==
  LET set == state \cup Slots(l, h)
  IN  /\ ahead <= 0 /\ ahead' = ahead + step
      /\ output' = (i % 2 = 0 /\ i \div 2 \in set)
      /\ state' = set \ {i \div 2}
      /\ i' = (i + 1) % (n * 2)
      /\ held' = IF l = low /\ h = hot THEN UpTo(held + 1, 4 * n) ELSE 0
      /\ blinks' = (IF i = 0 THEN 0 ELSE blinks) + One(output')
      /\ IF output' THEN lit' = 0 /\ late' = UpTo(-ahead, step) ELSE UNCHANGED <<lit, late>>

LEMMA TickCases ==
  ASSUME TypeOK, NEW l \in BOOLEAN, NEW h \in BOOLEAN, tick(l, h)
  PROVE  /\ pc = "tick" /\ pc' = "recv" /\ low' = l /\ hot' = h /\ blue_left' = blue_left
         /\ leds' = [red |-> output', blue |-> blue_left > 0]
         /\ Waits(l, h) \/ Visits(l, h)
<1>1. ahead \in Int /\ blinks \in Int
  BY Constants DEF TypeOK
<1>2. /\ pc = "tick" /\ pc' = "recv" /\ low' = l /\ hot' = h /\ blue_left' = blue_left
      /\ leds' = [red |-> output', blue |-> blue_left > 0]
  BY DEF tick
<1>3. CASE ahead > 0
  <2>1. ~(ahead <= 0)
    BY <1>1, <1>3
  <2>2. /\ held' = IF ~(l = low /\ h = hot) THEN 0 ELSE held
        /\ blinks' = blinks + 0 /\ UNCHANGED <<lit, late>>
    BY <2>1 DEF tick, Observe
  <2>3. state' = state \cup Slots(l, h) /\ UNCHANGED <<i, output, ahead>>
    BY <1>3 DEF tick, update
  <2> QED  BY <1>1, <1>2, <1>3, <2>2, <2>3 DEF Waits
<1>4. CASE ~(ahead > 0)
  <2>1. ahead <= 0
    BY <1>1, <1>4
  <2>2. Visit(state \cup Slots(l, h)) /\ ahead' = ahead + step
    BY <1>4 DEF tick, update
  <2>3. /\ held' = IF ~(l = low /\ h = hot) THEN 0 ELSE UpTo(held + 1, 4 * n)
        /\ blinks' = (IF i = 0 THEN 0 ELSE blinks) + One(output')
        /\ IF output' THEN lit' = 0 /\ late' = UpTo(-ahead, step) ELSE UNCHANGED <<lit, late>>
    BY <2>1 DEF tick, Observe, One
  <2> QED  BY <1>2, <2>1, <2>2, <2>3 DEF Visits, Visit
<1> QED  BY <1>2, <1>3, <1>4

(* What a tick keeps, part by part.                                        *)
LEMMA TickTypes ==
  ASSUME IInv, NEW l \in BOOLEAN, NEW h \in BOOLEAN, tick(l, h), Counted'
  PROVE  TypeOK'
<1>1. /\ pc = "tick" /\ pc' = "recv" /\ low' = l /\ hot' = h /\ blue_left' = blue_left
      /\ leds' = [red |-> output', blue |-> blue_left > 0]
      /\ Waits(l, h) \/ Visits(l, h)
  BY TickCases DEF IInv
<1>2. /\ ahead \in Int /\ state \subseteq 0 .. 2 /\ i \in 0 .. 2 * n - 1 /\ output \in BOOLEAN
      /\ held \in 0 .. 4 * n /\ blinks \in 0 .. n /\ lit \in 0 .. step /\ late \in 0 .. step
      /\ blue_left \in 0 .. boot_on + message_on
  BY DEF IInv, TypeOK
<1>3. state' \subseteq 0 .. 2
  <2>1. state \cup Slots(l, h) \subseteq 0 .. 2
    BY <1>2, SlotsType
  <2> QED  BY <1>1, <2>1 DEF Waits, Visits
<1>4. i' \in 0 .. 2 * n - 1
  BY <1>1, <1>2, NextHalf DEF Waits, Visits
<1>5. output' \in BOOLEAN /\ ahead' \in Int
  <2>1. ahead' \in Int
    BY <1>1, <1>2, Constants DEF Waits, Visits
  <2>2. CASE Waits(l, h)
    BY <1>2, <2>2 DEF Waits
  <2>3. CASE Visits(l, h)
    BY <2>3 DEF Visits
  <2> QED  BY <1>1, <2>1, <2>2, <2>3
<1>6. held' \in 0 .. 4 * n
  BY <1>1, <1>2, Constants DEF Waits, Visits, UpTo
<1>7. lit' \in 0 .. step /\ late' \in 0 .. step
  BY <1>1, <1>2, Constants DEF Waits, Visits, UpTo
<1>8. blinks' \in 0 .. n
  <2>1. blinks' \in Nat
    BY <1>1, <1>2, Constants DEF Waits, Visits, One
  <2>2. blinks' <= 3
    BY <2>1 DEF Counted, Passed, One
  <2> QED  BY <2>1, <2>2, Constants
<1>9. leds' \in [red : BOOLEAN, blue : BOOLEAN]
  <2>1. (blue_left > 0) \in BOOLEAN
    BY <1>2, Constants
  <2> QED  BY <1>1, <1>5, <2>1
<1> QED
  BY <1>1, <1>2, <1>3, <1>4, <1>5, <1>6, <1>7, <1>8, <1>9 DEF TypeOK

LEMMA TickLeftover ==
  ASSUME IInv, NEW l \in BOOLEAN, NEW h \in BOOLEAN, tick(l, h)
  PROVE  Leftover'
<1>1. low' = l /\ hot' = h /\ (Waits(l, h) \/ Visits(l, h))
  BY TickCases DEF IInv
<1>2. /\ state \subseteq 0 .. 2 /\ i \in 0 .. 2 * n - 1 /\ held \in 0 .. 4 * n
  BY DEF IInv, TypeOK
<1>3. SUFFICES ASSUME NEW s \in state', s \notin Slots(l, h) PROVE Since(s)' > held'
  BY <1>1 DEF Leftover
<1>4. s \in state /\ s \in 0 .. 2
  BY <1>1, <1>2, <1>3 DEF Waits, Visits
<1>5. Since(s) \in 1 .. 2 * n
  BY <1>2, <1>4, SinceType
<1>6. ASSUME l = low, h = hot PROVE Since(s) > held
  BY <1>3, <1>4, <1>6 DEF IInv, Leftover
<1>7. CASE Waits(l, h)
  <2>1. Since(s)' = Since(s) /\ held' = IF l = low /\ h = hot THEN held ELSE 0
    BY <1>7 DEF Waits, Since
  <2> QED  BY <1>5, <1>6, <2>1
<1>8. CASE Visits(l, h)
  <2>1. s # i \div 2 /\ i' = (i + 1) % (n * 2)
    BY <1>3, <1>8 DEF Visits
  <2>2. Since(s)' = Since(s) + 1
    BY <1>2, <1>4, <2>1, SinceNext
  <2>3. held' = IF l = low /\ h = hot THEN UpTo(held + 1, 4 * n) ELSE 0
    BY <1>8 DEF Visits
  <2>4. UpTo(held + 1, 4 * n) <= held + 1 /\ UpTo(held + 1, 4 * n) \in Int
    BY <1>2, Constants DEF UpTo
  <2> QED  BY <1>2, <1>5, <1>6, <2>2, <2>3, <2>4, Constants
<1> QED  BY <1>1, <1>7, <1>8

(* The visits of a cycle, slot by slot.                                    *)
LEMMA VisitCounted ==
  ASSUME IInv, NEW l \in BOOLEAN, NEW h \in BOOLEAN, low' = l, hot' = h, Visits(l, h)
  PROVE  Counted'
<1> DEFINE set == state \cup Slots(l, h)
           lights == i % 2 = 0 /\ i \div 2 \in set
<1>1. /\ state \subseteq 0 .. 2 /\ i \in 0 .. 2 * n - 1 /\ i \in Nat
      /\ held \in 0 .. 4 * n /\ blinks \in 0 .. n
  BY Constants DEF IInv, TypeOK
<1>2. /\ output' = lights /\ i' = (i + 1) % (n * 2)
      /\ held' = IF l = low /\ h = hot THEN UpTo(held + 1, 4 * n) ELSE 0
      /\ blinks' = (IF i = 0 THEN 0 ELSE blinks) + One(lights)
  BY DEF Visits
<1>3. Position' = i + 1
  BY <1>1, <1>2, NextHalf
<1>4. set \subseteq 0 .. 2
  BY <1>1, SlotsType
<1>5. lights => i \in {0, 2, 4}
  <2>1. i = 2 * (i \div 2) \/ ~lights
    BY <1>1, Halves
  <2> QED  BY <1>4, <2>1
<1>6. blinks' <= Passed(0)' + Passed(2)' + Passed(4)'
  <2>1. blinks <= Passed(0) + Passed(2) + Passed(4)
    BY DEF IInv, Counted
  <2> HIDE DEF lights
  <2> QED  BY <1>1, <1>2, <1>3, <1>5, <2>1 DEF Passed, Position, One
<1>7. ASSUME held' >= 2 * n + Position'
      PROVE  blinks' = One(l) + (IF h THEN Passed(2)' + Passed(4)' ELSE 0)
  <2>1. l = low /\ h = hot /\ held >= 2 * n + i
    BY <1>1, <1>2, <1>3, <1>7, Constants DEF UpTo
  <2>2. set = Slots(l, h)
    <3>1. ASSUME NEW s \in state, s \notin Slots(low, hot) PROVE FALSE
      <4>1. Since(s) > held /\ Since(s) \in 1 .. 2 * n
        BY <1>1, <3>1, SinceType DEF IInv, Leftover
      <4> QED  BY <1>1, <2>1, <4>1, Constants
    <3> QED  BY <2>1, <3>1
  <2>3. /\ i = 0 => (lights <=> l)
        /\ i \in {2, 4} => (lights <=> h)
    <3>1. /\ i = 0 => i % 2 = 0 /\ i \div 2 = 0
          /\ i = 2 => i % 2 = 0 /\ i \div 2 = 1
          /\ i = 4 => i % 2 = 0 /\ i \div 2 = 2
      BY <1>1
    <3> QED  BY <2>2, <3>1, SlotsType
  <2>4. CASE i = 0
    <3>1. blinks' = One(l)
      BY <1>2, <2>3, <2>4 DEF One
    <3> QED  BY <1>3, <2>4, <3>1 DEF Passed, One
  <2>5. CASE i # 0
    <3>1. blinks = One(l) + (IF h THEN Passed(2) + Passed(4) ELSE 0)
      BY <1>1, <2>1, <2>5, Constants DEF IInv, Counted, Position
    <3>2. blinks' = blinks + One(lights)
      BY <1>2, <2>5
    <3>3. Position = i
      BY <2>5 DEF Position
    <3> HIDE DEF lights
    <3> QED  BY <1>1, <1>3, <1>5, <2>3, <2>5, <3>1, <3>2, <3>3 DEF Passed, One
  <2> QED  BY <2>4, <2>5
<1> QED
  BY <1>6, <1>7 DEF Counted

LEMMA TickCounted ==
  ASSUME IInv, NEW l \in BOOLEAN, NEW h \in BOOLEAN, tick(l, h)
  PROVE  Counted'
<1>1. low' = l /\ hot' = h /\ (Waits(l, h) \/ Visits(l, h))
  BY TickCases DEF IInv
<1>2. CASE Waits(l, h)
  <2>1. Position' = Position /\ blinks' = blinks /\ Position \in 1 .. 2 * n
    BY <1>2, Constants DEF Waits, Position, IInv, TypeOK
  <2>2. held' >= 2 * n + Position' => l = low /\ h = hot /\ held' = held
    BY <1>2, <2>1, Constants DEF Waits
  <2> QED  BY <1>1, <2>1, <2>2 DEF IInv, Counted, Passed
<1>3. CASE Visits(l, h)
  BY <1>1, <1>3, VisitCounted
<1> QED  BY <1>1, <1>2, <1>3

LEMMA TickMeasured ==
  ASSUME IInv, NEW l \in BOOLEAN, NEW h \in BOOLEAN, tick(l, h)
  PROVE  Measured'
<1>1. (Waits(l, h) \/ Visits(l, h)) /\ leds' = [red |-> output', blue |-> blue_left > 0]
  BY TickCases DEF IInv
<1>2. ahead \in Int /\ lit \in 0 .. step /\ late \in 0 .. step
  BY DEF IInv, TypeOK
<1>3. leds'.red = output'
  BY <1>1
<1>4. ASSUME output' PROVE lit' + late' + ahead' >= step \/ lit' = step \/ late' = step
  <2>1. CASE Waits(l, h)
    BY <1>4, <2>1 DEF IInv, Measured, Waits
  <2>2. CASE Visits(l, h)
    BY <1>2, <1>4, <2>2, Constants DEF Visits, UpTo
  <2> QED  BY <1>1, <2>1, <2>2
<1> QED  BY <1>3, <1>4 DEF Measured

LEMMA TickInv ==
  ASSUME IInv, NEW l \in BOOLEAN, NEW h \in BOOLEAN, tick(l, h)
  PROVE  IInv'
<1>1. Unlit'
  BY TickCases DEF IInv, Unlit
<1> QED
  BY <1>1, TickTypes, TickLeftover, TickCounted, TickMeasured DEF IInv

-----------------------------------------------------------------------------
(* The rest of a pass: what leaves the blinker alone.                      *)
LEMMA OtherInv ==
  ASSUME IInv, UNCHANGED <<state, i, output, low, hot, held, blinks, late>>,
         pc' \in {"setup", "tick", "recv", "handle"},
         blue_left' \in 0 .. boot_on + message_on,
         leds' \in [red : BOOLEAN, blue : BOOLEAN], leds' = leds \/ lit = step,
         \/ UNCHANGED <<ahead, lit>>
         \/ \E d \in Passes : ahead' = ahead - d /\ lit' = UpTo(lit + d, step)
  PROVE  IInv'
<1>1. ahead \in Int /\ lit \in 0 .. step /\ late \in 0 .. step
  BY DEF IInv, TypeOK
<1>2. ahead' \in Int /\ lit' \in 0 .. step /\ (lit = step => lit' = step)
  BY <1>1, Constants DEF UpTo
<1>3. TypeOK'
  BY <1>2 DEF IInv, TypeOK
<1>4. Leftover' /\ Counted'
  BY DEF IInv, Leftover, Since, Counted, Passed, Position
<1>5. lit + late + ahead >= step \/ lit = step \/ late = step =>
        lit' + late' + ahead' >= step \/ lit' = step \/ late' = step
  BY <1>1, Constants DEF UpTo
<1>6. Measured'
  BY <1>2, <1>5 DEF IInv, Measured
<1>7. Unlit'
  BY <1>2 DEF IInv, Unlit
<1> QED  BY <1>3, <1>4, <1>6, <1>7 DEF IInv

LEMMA PassInv ==
  ASSUME IInv, NEW d \in Passes, no_message(d) \/ handle_message(d) \/ setup_leds(d)
  PROVE  IInv'
<1>1. /\ UNCHANGED <<state, i, output, low, hot, held, blinks, late>>
      /\ pc' \in {"setup", "tick", "recv", "handle"}
      /\ ahead' = ahead - d /\ lit' = UpTo(lit + d, step) /\ blue_left' = Positive(blue_left - d)
  BY DEF no_message, handle_message, setup_leds, Elapse
<1>2. blue_left' \in 0 .. boot_on + message_on
  BY <1>1, Constants DEF IInv, TypeOK, Positive
<1>3. leds' \in [red : BOOLEAN, blue : BOOLEAN] /\ (leds' = leds \/ pc = "boot")
  BY DEF IInv, TypeOK, no_message, handle_message, setup_leds
<1> QED
  BY <1>1, <1>2, <1>3, OtherInv DEF IInv, Unlit

LEMMA NextInv == IInv /\ [Next]_vars => IInv'
<1> SUFFICES ASSUME IInv, [Next]_vars PROVE IInv'
  OBVIOUS
<1>1. ASSUME NEW l \in BOOLEAN, NEW h \in BOOLEAN, tick(l, h) PROVE IInv'
  BY <1>1, TickInv
<1>2. ASSUME NEW d \in Passes, no_message(d) \/ handle_message(d) \/ setup_leds(d) PROVE IInv'
  BY <1>2, PassInv
<1>3. CASE incoming_message \/ initialized
  <2>1. /\ UNCHANGED <<state, i, output, low, hot, held, blinks, late, ahead, lit, leds>>
        /\ pc' \in {"setup", "tick", "recv", "handle"}
        /\ blue_left' \in {0, message_on}
    BY <1>3 DEF incoming_message, initialized, blinker_vars, hist_vars
  <2>2. blue_left' \in 0 .. boot_on + message_on
    BY <2>1, Constants
  <2>3. leds' \in [red : BOOLEAN, blue : BOOLEAN]
    BY <2>1 DEF IInv, TypeOK
  <2> QED  BY <2>1, <2>2, <2>3, OtherInv
<1>4. CASE UNCHANGED vars
  BY <1>4 DEF vars, blinker_vars, hist_vars, IInv, TypeOK, Unlit, Leftover, Since, Counted,
     Passed, Position, Measured
<1> QED  BY <1>1, <1>2, <1>3, <1>4 DEF Next

LEMMA Invariance == Spec => []IInv
BY InitInv, NextInv, PTL DEF Spec

-----------------------------------------------------------------------------
(* Every variable of the blinker and of the LEDs keeps its type            *)
(* (effects.hpp, indication.hpp).                                          *)
THEOREM IndicationTypeCorrect == Spec => []TypeOK
<1>1. IInv => TypeOK
  BY DEF IInv
<1> QED  BY <1>1, Invariance, PTL

(* After two cycles of unchanged readings the red LED has blinked, in the  *)
(* cycle that ends, once for a low voltage and twice for a high            *)
(* temperature, whatever slots earlier readings left set                   *)
(* (indication.hpp:11-12).                                                 *)
THEOREM BlinksAreTrue == Spec => []BlinksTellCause
<1>1. IInv => BlinksTellCause
  <2> SUFFICES ASSUME IInv, held = 4 * n, i = 0
               PROVE  blinks = (IF low THEN 1 ELSE 0) + (IF hot THEN 2 ELSE 0)
    BY DEF BlinksTellCause
  <2>1. held >= 2 * n + Position /\ Position > 2 /\ Position > 4
    BY Constants DEF Position
  <2>2. Passed(2) = 1 /\ Passed(4) = 1
    BY <2>1 DEF Passed, One
  <2>3. blinks = One(low) + (IF hot THEN 2 ELSE 0)
    BY <2>1, <2>2 DEF IInv, Counted
  <2> QED  BY <2>3 DEF One
<1> QED  BY <1>1, Invariance, PTL

(* A blink is short by no more than it came late, however long a pass of   *)
(* the main loop takes (effects.cpp:25).                                   *)
THEOREM BlinksLast == Spec => BlinkLasts
<1>1. ASSUME IInv, [Next]_vars, leds.red, ~leds'.red, pc = "tick" PROVE lit + late >= step
  <2>1. PICK l \in BOOLEAN, h \in BOOLEAN : tick(l, h)
    BY <1>1 DEF Next, vars, no_message, handle_message, setup_leds, incoming_message,
       initialized
  <2>2. (Waits(l, h) \/ Visits(l, h)) /\ leds' = [red |-> output', blue |-> blue_left > 0]
    BY <1>1, <2>1, TickCases DEF IInv
  <2>3. ahead \in Int /\ lit \in 0 .. step /\ late \in 0 .. step
    BY <1>1 DEF IInv, TypeOK
  <2>4. ~output'
    BY <1>1, <2>2
  <2>5. CASE lit = step
    BY <2>3, <2>5, Constants
  <2>6. CASE output
    <3>1. ahead <= 0
      BY <2>2, <2>4, <2>6 DEF Waits, Visits
    <3> QED  BY <1>1, <2>3, <2>6, <3>1, Constants DEF IInv, Measured
  <2> QED  BY <1>1, <2>5, <2>6 DEF IInv, Measured
<1>2. IInv /\ [Next]_vars => [leds.red /\ ~leds'.red /\ pc = "tick" => lit + late >= step]_vars
  BY <1>1
<1> QED  BY <1>2, Invariance, PTL DEF Spec, BlinkLasts

-----------------------------------------------------------------------------
(***************************************************************************)
(* Clock, for every period and any number of overflows: what get_us        *)
(* returns is the time at an instant of the call, and a call of priority 0 *)
(* that meets a pending overflow hangs.                                    *)
(***************************************************************************)
(* Every overflow is counted, being counted, or pending.                   *)
OverflowsCounted ==
  wraps = irq_count + (IF handling THEN 1 ELSE 0) + (IF uif THEN 1 ELSE 0)

(* No local count is ahead of the clock, and no call began in the future.  *)
Past ==
  \A c \in Contexts : ic[c] <= irq_count /\ began[c] <= Now

(* A flag read by priority 0 stays set while it runs.                      *)
FlagHeld == get_us_pc["high"] = "check" /\ us["high"].uif => uif

ClockInv == ClockTypeOK /\ OverflowsCounted /\ Past /\ ReturnsInstant /\ FlagHeld

-----------------------------------------------------------------------------
LEMMA MicrosecondsNat ==
  ASSUME NEW w \in Nat, NEW k \in Nat
  PROVE  Microseconds(w, k) \in Nat
BY ClockAssumption DEF Microseconds

LEMMA MicrosecondsNextWrap ==
  ASSUME NEW w \in Nat
  PROVE  Microseconds(w + 1, 0) = Microseconds(w, Period - 1) + 1
<1>1. (w + 1) * Period = w * Period + Period
  BY ClockAssumption
<1> QED
  BY <1>1, ClockAssumption DEF Microseconds

LEMMA TickStep ==
  ASSUME ClockTypeOK, Tick
  PROVE  Now' = Now + 1
<1>1. CASE Count
  BY <1>1, ClockAssumption DEF Count, Now, Microseconds, ClockTypeOK
<1>2. CASE cnt + 1 = Period /\ Wrap
  <2>1. cnt = Period - 1
    BY <1>2, ClockAssumption DEF ClockTypeOK
  <2> QED
    BY <1>2, <2>1, MicrosecondsNextWrap DEF Wrap, Now, ClockTypeOK, Microseconds
<1> QED
  BY <1>1, <1>2 DEF Tick

LEMMA NowNat == ClockTypeOK => Now \in Nat
BY MicrosecondsNat, ClockAssumption DEF ClockTypeOK, Now

LEMMA ClockInitInv == ClockInit => ClockInv
<1> SUFFICES ASSUME ClockInit PROVE ClockInv
  OBVIOUS
<1>1. ClockTypeOK
  <2>1. 0 \in 0 .. Period - 1
    BY ClockAssumption
  <2>2. [cnt |-> 0, uif |-> FALSE] \in [cnt : 0 .. Period - 1, uif : BOOLEAN]
    BY <2>1
  <2>3. us \in [Contexts -> [cnt : 0 .. Period - 1, uif : BOOLEAN]]
    BY <2>2 DEF ClockInit
  <2> QED
    BY <2>1, <2>3 DEF ClockInit, ClockTypeOK
<1>2. Now = 0
  BY ClockAssumption DEF ClockInit, Now, Microseconds
<1> QED
  BY <1>1, <1>2 DEF ClockInit, ClockInv, OverflowsCounted, Past, ReturnsInstant, FlagHeld,
     Contexts

(* The steps of the timer and of its interrupt.                            *)
LEMMA ClockTickInv == ClockInv /\ Tick => ClockInv'
<1> SUFFICES ASSUME ClockInv, Tick PROVE ClockInv'
  OBVIOUS
<1>1. Now' = Now + 1 /\ Now \in Nat
  BY TickStep, NowNat DEF ClockInv
<1>2. UNCHANGED <<handling, irq_count, get_us_pc, ic, us, began>>
  BY DEF Tick
<1>3. ClockTypeOK'
  <2>1. wraps' \in Nat
    BY DEF ClockInv, ClockTypeOK, Tick, Count, Wrap
  <2>2. uif' \in BOOLEAN
    BY DEF ClockInv, ClockTypeOK, Tick, Count, Wrap
  <2>3. cnt' \in 0 .. Period - 1
    BY ClockAssumption DEF ClockInv, ClockTypeOK, Tick, Count, Wrap
  <2> QED
    BY <1>2, <2>1, <2>2, <2>3 DEF ClockInv, ClockTypeOK
<1>4. OverflowsCounted'
  BY <1>2 DEF ClockInv, ClockTypeOK, OverflowsCounted, Tick, Count, Wrap
<1>5. Past'
  BY <1>1, <1>2 DEF ClockInv, ClockTypeOK, Past
<1>6. ReturnsInstant'
  <2> SUFFICES ASSUME NEW c \in Contexts, get_us_pc[c] = "check", ~Overflowed(c)
               PROVE  began[c] <= Result(c) /\ Result(c) <= Now'
    BY <1>2 DEF ReturnsInstant, Overflowed, Result, Microseconds
  <2>1. ic[c] \in Nat /\ us[c].cnt \in Nat
    BY DEF ClockInv, ClockTypeOK
  <2>2. Result(c) \in Nat
    BY <2>1, MicrosecondsNat DEF Result
  <2> QED
    BY <1>1, <2>2 DEF ClockInv, ReturnsInstant
<1>7. FlagHeld'
  BY <1>2 DEF ClockInv, FlagHeld, Tick, Count, Wrap
<1> QED
  BY <1>3, <1>4, <1>5, <1>6, <1>7 DEF ClockInv

LEMMA ClockIrqInv == ClockInv /\ (clear_flag \/ timer_period_irq) => ClockInv'
<1> SUFFICES ASSUME ClockInv, clear_flag \/ timer_period_irq PROVE ClockInv'
  OBVIOUS
<1>1. UNCHANGED <<wraps, cnt, get_us_pc, ic, us, began>>
  BY DEF clear_flag, timer_period_irq, timer
<1>2. Now' = Now
  BY <1>1 DEF Now, Microseconds
<1>3. ClockTypeOK'
  <2>1. irq_count' \in Nat
    BY DEF ClockInv, ClockTypeOK, clear_flag, timer_period_irq
  <2>2. uif' \in BOOLEAN /\ handling' \in BOOLEAN
    BY DEF ClockInv, ClockTypeOK, clear_flag, timer_period_irq, timer
  <2> QED
    BY <1>1, <2>1, <2>2 DEF ClockInv, ClockTypeOK
<1>4. OverflowsCounted'
  BY <1>1 DEF ClockInv, ClockTypeOK, OverflowsCounted, clear_flag, timer_period_irq,
     timer
<1>5. irq_count <= irq_count'
  BY DEF ClockInv, ClockTypeOK, clear_flag, timer_period_irq
<1>6. Past'
  BY <1>1, <1>2, <1>3, <1>5 DEF ClockInv, ClockTypeOK, Past
<1>7. ReturnsInstant'
  <2> SUFFICES ASSUME NEW c \in Contexts, get_us_pc[c] = "check", ~Overflowed(c)'
               PROVE  began[c] <= Result(c) /\ Result(c) <= Now
    BY <1>1, <1>2 DEF ReturnsInstant, Result, Microseconds
  <2>1. irq_count' = irq_count
    BY <1>1 DEF ClockInv, ClockTypeOK, Past, Overflowed, clear_flag, timer_period_irq
  <2>2. ~Overflowed(c)
    BY <1>1, <2>1 DEF Overflowed
  <2> QED
    BY <2>2 DEF ClockInv, ReturnsInstant
<1>8. FlagHeld'
  BY <1>1 DEF ClockInv, FlagHeld, clear_flag, timer_period_irq, timer
<1> QED
  BY <1>3, <1>4, <1>6, <1>7, <1>8 DEF ClockInv

(* The statements of get_us in context c: the clock stands still.          *)
LEMMA ReaderInv ==
  ASSUME ClockInv, NEW c \in Contexts, call(c) \/ get_us(c)
  PROVE  ClockInv'
<1>1. UNCHANGED <<wraps, cnt, uif, handling, irq_count>>
  BY DEF call, get_us, read_count, read_counter, retry, return,
     timer
<1>2. Now' = Now /\ Now \in Nat
  BY <1>1, NowNat DEF Now, Microseconds, ClockInv
<1>3. ClockTypeOK'
  <2>1. [cnt |-> 0, uif |-> FALSE] \in [cnt : 0 .. Period - 1, uif : BOOLEAN]
    BY ClockAssumption
  <2>2. [cnt |-> cnt, uif |-> uif] \in [cnt : 0 .. Period - 1, uif : BOOLEAN]
    BY DEF ClockInv, ClockTypeOK
  <2>3. us' \in [Contexts -> [cnt : 0 .. Period - 1, uif : BOOLEAN]]
    BY <2>1, <2>2 DEF ClockInv, ClockTypeOK, call, get_us, read_count,
       read_counter, retry, return
  <2>4. get_us_pc' \in [Contexts -> {"idle", "count", "counter", "check"}]
    BY DEF ClockInv, ClockTypeOK, call, get_us, read_count, read_counter,
       retry, return
  <2>5. ic' \in [Contexts -> Nat] /\ began' \in [Contexts -> Nat]
    BY <1>2 DEF ClockInv, ClockTypeOK, call, get_us, read_count, read_counter,
       retry, return
  <2> QED
    BY <1>1, <2>3, <2>4, <2>5 DEF ClockInv, ClockTypeOK
<1>4. OverflowsCounted'
  BY <1>1 DEF ClockInv, OverflowsCounted
<1>5. Past'
  BY <1>1, <1>2 DEF ClockInv, ClockTypeOK, Past, call, get_us, read_count,
     read_counter, retry, return
<1>6. ReturnsInstant'
  <2> SUFFICES ASSUME NEW d \in Contexts, get_us_pc'[d] = "check", ~Overflowed(d)'
               PROVE  began'[d] <= Result(d)' /\ Result(d)' <= Now
    BY <1>2 DEF ReturnsInstant
  <2>1. CASE d # c \/ ~read_counter(c)
    <3>1. get_us_pc[d] = "check" /\ ic'[d] = ic[d] /\ us'[d] = us[d] /\ began'[d] = began[d]
      BY <2>1 DEF ClockInv, ClockTypeOK, call, get_us, read_count, read_counter,
         retry, return
    <3>2. ~Overflowed(d) /\ Result(d)' = Result(d)
      BY <1>1, <3>1 DEF Overflowed, Result, Microseconds
    <3> QED
      BY <3>1, <3>2 DEF ClockInv, ReturnsInstant
  <2>2. CASE d = c /\ read_counter(c)
    <3>1. us'[c] = [cnt |-> cnt, uif |-> uif] /\ ic'[c] = ic[c] /\ began'[c] = began[c]
      BY <2>2 DEF read_counter, ClockInv, ClockTypeOK
    <3>2. ic[c] = irq_count /\ ~uif
      BY <1>1, <2>2, <3>1 DEF Overflowed
    <3>3. ~handling
      BY <2>2 DEF read_counter, Running
    <3>4. wraps = irq_count
      BY <3>2, <3>3 DEF ClockInv, ClockTypeOK, OverflowsCounted
    <3>5. Result(d)' = Now
      BY <2>2, <3>1, <3>2, <3>4 DEF Result, Now, Microseconds
    <3> QED
      BY <1>2, <2>2, <3>1, <3>5 DEF ClockInv, Past
  <2> QED
    BY <2>1, <2>2
<1>7. FlagHeld'
  BY <1>1 DEF ClockInv, ClockTypeOK, FlagHeld, Contexts, call, get_us,
     read_count, read_counter, retry, return
<1> QED
  BY <1>3, <1>4, <1>5, <1>6, <1>7 DEF ClockInv

LEMMA ClockNextInv == ClockInv /\ [ClockNext]_clock_vars => ClockInv'
<1> SUFFICES ASSUME ClockInv, [ClockNext]_clock_vars PROVE ClockInv'
  OBVIOUS
<1>1. CASE ClockNext
  BY <1>1, ClockTickInv, ClockIrqInv, ReaderInv DEF ClockNext
<1>2. CASE UNCHANGED clock_vars
  BY <1>2 DEF clock_vars, ClockInv, ClockTypeOK, OverflowsCounted, Past, Now,
     ReturnsInstant, Overflowed, Result, Microseconds, FlagHeld
<1> QED
  BY <1>1, <1>2

LEMMA ClockInvariance == ClockSpec => []ClockInv
BY ClockInitInv, ClockNextInv, PTL DEF ClockSpec

-----------------------------------------------------------------------------
(* Every variable of the clock keeps its type (clock.hpp:44-47).           *)
THEOREM ClockTypeCorrect == ClockSpec => []ClockTypeOK
<1>1. ClockInv => ClockTypeOK
  BY DEF ClockInv
<1> QED
  BY <1>1, ClockInvariance, PTL

(* get_us returns the time at an instant of the call (clock.hpp:31-42).    *)
THEOREM TimeIsTrue == ClockSpec => []ReturnsInstant
<1>1. ClockInv => ReturnsInstant
  BY DEF ClockInv
<1> QED
  BY <1>1, ClockInvariance, PTL

(* A UART interrupt that meets a pending overflow in get_us never leaves   *)
(* it (clock.hpp:35-38, timers.cpp:126, board.cpp:352).                    *)
THEOREM UartHangs == ClockSpec => HangsForever
<1>1. ClockInv /\ [ClockNext]_clock_vars => [Hangs => Hangs']_clock_vars
  <2> SUFFICES ASSUME ClockInv, ClockNext, Hangs PROVE Hangs'
    BY DEF Hangs, clock_vars
  <2>1. uif
    BY DEF ClockInv, FlagHeld, Hangs
  <2>2. CASE Tick \/ clear_flag \/ timer_period_irq
    BY <2>1, <2>2 DEF Tick, Count, Wrap, clear_flag, timer_period_irq,
       Hangs, timer
  <2>3. CASE \E c \in Contexts : call(c) \/ get_us(c)
    <3> PICK c \in Contexts : call(c) \/ get_us(c)
      BY <2>3
    <3>1. uif'
      BY <2>1 DEF call, get_us, read_count, read_counter, retry,
         return, timer
    <3>2. CASE c = "high"
      <4>1. CASE call(c) \/ read_count(c) \/ retry(c)
        BY <3>1, <3>2, <4>1 DEF ClockInv, ClockTypeOK, Contexts, call, read_count,
           retry, Hangs
      <4>2. CASE read_counter(c)
        <5>1. us'["high"] = [cnt |-> cnt, uif |-> uif] /\ get_us_pc'["high"] = "check"
          BY <3>2, <4>2 DEF ClockInv, ClockTypeOK, Contexts, read_counter
        <5> QED
          BY <2>1, <5>1 DEF Hangs
      <4>3. CASE return(c)
        BY <3>2, <4>3 DEF return, Overflowed, Hangs
      <4> QED
        BY <4>1, <4>2, <4>3 DEF get_us
    <3>3. CASE c # "high"
      <4>1. get_us_pc'["high"] = get_us_pc["high"] /\ us'["high"] = us["high"]
        BY <3>3 DEF ClockInv, ClockTypeOK, Contexts, call, get_us, read_count,
           read_counter, retry, return
      <4> QED
        BY <3>1, <4>1 DEF Hangs
    <3> QED
      BY <3>2, <3>3
  <2> QED
    BY <2>2, <2>3 DEF ClockNext
<1> QED
  BY <1>1, ClockInvariance, PTL DEF ClockSpec, HangsForever

-----------------------------------------------------------------------------
(***************************************************************************)
(* AdcPooler, for every sequence in which the current has every second     *)
(* turn and for a buffer of any size: whose samples a channel is given,    *)
(* and what is reported when the readings of a turn are not whole.         *)
(***************************************************************************)
(* The names of the channels are kept apart.                               *)
Single(c) == c # CURRENT_CHANNEL

-----------------------------------------------------------------------------
(* What the turn and the part of the handler say of the ADC, as long as no *)
(* call of the HAL has failed.                                             *)

(* The DMA moves samples only in a turn of the current, and its end is     *)
(* known only while it may move them.                                      *)
DmaOwned ==
  /\ dmaen => channel = CURRENT_CHANNEL /\ ~Single(active_id) /\ period_pc # "start"
  /\ dma_cplt => dmaen

(* A turn of another channel starts with an ADC that is free, and whatever *)
(* ends in it was measured on that channel.                                *)
SingleOwned ==
  /\ period_pc = "start" /\ Single(active_id) => ~adstart
  /\ period_pc = "idle" /\ Single(active_id) =>
       channel = active_id /\ (eoc => dr = active_id)

(* Once the ADC is set to the current, the DMA counts what it has written. *)
SamplesCounted ==
  /\ period_pc = "start" /\ ~Single(active_id) => channel # CURRENT_CHANNEL
  /\ period_pc # "start" /\ ~Single(active_id) /\ channel = CURRENT_CHANNEL =>
       /\ dmaen
       /\ \A k \in 0 .. N - 1 : k < N - left => k \in fresh
  /\ period_pc = "stop" /\ dmaen => used <= N - left
  /\ lost /\ period_pc = "idle" /\ ~Single(active_id) => left = 0
  /\ lost /\ period_pc = "stop" => used = N
  /\ lost /\ (period_pc = "start" \/ Single(active_id)) => degraded

AdcInv ==
  /\ inoperable <=> failed
  /\ period_pc = "stop" => ~Single(active_id)
  /\ ~failed =>
       /\ DmaOwned
       /\ SingleOwned
       /\ SamplesCounted
       /\ \A c \in Channels : last_value[c] \in {c, None}
       /\ \A k \in 0 .. N - 1 : buffer[k] \in {CURRENT_CHANNEL, None}

-----------------------------------------------------------------------------
(* The sequence is never empty, and its channels are not the empty value.  *)
LEMMA SequenceFacts ==
  /\ Len(Sequence) \in Nat /\ Len(Sequence) > 0 /\ Len(Sequence) % 2 = 0
  /\ \A m \in 0 .. Len(Sequence) - 1 :
       /\ Sequence[m + 1] \in Channels
       /\ Sequence[m + 1] = CURRENT_CHANNEL <=> m % 2 = 0
  /\ CURRENT_CHANNEL \in Channels
  /\ None \notin Channels
<1>1. Len(Sequence) \in Nat /\ Len(Sequence) > 0 /\ Len(Sequence) % 2 = 0
  BY SequenceAssumption
<1>2. ASSUME NEW m \in 0 .. Len(Sequence) - 1
      PROVE  /\ Sequence[m + 1] \in Channels
             /\ Sequence[m + 1] = CURRENT_CHANNEL <=> m % 2 = 0
  <2>1. m + 1 \in DOMAIN Sequence
    BY <1>1, SequenceAssumption
  <2>2. (m + 1) % 2 = 1 <=> m % 2 = 0
    BY <1>1
  <2> QED  BY <2>1, <2>2, SequenceAssumption DEF Channels
<1>3. CURRENT_CHANNEL \in Channels
  <2>1. 0 \in 0 .. Len(Sequence) - 1 /\ 0 % 2 = 0
    BY <1>1
  <2> QED  BY <1>2, <2>1
<1>4. None \notin Channels
  BY SequenceAssumption DEF Channels
<1> QED  BY <1>1, <1>2, <1>3, <1>4

(* The turns of the current and of the other channels alternate.           *)
LEMMA Alternates ==
  ASSUME NEW m \in 0 .. Len(Sequence) - 1
  PROVE  LET j == (m + 1) % Len(Sequence)
         IN /\ j \in 0 .. Len(Sequence) - 1
            /\ Sequence[j + 1] = CURRENT_CHANNEL <=> Sequence[m + 1] # CURRENT_CHANNEL
<1> DEFINE L == Len(Sequence)
           j == (m + 1) % L
<1>1. L \in Nat /\ L > 0 /\ L % 2 = 0 /\ m \in 0 .. L - 1
  BY SequenceFacts
<1>2. j = IF m + 1 = L THEN 0 ELSE m + 1
  <2>1. CASE m + 1 = L
    BY <1>1, <2>1
  <2>2. CASE m + 1 # L
    BY <1>1, <2>2
  <2> QED  BY <2>1, <2>2
<1>3. j \in 0 .. L - 1 /\ (j % 2 = 0 <=> m % 2 # 0)
  BY <1>1, <1>2
<1> QED  BY <1>3, SequenceFacts

-----------------------------------------------------------------------------
USE DEF pooler_vars, adc_vars, dma_vars, reports, history, active_id

LEMMA AdcInitType == PoolerInit => PoolerTypeOK
<1> SUFFICES ASSUME PoolerInit PROVE PoolerTypeOK
  OBVIOUS
<1>1. sequence_i \in 0 .. Len(Sequence) - 1 /\ used \in 0 .. N /\ left \in 0 .. N
  BY SequenceFacts, BufferAssumption DEF PoolerInit
<1>2. /\ buffer \in [0 .. N - 1 -> Channels \cup {None}]
      /\ last_value \in [Channels -> Channels \cup {None}]
  BY DEF PoolerInit
<1> QED  BY <1>1, <1>2 DEF PoolerInit, PoolerTypeOK

LEMMA AdcStepType == PoolerTypeOK /\ [PoolerNext]_pooler_vars => PoolerTypeOK'
<1> SUFFICES ASSUME PoolerTypeOK, [PoolerNext]_pooler_vars PROVE PoolerTypeOK'
  OBVIOUS
<1> USE SequenceFacts, BufferAssumption DEF PoolerTypeOK
<1>0. active_id \in Channels
  OBVIOUS
<1>1. CASE start
  BY <1>1 DEF start
<1>2. CASE Convert
  <2>1. CASE Move
    <3>1. left' \in 0 .. N /\ N - left \in 0 .. N - 1 /\ fresh' \subseteq 0 .. N - 1
      BY <2>1 DEF Move
    <3>2. buffer' \in [0 .. N - 1 -> Channels \cup {None}]
      BY <2>1 DEF Move
    <3>3. dma_cplt' \in BOOLEAN /\ dr' \in Channels \cup {None}
      BY <2>1 DEF Move
    <3> QED  BY <1>2, <2>1, <3>1, <3>2, <3>3 DEF Convert, Move
  <2>2. CASE Hold
    <3>1. dr' \in Channels \cup {None} /\ lost' \in BOOLEAN /\ eoc' \in BOOLEAN
      BY <2>2 DEF Hold
    <3> QED  BY <1>2, <2>2, <3>1 DEF Convert, Hold
  <2> QED  BY <1>2, <2>1, <2>2 DEF Convert
<1>3. CASE read_used
  BY <1>3 DEF read_used, CountUsed
<1>4. CASE period_stop
  <2>1. sequence_i' \in 0 .. Len(Sequence) - 1
    BY <1>4, Alternates DEF period_stop, NextTurn, NextIndex
  <2>2. degraded' \in BOOLEAN
    BY <1>4 DEF period_stop, BadCount
  <2>3. {adstart, dmaen, dma_cplt, inoperable, failed}' \subseteq BOOLEAN
    BY <1>4 DEF period_stop, HAL_ADC_Stop_DMA, Fails, Succeeds
  <2> QED  BY <1>4, <2>1, <2>2, <2>3 DEF period_stop, NextTurn
<1>5. CASE leave_single
  <2>1. sequence_i' \in 0 .. Len(Sequence) - 1
    BY <1>5, Alternates DEF leave_single, NextTurn, NextIndex
  <2> QED  BY <1>5, <2>1 DEF leave_single, NextTurn
<1>6. CASE period_start_detailed
  <2>1. {adstart, eoc, eocie, dmaen, dma_cplt, inoperable, failed}' \subseteq BOOLEAN
    BY <1>6 DEF period_start_detailed, HAL_ADC_Start_DMA, Fails, Succeeds
  <2>2. {channel, dr}' \subseteq Channels \cup {None}
    BY <1>6, <1>0 DEF period_start_detailed, HAL_ADC_ConfigChannel,
       HAL_ADC_Start_DMA
  <2>3. left' \in 0 .. N
    BY <1>6 DEF period_start_detailed, HAL_ADC_Start_DMA
  <2> QED  BY <1>6, <2>1, <2>2, <2>3 DEF period_start_detailed
<1>7. CASE period_start_single
  <2>1. {adstart, eoc, eocie, dmaen, inoperable, failed}' \subseteq BOOLEAN
    BY <1>7 DEF period_start_single, HAL_ADC_Start_IT, Fails, Succeeds
  <2>2. {channel, dr}' \subseteq Channels \cup {None}
    BY <1>7, <1>0 DEF period_start_single, HAL_ADC_ConfigChannel, HAL_ADC_Start_IT
  <2> QED  BY <1>7, <2>1, <2>2 DEF period_start_single
<1>8. CASE adc_irq
  <2>1. last_value' \in [Channels -> Channels \cup {None}]
    BY <1>8, <1>0 DEF adc_irq, adc_conv_cplt_irq, conv_cplt
  <2>2. {adstart, eocie, inoperable, failed}' \subseteq BOOLEAN
    BY <1>8 DEF adc_irq, adc_conv_cplt_irq, conv_cplt, HAL_ADC_Stop_IT,
       Fails, Succeeds
  <2> QED  BY <1>8, <2>1, <2>2 DEF adc_irq
<1>9. CASE dma_irq
  <2>1. last_value' \in [Channels -> Channels \cup {None}]
    BY <1>9, <1>0 DEF dma_irq, adc_conv_cplt_irq, conv_cplt
  <2>2. {adstart, eocie, inoperable, failed}' \subseteq BOOLEAN
    BY <1>9 DEF dma_irq, adc_conv_cplt_irq, conv_cplt, HAL_ADC_Stop_IT,
       Fails, Succeeds
  <2> QED  BY <1>9, <2>1, <2>2 DEF dma_irq
<1>10. CASE UNCHANGED pooler_vars
  BY <1>10
<1> QED
  BY <1>1, <1>2, <1>3, <1>4, <1>5, <1>6, <1>7, <1>8, <1>9, <1>10 DEF PoolerNext, on_period_irq

(* Every variable keeps its type, for every sequence and size.             *)
THEOREM AdcTypeCorrect == PoolerSpec => []PoolerTypeOK
<1> QED  BY AdcInitType, AdcStepType, PTL DEF PoolerSpec

-----------------------------------------------------------------------------
LEMMA AdcInitInv == PoolerInit => AdcInv
  BY SequenceFacts DEF PoolerInit, AdcInv, DmaOwned, SingleOwned, SamplesCounted, Single

LEMMA AdcStepInv == PoolerTypeOK /\ AdcInv /\ [PoolerNext]_pooler_vars => AdcInv'
<1> SUFFICES ASSUME PoolerTypeOK, AdcInv, [PoolerNext]_pooler_vars PROVE AdcInv'
  OBVIOUS
<1> USE SequenceFacts, BufferAssumption
        DEF PoolerTypeOK, AdcInv, DmaOwned, SingleOwned, SamplesCounted, Single
<1>0. active_id \in Channels
  OBVIOUS
<1>1. CASE start
  BY <1>1 DEF start
<1>2. CASE Convert
  <2>1. CASE Move
    BY <1>2, <2>1 DEF Convert, Move
  <2>2. CASE Hold
    BY <1>2, <2>2 DEF Convert, Hold
  <2> QED  BY <1>2, <2>1, <2>2 DEF Convert
<1>3. CASE read_used
  BY <1>3 DEF read_used, CountUsed
<1>4. CASE period_stop
  <2>1. Single(active_id)'
    BY <1>4, Alternates DEF period_stop, NextTurn, NextIndex
  <2> QED
    BY <1>4, <2>1 DEF period_stop, NextTurn, BadCount, HAL_ADC_Stop_DMA,
       Fails, Succeeds
<1>5. CASE leave_single
  <2>1. ~Single(active_id)'
    BY <1>5, Alternates DEF leave_single, NextTurn, NextIndex
  <2> QED  BY <1>5, <2>1 DEF leave_single, NextTurn
<1>6. CASE period_start_detailed
  BY <1>6 DEF period_start_detailed, HAL_ADC_ConfigChannel, HAL_ADC_Start_DMA,
     Fails, Succeeds
<1>7. CASE period_start_single
  BY <1>7 DEF period_start_single, HAL_ADC_ConfigChannel, HAL_ADC_Start_IT,
     Fails, Succeeds
<1>8. CASE adc_irq
  BY <1>8, <1>0 DEF adc_irq, adc_conv_cplt_irq, conv_cplt, HAL_ADC_Stop_IT,
     Fails, Succeeds
<1>9. CASE dma_irq
  BY <1>9, <1>0 DEF dma_irq, adc_conv_cplt_irq, conv_cplt, HAL_ADC_Stop_IT,
     Fails, Succeeds
<1>10. CASE UNCHANGED pooler_vars
  BY <1>10
<1> QED
  BY <1>1, <1>2, <1>3, <1>4, <1>5, <1>6, <1>7, <1>8, <1>9, <1>10 DEF PoolerNext, on_period_irq

LEMMA AdcInvariance == PoolerSpec => [](PoolerTypeOK /\ AdcInv)
<1> QED  BY AdcInitType, AdcStepType, AdcInitInv, AdcStepInv, PTL DEF PoolerSpec

(* No channel is ever given the sample of another one, for every sequence  *)
(* in which the current has every second turn (adc_pooler.hpp:163).        *)
THEOREM SamplesBelong == PoolerSpec => []ValuesBelong
<1>1. AdcInv => ValuesBelong
  BY DEF AdcInv, ValuesBelong
<1> QED  BY <1>1, AdcInvariance, PTL

(* Only a call of the HAL that fails makes the pooler inoperable: late     *)
(* conversions never do (adc_pooler.hpp:38-45, 82-85).                     *)
THEOREM LateIsNotFatal == PoolerSpec => []InoperableForCause
<1>1. AdcInv => InoperableForCause
  BY DEF AdcInv, InoperableForCause
<1> QED  BY <1>1, AdcInvariance, PTL

(* The governor is given readings of the turn that ends, unless the ADC    *)
(* was not free at its start (adc_pooler.hpp:51-62).                       *)
THEOREM ReadingsAreFresh == PoolerSpec => []ReadingsOfThisTurn
<1>1. PoolerTypeOK /\ AdcInv => ReadingsOfThisTurn
  <2> SUFFICES ASSUME PoolerTypeOK, AdcInv, period_pc = "stop", ~inoperable,
                      channel = CURRENT_CHANNEL,
                      NEW k \in 0 .. used - 1
               PROVE  k \in fresh
    BY DEF ReadingsOfThisTurn
  <2>1. used <= N - left /\ left \in 0 .. N /\ used \in 0 .. N
    BY DEF PoolerTypeOK, AdcInv, SamplesCounted, Single
  <2>2. k \in 0 .. N - 1 /\ k < N - left
    BY <2>1, BufferAssumption
  <2> QED  BY <2>2 DEF AdcInv, SamplesCounted, Single
<1> QED  BY <1>1, AdcInvariance, PTL

(* Samples lost to a full buffer are reported at the end of the turn       *)
(* (adc_pooler.hpp:56-57).                                                 *)
THEOREM LossReported == PoolerSpec => []LossIsReported
<1>1. AdcInv => LossIsReported
  BY DEF AdcInv, LossIsReported, SamplesCounted, Single
<1> QED  BY <1>1, AdcInvariance, PTL
=============================================================================
