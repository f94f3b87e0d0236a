----------------------------- MODULE Indication -----------------------------
(***************************************************************************)
(* What the red and the blue LED tell: monitor::tick, indication and its   *)
(* blinker, called by the passes of the main loop (src/src/mon and         *)
(* core::tick).                                                            *)
(*                                                                         *)
(* The blinker walks over n slots, each lit and then dark for a step; an   *)
(* event sets slots, a visit clears them.  Times are kept relative to now. *)
(* The constructor of indication leaves next_e of the blinker and the      *)
(* values of the LEDs indeterminate: they start with any value of a set.   *)
(* The green LED shows a floating point wave and is not modelled.          *)
(***************************************************************************)
EXTENDS Integers

CONSTANTS
  n,           \* slots of the blinker
  step,        \* blinker::step
  boot_on,     \* how long BOOTING lights the blue LED
  message_on,  \* how long INCOMING_MESSAGE does
  Leftovers,   \* what next_e may be ahead of the clock at the start
  Passes,      \* how long a pass of the main loop may take
  MaxLag       \* bound of the model: how far next_e may fall behind

ASSUME IndicationAssumption ==
  /\ n \in Nat /\ n > 2
  /\ step \in Nat \ {0}
  /\ {boot_on, message_on} \subseteq Nat
  /\ Leftovers \subseteq Int
  /\ Passes \subseteq Nat \ {0}
  /\ MaxLag \in Nat

VARIABLES
  pc,          \* next statement of main: "boot", "setup", "tick", "recv", "handle"
  ahead,       \* next_e - now, may be negative
  state,       \* slots set in blinker::state
  i,           \* blinker::i, twice the slot, and one more in its dark half
  output,      \* blinker::output
  blue_left,   \* blue_disengage_at_ - now, 0 when it is over
  leds,        \* the LEDs as driven
  low,         \* the voltage was too low at the last tick
  hot,         \* the temperature was too high at the last tick
  held,        \* history: visits since low or hot changed, up to 4n
  blinks,      \* history: lit visits of this cycle
  lit,         \* history: how long the red LED has been on, up to step
  late         \* history: how late it was turned on, up to step

blinker_vars == <<ahead, state, i, output>>
hist_vars    == <<held, blinks, lit, late>>
vars == <<pc, blinker_vars, blue_left, leds, low, hot, hist_vars>>

-----------------------------------------------------------------------------
Positive(x) == IF x > 0 THEN x ELSE 0
UpTo(x, bound) == IF x < bound THEN x ELSE bound

(* The clock goes on by d.                                                 *)
Elapse(d) ==
  /\ ahead - d >= -MaxLag
  /\ ahead' = ahead - d
  /\ blue_left' = Positive(blue_left - d)
  /\ lit' = UpTo(lit + d, step)

(* Mutant: a high temperature sets one slot.                               *)
Slots_single(is_low, is_hot) ==
  (IF is_low THEN {0} ELSE {}) \cup (IF is_hot THEN {1} ELSE {})

(* VOLTAGE_LOW and TEMPERATURE_HIGH of indication::on_event.               *)
Slots(is_low, is_hot) ==
  (IF is_low THEN {0} ELSE {}) \cup (IF is_hot THEN {1, 2} ELSE {})

(* Mutant: i runs over the slots once more than there are.                 *)
Visit_over(set) ==
  /\ output' = (i % 2 = 0 /\ i \div 2 \in set)
  /\ state' = set \ {i \div 2}
  /\ i' = (i + 1) % (n * 2 + 1)

(* A visit of the blinker at the slot of i, with the slots set that are    *)
(* set.                                                                    *)
Visit(set) ==
  /\ output' = (i % 2 = 0 /\ i \div 2 \in set)
  /\ state' = set \ {i \div 2}
  /\ i' = (i + 1) % (n * 2)

(* Mutant: each call starts the step again.                                *)
update_postponed(set) ==
  IF ahead > 0
    THEN state' = set /\ ahead' = step /\ UNCHANGED <<i, output>>
    ELSE Visit(set) /\ ahead' = step

(* Mutant: the step is not counted.                                        *)
update_at_once(set) ==
  IF ahead > 0
    THEN state' = set /\ UNCHANGED <<i, output, ahead>>
    ELSE Visit(set) /\ UNCHANGED ahead

(* blinker::update: next_e steps once, however late the call is.           *)
update(set) ==
  IF ahead > 0
    THEN state' = set /\ UNCHANGED <<i, output, ahead>>
    ELSE Visit(set) /\ ahead' = ahead + step

(* What the histories keep of a tick.                                      *)
Observe(is_low, is_hot) ==
  LET visited == ahead <= 0
      same    == is_low = low /\ is_hot = hot
  IN  /\ held' = IF ~same THEN 0 ELSE IF visited THEN UpTo(held + 1, 4 * n) ELSE held
      /\ blinks' = (IF visited /\ i = 0 THEN 0 ELSE blinks)
                    + (IF visited /\ output' THEN 1 ELSE 0)
      /\ IF visited /\ output' THEN lit' = 0 /\ late' = UpTo(-ahead, step)
                               ELSE UNCHANGED <<lit, late>>

(* core::tick: monitor::tick, indication::tick and leds::update.           *)
tick(is_low, is_hot) ==
  /\ pc = "tick"
  /\ low' = is_low /\ hot' = is_hot
  /\ update(state \cup Slots(is_low, is_hot))
  /\ leds' = [red |-> output', blue |-> blue_left > 0]
  /\ Observe(is_low, is_hot)
  /\ pc' = "recv"
  /\ UNCHANGED blue_left

(* recv has nothing: the pass ends.                                        *)
no_message(d) ==
  /\ pc = "recv"
  /\ Elapse(d)
  /\ pc' = "tick"
  /\ UNCHANGED <<state, i, output, leds, low, hot, held, blinks, late>>

(* on_event( INCOMING_MESSAGE ).                                           *)
incoming_message ==
  /\ pc = "recv"
  /\ blue_left' = message_on
  /\ pc' = "handle"
  /\ UNCHANGED <<blinker_vars, leds, low, hot, hist_vars>>

(* handle_message and send take their time.                                *)
handle_message(d) ==
  /\ pc = "handle"
  /\ Elapse(d)
  /\ pc' = "tick"
  /\ UNCHANGED <<state, i, output, leds, low, hot, held, blinks, late>>

(* context::setup shows the LEDs before indication ever computed them.     *)
setup_leds(d) ==
  /\ pc = "boot"
  /\ \E red, blue \in BOOLEAN : leds' = [red |-> red, blue |-> blue]
  /\ Elapse(d)
  /\ pc' = "setup"
  /\ UNCHANGED <<state, i, output, low, hot, held, blinks, late>>

(* context::setup ends with INITIALIZED.                                   *)
initialized ==
  /\ pc = "setup"
  /\ blue_left' = 0
  /\ pc' = "tick"
  /\ UNCHANGED <<blinker_vars, leds, low, hot, hist_vars>>

(* The constructors of indication and monitor: BOOTING.                    *)
Init ==
  /\ pc = "boot"
  /\ ahead \in Leftovers
  /\ state = {} /\ i = 0 /\ output = FALSE
  /\ blue_left = boot_on
  /\ leds = [red |-> FALSE, blue |-> FALSE]
  /\ low = FALSE /\ hot = FALSE
  /\ held = 0 /\ blinks = 0
  /\ lit = step /\ late = 0

Next ==
  \/ \E is_low, is_hot \in BOOLEAN : tick(is_low, is_hot)
  \/ \E d \in Passes : no_message(d) \/ handle_message(d) \/ setup_leds(d)
  \/ incoming_message \/ initialized

Spec == Init /\ [][Next]_vars /\ WF_vars(Next)

-----------------------------------------------------------------------------
(* Properties                                                              *)

(* Every variable holds a value of its type.                               *)
TypeOK ==
  /\ pc \in {"boot", "setup", "tick", "recv", "handle"}
  /\ ahead \in Int
  /\ state \subseteq 0 .. 2
  /\ i \in 0 .. 2 * n - 1
  /\ output \in BOOLEAN
  /\ blue_left \in 0 .. boot_on + message_on
  /\ leds \in [red : BOOLEAN, blue : BOOLEAN]
  /\ {low, hot} \subseteq BOOLEAN
  /\ held \in 0 .. 4 * n
  /\ blinks \in 0 .. n
  /\ {lit, late} \subseteq 0 .. step

(* After two cycles of unchanged readings the red LED blinks once a cycle  *)
(* for a low voltage, twice for a high temperature and three times for     *)
(* both (indication.hpp:11-12), also when the main loop stalls.            *)
BlinksTellCause ==
  held = 4 * n /\ i = 0 =>
    blinks = (IF low THEN 1 ELSE 0) + (IF hot THEN 2 ELSE 0)

(* The red LED goes off a whole step after it should have gone on, so a    *)
(* blink is short by no more than it came late (effects.cpp:25).           *)
BlinkLasts == [][leds.red /\ ~leds'.red /\ pc = "tick" => lit + late >= step]_vars

(* A voltage or a temperature that stays out of its limits is shown again  *)
(* and again, and the red LED stays dark once both are back.               *)
RedFollowsCause ==
  /\ <>[](low \/ hot) => []<>leds.red
  /\ <>[](~low /\ ~hot) => <>[](~leds.red)
=============================================================================
