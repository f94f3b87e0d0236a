----------------------------- MODULE MotorStop -----------------------------
(***************************************************************************)
(* How the firmware stops the motor: fire_inoperable of the central        *)
(* sentry, the stop callback of the board, hbridge::force_stop and         *)
(* hbridge::set_power, and stop_exec of the main loop.                     *)
(*                                                                         *)
(* Three contexts run this code, each statement by statement: the main     *)
(* loop, the interrupts of priority 1 (the period of TIM1, the ADC) and    *)
(* those of priority 0 (the UART).  A context runs only while no context   *)
(* above it does.  What the governor in control computes is any power;     *)
(* powers are signs and a compare register is 0 or 1 (the full period).    *)
(*                                                                         *)
(* A write through tim_ after another context has set it to nullptr is     *)
(* undefined: a handle kept in a register still reaches the timer, one     *)
(* that is read again writes elsewhere or ends in the fault handler.       *)
(*                                                                         *)
(* A report begins with get_us, which may hang in a context of priority 0  *)
(* (module Clock): then nothing below that context runs again.             *)
(***************************************************************************)
EXTENDS Integers

CONSTANT LateBound  \* bound of the history late, above what can happen

ASSUME MotorStopAssumption == LateBound \in Nat

VARIABLES
  pc,             \* next statement of each context
  ret,            \* where a context goes on when its stop is done
  irqs,           \* interrupt contexts the boot has enabled so far
  tim,            \* hbridge::tim_ is not nullptr
  ccr,            \* the compare registers of the two channels
  next_ccr,       \* what set_power is about to write to them
  inverted,       \* hbridge::inverted_
  last_power,     \* hbridge::last_power_
  direction,      \* hbridge::direction_
  vref,           \* the reference voltage of the bridge is on
  red,            \* the red LED glows
  is_inoperable,  \* central_sentry::is_inoperable_
  late,           \* history: compare writes of set_power after the stop
  stopped_by,     \* history: the context that gave up the bridge
  vref_late       \* history: the boot turned vref on after a stop

motor_vars == <<ccr, next_ccr, inverted, last_power, direction, late>>
board_vars == <<vref, red, vref_late>>
vars == <<pc, ret, irqs, tim, stopped_by, motor_vars, board_vars, is_inoperable>>

-----------------------------------------------------------------------------
Contexts == {"main", "low", "high"}
Channels == {1, 2}

(* The statements of the stop, and of each context.                        *)
Stopping   == {"stop", "stop_mc1", "stop_mc2", "forget", "vref_off", "red_on",
               "fault"}
Firing     == {"report", "fire", "latch"} \cup Stopping
MainLabels == {"setup", "apply", "hb_start1", "hb_start2", "comms_start",
               "quad_start", "vref_on", "loop", "spin"} \cup Stopping
LowLabels  == {"idle", "callback", "set_mc1", "set_mc2", "period_start"} \cup Firing
HighLabels == {"idle", "degraded", "hung"} \cup Firing

Above(c) == IF c = "main" THEN {"low", "high"}
            ELSE IF c = "low" THEN {"high"} ELSE {}

Idle(c)  == pc[c] = "idle"
Halted   == \E c \in Contexts : pc[c] = "fault"
Quiet    == Idle("low") /\ Idle("high")
Hung     == pc["high"] = "hung"

(* Context c is on the processor and at the statement.                     *)
At(c, label) ==
  /\ pc[c] = label
  /\ ~Halted
  /\ \A d \in Above(c) : Idle(d)

Goto(c, label) == pc' = [pc EXCEPT ![c] = label]

Jump(c, label, back) ==
  /\ Goto(c, label)
  /\ ret' = [ret EXCEPT ![c] = back]

-----------------------------------------------------------------------------
(* Writes of a compare register.                                           *)

(* The fault handler calls stop_exec, which finds no handle.               *)
Fault(c) ==
  /\ Goto(c, "fault")
  /\ vref' = FALSE
  /\ red' = TRUE

(* The outcomes of writing v to channel ch: the last two need a null       *)
(* handle.                                                                 *)
Write(c, ch, v, next) ==
  \/ /\ ccr' = [ccr EXCEPT ![ch] = v]
     /\ Goto(c, next)
     /\ UNCHANGED <<vref, red>>
  \/ /\ ~tim
     /\ Goto(c, next)
     /\ UNCHANGED <<ccr, vref, red>>
  \/ /\ ~tim
     /\ Fault(c)
     /\ UNCHANGED ccr

-----------------------------------------------------------------------------
(* central_sentry::report_inoperable: the time is read and the record is   *)
(* written before fire_inoperable is called.  report_degraded ends there.  *)
report_inoperable(c) ==
  /\ At(c, "report")
  /\ Goto(c, "fire")
  /\ UNCHANGED <<ret, irqs, tim, stopped_by, motor_vars, board_vars, is_inoperable>>

report_degraded ==
  /\ At("high", "degraded")
  /\ Goto("high", "idle")
  /\ UNCHANGED <<ret, irqs, tim, stopped_by, motor_vars, board_vars, is_inoperable>>

(* get_us never returns: the clock overflowed, and its interrupt waits.    *)
get_us_hangs ==
  /\ pc["high"] \in {"report", "degraded"}
  /\ At("high", pc["high"])
  /\ Goto("high", "hung")
  /\ UNCHANGED <<ret, irqs, tim, stopped_by, motor_vars, board_vars, is_inoperable>>

(* central_sentry::fire_inoperable and the callback it was given.          *)
fire_check(c) ==
  /\ At(c, "fire")
  /\ Goto(c, IF is_inoperable THEN ret[c] ELSE "latch")
  /\ UNCHANGED <<ret, irqs, tim, stopped_by, motor_vars, board_vars, is_inoperable>>

(* Mutant: the latch is set and the callback is not called.                *)
fire_latch_only(c) ==
  /\ At(c, "latch")
  /\ is_inoperable' = TRUE
  /\ Goto(c, ret[c])
  /\ UNCHANGED <<ret, irqs, tim, stopped_by, motor_vars, board_vars>>

fire_latch(c) ==
  /\ At(c, "latch")
  /\ is_inoperable' = TRUE
  /\ Goto(c, "stop")
  /\ UNCHANGED <<ret, irqs, tim, stopped_by, motor_vars, board_vars>>

(* hbridge::force_stop.                                                    *)
stop_check(c) ==
  /\ At(c, "stop")
  /\ Goto(c, IF tim THEN "stop_mc1" ELSE "forget")
  /\ UNCHANGED <<ret, irqs, tim, stopped_by, motor_vars, board_vars, is_inoperable>>

stop_mc1(c) ==
  /\ At(c, "stop_mc1")
  /\ Write(c, 1, 0, "stop_mc2")
  /\ UNCHANGED <<ret, irqs, tim, stopped_by, next_ccr, inverted, last_power, direction,
                 late, vref_late, is_inoperable>>

stop_mc2(c) ==
  /\ At(c, "stop_mc2")
  /\ Write(c, 2, 0, "forget")
  /\ UNCHANGED <<ret, irqs, tim, stopped_by, next_ccr, inverted, last_power, direction,
                 late, vref_late, is_inoperable>>

(* Mutant: the handle is kept.                                             *)
forget_not(c) ==
  /\ At(c, "forget")
  /\ Goto(c, "vref_off")
  /\ UNCHANGED <<ret, irqs, tim, stopped_by, motor_vars, board_vars, is_inoperable>>

forget(c) ==
  /\ At(c, "forget")
  /\ tim' = FALSE
  /\ stopped_by' = IF tim THEN c ELSE stopped_by
  /\ Goto(c, "vref_off")
  /\ UNCHANGED <<ret, irqs, motor_vars, board_vars, is_inoperable>>

(* Mutants: the reference voltage, or the LED, is forgotten.               *)
vref_left(c) ==
  /\ At(c, "vref_off")
  /\ Goto(c, "red_on")
  /\ UNCHANGED <<ret, irqs, tim, stopped_by, motor_vars, board_vars, is_inoperable>>

red_led_left(c) ==
  /\ At(c, "red_on")
  /\ Goto(c, ret[c])
  /\ UNCHANGED <<ret, irqs, tim, stopped_by, motor_vars, board_vars, is_inoperable>>

(* The rest of the stop callback.                                          *)
vref_off(c) ==
  /\ At(c, "vref_off")
  /\ vref' = FALSE
  /\ Goto(c, "red_on")
  /\ UNCHANGED <<ret, irqs, tim, stopped_by, motor_vars, red, vref_late, is_inoperable>>

force_red_led(c) ==
  /\ At(c, "red_on")
  /\ red' = TRUE
  /\ Goto(c, ret[c])
  /\ UNCHANGED <<ret, irqs, tim, stopped_by, motor_vars, vref, vref_late, is_inoperable>>

-----------------------------------------------------------------------------
(* Interrupts of priority 1.                                               *)

(* timer_period_irq and the pooler's on_period_irq: the channel measured   *)
(* ends its conversions, which may fail, and if it is the current its      *)
(* callback follows in any case; then the next channel is started.         *)
period_irq ==
  /\ At("low", "idle")
  /\ "low" \in irqs
  /\ tim
  /\ \/ Goto("low", "callback") /\ UNCHANGED ret
     \/ Jump("low", "report", "callback")
     \/ Goto("low", "period_start") /\ UNCHANGED ret
  /\ UNCHANGED <<irqs, tim, stopped_by, motor_vars, board_vars, is_inoperable>>

period_start ==
  /\ At("low", "period_start")
  /\ \/ Goto("low", "idle") /\ UNCHANGED ret
     \/ Jump("low", "report", "idle")
  /\ UNCHANGED <<irqs, tim, stopped_by, motor_vars, board_vars, is_inoperable>>

(* The end of a conversion is signalled whether or not the bridge runs.    *)
conv_cplt_error ==
  /\ At("low", "idle")
  /\ "low" \in irqs
  /\ Jump("low", "report", "idle")
  /\ UNCHANGED <<irqs, tim, stopped_by, motor_vars, board_vars, is_inoperable>>

(* hbridge::set_power up to the writes.                                    *)
Compare(p, inv) ==
  LET mc == [ch \in Channels |->
               IF (ch = 1 /\ p > 0) \/ (ch = 2 /\ p < 0) THEN 0 ELSE 1]
  IN  IF inv THEN [ch \in Channels |-> mc[3 - ch]] ELSE mc

(* Mutant: the handle is not checked.                                      *)
set_power_unchecked(p) ==
  /\ At("low", "callback")
  /\ last_power' = p
  /\ direction' = IF p = 0 THEN direction ELSE p
  /\ next_ccr' = Compare(p, inverted)
  /\ Goto("low", "set_mc1")
  /\ UNCHANGED <<ret, irqs, tim, stopped_by, ccr, inverted, late, board_vars, is_inoperable>>

set_power(p) ==
  /\ At("low", "callback")
  /\ \/ /\ tim
        /\ last_power' = p
        /\ direction' = IF p = 0 THEN direction ELSE p
        /\ next_ccr' = Compare(p, inverted)
        /\ Goto("low", "set_mc1")
     \/ /\ ~tim
        /\ Goto("low", "period_start")
        /\ UNCHANGED <<last_power, direction, next_ccr>>
  /\ UNCHANGED <<ret, irqs, tim, stopped_by, ccr, inverted, late, board_vars, is_inoperable>>

Late == IF ~tim /\ late < LateBound THEN late + 1 ELSE late

set_mc1 ==
  /\ At("low", "set_mc1")
  /\ Write("low", 1, next_ccr[1], "set_mc2")
  /\ late' = Late
  /\ UNCHANGED <<ret, irqs, tim, stopped_by, next_ccr, inverted, last_power, direction,
                 vref_late, is_inoperable>>

set_mc2 ==
  /\ At("low", "set_mc2")
  /\ Write("low", 2, next_ccr[2], "period_start")
  /\ late' = Late
  /\ UNCHANGED <<ret, irqs, tim, stopped_by, next_ccr, inverted, last_power, direction,
                 vref_late, is_inoperable>>

-----------------------------------------------------------------------------
(* Interrupts of priority 0: an error of the UART, one that is tolerated,  *)
(* or a byte after which the reception cannot be started again.            *)
uart_error_irq ==
  /\ At("high", "idle")
  /\ "high" \in irqs
  /\ \/ Jump("high", "report", "idle")
     \/ Jump("high", "degraded", "idle")
  /\ UNCHANGED <<irqs, tim, stopped_by, motor_vars, board_vars, is_inoperable>>

-----------------------------------------------------------------------------
(* The boot and the main loop.                                             *)

stop_exec == Jump("main", "stop", "spin")

(* setup_core_drivers: a failure before the callback is installed stops    *)
(* the program without it.                                                 *)
setup ==
  /\ At("main", "setup")
  /\ \/ Goto("main", "apply") /\ UNCHANGED ret
     \/ Goto("main", "spin") /\ UNCHANGED ret
  /\ UNCHANGED <<irqs, tim, stopped_by, motor_vars, board_vars, is_inoperable>>

(* context::setup up to the start callback: the configuration is applied.  *)
apply(inv) ==
  /\ At("main", "apply")
  /\ \/ /\ inverted' = inv
        /\ Goto("main", "hb_start1")
        /\ UNCHANGED ret
     \/ /\ stop_exec
        /\ UNCHANGED inverted
  /\ UNCHANGED <<irqs, tim, stopped_by, ccr, next_ccr, last_power, direction, late,
                 board_vars, is_inoperable>>

(* hbridge::start: the counter, and with it the period interrupt, runs     *)
(* from the start of the first channel on.                                 *)
hb_start1 ==
  /\ At("main", "hb_start1")
  /\ \/ /\ tim
        /\ irqs' = irqs \cup {"low"}
        /\ Goto("main", "hb_start2")
        /\ UNCHANGED ret
     \/ /\ stop_exec
        /\ UNCHANGED irqs
  /\ UNCHANGED <<tim, stopped_by, motor_vars, board_vars, is_inoperable>>

(* The second channel may fail; its handle may have become nullptr.        *)
hb_start2 ==
  /\ At("main", "hb_start2")
  /\ \/ Goto("main", "comms_start") /\ UNCHANGED <<ret, vref, red>>
     \/ stop_exec /\ UNCHANGED <<vref, red>>
     \/ ~tim /\ Fault("main") /\ UNCHANGED ret
  /\ UNCHANGED <<irqs, tim, stopped_by, motor_vars, vref_late, is_inoperable>>

comms_start ==
  /\ At("main", "comms_start")
  /\ \/ /\ irqs' = irqs \cup {"high"}
        /\ Goto("main", "quad_start")
        /\ UNCHANGED ret
     \/ /\ stop_exec
        /\ UNCHANGED irqs
  /\ UNCHANGED <<tim, stopped_by, motor_vars, board_vars, is_inoperable>>

(* The encoder, if the board has one.                                      *)
quad_start ==
  /\ At("main", "quad_start")
  /\ \/ Goto("main", "vref_on") /\ UNCHANGED ret
     \/ stop_exec
  /\ UNCHANGED <<irqs, tim, stopped_by, motor_vars, board_vars, is_inoperable>>

vref_on ==
  /\ At("main", "vref_on")
  /\ vref' = TRUE
  /\ vref_late' = ~tim
  /\ \/ Goto("main", "loop") /\ UNCHANGED ret
     \/ stop_exec
  /\ UNCHANGED <<irqs, tim, stopped_by, motor_vars, red, is_inoperable>>

(* core::tick shows the indication: red_forced_ is never set.              *)
update_leds(r) ==
  /\ At("main", "loop")
  /\ red' = r
  /\ UNCHANGED <<pc, ret, irqs, tim, stopped_by, motor_vars, vref, vref_late, is_inoperable>>

set_invert(inv) ==
  /\ At("main", "loop")
  /\ inverted' = inv
  /\ UNCHANGED <<pc, ret, irqs, tim, stopped_by, ccr, next_ccr, last_power, direction,
                 late, board_vars, is_inoperable>>

(* A failed recv, handle_message or send ends the loop.                    *)
loop_error ==
  /\ At("main", "loop")
  /\ stop_exec
  /\ UNCHANGED <<irqs, tim, stopped_by, motor_vars, board_vars, is_inoperable>>

-----------------------------------------------------------------------------
Init ==
  /\ pc = [c \in Contexts |-> IF c = "main" THEN "setup" ELSE "idle"]
  /\ ret = [c \in Contexts |-> IF c = "main" THEN "spin" ELSE "idle"]
  /\ irqs = {}
  /\ tim = TRUE
  /\ ccr = [ch \in Channels |-> 1]
  /\ next_ccr = [ch \in Channels |-> 1]
  /\ inverted = FALSE
  /\ last_power = 0
  /\ direction = 1
  /\ vref = FALSE
  /\ red = FALSE
  /\ is_inoperable = FALSE
  /\ late = 0
  /\ stopped_by = "nobody"
  /\ vref_late = FALSE

(* What a context does once it has been entered.                           *)
Stop(c) ==
  \/ report_inoperable(c) \/ fire_check(c) \/ fire_latch(c)
  \/ stop_check(c) \/ stop_mc1(c) \/ stop_mc2(c) \/ forget(c)
  \/ vref_off(c) \/ force_red_led(c)

Period == \/ \E p \in {-1, 0, 1} : set_power(p)
          \/ set_mc1 \/ set_mc2 \/ period_start

Boot == \/ setup \/ \E inv \in BOOLEAN : apply(inv)
        \/ hb_start1 \/ hb_start2 \/ comms_start \/ quad_start \/ vref_on

Loop == \/ \E r \in BOOLEAN : update_leds(r)
        \/ \E inv \in BOOLEAN : set_invert(inv)
        \/ loop_error

Interrupt == period_irq \/ conv_cplt_error \/ uart_error_irq

Next ==
  \/ \E c \in Contexts : Stop(c)
  \/ Period \/ Boot \/ Loop \/ Interrupt
  \/ report_degraded \/ get_us_hangs

(* The processor runs: an interrupt that was entered goes on, unless it    *)
(* hangs, and a lower context gets its turn between those above it.        *)
Fairness ==
  /\ WF_vars(Stop("high") \/ report_degraded)
  /\ SF_vars(Stop("low") \/ Period)
  /\ SF_vars(Stop("main") \/ Boot)

Spec == Init /\ [][Next]_vars /\ Fairness

-----------------------------------------------------------------------------
(* Properties                                                              *)

(* Every variable holds a value of its type.                               *)
TypeOK ==
  /\ pc \in [Contexts -> MainLabels \cup LowLabels \cup HighLabels]
  /\ pc["main"] \in MainLabels
  /\ pc["low"] \in LowLabels
  /\ pc["high"] \in HighLabels
  /\ ret \in [Contexts -> {"spin", "idle", "callback"}]
  /\ ret["main"] = "spin"
  /\ ret["low"] \in {"idle", "callback"}
  /\ ret["high"] = "idle"
  /\ irqs \subseteq {"low", "high"}
  /\ tim \in BOOLEAN
  /\ ccr \in [Channels -> {0, 1}]
  /\ next_ccr \in [Channels -> {0, 1}]
  /\ inverted \in BOOLEAN
  /\ last_power \in {-1, 0, 1}
  /\ direction \in {-1, 1}
  /\ vref \in BOOLEAN
  /\ red \in BOOLEAN
  /\ is_inoperable \in BOOLEAN
  /\ late \in 0 .. LateBound
  /\ stopped_by \in Contexts \cup {"nobody"}
  /\ vref_late \in BOOLEAN

(* However the reports of the interrupts interleave, as soon as none runs  *)
(* an inoperable system has given up the bridge: the context that found    *)
(* the latch set may rely on the one that set it (central_sentry.cpp:52).  *)
StoppedWhenInoperable == Quiet /\ is_inoperable => ~tim

(* The main loop spins forever only with a bridge given up, or never       *)
(* started (util.cpp:8-15).                                                *)
SpinsStopped == Quiet /\ pc["main"] = "spin" => ~tim \/ irqs = {}

(* The stop callback of the main loop leaves the red LED on: nothing       *)
(* overwrites it once the loop is left.                                    *)
SpinShowsRed == pc["main"] = "spin" /\ (irqs # {} \/ ~tim) => red

(* A stopped bridge has no reference voltage, unless the boot turned it on *)
(* after an interrupt had already stopped the bridge.                      *)
VrefOffWhenStopped == Quiet /\ pc["main"] \notin Stopping /\ ~tim /\ vref => vref_late

(* Only the UART can stop the bridge in the middle of a set_power: at most *)
(* the two compare writes of that call come after the stop.  A stop by the *)
(* interrupt itself or by the main loop is followed by none.               *)
LateWritesBounded == late > 0 => stopped_by = "high" /\ late <= 2

(* While the bridge runs and no stop is under way, the registers hold the  *)
(* power last set: one of them is the full period, and the direction used  *)
(* to sign the measured current is the sign of that power.                 *)
PowerApplied ==
  Quiet /\ tim /\ pc["main"] \notin Stopping =>
    /\ \E inv \in BOOLEAN : ccr = Compare(last_power, inv)
    /\ last_power # 0 => direction = last_power

(* An inoperable system gives up the bridge, whatever preempts the context *)
(* that does it, unless a report of the UART hangs in get_us: that is the  *)
(* one way the motor keeps its last power (central_sentry.cpp:52-71).      *)
InoperableStops == is_inoperable ~> ~tim \/ Hung

(* extra.cpp:43-44: "we should not block inside a loop coz that might mean *)
(* hbridge is still active - find a decent way to disable hbridge AND than *)
(* switch to infinite loop".  In the endless loop of stop_exec a bridge of *)
(* which both channels were started is given no power.                     *)
SpinsUnpowered ==
  pc["main"] = "spin" /\ Quiet /\ irqs = {"low", "high"} => ccr[1] = ccr[2]
=============================================================================
