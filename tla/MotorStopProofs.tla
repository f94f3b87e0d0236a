-------------------------- MODULE MotorStopProofs --------------------------
(***************************************************************************)
(* Proofs about MotorStop: the safety properties hold for every bound of   *)
(* the history.  Inv is inductive; each of its parts says what a context   *)
(* in the middle of a stop, of a set_power or of the boot still owes.      *)
(***************************************************************************)
EXTENDS MotorStop, TLAPS

(* A context that interrupts nothing yet has not been entered.             *)
Entered == \A c \in {"low", "high"} : c \notin irqs => Idle(c)

(* Nothing stops the bridge before the first interrupt is enabled.         *)
BootOrder ==
  /\ pc["main"] \in {"setup", "apply", "hb_start1"} => irqs = {} /\ tim
  /\ pc["main"] \in {"vref_off", "red_on", "spin"} => ~tim \/ irqs = {}

(* Whoever set the latch still holds the processor, or has stopped.        *)
Latched ==
  is_inoperable =>
    \/ ~tim
    \/ \E c \in {"low", "high"} : pc[c] \in {"stop", "stop_mc1", "stop_mc2", "forget"}

SpinRed == pc["main"] = "spin" => red \/ (irqs = {} /\ tim)

(* A set_power that outlives the bridge was preempted by the UART.         *)
LateOrigin ==
  /\ tim => late = 0 /\ stopped_by = "nobody"
  /\ pc["low"] \in {"set_mc1", "set_mc2"} /\ ~tim => stopped_by = "high"
  /\ pc["low"] = "set_mc1" => late = 0
  /\ pc["low"] = "set_mc2" => late <= 1
  /\ late > 0 => stopped_by = "high" /\ late <= 2

(* Whoever gave up the bridge turns the reference voltage off next.        *)
VrefPending ==
  ~tim /\ vref => vref_late \/ \E c \in Contexts : pc[c] = "vref_off"

(* The registers of a bridge nobody has started to stop.                   *)
Powered(regs) == \E inv \in BOOLEAN : regs = Compare(last_power, inv)

Registers ==
  /\ last_power # 0 => direction = last_power
  /\ pc["low"] \in {"set_mc1", "set_mc2"} => Powered(next_ccr)
  /\ tim /\ (\A c \in Contexts : pc[c] \notin {"stop_mc2", "forget"}) =>
       /\ pc["low"] \notin {"set_mc1", "set_mc2"} => Powered(ccr)
       /\ pc["low"] = "set_mc2" => ccr[1] = next_ccr[1]

Inv ==
  /\ TypeOK
  /\ Entered
  /\ BootOrder
  /\ Latched
  /\ SpinRed
  /\ LateOrigin
  /\ VrefPending
  /\ Registers

-----------------------------------------------------------------------------
(* What every leaf below may expand: where a context is and how it moves,  *)
(* and the groups of variables.                                            *)
USE DEF Contexts, Idle, At, Above, Halted, Goto, Jump, motor_vars, board_vars,
  MainLabels, LowLabels, HighLabels, Firing, Stopping

LEMMA InitInv == Init => Inv
<1> SUFFICES ASSUME Init PROVE Inv
  OBVIOUS
<1>1. TypeOK
  <2>1. ret \in [Contexts -> {"spin", "idle", "callback"}]
    BY DEF Init
  <2>2. pc \in [Contexts -> MainLabels \cup LowLabels \cup HighLabels]
    BY DEF Init
  <2>3. late \in 0 .. LateBound
    BY MotorStopAssumption DEF Init
  <2> QED
    BY <2>1, <2>2, <2>3 DEF Init, TypeOK, Channels
<1>2. Entered /\ BootOrder /\ Latched /\ SpinRed /\ LateOrigin /\ VrefPending
  BY DEF Init, Entered, BootOrder, Latched, SpinRed, LateOrigin, VrefPending
<1>3. Registers
  <2>1. ccr = Compare(last_power, FALSE)
    BY DEF Init, Compare, Channels
  <2> QED
    BY <2>1 DEF Init, Registers, Powered
<1> QED
  BY <1>1, <1>2, <1>3 DEF Inv

LEMMA Step_report_inoperable == ASSUME Inv, NEW c \in Contexts, report_inoperable(c)
PROVE  Inv'
<1>1. TypeOK'
  BY MotorStopAssumption DEF Inv, TypeOK, Channels, report_inoperable
<1>2. Entered' /\ BootOrder' /\ Latched' /\ SpinRed'
  BY DEF Inv, TypeOK, Entered, BootOrder, Latched, SpinRed, report_inoperable
<1>3. LateOrigin' /\ VrefPending'
  BY DEF Inv, TypeOK, Entered, BootOrder, LateOrigin, VrefPending, report_inoperable
<1>4. Registers'
  BY DEF Inv, TypeOK, Channels, BootOrder, Registers, Powered, report_inoperable
<1> QED
  BY <1>1, <1>2, <1>3, <1>4 DEF Inv

LEMMA Step_report_degraded == ASSUME Inv, report_degraded
PROVE  Inv'
<1>1. TypeOK'
  BY MotorStopAssumption DEF Inv, TypeOK, Channels, report_degraded
<1>2. Entered' /\ BootOrder' /\ Latched' /\ SpinRed'
  BY DEF Inv, TypeOK, Entered, BootOrder, Latched, SpinRed, report_degraded
<1>3. LateOrigin' /\ VrefPending'
  BY DEF Inv, TypeOK, Entered, BootOrder, LateOrigin, VrefPending, report_degraded
<1>4. Registers'
  BY DEF Inv, TypeOK, Channels, BootOrder, Registers, Powered, report_degraded
<1> QED
  BY <1>1, <1>2, <1>3, <1>4 DEF Inv

LEMMA Step_get_us_hangs == ASSUME Inv, get_us_hangs
PROVE  Inv'
<1>1. TypeOK'
  <2>1. pc' \in [Contexts -> MainLabels \cup LowLabels \cup HighLabels]
    BY DEF Inv, TypeOK, get_us_hangs
  <2>2. pc'["main"] \in MainLabels /\ pc'["low"] \in LowLabels /\ pc'["high"] \in HighLabels
    BY DEF Inv, TypeOK, get_us_hangs
  <2>3. ret' \in [Contexts -> {"spin", "idle", "callback"}] /\ ret'["main"] = "spin"
        /\ ret'["low"] \in {"idle", "callback"} /\ ret'["high"] = "idle"
    BY DEF Inv, TypeOK, get_us_hangs
  <2>4. irqs' \subseteq {"low", "high"}
    BY DEF Inv, TypeOK, get_us_hangs
  <2>5. UNCHANGED <<tim, stopped_by, ccr, next_ccr, inverted, last_power,
                    direction, late, vref, red, vref_late, is_inoperable>>
    BY DEF get_us_hangs
  <2> QED
    BY <2>1, <2>2, <2>3, <2>4, <2>5 DEF Inv, TypeOK
<1>2. Entered' /\ BootOrder' /\ Latched' /\ SpinRed'
  BY DEF Inv, TypeOK, Entered, BootOrder, Latched, SpinRed, get_us_hangs
<1>3. LateOrigin' /\ VrefPending'
  BY DEF Inv, TypeOK, Entered, BootOrder, LateOrigin, VrefPending, get_us_hangs
<1>4. Registers'
  BY DEF Inv, TypeOK, Channels, BootOrder, Registers, Powered, get_us_hangs
<1> QED
  BY <1>1, <1>2, <1>3, <1>4 DEF Inv

LEMMA Step_fire_check == ASSUME Inv, NEW c \in Contexts, fire_check(c)
PROVE  Inv'
<1>1. TypeOK'
  BY MotorStopAssumption DEF Inv, TypeOK, Channels, fire_check
<1>2. Entered' /\ BootOrder' /\ Latched' /\ SpinRed'
  BY DEF Inv, TypeOK, Entered, BootOrder, Latched, SpinRed, fire_check
<1>3. LateOrigin' /\ VrefPending'
  BY DEF Inv, TypeOK, Entered, BootOrder, LateOrigin, VrefPending, fire_check
<1>4. Registers'
  BY DEF Inv, TypeOK, Channels, BootOrder, Registers, Powered, fire_check
<1> QED
  BY <1>1, <1>2, <1>3, <1>4 DEF Inv

LEMMA Step_fire_latch == ASSUME Inv, NEW c \in Contexts, fire_latch(c)
PROVE  Inv'
<1>1. TypeOK'
  BY MotorStopAssumption DEF Inv, TypeOK, Channels, fire_latch
<1>2. Entered' /\ BootOrder' /\ Latched' /\ SpinRed'
  BY DEF Inv, TypeOK, Entered, BootOrder, Latched, SpinRed, fire_latch
<1>3. LateOrigin' /\ VrefPending'
  BY DEF Inv, TypeOK, Entered, BootOrder, LateOrigin, VrefPending, fire_latch
<1>4. Registers'
  BY DEF Inv, TypeOK, Channels, BootOrder, Registers, Powered, fire_latch
<1> QED
  BY <1>1, <1>2, <1>3, <1>4 DEF Inv

LEMMA Step_stop_check == ASSUME Inv, NEW c \in Contexts, stop_check(c)
PROVE  Inv'
<1>1. TypeOK'
  BY MotorStopAssumption DEF Inv, TypeOK, Channels, stop_check
<1>2. Entered' /\ BootOrder' /\ Latched' /\ SpinRed'
  BY DEF Inv, TypeOK, Entered, BootOrder, Latched, SpinRed, stop_check
<1>3. LateOrigin' /\ VrefPending'
  BY DEF Inv, TypeOK, Entered, BootOrder, LateOrigin, VrefPending, stop_check
<1>4. Registers'
  BY DEF Inv, TypeOK, Channels, BootOrder, Registers, Powered, stop_check
<1> QED
  BY <1>1, <1>2, <1>3, <1>4 DEF Inv

LEMMA Step_stop_mc1 == ASSUME Inv, NEW c \in Contexts, stop_mc1(c)
PROVE  Inv'
<1>1. TypeOK'
  <2>1. pc' \in [Contexts -> MainLabels \cup LowLabels \cup HighLabels]
    BY DEF Inv, TypeOK, stop_mc1, Write, Fault
  <2>2. pc'["main"] \in MainLabels /\ pc'["low"] \in LowLabels /\ pc'["high"] \in HighLabels
    BY DEF Inv, TypeOK, stop_mc1, Write, Fault
  <2>3. ccr' \in [Channels -> {0, 1}] /\ next_ccr' \in [Channels -> {0, 1}]
    BY DEF Inv, TypeOK, Channels, stop_mc1, Write, Fault
  <2>4. ret' \in [Contexts -> {"spin", "idle", "callback"}] /\ ret'["main"] = "spin"
        /\ ret'["low"] \in {"idle", "callback"} /\ ret'["high"] = "idle"
    BY DEF Inv, TypeOK, stop_mc1, Write, Fault
  <2>5. irqs' \subseteq {"low", "high"} /\ late' \in 0 .. LateBound
    BY MotorStopAssumption DEF Inv, TypeOK, stop_mc1, Write, Fault
  <2>6. tim' \in BOOLEAN /\ vref' \in BOOLEAN /\ red' \in BOOLEAN /\ vref_late' \in BOOLEAN
        /\ is_inoperable' \in BOOLEAN /\ inverted' \in BOOLEAN
    BY DEF Inv, TypeOK, stop_mc1, Write, Fault
  <2>7. last_power' \in {-1, 0, 1} /\ direction' \in {-1, 1}
        /\ stopped_by' \in Contexts \cup {"nobody"}
    BY DEF Inv, TypeOK, stop_mc1, Write, Fault
  <2> QED
    BY <2>1, <2>2, <2>3, <2>4, <2>5, <2>6, <2>7 DEF TypeOK
<1>2. Entered' /\ BootOrder' /\ Latched' /\ SpinRed'
  BY DEF Inv, TypeOK, Entered, BootOrder, Latched, SpinRed, stop_mc1, Write, Fault
<1>3. LateOrigin' /\ VrefPending'
  BY DEF Inv, TypeOK, Entered, BootOrder, LateOrigin, VrefPending, stop_mc1, Write, Fault
<1>4. Registers'
  BY DEF Inv, TypeOK, Channels, BootOrder, Registers, Powered, stop_mc1, Write, Fault
<1> QED
  BY <1>1, <1>2, <1>3, <1>4 DEF Inv

LEMMA Step_stop_mc2 == ASSUME Inv, NEW c \in Contexts, stop_mc2(c)
PROVE  Inv'
<1>1. TypeOK'
  <2>1. pc' \in [Contexts -> MainLabels \cup LowLabels \cup HighLabels]
    BY DEF Inv, TypeOK, stop_mc2, Write, Fault
  <2>2. pc'["main"] \in MainLabels /\ pc'["low"] \in LowLabels /\ pc'["high"] \in HighLabels
    BY DEF Inv, TypeOK, stop_mc2, Write, Fault
  <2>3. ccr' \in [Channels -> {0, 1}] /\ next_ccr' \in [Channels -> {0, 1}]
    BY DEF Inv, TypeOK, Channels, stop_mc2, Write, Fault
  <2>4. ret' \in [Contexts -> {"spin", "idle", "callback"}] /\ ret'["main"] = "spin"
        /\ ret'["low"] \in {"idle", "callback"} /\ ret'["high"] = "idle"
    BY DEF Inv, TypeOK, stop_mc2, Write, Fault
  <2>5. irqs' \subseteq {"low", "high"} /\ late' \in 0 .. LateBound
    BY MotorStopAssumption DEF Inv, TypeOK, stop_mc2, Write, Fault
  <2>6. tim' \in BOOLEAN /\ vref' \in BOOLEAN /\ red' \in BOOLEAN /\ vref_late' \in BOOLEAN
        /\ is_inoperable' \in BOOLEAN /\ inverted' \in BOOLEAN
    BY DEF Inv, TypeOK, stop_mc2, Write, Fault
  <2>7. last_power' \in {-1, 0, 1} /\ direction' \in {-1, 1}
        /\ stopped_by' \in Contexts \cup {"nobody"}
    BY DEF Inv, TypeOK, stop_mc2, Write, Fault
  <2> QED
    BY <2>1, <2>2, <2>3, <2>4, <2>5, <2>6, <2>7 DEF TypeOK
<1>2. Entered' /\ BootOrder' /\ Latched' /\ SpinRed'
  BY DEF Inv, TypeOK, Entered, BootOrder, Latched, SpinRed, stop_mc2, Write, Fault
<1>3. LateOrigin' /\ VrefPending'
  BY DEF Inv, TypeOK, Entered, BootOrder, LateOrigin, VrefPending, stop_mc2, Write, Fault
<1>4. Registers'
  BY DEF Inv, TypeOK, Channels, BootOrder, Registers, Powered, stop_mc2, Write, Fault
<1> QED
  BY <1>1, <1>2, <1>3, <1>4 DEF Inv

LEMMA Step_forget == ASSUME Inv, NEW c \in Contexts, forget(c)
PROVE  Inv'
<1>1. TypeOK'
  <2>1. pc' \in [Contexts -> MainLabels \cup LowLabels \cup HighLabels]
    BY DEF Inv, TypeOK, forget
  <2>2. pc'["main"] \in MainLabels /\ pc'["low"] \in LowLabels /\ pc'["high"] \in HighLabels
    BY DEF Inv, TypeOK, forget
  <2>3. ccr' \in [Channels -> {0, 1}] /\ next_ccr' \in [Channels -> {0, 1}]
    BY DEF Inv, TypeOK, Channels, forget
  <2>4. ret' \in [Contexts -> {"spin", "idle", "callback"}] /\ ret'["main"] = "spin"
        /\ ret'["low"] \in {"idle", "callback"} /\ ret'["high"] = "idle"
    BY DEF Inv, TypeOK, forget
  <2>5. irqs' \subseteq {"low", "high"} /\ late' \in 0 .. LateBound
    BY MotorStopAssumption DEF Inv, TypeOK, forget
  <2>6. tim' \in BOOLEAN /\ vref' \in BOOLEAN /\ red' \in BOOLEAN /\ vref_late' \in BOOLEAN
        /\ is_inoperable' \in BOOLEAN /\ inverted' \in BOOLEAN
    BY DEF Inv, TypeOK, forget
  <2>7. last_power' \in {-1, 0, 1} /\ direction' \in {-1, 1}
        /\ stopped_by' \in Contexts \cup {"nobody"}
    BY DEF Inv, TypeOK, forget
  <2> QED
    BY <2>1, <2>2, <2>3, <2>4, <2>5, <2>6, <2>7 DEF TypeOK
<1>2. Entered' /\ BootOrder' /\ Latched' /\ SpinRed'
  BY DEF Inv, TypeOK, Entered, BootOrder, Latched, SpinRed, forget
<1>3. LateOrigin' /\ VrefPending'
  BY DEF Inv, TypeOK, Entered, BootOrder, LateOrigin, VrefPending, forget
<1>4. Registers'
  BY DEF Inv, TypeOK, Channels, BootOrder, Registers, Powered, forget
<1> QED
  BY <1>1, <1>2, <1>3, <1>4 DEF Inv

LEMMA Step_vref_off == ASSUME Inv, NEW c \in Contexts, vref_off(c)
PROVE  Inv'
<1>1. TypeOK'
  <2>1. pc' \in [Contexts -> MainLabels \cup LowLabels \cup HighLabels]
    BY DEF Inv, TypeOK, vref_off
  <2>2. pc'["main"] \in MainLabels /\ pc'["low"] \in LowLabels /\ pc'["high"] \in HighLabels
    BY DEF Inv, TypeOK, vref_off
  <2>3. ccr' \in [Channels -> {0, 1}] /\ next_ccr' \in [Channels -> {0, 1}]
    BY DEF Inv, TypeOK, Channels, vref_off
  <2>4. ret' \in [Contexts -> {"spin", "idle", "callback"}] /\ ret'["main"] = "spin"
        /\ ret'["low"] \in {"idle", "callback"} /\ ret'["high"] = "idle"
    BY DEF Inv, TypeOK, vref_off
  <2>5. irqs' \subseteq {"low", "high"} /\ late' \in 0 .. LateBound
    BY MotorStopAssumption DEF Inv, TypeOK, vref_off
  <2>6. tim' \in BOOLEAN /\ vref' \in BOOLEAN /\ red' \in BOOLEAN /\ vref_late' \in BOOLEAN
        /\ is_inoperable' \in BOOLEAN /\ inverted' \in BOOLEAN
    BY DEF Inv, TypeOK, vref_off
  <2>7. last_power' \in {-1, 0, 1} /\ direction' \in {-1, 1}
        /\ stopped_by' \in Contexts \cup {"nobody"}
    BY DEF Inv, TypeOK, vref_off
  <2> QED
    BY <2>1, <2>2, <2>3, <2>4, <2>5, <2>6, <2>7 DEF TypeOK
<1>2. Entered' /\ BootOrder' /\ Latched' /\ SpinRed'
  BY DEF Inv, TypeOK, Entered, BootOrder, Latched, SpinRed, vref_off
<1>3. LateOrigin' /\ VrefPending'
  BY DEF Inv, TypeOK, Entered, BootOrder, LateOrigin, VrefPending, vref_off
<1>4. Registers'
  BY DEF Inv, TypeOK, Channels, BootOrder, Registers, Powered, vref_off
<1> QED
  BY <1>1, <1>2, <1>3, <1>4 DEF Inv

LEMMA Step_force_red_led == ASSUME Inv, NEW c \in Contexts, force_red_led(c)
PROVE  Inv'
<1>1. TypeOK'
  BY MotorStopAssumption DEF Inv, TypeOK, Channels, force_red_led
<1>2. Entered' /\ BootOrder' /\ Latched' /\ SpinRed'
  BY DEF Inv, TypeOK, Entered, BootOrder, Latched, SpinRed, force_red_led
<1>3. LateOrigin' /\ VrefPending'
  BY DEF Inv, TypeOK, Entered, BootOrder, LateOrigin, VrefPending, force_red_led
<1>4. Registers'
  BY DEF Inv, TypeOK, Channels, BootOrder, Registers, Powered, force_red_led
<1> QED
  BY <1>1, <1>2, <1>3, <1>4 DEF Inv

LEMMA Step_period_irq == ASSUME Inv, period_irq
PROVE  Inv'
<1>1. TypeOK'
  BY MotorStopAssumption DEF Inv, TypeOK, Channels, period_irq
<1>2. Entered' /\ BootOrder' /\ Latched' /\ SpinRed'
  BY DEF Inv, TypeOK, Entered, BootOrder, Latched, SpinRed, period_irq
<1>3. LateOrigin' /\ VrefPending'
  BY DEF Inv, TypeOK, Entered, BootOrder, LateOrigin, VrefPending, period_irq
<1>4. Registers'
  BY DEF Inv, TypeOK, Channels, BootOrder, Registers, Powered, period_irq
<1> QED
  BY <1>1, <1>2, <1>3, <1>4 DEF Inv

LEMMA Step_period_start == ASSUME Inv, period_start
PROVE  Inv'
<1>1. TypeOK'
  BY MotorStopAssumption DEF Inv, TypeOK, Channels, period_start
<1>2. Entered' /\ BootOrder' /\ Latched' /\ SpinRed'
  BY DEF Inv, TypeOK, Entered, BootOrder, Latched, SpinRed, period_start
<1>3. LateOrigin' /\ VrefPending'
  BY DEF Inv, TypeOK, Entered, BootOrder, LateOrigin, VrefPending, period_start
<1>4. Registers'
  BY DEF Inv, TypeOK, Channels, BootOrder, Registers, Powered, period_start
<1> QED
  BY <1>1, <1>2, <1>3, <1>4 DEF Inv

LEMMA Step_conv_cplt_error == ASSUME Inv, conv_cplt_error
PROVE  Inv'
<1>1. TypeOK'
  BY MotorStopAssumption DEF Inv, TypeOK, Channels, conv_cplt_error
<1>2. Entered' /\ BootOrder' /\ Latched' /\ SpinRed'
  BY DEF Inv, TypeOK, Entered, BootOrder, Latched, SpinRed, conv_cplt_error
<1>3. LateOrigin' /\ VrefPending'
  BY DEF Inv, TypeOK, Entered, BootOrder, LateOrigin, VrefPending, conv_cplt_error
<1>4. Registers'
  BY DEF Inv, TypeOK, Channels, BootOrder, Registers, Powered, conv_cplt_error
<1> QED
  BY <1>1, <1>2, <1>3, <1>4 DEF Inv

LEMMA Step_set_power == ASSUME Inv, NEW p \in {-1, 0, 1}, set_power(p)
PROVE  Inv'
<1>1. TypeOK'
  BY MotorStopAssumption DEF Inv, TypeOK, Channels, set_power, Compare
<1>2. Entered' /\ BootOrder' /\ Latched' /\ SpinRed'
  BY DEF Inv, TypeOK, Entered, BootOrder, Latched, SpinRed, set_power, Compare
<1>3. LateOrigin' /\ VrefPending'
  BY DEF Inv, TypeOK, Entered, BootOrder, LateOrigin, VrefPending, set_power, Compare
<1>4. Registers'
  BY DEF Inv, TypeOK, Channels, BootOrder, Registers, Powered, set_power, Compare
<1> QED
  BY <1>1, <1>2, <1>3, <1>4 DEF Inv

LEMMA Step_set_mc1 == ASSUME Inv, set_mc1
PROVE  Inv'
<1>1. TypeOK'
  <2>1. pc' \in [Contexts -> MainLabels \cup LowLabels \cup HighLabels]
    BY DEF Inv, TypeOK, set_mc1, Write, Fault, Late
  <2>2. pc'["main"] \in MainLabels /\ pc'["low"] \in LowLabels /\ pc'["high"] \in HighLabels
    BY DEF Inv, TypeOK, set_mc1, Write, Fault, Late
  <2>3. ccr' \in [Channels -> {0, 1}] /\ next_ccr' \in [Channels -> {0, 1}]
    BY DEF Inv, TypeOK, Channels, set_mc1, Write, Fault, Late
  <2>4. ret' \in [Contexts -> {"spin", "idle", "callback"}] /\ ret'["main"] = "spin"
        /\ ret'["low"] \in {"idle", "callback"} /\ ret'["high"] = "idle"
    BY DEF Inv, TypeOK, set_mc1, Write, Fault, Late
  <2>5. irqs' \subseteq {"low", "high"} /\ late' \in 0 .. LateBound
    BY MotorStopAssumption DEF Inv, TypeOK, set_mc1, Write, Fault, Late
  <2>6. tim' \in BOOLEAN /\ vref' \in BOOLEAN /\ red' \in BOOLEAN /\ vref_late' \in BOOLEAN
        /\ is_inoperable' \in BOOLEAN /\ inverted' \in BOOLEAN
    BY DEF Inv, TypeOK, set_mc1, Write, Fault, Late
  <2>7. last_power' \in {-1, 0, 1} /\ direction' \in {-1, 1}
        /\ stopped_by' \in Contexts \cup {"nobody"}
    BY DEF Inv, TypeOK, set_mc1, Write, Fault, Late
  <2> QED
    BY <2>1, <2>2, <2>3, <2>4, <2>5, <2>6, <2>7 DEF TypeOK
<1>2. Entered' /\ BootOrder' /\ Latched' /\ SpinRed'
  BY DEF Inv, TypeOK, Entered, BootOrder, Latched, SpinRed, set_mc1, Write, Fault, Late
<1>3. LateOrigin' /\ VrefPending'
  BY DEF Inv, TypeOK, Entered, BootOrder, LateOrigin, VrefPending, set_mc1, Write, Fault, Late
<1>4. Registers'
  BY DEF Inv, TypeOK, Channels, BootOrder, Registers, Powered, set_mc1, Write, Fault, Late
<1> QED
  BY <1>1, <1>2, <1>3, <1>4 DEF Inv

LEMMA Step_set_mc2 == ASSUME Inv, set_mc2
PROVE  Inv'
<1>1. TypeOK'
  <2>1. pc' \in [Contexts -> MainLabels \cup LowLabels \cup HighLabels]
    BY DEF Inv, TypeOK, set_mc2, Write, Fault, Late
  <2>2. pc'["main"] \in MainLabels /\ pc'["low"] \in LowLabels /\ pc'["high"] \in HighLabels
    BY DEF Inv, TypeOK, set_mc2, Write, Fault, Late
  <2>3. ccr' \in [Channels -> {0, 1}] /\ next_ccr' \in [Channels -> {0, 1}]
    BY DEF Inv, TypeOK, Channels, set_mc2, Write, Fault, Late
  <2>4. ret' \in [Contexts -> {"spin", "idle", "callback"}] /\ ret'["main"] = "spin"
        /\ ret'["low"] \in {"idle", "callback"} /\ ret'["high"] = "idle"
    BY DEF Inv, TypeOK, set_mc2, Write, Fault, Late
  <2>5. irqs' \subseteq {"low", "high"} /\ late' \in 0 .. LateBound
    BY MotorStopAssumption DEF Inv, TypeOK, set_mc2, Write, Fault, Late
  <2>6. tim' \in BOOLEAN /\ vref' \in BOOLEAN /\ red' \in BOOLEAN /\ vref_late' \in BOOLEAN
        /\ is_inoperable' \in BOOLEAN /\ inverted' \in BOOLEAN
    BY DEF Inv, TypeOK, set_mc2, Write, Fault, Late
  <2>7. last_power' \in {-1, 0, 1} /\ direction' \in {-1, 1}
        /\ stopped_by' \in Contexts \cup {"nobody"}
    BY DEF Inv, TypeOK, set_mc2, Write, Fault, Late
  <2> QED
    BY <2>1, <2>2, <2>3, <2>4, <2>5, <2>6, <2>7 DEF TypeOK
<1>2. Entered' /\ BootOrder' /\ Latched' /\ SpinRed'
  BY DEF Inv, TypeOK, Entered, BootOrder, Latched, SpinRed, set_mc2, Write, Fault, Late
<1>3. LateOrigin' /\ VrefPending'
  BY DEF Inv, TypeOK, Entered, BootOrder, LateOrigin, VrefPending, set_mc2, Write, Fault, Late
<1>4. Registers'
  BY DEF Inv, TypeOK, Channels, BootOrder, Registers, Powered, set_mc2, Write, Fault, Late
<1> QED
  BY <1>1, <1>2, <1>3, <1>4 DEF Inv

LEMMA Step_uart_error_irq == ASSUME Inv, uart_error_irq
PROVE  Inv'
<1>1. TypeOK'
  <2>1. pc' \in [Contexts -> MainLabels \cup LowLabels \cup HighLabels]
    BY DEF Inv, TypeOK, uart_error_irq
  <2>2. pc'["main"] \in MainLabels /\ pc'["low"] \in LowLabels /\ pc'["high"] \in HighLabels
    BY DEF Inv, TypeOK, uart_error_irq
  <2>3. ret' \in [Contexts -> {"spin", "idle", "callback"}] /\ ret'["main"] = "spin"
        /\ ret'["low"] \in {"idle", "callback"} /\ ret'["high"] = "idle"
    BY DEF Inv, TypeOK, uart_error_irq
  <2>4. irqs' \subseteq {"low", "high"}
    BY DEF Inv, TypeOK, uart_error_irq
  <2>5. UNCHANGED <<tim, stopped_by, ccr, next_ccr, inverted, last_power,
                    direction, late, vref, red, vref_late, is_inoperable>>
    BY DEF uart_error_irq
  <2> QED
    BY <2>1, <2>2, <2>3, <2>4, <2>5 DEF Inv, TypeOK
<1>2. Entered' /\ BootOrder' /\ Latched' /\ SpinRed'
  BY DEF Inv, TypeOK, Entered, BootOrder, Latched, SpinRed, uart_error_irq
<1>3. LateOrigin' /\ VrefPending'
  BY DEF Inv, TypeOK, Entered, BootOrder, LateOrigin, VrefPending, uart_error_irq
<1>4. Registers'
  BY DEF Inv, TypeOK, Channels, BootOrder, Registers, Powered, uart_error_irq
<1> QED
  BY <1>1, <1>2, <1>3, <1>4 DEF Inv

LEMMA Step_setup == ASSUME Inv, setup
PROVE  Inv'
<1>1. TypeOK'
  BY MotorStopAssumption DEF Inv, TypeOK, Channels, setup
<1>2. Entered' /\ BootOrder' /\ Latched' /\ SpinRed'
  BY DEF Inv, TypeOK, Entered, BootOrder, Latched, SpinRed, setup
<1>3. LateOrigin' /\ VrefPending'
  BY DEF Inv, TypeOK, Entered, BootOrder, LateOrigin, VrefPending, setup
<1>4. Registers'
  BY DEF Inv, TypeOK, Channels, BootOrder, Registers, Powered, setup
<1> QED
  BY <1>1, <1>2, <1>3, <1>4 DEF Inv

LEMMA Step_apply == ASSUME Inv, NEW inv \in BOOLEAN, apply(inv)
PROVE  Inv'
<1>1. TypeOK'
  BY MotorStopAssumption DEF Inv, TypeOK, Channels, apply, stop_exec
<1>2. Entered' /\ BootOrder' /\ Latched' /\ SpinRed'
  BY DEF Inv, TypeOK, Entered, BootOrder, Latched, SpinRed, apply, stop_exec
<1>3. LateOrigin' /\ VrefPending'
  BY DEF Inv, TypeOK, Entered, BootOrder, LateOrigin, VrefPending, apply, stop_exec
<1>4. Registers'
  BY DEF Inv, TypeOK, Channels, BootOrder, Registers, Powered, apply, stop_exec
<1> QED
  BY <1>1, <1>2, <1>3, <1>4 DEF Inv

LEMMA Step_hb_start1 == ASSUME Inv, hb_start1
PROVE  Inv'
<1>1. TypeOK'
  <2>1. pc' \in [Contexts -> MainLabels \cup LowLabels \cup HighLabels]
    BY DEF Inv, TypeOK, hb_start1, stop_exec
  <2>2. pc'["main"] \in MainLabels /\ pc'["low"] \in LowLabels /\ pc'["high"] \in HighLabels
    BY DEF Inv, TypeOK, hb_start1, stop_exec
  <2>3. ret' \in [Contexts -> {"spin", "idle", "callback"}] /\ ret'["main"] = "spin"
        /\ ret'["low"] \in {"idle", "callback"} /\ ret'["high"] = "idle"
    BY DEF Inv, TypeOK, hb_start1, stop_exec
  <2>4. irqs' \subseteq {"low", "high"}
    BY DEF Inv, TypeOK, hb_start1, stop_exec
  <2>5. UNCHANGED <<tim, stopped_by, ccr, next_ccr, inverted, last_power,
                    direction, late, vref, red, vref_late, is_inoperable>>
    BY DEF hb_start1, stop_exec
  <2> QED
    BY <2>1, <2>2, <2>3, <2>4, <2>5 DEF Inv, TypeOK
<1>2. Entered' /\ BootOrder' /\ Latched' /\ SpinRed'
  BY DEF Inv, TypeOK, Entered, BootOrder, Latched, SpinRed, hb_start1, stop_exec
<1>3. LateOrigin' /\ VrefPending'
  BY DEF Inv, TypeOK, Entered, BootOrder, LateOrigin, VrefPending, hb_start1, stop_exec
<1>4. Registers'
  BY DEF Inv, TypeOK, Channels, BootOrder, Registers, Powered, hb_start1, stop_exec
<1> QED
  BY <1>1, <1>2, <1>3, <1>4 DEF Inv

LEMMA Step_hb_start2 == ASSUME Inv, hb_start2
PROVE  Inv'
<1>1. TypeOK'
  <2>1. pc' \in [Contexts -> MainLabels \cup LowLabels \cup HighLabels]
    BY DEF Inv, TypeOK, hb_start2, stop_exec, Fault
  <2>2. pc'["main"] \in MainLabels /\ pc'["low"] \in LowLabels /\ pc'["high"] \in HighLabels
    BY DEF Inv, TypeOK, hb_start2, stop_exec, Fault
  <2>3. ret' \in [Contexts -> {"spin", "idle", "callback"}] /\ ret'["main"] = "spin"
        /\ ret'["low"] \in {"idle", "callback"} /\ ret'["high"] = "idle"
    BY DEF Inv, TypeOK, hb_start2, stop_exec, Fault
  <2>4. vref' \in BOOLEAN /\ red' \in BOOLEAN
    BY DEF Inv, TypeOK, hb_start2, stop_exec, Fault
  <2>5. UNCHANGED <<irqs, tim, stopped_by, ccr, next_ccr, inverted, last_power,
                    direction, late, vref_late, is_inoperable>>
    BY DEF hb_start2, stop_exec, Fault
  <2> QED
    BY <2>1, <2>2, <2>3, <2>4, <2>5 DEF Inv, TypeOK
<1>2. Entered' /\ BootOrder' /\ Latched' /\ SpinRed'
  BY DEF Inv, TypeOK, Entered, BootOrder, Latched, SpinRed, hb_start2, stop_exec, Fault
<1>3. LateOrigin' /\ VrefPending'
  BY DEF Inv, TypeOK, Entered, BootOrder, LateOrigin, VrefPending, hb_start2, stop_exec, Fault
<1>4. Registers'
  BY DEF Inv, TypeOK, Channels, BootOrder, Registers, Powered, hb_start2, stop_exec, Fault
<1> QED
  BY <1>1, <1>2, <1>3, <1>4 DEF Inv

LEMMA Step_comms_start == ASSUME Inv, comms_start
PROVE  Inv'
<1>1. TypeOK'
  <2>1. pc' \in [Contexts -> MainLabels \cup LowLabels \cup HighLabels]
    BY DEF Inv, TypeOK, comms_start, stop_exec
  <2>2. pc'["main"] \in MainLabels /\ pc'["low"] \in LowLabels /\ pc'["high"] \in HighLabels
    BY DEF Inv, TypeOK, comms_start, stop_exec
  <2>3. ret' \in [Contexts -> {"spin", "idle", "callback"}] /\ ret'["main"] = "spin"
        /\ ret'["low"] \in {"idle", "callback"} /\ ret'["high"] = "idle"
    BY DEF Inv, TypeOK, comms_start, stop_exec
  <2>4. irqs' \subseteq {"low", "high"}
    BY DEF Inv, TypeOK, comms_start, stop_exec
  <2>5. UNCHANGED <<tim, stopped_by, ccr, next_ccr, inverted, last_power,
                    direction, late, vref, red, vref_late, is_inoperable>>
    BY DEF comms_start, stop_exec
  <2> QED
    BY <2>1, <2>2, <2>3, <2>4, <2>5 DEF Inv, TypeOK
<1>2. Entered' /\ BootOrder' /\ Latched' /\ SpinRed'
  BY DEF Inv, TypeOK, Entered, BootOrder, Latched, SpinRed, comms_start, stop_exec
<1>3. LateOrigin' /\ VrefPending'
  BY DEF Inv, TypeOK, Entered, BootOrder, LateOrigin, VrefPending, comms_start, stop_exec
<1>4. Registers'
  BY DEF Inv, TypeOK, Channels, BootOrder, Registers, Powered, comms_start, stop_exec
<1> QED
  BY <1>1, <1>2, <1>3, <1>4 DEF Inv

LEMMA Step_quad_start == ASSUME Inv, quad_start
PROVE  Inv'
<1>1. TypeOK'
  BY MotorStopAssumption DEF Inv, TypeOK, Channels, quad_start, stop_exec
<1>2. Entered' /\ BootOrder' /\ Latched' /\ SpinRed'
  BY DEF Inv, TypeOK, Entered, BootOrder, Latched, SpinRed, quad_start, stop_exec
<1>3. LateOrigin' /\ VrefPending'
  BY DEF Inv, TypeOK, Entered, BootOrder, LateOrigin, VrefPending, quad_start, stop_exec
<1>4. Registers'
  BY DEF Inv, TypeOK, Channels, BootOrder, Registers, Powered, quad_start, stop_exec
<1> QED
  BY <1>1, <1>2, <1>3, <1>4 DEF Inv

LEMMA Step_vref_on == ASSUME Inv, vref_on
PROVE  Inv'
<1>1. TypeOK'
  BY MotorStopAssumption DEF Inv, TypeOK, Channels, vref_on, stop_exec
<1>2. Entered' /\ BootOrder' /\ Latched' /\ SpinRed'
  BY DEF Inv, TypeOK, Entered, BootOrder, Latched, SpinRed, vref_on, stop_exec
<1>3. LateOrigin' /\ VrefPending'
  BY DEF Inv, TypeOK, Entered, BootOrder, LateOrigin, VrefPending, vref_on, stop_exec
<1>4. Registers'
  BY DEF Inv, TypeOK, Channels, BootOrder, Registers, Powered, vref_on, stop_exec
<1> QED
  BY <1>1, <1>2, <1>3, <1>4 DEF Inv

LEMMA Step_update_leds == ASSUME Inv, NEW r \in BOOLEAN, update_leds(r)
PROVE  Inv'
<1>1. TypeOK'
  BY MotorStopAssumption DEF Inv, TypeOK, Channels, update_leds
<1>2. Entered' /\ BootOrder' /\ Latched' /\ SpinRed'
  BY DEF Inv, TypeOK, Entered, BootOrder, Latched, SpinRed, update_leds
<1>3. LateOrigin' /\ VrefPending'
  BY DEF Inv, TypeOK, Entered, BootOrder, LateOrigin, VrefPending, update_leds
<1>4. Registers'
  BY DEF Inv, TypeOK, Channels, BootOrder, Registers, Powered, update_leds
<1> QED
  BY <1>1, <1>2, <1>3, <1>4 DEF Inv

LEMMA Step_set_invert == ASSUME Inv, NEW inv \in BOOLEAN, set_invert(inv)
PROVE  Inv'
<1>1. TypeOK'
  BY MotorStopAssumption DEF Inv, TypeOK, Channels, set_invert
<1>2. Entered' /\ BootOrder' /\ Latched' /\ SpinRed'
  BY DEF Inv, TypeOK, Entered, BootOrder, Latched, SpinRed, set_invert
<1>3. LateOrigin' /\ VrefPending'
  BY DEF Inv, TypeOK, Entered, BootOrder, LateOrigin, VrefPending, set_invert
<1>4. Registers'
  BY DEF Inv, TypeOK, Channels, BootOrder, Registers, Powered, set_invert
<1> QED
  BY <1>1, <1>2, <1>3, <1>4 DEF Inv

LEMMA Step_loop_error == ASSUME Inv, loop_error
PROVE  Inv'
<1>1. TypeOK'
  BY MotorStopAssumption DEF Inv, TypeOK, Channels, loop_error, stop_exec
<1>2. Entered' /\ BootOrder' /\ Latched' /\ SpinRed'
  BY DEF Inv, TypeOK, Entered, BootOrder, Latched, SpinRed, loop_error, stop_exec
<1>3. LateOrigin' /\ VrefPending'
  BY DEF Inv, TypeOK, Entered, BootOrder, LateOrigin, VrefPending, loop_error, stop_exec
<1>4. Registers'
  BY DEF Inv, TypeOK, Channels, BootOrder, Registers, Powered, loop_error, stop_exec
<1> QED
  BY <1>1, <1>2, <1>3, <1>4 DEF Inv

LEMMA NextInv == Inv /\ [Next]_vars => Inv'
<1> SUFFICES ASSUME Inv, [Next]_vars PROVE Inv'
  OBVIOUS
<1>1. CASE \E c \in Contexts : Stop(c)
  BY <1>1, Step_report_inoperable, Step_fire_check, Step_fire_latch, Step_stop_check, Step_stop_mc1,
     Step_stop_mc2, Step_forget, Step_vref_off, Step_force_red_led DEF Stop
<1>2. CASE Period
  BY <1>2, Step_set_power, Step_set_mc1, Step_set_mc2, Step_period_start DEF Period
<1>3. CASE Boot
  BY <1>3, Step_setup, Step_apply, Step_hb_start1, Step_hb_start2, Step_comms_start,
     Step_quad_start, Step_vref_on DEF Boot
<1>4. CASE Loop
  BY <1>4, Step_update_leds, Step_set_invert, Step_loop_error DEF Loop
<1>5. CASE Interrupt
  BY <1>5, Step_period_irq, Step_conv_cplt_error, Step_uart_error_irq DEF Interrupt
<1>6. CASE UNCHANGED vars
  <2>1. UNCHANGED <<pc, ret, irqs, tim, stopped_by, ccr, next_ccr, inverted, last_power,
                    direction, late, vref, red, vref_late, is_inoperable>>
    BY <1>6 DEF vars
  <2>2. TypeOK' /\ Entered' /\ BootOrder' /\ Latched'
    BY <2>1 DEF Inv, TypeOK, Entered, BootOrder, Latched
  <2>3. SpinRed' /\ LateOrigin' /\ VrefPending'
    BY <2>1 DEF Inv, SpinRed, LateOrigin, VrefPending
  <2>4. Registers'
    BY <2>1 DEF Inv, Registers, Powered, Compare
  <2> QED
    BY <2>2, <2>3, <2>4 DEF Inv
<1>7. CASE report_degraded \/ get_us_hangs
  BY <1>7, Step_report_degraded, Step_get_us_hangs
<1> QED
  BY <1>1, <1>2, <1>3, <1>4, <1>5, <1>6, <1>7 DEF Next

LEMMA InvHolds == Spec => []Inv
  BY InitInv, NextInv, PTL DEF Spec

-----------------------------------------------------------------------------
(* Every variable of the stop keeps its type (hbridge.hpp:59-68).          *)
THEOREM TypeCorrect == Spec => []TypeOK
<1>1. Inv => TypeOK
  BY DEF Inv
<1> QED
  BY <1>1, InvHolds, PTL

(* An inoperable system has given up the bridge as soon as no interrupt    *)
(* runs, however the reports interleaved (central_sentry.cpp:52-58).       *)
THEOREM InoperableIsStopped == Spec => []StoppedWhenInoperable
<1>1. Inv => StoppedWhenInoperable
  BY DEF Inv, Latched, StoppedWhenInoperable, Quiet
<1> QED
  BY <1>1, InvHolds, PTL

(* The endless loop of stop_exec runs with a bridge given up or never      *)
(* started (util.cpp:8-15).                                                *)
THEOREM SpinningIsStopped == Spec => []SpinsStopped
<1>1. Inv => SpinsStopped
  BY DEF Inv, BootOrder, SpinsStopped
<1> QED
  BY <1>1, InvHolds, PTL

(* The endless loop shows the red LED (leds.cpp:10-13).                    *)
THEOREM SpinningIsRed == Spec => []SpinShowsRed
<1>1. Inv => SpinShowsRed
  BY DEF Inv, SpinRed, SpinShowsRed
<1> QED
  BY <1>1, InvHolds, PTL

(* A stopped bridge has no reference voltage, but for the order of the     *)
(* boot (board.cpp:523-545).                                               *)
THEOREM StoppedHasNoVref == Spec => []VrefOffWhenStopped
<1>1. Inv => VrefOffWhenStopped
  BY DEF Inv, TypeOK, VrefPending, VrefOffWhenStopped, Quiet
<1> QED
  BY <1>1, InvHolds, PTL

(* At most two compare writes follow a stop, and only one by the UART      *)
(* (hbridge.cpp:59-84).                                                    *)
THEOREM LateWritesAreFew == Spec => []LateWritesBounded
<1>1. Inv => LateWritesBounded
  BY DEF Inv, LateOrigin, LateWritesBounded
<1> QED
  BY <1>1, InvHolds, PTL

(* The registers hold the power last set, whatever inverted_ and the sign  *)
(* did meanwhile (hbridge.cpp:59-84).                                      *)
THEOREM PowerIsApplied == Spec => []PowerApplied
<1>1. Inv => PowerApplied
  BY DEF Inv, TypeOK, Registers, Powered, PowerApplied, Quiet
<1> QED
  BY <1>1, InvHolds, PTL

=============================================================================
