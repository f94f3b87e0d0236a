------------------------------- MODULE Clock -------------------------------
(***************************************************************************)
(* The clock of the firmware: a timer that counts microseconds from 0 to   *)
(* Period - 1, an interrupt that counts its overflows, and get_us, which   *)
(* joins the two without a lock: it retries until no overflow came         *)
(* between its reads.                                                      *)
(*                                                                         *)
(* get_us is called from the main loop, from the interrupts of priority 1  *)
(* ("low") and from those of priority 0 ("high": the UART, whose errors    *)
(* are reported with a time stamp).  The interrupt of the timer has        *)
(* priority 0 too: it preempts the first two, and waits for the last.      *)
(* irq_count_ has 64 bits, read by one instruction that an interrupt       *)
(* restarts, so a read of it is one step.                                  *)
(***************************************************************************)
EXTENDS Integers

CONSTANTS
  Period,   \* microseconds from one overflow to the next: Init.Period + 1
  MaxWraps  \* bound of the overflows

ASSUME ClockAssumption ==
  /\ Period \in Nat \ {0}
  /\ MaxWraps \in Nat

VARIABLES
  wraps,      \* overflows so far; wraps and cnt are the true time
  cnt,        \* the counter of the timer
  uif,        \* its overflow flag, which is also bit 31 of the counter read
  handling,   \* the interrupt has cleared the flag and counts next
  irq_count,  \* clock::irq_count_
  get_us_pc,  \* next statement of get_us in each context
  ic,         \* its local ic
  us,         \* its local us: the counter and the flag read
  began       \* history: when the call began

clock_vars ==
  <<wraps, cnt, uif, handling, irq_count, get_us_pc, ic, us, began>>
timer == <<wraps, cnt, uif>>

-----------------------------------------------------------------------------
Contexts == {"main", "low", "high"}

Above(c) == IF c = "main" THEN {"low", "high"}
            ELSE IF c = "low" THEN {"high"} ELSE {}

Running(c) == ~handling /\ \A d \in Above(c) : get_us_pc[d] = "idle"

Microseconds(w, n) == w * Period + n

Now == Microseconds(wraps, cnt)

-----------------------------------------------------------------------------
(* The timer.  Its interrupt is served before the next overflow: the other *)
(* interrupts of its priority take less than a period, unless one hangs in *)
(* get_us, and then no overflow is counted any more whatever comes.        *)
Wrap ==
  /\ ~uif
  /\ wraps < MaxWraps
  /\ cnt' = 0
  /\ wraps' = wraps + 1
  /\ uif' = TRUE

Count ==
  /\ cnt' = cnt + 1
  /\ UNCHANGED <<wraps, uif>>

Tick ==
  /\ (cnt + 1 < Period /\ Count) \/ (cnt + 1 = Period /\ Wrap)
  /\ UNCHANGED <<handling, irq_count, get_us_pc, ic, us, began>>

(* HAL_TIM_IRQHandler clears the flag and calls timer_period_irq.          *)
clear_flag ==
  /\ uif
  /\ ~handling
  /\ get_us_pc["high"] = "idle"
  /\ uif' = FALSE
  /\ handling' = TRUE
  /\ UNCHANGED <<wraps, cnt, irq_count, get_us_pc, ic, us, began>>

timer_period_irq ==
  /\ handling
  /\ irq_count' = irq_count + 1
  /\ handling' = FALSE
  /\ UNCHANGED <<timer, get_us_pc, ic, us, began>>

-----------------------------------------------------------------------------
(* clock::get_us.                                                          *)

call(c) ==
  /\ Running(c)
  /\ get_us_pc[c] = "idle"
  /\ get_us_pc' = [get_us_pc EXCEPT ![c] = "count"]
  /\ began' = [began EXCEPT ![c] = Now]
  /\ UNCHANGED <<timer, handling, irq_count, ic, us>>

read_count(c) ==
  /\ Running(c)
  /\ get_us_pc[c] = "count"
  /\ ic' = [ic EXCEPT ![c] = irq_count]
  /\ get_us_pc' = [get_us_pc EXCEPT ![c] = "counter"]
  /\ UNCHANGED <<timer, handling, irq_count, us, began>>

read_counter(c) ==
  /\ Running(c)
  /\ get_us_pc[c] = "counter"
  /\ us' = [us EXCEPT ![c] = [cnt |-> cnt, uif |-> uif]]
  /\ get_us_pc' = [get_us_pc EXCEPT ![c] = "check"]
  /\ UNCHANGED <<timer, handling, irq_count, ic, began>>

(* Mutant: the pending overflow is not looked at.                          *)
Overflowed_counted(c) == ic[c] # irq_count

Overflowed(c) == ic[c] # irq_count \/ us[c].uif

(* Mutant: the next round keeps the count it has.                          *)
retry_counter(c) ==
  /\ Running(c)
  /\ get_us_pc[c] = "check"
  /\ Overflowed(c)
  /\ get_us_pc' = [get_us_pc EXCEPT ![c] = "counter"]
  /\ us' = [us EXCEPT ![c] = [cnt |-> 0, uif |-> FALSE]]
  /\ UNCHANGED <<timer, handling, irq_count, ic, began>>

(* The locals are written again before they are read: they are cleared.    *)
retry(c) ==
  /\ Running(c)
  /\ get_us_pc[c] = "check"
  /\ Overflowed(c)
  /\ get_us_pc' = [get_us_pc EXCEPT ![c] = "count"]
  /\ ic' = [ic EXCEPT ![c] = 0]
  /\ us' = [us EXCEPT ![c] = [cnt |-> 0, uif |-> FALSE]]
  /\ UNCHANGED <<timer, handling, irq_count, began>>

return(c) ==
  /\ Running(c)
  /\ get_us_pc[c] = "check"
  /\ ~Overflowed(c)
  /\ get_us_pc' = [get_us_pc EXCEPT ![c] = "idle"]
  /\ ic' = [ic EXCEPT ![c] = 0]
  /\ us' = [us EXCEPT ![c] = [cnt |-> 0, uif |-> FALSE]]
  /\ began' = [began EXCEPT ![c] = 0]
  /\ UNCHANGED <<timer, handling, irq_count>>

Result(c) == Microseconds(ic[c], us[c].cnt)

-----------------------------------------------------------------------------
ClockInit ==
  /\ wraps = 0
  /\ cnt = 0
  /\ uif = FALSE
  /\ handling = FALSE
  /\ irq_count = 0
  /\ get_us_pc = [c \in Contexts |-> "idle"]
  /\ ic = [c \in Contexts |-> 0]
  /\ us = [c \in Contexts |-> [cnt |-> 0, uif |-> FALSE]]
  /\ began = [c \in Contexts |-> 0]

get_us(c) == read_count(c) \/ read_counter(c) \/ retry(c) \/ return(c)

ClockNext ==
  \/ Tick
  \/ clear_flag \/ timer_period_irq
  \/ \E c \in Contexts : call(c) \/ get_us(c)

(* The processor runs: interrupts are served, and a lower context gets its *)
(* turn between the interrupts above it.                                   *)
ClockFairness ==
  /\ SF_clock_vars(clear_flag)
  /\ WF_clock_vars(timer_period_irq)
  /\ \A c \in Contexts : SF_clock_vars(get_us(c))

ClockSpec == ClockInit /\ [][ClockNext]_clock_vars /\ ClockFairness

-----------------------------------------------------------------------------
(* Properties                                                              *)

(* Every variable holds a value of its type.                               *)
ClockTypeOK ==
  /\ wraps \in Nat
  /\ cnt \in 0 .. Period - 1
  /\ uif \in BOOLEAN
  /\ handling \in BOOLEAN
  /\ irq_count \in Nat
  /\ get_us_pc \in [Contexts -> {"idle", "count", "counter", "check"}]
  /\ ic \in [Contexts -> Nat]
  /\ us \in [Contexts -> [cnt : 0 .. Period - 1, uif : BOOLEAN]]
  /\ began \in [Contexts -> Nat]

(* What get_us returns is the time at some instant of the call: never one  *)
(* before it began nor one still to come, whatever overflows and calls of  *)
(* other contexts came between its reads.  So time never goes back for a   *)
(* context, nor from one call to a later one of another (clock.hpp:31-42). *)
ReturnsInstant ==
  \A c \in Contexts :
    get_us_pc[c] = "check" /\ ~Overflowed(c) => began[c] <= Result(c) /\ Result(c) <= Now

(* A call by the main loop or the motor interrupts ends, unless a UART     *)
(* interrupt hangs (clock.hpp:35-38).                                      *)
Hangs ==
  \/ get_us_pc["high"] \in {"count", "counter"} /\ uif
  \/ get_us_pc["high"] = "check" /\ us["high"].uif

CallEnds ==
  \A c \in Contexts : get_us_pc[c] # "idle" ~> get_us_pc[c] = "idle" \/ Hangs

(* A UART interrupt whose round begins with an overflow pending never      *)
(* leaves get_us: the interrupt that would clear the flag has its priority *)
(* and waits for it (timers.cpp:126, board.cpp:352).                       *)
HangsForever == [][Hangs => Hangs']_clock_vars
=============================================================================
