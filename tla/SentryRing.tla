----------------------------- MODULE SentryRing -----------------------------
(***************************************************************************)
(* One ring of records of the central sentry, written by reports of        *)
(* several priorities: central_sentry::report_inoperable and               *)
(* report_degraded with get_next_free, statement by statement.             *)
(*                                                                         *)
(* Sentry takes a report as one step.  In the program the ADC reports from *)
(* interrupts of priority 1, the UART from interrupts of priority 0 and    *)
(* the boot from main, into the same two rings and without a lock.  Level  *)
(* 1 is main; a level runs only while no level above it is in a report.    *)
(* The index is a plain variable: the compiler may keep the value it read  *)
(* for the target or read it again to step it.  It may also store the      *)
(* fields of the record in any order.                                      *)
(*                                                                         *)
(* record_state::LOCKED is set nowhere, so the loop of get_next_free ends  *)
(* after one iteration.  A report is named by the order in which reports   *)
(* take their slot.                                                        *)
(***************************************************************************)
EXTENDS Integers, FiniteSets

CONSTANTS
  Size,       \* length of the ring
  Levels,     \* number of priorities that report
  Fields,     \* the fields of a record
  MaxReports  \* bound of the model: number of reports made

ASSUME SentryRingAssumption ==
  /\ Size \in Nat \ {0}
  /\ Levels \in Nat \ {0}
  /\ Fields # {}
  /\ MaxReports \in Nat

VARIABLES
  index,      \* inop_i_ or degr_i_
  buffer,     \* report whose value each field of each record holds, 0 for none
  pc,         \* next statement of each level: "idle", "take", "step", "fill"
  target,     \* slot each level writes to
  id,         \* the report each level makes
  left,       \* fields each level has still to store
  taken,      \* history: number of reports that have taken a slot
  inside,     \* history: reports that took a slot while another was stepping
  lapped      \* history: a report was preempted by a whole round of the ring

vars == <<index, buffer, pc, target, id, left, taken, inside, lapped>>

-----------------------------------------------------------------------------
Level == 1 .. Levels
Slots == 0 .. Size - 1

Runs(l) == \A k \in Level : k > l => pc[k] = "idle"

(* Levels that have a slot and have not finished the report.               *)
Pending == {l \in Level : pc[l] \in {"step", "fill"}}

Default == [f \in Fields |-> 0]

(* A report is made: report_inoperable or report_degraded reads the clock. *)
report(l) ==
  /\ pc[l] = "idle" /\ Runs(l)
  /\ taken + Cardinality({k \in Level : pc[k] = "take"}) < MaxReports
  /\ pc' = [pc EXCEPT ![l] = "take"]
  /\ left' = [left EXCEPT ![l] = Fields]
  /\ UNCHANGED <<index, buffer, target, id, taken, inside, lapped>>

(* target = &buffer[index]                                                 *)
take(l) ==
  /\ pc[l] = "take" /\ Runs(l)
  /\ target' = [target EXCEPT ![l] = index]
  /\ taken' = taken + 1
  /\ id' = [id EXCEPT ![l] = taken']
  /\ inside' = IF \E k \in Level : pc[k] = "step" THEN inside \cup {taken'} ELSE inside
  /\ lapped' = (lapped \/ \E k \in Pending : taken' - id[k] >= Size)
  /\ pc' = [pc EXCEPT ![l] = "step"]
  /\ UNCHANGED <<index, buffer, left>>

(* Mutant: the last slot is never used.                                    *)
step_short(l) ==
  /\ pc[l] = "step" /\ Runs(l)
  /\ \E i \in {target[l], index} : index' = (i + 1) % (Size - 1)
  /\ pc' = [pc EXCEPT ![l] = "fill"]
  /\ UNCHANGED <<buffer, target, id, left, taken, inside, lapped>>

(* index = ( index + 1 ) % buffer.size()                                   *)
step(l) ==
  /\ pc[l] = "step" /\ Runs(l)
  /\ \E i \in {target[l], index} : index' = (i + 1) % Size
  /\ pc' = [pc EXCEPT ![l] = "fill"]
  /\ UNCHANGED <<buffer, target, id, left, taken, inside, lapped>>

(* Mutant: the record is found again by the index.                         *)
store_by_index(l, f) ==
  /\ pc[l] = "fill" /\ Runs(l)
  /\ f \in left[l]
  /\ buffer' = [buffer EXCEPT ![(index + Size - 1) % Size][f] = id[l]]
  /\ left' = [left EXCEPT ![l] = @ \ {f}]
  /\ UNCHANGED <<index, pc, target, id, taken, inside, lapped>>

(* target->src = src; and so on.                                           *)
store(l, f) ==
  /\ pc[l] = "fill" /\ Runs(l)
  /\ f \in left[l]
  /\ buffer' = [buffer EXCEPT ![target[l]][f] = id[l]]
  /\ left' = [left EXCEPT ![l] = @ \ {f}]
  /\ UNCHANGED <<index, pc, target, id, taken, inside, lapped>>

return(l) ==
  /\ pc[l] = "fill" /\ Runs(l)
  /\ left[l] = {}
  /\ pc' = [pc EXCEPT ![l] = "idle"]
  /\ UNCHANGED <<index, buffer, target, id, left, taken, inside, lapped>>

Init ==
  /\ index = 0
  /\ buffer = [s \in Slots |-> Default]
  /\ pc = [l \in Level |-> "idle"]
  /\ target = [l \in Level |-> 0]
  /\ id = [l \in Level |-> 0]
  /\ left = [l \in Level |-> {}]
  /\ taken = 0
  /\ inside = {}
  /\ lapped = FALSE

Next == \E l \in Level :
  report(l) \/ take(l) \/ step(l) \/ return(l) \/ \E f \in Fields : store(l, f)

Spec == Init /\ [][Next]_vars

-----------------------------------------------------------------------------
(* Properties                                                              *)

(* Every variable holds a value of its type; index names a slot.           *)
TypeOK ==
  /\ index \in Slots
  /\ buffer \in [Slots -> [Fields -> 0 .. taken]]
  /\ pc \in [Level -> {"idle", "take", "step", "fill"}]
  /\ target \in [Level -> Slots]
  /\ id \in [Level -> 0 .. taken]
  /\ left \in [Level -> SUBSET Fields]
  /\ taken \in Nat
  /\ inside \subseteq 1 .. taken
  /\ lapped \in BOOLEAN

Holds(s, r) == \A f \in Fields : buffer[s][f] = r

Finished(r) == \A l \in Pending : id[l] # r

(* A record nobody is writing is of one report, and never mixed from two,  *)
(* unless a report was preempted by as many others as the ring has records *)
(* (central_sentry.cpp:73-79).                                             *)
RecordsAreWhole ==
  ~lapped =>
    \A s \in Slots :
      (\A l \in Pending : target[l] # s) => \E r \in 0 .. taken : Holds(s, r)

(* A finished report is in the ring until as many newer ones have taken a  *)
(* slot as the ring has records, in spite of the unprotected index, unless *)
(* it came while another was between the read and the step of the index    *)
(* (central_sentry.cpp:19-20).                                             *)
ReportsAreKept ==
  ~lapped =>
    \A r \in (1 .. taken) \ inside :
      Finished(r) /\ taken - r < Size => \E s \in Slots : Holds(s, r)
=============================================================================
