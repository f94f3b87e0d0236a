------------------------------- MODULE Sentry -------------------------------
(***************************************************************************)
(* The error bookkeeping of the firmware: one central_sentry that owns two *)
(* rings of records and the latch of inoperability, and the sentry objects *)
(* of the drivers that report to it (src/src/sntr).  Every action is a     *)
(* whole call of a public member function; MotorStop splits the one that   *)
(* stops the motor into its statements.                                    *)
(*                                                                         *)
(* record_state::LOCKED is set nowhere in the repository, so the loop of   *)
(* get_next_free ends after one iteration and is not modelled as a loop.   *)
(* The timestamp of a record is the number of the report: the clock is     *)
(* external and only its monotonicity matters here.                        *)
(***************************************************************************)
EXTENDS Integers, Sequences

CONSTANTS
  Sentries,    \* the sentry objects of the program
  InopSize,    \* length of the ring of inoperable records
  DegrSize,    \* length of the ring of degraded records
  max_eid,     \* greatest error id a driver may use (29 in the source)
  Eids,        \* error ids the drivers pass, legal or not
  Sets,        \* sets of error codes the drivers pass
  MaxReports   \* bound of the model: number of reports made

ASSUME SentryAssumption ==
  /\ InopSize \in Nat
  /\ DegrSize \in Nat
  /\ max_eid \in Nat
  /\ Eids \subseteq 0 .. max_eid + 3
  /\ Sets \subseteq SUBSET (0 .. max_eid + 2)
  /\ MaxReports \in Nat

VARIABLES
  inop_buffer,     \* ring of inoperable records
  degr_buffer,     \* ring of degraded records
  inop_i,          \* next slot of inop_buffer
  degr_i,          \* next slot of degr_buffer
  is_inoperable,   \* the latch
  stops,           \* how often stop_callback_ was called
  life,            \* life of each sentry object: "none", "alive" or "dead"
  inop_ecode,      \* codes a sentry has reported as inoperable
  degr_ecode,      \* codes a sentry holds as degraded
  inop_log,        \* history: every inoperable record ever written
  degr_log         \* history: every degraded record ever written

central_vars == <<inop_buffer, degr_buffer, inop_i, degr_i, is_inoperable,
                  stops, inop_log, degr_log>>
sentry_vars  == <<life, inop_ecode, degr_ecode>>
vars         == <<central_vars, sentry_vars>>

-----------------------------------------------------------------------------
(* Types of base.hpp and record.hpp.                                       *)

terminated_eid == max_eid + 1
forbidden_eid  == max_eid + 2
eid_bits       == forbidden_eid + 1

Eid       == 0 .. eid_bits            \* eid_bits itself fits in no ecode_set
ecode_set == SUBSET (0 .. eid_bits - 1)
Emsg      == {"caller", "inop eid err", "degr eid err", "unset degraded", "set"}

default_record == [st |-> "UNSET"]

record == [st : {"SET"}, tp : Nat, src : Sentries, ecodes : ecode_set,
            emsg : Emsg, data : Eid]

-----------------------------------------------------------------------------
(* central_sentry                                                          *)

Reports == Len(inop_log) + Len(degr_log)

MakeRecord(s, ecodes, emsg, data) ==
  [st |-> "SET", tp |-> Reports, src |-> s, ecodes |-> ecodes,
   emsg |-> emsg, data |-> data]

(* Mutant: the latch is not checked.                                       *)
fire_always == is_inoperable' = TRUE /\ stops' = stops + 1

fire_inoperable ==
  /\ is_inoperable' = TRUE
  /\ stops' = IF is_inoperable THEN stops ELSE stops + 1

(* A report into an empty ring is a division by zero: the guard keeps the  *)
(* model to the programs that give the central sentry a slot to write to.  *)
report_inoperable(s, ecodes, emsg, data) ==
  LET r == MakeRecord(s, ecodes, emsg, data)
  IN  /\ InopSize > 0
      /\ Reports < MaxReports
      /\ inop_buffer' = [inop_buffer EXCEPT ![inop_i] = r]
      /\ inop_i' = (inop_i + 1) % InopSize
      /\ inop_log' = Append(inop_log, r)
      /\ fire_inoperable
      /\ UNCHANGED <<degr_buffer, degr_i, degr_log>>

report_degraded(s, ecodes, emsg, data) ==
  LET r == MakeRecord(s, ecodes, emsg, data)
  IN  /\ DegrSize > 0
      /\ Reports < MaxReports
      /\ degr_buffer' = [degr_buffer EXCEPT ![degr_i] = r]
      /\ degr_i' = (degr_i + 1) % DegrSize
      /\ degr_log' = Append(degr_log, r)
      /\ UNCHANGED <<inop_buffer, inop_i, inop_log, is_inoperable, stops>>

-----------------------------------------------------------------------------
(* sentry                                                                  *)

construct(s) ==
  /\ life[s] = "none"
  /\ life' = [life EXCEPT ![s] = "alive"]
  /\ UNCHANGED <<inop_ecode, degr_ecode, central_vars>>

report_inop(s, eid, emsg, data) ==
  /\ inop_ecode' = [inop_ecode EXCEPT ![s] = @ \cup {eid}]
  /\ report_inoperable(s, inop_ecode'[s], emsg, data)

set_inoperable(s, eid) ==
  /\ life[s] = "alive"
  /\ \/ /\ eid > max_eid
        /\ report_inop(s, forbidden_eid, "inop eid err", eid)
     \/ /\ eid <= max_eid
        /\ report_inop(s, eid, "caller", 0)
  /\ UNCHANGED <<life, degr_ecode>>

set_inoperable_set(s, set) ==
  /\ life[s] = "alive"
  /\ report_inoperable(s, set, "set", 0)
  /\ UNCHANGED sentry_vars

set_degraded(s, eid) ==
  /\ life[s] = "alive"
  /\ \/ /\ eid > max_eid
        /\ report_inop(s, forbidden_eid, "degr eid err", eid)
        /\ UNCHANGED degr_ecode
     \/ /\ eid <= max_eid
        /\ degr_ecode' = [degr_ecode EXCEPT ![s] = @ \cup {eid}]
        /\ report_degraded(s, degr_ecode'[s], "caller", 0)
        /\ UNCHANGED inop_ecode
  /\ UNCHANGED life

(* The source intersects: a set never adds a degradation.                  *)
set_degraded_set(s, set) ==
  /\ life[s] = "alive"
  /\ degr_ecode' = [degr_ecode EXCEPT ![s] = @ \cap set]
  /\ report_degraded(s, degr_ecode'[s], "set", 0)
  /\ UNCHANGED <<life, inop_ecode>>

(* Mutant: the change is not reported.                                     *)
unset_silently(s, eid) ==
  /\ life[s] = "alive"
  /\ eid < eid_bits
  /\ degr_ecode' = [degr_ecode EXCEPT ![s] = @ \ {eid}]
  /\ UNCHANGED <<life, inop_ecode, central_vars>>

(* bitset::reset accepts the positions below eid_bits.                     *)
unset_degraded(s, eid) ==
  /\ life[s] = "alive"
  /\ eid < eid_bits
  /\ degr_ecode' = [degr_ecode EXCEPT ![s] = @ \ {eid}]
  /\ report_degraded(s, degr_ecode'[s], "unset degraded", eid)
  /\ UNCHANGED <<life, inop_ecode>>

(* ~sentry calls set_inoperable(terminated_eid), which is above max_eid.   *)
destruct(s) ==
  /\ life[s] = "alive"
  /\ life' = [life EXCEPT ![s] = "dead"]
  /\ report_inop(s, forbidden_eid, "inop eid err", terminated_eid)
  /\ UNCHANGED <<degr_ecode>>

-----------------------------------------------------------------------------
Init ==
  /\ inop_buffer = [i \in 0 .. InopSize - 1 |-> default_record]
  /\ degr_buffer = [i \in 0 .. DegrSize - 1 |-> default_record]
  /\ inop_i = 0
  /\ degr_i = 0
  /\ is_inoperable = (InopSize = 0 \/ DegrSize = 0)
  /\ stops = IF InopSize = 0 \/ DegrSize = 0 THEN 1 ELSE 0
  /\ life = [s \in Sentries |-> "none"]
  /\ inop_ecode = [s \in Sentries |-> {}]
  /\ degr_ecode = [s \in Sentries |-> {}]
  /\ inop_log = << >>
  /\ degr_log = << >>

Next ==
  \E s \in Sentries :
    \/ construct(s)
    \/ \E eid \in Eids : set_inoperable(s, eid)
    \/ \E set \in Sets : set_inoperable_set(s, set)
    \/ \E eid \in Eids : set_degraded(s, eid)
    \/ \E set \in Sets : set_degraded_set(s, set)
    \/ \E eid \in Eids : unset_degraded(s, eid)
    \/ destruct(s)

Spec == Init /\ [][Next]_vars

-----------------------------------------------------------------------------
(* Properties                                                              *)

(* Every variable of central_sentry and of the sentries holds a value of   *)
(* its type; in particular a sentry never holds a reserved id (terminated, *)
(* forbidden) as a degradation, and it reports no reserved id but          *)
(* forbidden_eid through set_inoperable (sentry.cpp:20-49).                *)
TypeOK ==
  /\ inop_log \in Seq(record)
  /\ degr_log \in Seq(record)
  /\ inop_buffer \in [0 .. InopSize - 1 -> record \cup {default_record}]
  /\ degr_buffer \in [0 .. DegrSize - 1 -> record \cup {default_record}]
  /\ inop_i \in Nat
  /\ degr_i \in Nat
  /\ is_inoperable \in BOOLEAN
  /\ stops \in Nat
  /\ life \in [Sentries -> {"none", "alive", "dead"}]
  /\ inop_ecode \in [Sentries -> SUBSET ((0 .. max_eid) \cup {forbidden_eid})]
  /\ degr_ecode \in [Sentries -> SUBSET (0 .. max_eid)]

(* A ring holds the newest records of its history: the record number k     *)
(* (from 0) is in slot k % size until size newer ones were written, a slot *)
(* not yet reached is UNSET, and the index is the next slot.               *)
HoldsNewest(buffer, index, size, log) ==
  /\ size > 0 => index = Len(log) % size
  /\ \A k \in 1 .. Len(log) :
       k > Len(log) - size => buffer[(k - 1) % size] = log[k]
  /\ \A i \in 0 .. size - 1 : i >= Len(log) => buffer[i] = default_record

(* Both rings of the central sentry (central_sentry.cpp:65-100) keep the   *)
(* newest records, in order, whichever sentries report in whatever order.  *)
(* The oldest go first, the cause of the stop among them, although a list  *)
(* of tests to write has it that an inoperable record won't get removed    *)
(* (sentry_utest.cpp:158).                                                 *)
RingsHoldNewest ==
  /\ HoldsNewest(inop_buffer, inop_i, InopSize, inop_log)
  /\ HoldsNewest(degr_buffer, degr_i, DegrSize, degr_log)

(* The stop callback runs exactly once, at the first inoperable report or  *)
(* in the constructor of a central sentry without records: however many    *)
(* reports follow, is_inoperable and the one stop agree with the history.  *)
StoppedOnceWhenInoperable ==
  /\ is_inoperable <=> (inop_log # << >> \/ InopSize = 0 \/ DegrSize = 0)
  /\ stops = IF is_inoperable THEN 1 ELSE 0

(* What a sentry holds as degraded is what its newest degraded record      *)
(* says: no change of degr_ecode_ goes unreported (sentry.cpp:36-57).      *)
Own(s) == {k \in 1 .. Len(degr_log) : degr_log[k].src = s}

Newest(K) == CHOOSE k \in K : \A j \in K : j <= k

LastDegraded(s) == IF Own(s) = {} THEN {} ELSE degr_log[Newest(Own(s))].ecodes

DegradedIsReported == \A s \in Sentries : degr_ecode[s] = LastDegraded(s)

(* The causes accumulate: what a sentry reported inoperable through        *)
(* set_inoperable is in each of its later reports, so a later cause never  *)
(* hides an earlier one (sentry.cpp:53-57).                                *)
CausesAccumulate ==
  \A j, k \in 1 .. Len(inop_log) :
    /\ j < k
    /\ inop_log[j].src = inop_log[k].src
    /\ inop_log[j].emsg # "set"
    /\ inop_log[k].emsg # "set"
    => inop_log[j].ecodes \subseteq inop_log[k].ecodes
=============================================================================
