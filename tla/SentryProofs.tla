---------------------------- MODULE SentryProofs ----------------------------
(***************************************************************************)
(* Proofs about Sentry, for every number of sentries, every length of the  *)
(* two rings (a ring of length 0 included) and every set of error ids.     *)
(***************************************************************************)
EXTENDS Sentry, TLAPS

-----------------------------------------------------------------------------
(* Arithmetic of a ring index.                                             *)

(* Quotient and remainder.                                                 *)
LEMMA DivMod ==
  ASSUME NEW a \in Nat, NEW n \in Nat, n > 0
  PROVE  /\ a = n * (a \div n) + (a % n)
         /\ a \div n \in Nat
         /\ a % n \in 0 .. n - 1
BY SMT

(* The remainder is unique.                                                *)
LEMMA ModUnique ==
  ASSUME NEW a \in Nat, NEW n \in Nat, n > 0,
         NEW q \in Nat, NEW r \in 0 .. n - 1, a = n * q + r
  PROVE  a % n = r
BY SMT

(* A positive multiple of n is at least n.                                 *)
LEMMA NoSmallMultiple ==
  ASSUME NEW n \in Nat, NEW d \in Int, n * d > 0
  PROVE  n * d >= n
<1>1. CASE d <= 0
  BY <1>1, SMT
<1>2. CASE d >= 1
  BY <1>2, SMT
<1> QED
  BY <1>1, <1>2

(* Two numbers less than n apart have different slots in a ring of n.      *)
LEMMA ModDiff ==
  ASSUME NEW a \in Nat, NEW b \in Nat, NEW n \in Nat, n > 0, a < b, b < a + n
  PROVE  a % n # b % n
<1> DEFINE qa == a \div n
           qb == b \div n
<1>1. a = n * qa + (a % n) /\ qa \in Nat /\ a % n \in 0 .. n - 1
  BY DivMod
<1>2. b = n * qb + (b % n) /\ qb \in Nat /\ b % n \in 0 .. n - 1
  BY DivMod
<1> SUFFICES ASSUME a % n = b % n PROVE FALSE
  OBVIOUS
<1>3. n * (qb - qa) = n * qb - n * qa
  BY <1>1, <1>2, SMT
<1>4. n * (qb - qa) = b - a
  BY <1>1, <1>2, <1>3, SMT
<1>5. n * (qb - qa) >= n
  BY <1>1, <1>2, <1>4, NoSmallMultiple
<1> QED
  BY <1>4, <1>5

(* Stepping an index from slot to slot is counting modulo n.               *)
LEMMA ModSucc ==
  ASSUME NEW a \in Nat, NEW n \in Nat, n > 0
  PROVE  ((a % n) + 1) % n = (a + 1) % n
<1> DEFINE q == a \div n
           r == a % n
<1>1. a = n * q + r /\ q \in Nat /\ r \in 0 .. n - 1
  BY DivMod
<1>2. CASE r + 1 < n
  <2>1. (a + 1) % n = r + 1
    BY <1>1, <1>2, ModUnique
  <2> QED
    BY <1>1, <1>2, <2>1
<1>3. CASE r + 1 = n
  <2>1. a + 1 = n * (q + 1) + 0
    BY <1>1, <1>3
  <2>2. (a + 1) % n = 0
    BY <1>1, <1>3, <2>1, ModUnique
  <2>3. n % n = 0
    BY SMT
  <2> QED
    BY <1>3, <2>2, <2>3
<1> QED
  BY <1>1, <1>2, <1>3

-----------------------------------------------------------------------------
(* One write into a ring that holds the newest records of its history      *)
(* leaves one that holds the newest of the history with that record.       *)
LEMMA RingStep ==
  ASSUME NEW S, NEW T, NEW size \in Nat, size > 0,
         NEW buffer \in [0 .. size - 1 -> T], NEW index,
         NEW log \in Seq(S), NEW r \in S,
         HoldsNewest(buffer, index, size, log)
  PROVE  HoldsNewest([buffer EXCEPT ![index] = r], (index + 1) % size, size,
                     Append(log, r))
<1> DEFINE n    == Len(log)
           new  == [buffer EXCEPT ![index] = r]
           nlog == Append(log, r)
<1>1. /\ n \in Nat /\ Len(nlog) = n + 1 /\ nlog[n + 1] = r
      /\ \A k \in 1 .. n : nlog[k] = log[k]
  OBVIOUS
<1>2. index = n % size /\ index \in 0 .. size - 1
  BY <1>1, DivMod DEF HoldsNewest
<1>3. (index + 1) % size = (n + 1) % size
  BY <1>1, <1>2, ModSucc
<1>4. ASSUME NEW k \in 1 .. n + 1, k > n + 1 - size
      PROVE  new[(k - 1) % size] = nlog[k]
  <2>1. CASE k = n + 1
    BY <1>1, <1>2, <2>1
  <2>2. CASE k \in 1 .. n
    <3>1. /\ k - 1 \in Nat /\ k - 1 < n /\ n < (k - 1) + size
          /\ k > n - size
      BY <1>1, <1>4, <2>2
    <3>2. (k - 1) % size # n % size
      BY <1>1, <3>1, ModDiff
    <3>3. (k - 1) % size \in 0 .. size - 1
      BY <3>1, DivMod
    <3>4. buffer[(k - 1) % size] = log[k]
      BY <2>2, <3>1 DEF HoldsNewest
    <3> QED
      BY <1>1, <1>2, <2>2, <3>2, <3>3, <3>4
  <2> QED
    BY <1>1, <2>1, <2>2
<1>5. ASSUME NEW i \in 0 .. size - 1, i >= n + 1
      PROVE  new[i] = default_record
  <2>1. n = size * 0 + n /\ n \in 0 .. size - 1
    BY <1>1, <1>5
  <2>2. n % size = n
    BY <1>1, <2>1, ModUnique
  <2> QED
    BY <1>1, <1>2, <1>5, <2>2 DEF HoldsNewest
<1> QED
  BY <1>1, <1>3, <1>4, <1>5 DEF HoldsNewest

-----------------------------------------------------------------------------
(* A report made with arguments of their types.                            *)
InopReport ==
  \E s \in Sentries, ecodes \in ecode_set, emsg \in Emsg, data \in Eid :
    report_inoperable(s, ecodes, emsg, data)

DegrReport ==
  \E s \in Sentries, ecodes \in ecode_set, emsg \in Emsg, data \in Eid :
    report_degraded(s, ecodes, emsg, data)

(* What MakeRecord returns is a record.                                    *)
LEMMA MakeRecordType ==
  ASSUME NEW s \in Sentries, NEW ecodes \in ecode_set, NEW emsg \in Emsg,
         NEW data \in Eid, TypeOK
  PROVE  MakeRecord(s, ecodes, emsg, data) \in record
<1>1. Reports \in Nat
  BY DEF TypeOK, Reports
<1> QED
  BY <1>1 DEF MakeRecord, record

(* The reserved ids and the ids drivers pass, in the types of base.hpp.    *)
LEMMA EidTypes ==
  /\ forbidden_eid \in 0 .. eid_bits - 1
  /\ terminated_eid \in Eid
  /\ forbidden_eid \in Eid
  /\ 0 \in Eid
  /\ Eids \subseteq Eid
  /\ Sets \subseteq ecode_set
  /\ SUBSET ((0 .. max_eid) \cup {forbidden_eid}) \subseteq ecode_set
  /\ SUBSET (0 .. max_eid) \subseteq ecode_set
  /\ \A eid \in Eids : eid <= max_eid => eid \in 0 .. max_eid
BY SentryAssumption
   DEF Eid, eid_bits, forbidden_eid, terminated_eid, ecode_set

(* report_inop of the sentry: the codes it sends are of their type.        *)
LEMMA ReportInopStep ==
  ASSUME TypeOK, NEW s \in Sentries,
         NEW eid \in (0 .. max_eid) \cup {forbidden_eid},
         NEW emsg \in Emsg, NEW data \in Eid,
         report_inop(s, eid, emsg, data)
  PROVE  /\ inop_ecode' \in [Sentries -> SUBSET ((0 .. max_eid) \cup {forbidden_eid})]
         /\ inop_ecode'[s] \in ecode_set
         /\ report_inoperable(s, inop_ecode'[s], emsg, data)
         /\ InopReport
<1>1. inop_ecode' \in [Sentries -> SUBSET ((0 .. max_eid) \cup {forbidden_eid})]
  BY DEF TypeOK, report_inop
<1>2. inop_ecode'[s] \in ecode_set
  BY <1>1, EidTypes
<1>3. report_inoperable(s, inop_ecode'[s], emsg, data)
  BY DEF report_inop
<1> QED
  BY <1>1, <1>2, <1>3 DEF InopReport

(* What a step does: it reports once, or leaves the central sentry alone;  *)
(* either way the fields of the sentries keep their types.                 *)
LEMMA StepKinds ==
  ASSUME TypeOK, [Next]_vars
  PROVE  /\ InopReport \/ DegrReport \/ UNCHANGED central_vars
         /\ life' \in [Sentries -> {"none", "alive", "dead"}]
         /\ inop_ecode' \in [Sentries -> SUBSET ((0 .. max_eid) \cup {forbidden_eid})]
         /\ degr_ecode' \in [Sentries -> SUBSET (0 .. max_eid)]
<1> DEFINE Kinds ==
      /\ InopReport \/ DegrReport \/ UNCHANGED central_vars
      /\ life' \in [Sentries -> {"none", "alive", "dead"}]
      /\ inop_ecode' \in [Sentries -> SUBSET ((0 .. max_eid) \cup {forbidden_eid})]
      /\ degr_ecode' \in [Sentries -> SUBSET (0 .. max_eid)]
<1> USE EidTypes
<1>1. CASE UNCHANGED vars
  BY <1>1 DEF TypeOK, vars, sentry_vars
<1>2. ASSUME NEW s \in Sentries, construct(s)
      PROVE  Kinds
  BY <1>2 DEF construct, TypeOK
<1>3. ASSUME NEW s \in Sentries, NEW eid \in Eids, set_inoperable(s, eid)
      PROVE  Kinds
  <2>1. /\ UNCHANGED <<life, degr_ecode>>
        /\ \/ report_inop(s, forbidden_eid, "inop eid err", eid)
           \/ eid <= max_eid /\ report_inop(s, eid, "caller", 0)
    BY <1>3 DEF set_inoperable
  <2> QED
    BY <2>1, ReportInopStep DEF TypeOK, Emsg
<1>4. ASSUME NEW s \in Sentries, NEW set \in Sets, set_inoperable_set(s, set)
      PROVE  Kinds
  <2>1. report_inoperable(s, set, "set", 0) /\ UNCHANGED sentry_vars
    BY <1>4 DEF set_inoperable_set
  <2> QED
    BY <2>1 DEF TypeOK, Emsg, InopReport, sentry_vars
<1>5. ASSUME NEW s \in Sentries, NEW eid \in Eids, set_degraded(s, eid)
      PROVE  Kinds
  <2>1. CASE /\ report_inop(s, forbidden_eid, "degr eid err", eid)
             /\ UNCHANGED <<life, degr_ecode>>
    BY <2>1, ReportInopStep DEF TypeOK, Emsg
  <2>2. CASE /\ eid <= max_eid
             /\ degr_ecode' = [degr_ecode EXCEPT ![s] = @ \cup {eid}]
             /\ report_degraded(s, degr_ecode'[s], "caller", 0)
             /\ UNCHANGED <<life, inop_ecode>>
    <3>1. degr_ecode' \in [Sentries -> SUBSET (0 .. max_eid)]
      BY <2>2 DEF TypeOK
    <3>2. DegrReport
      BY <2>2, <3>1 DEF Emsg, DegrReport
    <3> QED
      BY <2>2, <3>1, <3>2 DEF TypeOK
  <2> QED
    BY <1>5, <2>1, <2>2 DEF set_degraded
<1>6. ASSUME NEW s \in Sentries, NEW set \in Sets, set_degraded_set(s, set)
      PROVE  Kinds
  <2>1. degr_ecode' \in [Sentries -> SUBSET (0 .. max_eid)]
    BY <1>6 DEF set_degraded_set, TypeOK
  <2>2. DegrReport
    BY <1>6, <2>1 DEF set_degraded_set, Emsg, DegrReport
  <2> QED
    BY <1>6, <2>1, <2>2 DEF set_degraded_set, TypeOK
<1>7. ASSUME NEW s \in Sentries, NEW eid \in Eids, unset_degraded(s, eid)
      PROVE  Kinds
  <2>1. degr_ecode' \in [Sentries -> SUBSET (0 .. max_eid)]
    BY <1>7 DEF unset_degraded, TypeOK
  <2>2. DegrReport
    BY <1>7, <2>1 DEF unset_degraded, Emsg, DegrReport
  <2> QED
    BY <1>7, <2>1, <2>2 DEF unset_degraded, TypeOK
<1>8. ASSUME NEW s \in Sentries, destruct(s)
      PROVE  Kinds
  <2>1. /\ life' = [life EXCEPT ![s] = "dead"]
        /\ report_inop(s, forbidden_eid, "inop eid err", terminated_eid)
        /\ UNCHANGED degr_ecode
    BY <1>8 DEF destruct
  <2> QED
    BY <2>1, ReportInopStep DEF TypeOK, Emsg
<1> QED
  BY <1>1, <1>2, <1>3, <1>4, <1>5, <1>6, <1>7, <1>8 DEF Next

-----------------------------------------------------------------------------
(* Every variable of the central sentry and of the sentries keeps its type *)
(* (central_sentry.cpp, sentry.cpp).                                       *)
THEOREM TypeCorrect == Spec => []TypeOK
<1>1. Init => TypeOK
  BY SentryAssumption DEF Init, TypeOK
<1>2. TypeOK /\ [Next]_vars => TypeOK'
  <2> SUFFICES ASSUME TypeOK, [Next]_vars PROVE TypeOK'
    OBVIOUS
  <2>1. CASE UNCHANGED central_vars
    BY <2>1, StepKinds DEF TypeOK, central_vars
  <2>2. CASE InopReport
    <3>1. PICK s \in Sentries, ecodes \in ecode_set, emsg \in Emsg, data \in Eid :
            report_inoperable(s, ecodes, emsg, data)
      BY <2>2 DEF InopReport
    <3> DEFINE r == MakeRecord(s, ecodes, emsg, data)
    <3>2. r \in record
      BY MakeRecordType
    <3>3. inop_i' \in Nat
      BY <3>1, SentryAssumption, DivMod DEF report_inoperable, TypeOK
    <3>4. is_inoperable' \in BOOLEAN /\ stops' \in Nat
      BY <3>1 DEF report_inoperable, fire_inoperable, TypeOK
    <3>5. inop_log' \in Seq(record)
      BY <3>1, <3>2 DEF report_inoperable, TypeOK
    <3>6. /\ inop_buffer' = [inop_buffer EXCEPT ![inop_i] = r]
          /\ UNCHANGED <<degr_buffer, degr_i, degr_log>>
      BY <3>1, Zenon DEF report_inoperable
    <3>7. inop_buffer' \in [0 .. InopSize - 1 -> record \cup {default_record}]
      BY <3>2, <3>6 DEF TypeOK
    <3> QED
      BY <3>3, <3>4, <3>5, <3>6, <3>7, StepKinds, Zenon DEF TypeOK
  <2>3. CASE DegrReport
    <3>1. PICK s \in Sentries, ecodes \in ecode_set, emsg \in Emsg, data \in Eid :
            report_degraded(s, ecodes, emsg, data)
      BY <2>3 DEF DegrReport
    <3> DEFINE r == MakeRecord(s, ecodes, emsg, data)
    <3>2. r \in record
      BY MakeRecordType
    <3>3. degr_i' \in Nat
      BY <3>1, SentryAssumption, DivMod DEF report_degraded, TypeOK
    <3>4. degr_log' \in Seq(record)
      BY <3>1, <3>2 DEF report_degraded, TypeOK
    <3>5. /\ degr_buffer' = [degr_buffer EXCEPT ![degr_i] = r]
          /\ UNCHANGED <<inop_buffer, inop_i, inop_log, is_inoperable, stops>>
      BY <3>1, Zenon DEF report_degraded
    <3>6. degr_buffer' \in [0 .. DegrSize - 1 -> record \cup {default_record}]
      BY <3>2, <3>5 DEF TypeOK
    <3> QED
      BY <3>3, <3>4, <3>5, <3>6, StepKinds, Zenon DEF TypeOK
  <2> QED
    BY <2>1, <2>2, <2>3, StepKinds
<1> QED
  BY <1>1, <1>2, PTL DEF Spec

(* The motor is stopped exactly once, at the first inoperable report or in *)
(* the constructor (central_sentry.cpp:46-58).                             *)
THEOREM StopsOnce == Spec => []StoppedOnceWhenInoperable
<1>1. Init => StoppedOnceWhenInoperable
  BY DEF Init, StoppedOnceWhenInoperable
<1>2. TypeOK /\ StoppedOnceWhenInoperable /\ [Next]_vars => StoppedOnceWhenInoperable'
  <2> SUFFICES ASSUME TypeOK, StoppedOnceWhenInoperable, [Next]_vars
               PROVE  StoppedOnceWhenInoperable'
    OBVIOUS
  <2>1. CASE UNCHANGED central_vars
    BY <2>1 DEF StoppedOnceWhenInoperable, central_vars
  <2>2. CASE InopReport
    <3>1. PICK s \in Sentries, ecodes \in ecode_set, emsg \in Emsg, data \in Eid :
            report_inoperable(s, ecodes, emsg, data)
      BY <2>2 DEF InopReport
    <3>2. inop_log' # << >>
      BY <3>1 DEF report_inoperable, TypeOK
    <3>3. is_inoperable' = TRUE /\ stops' = 1
      BY <3>1 DEF report_inoperable, fire_inoperable, StoppedOnceWhenInoperable, TypeOK
    <3> QED
      BY <3>2, <3>3 DEF StoppedOnceWhenInoperable
  <2>3. CASE DegrReport
    BY <2>3 DEF DegrReport, report_degraded, StoppedOnceWhenInoperable
  <2> QED
    BY <2>1, <2>2, <2>3, StepKinds
<1> QED
  BY <1>1, <1>2, TypeCorrect, PTL DEF Spec

(* Both rings keep the newest records of their history in order            *)
(* (central_sentry.cpp:19-27 and 65-100).                                  *)
THEOREM RingsKeepNewest == Spec => []RingsHoldNewest
<1>1. Init => RingsHoldNewest
  <2> SUFFICES ASSUME Init PROVE RingsHoldNewest
    OBVIOUS
  <2>1. Len(<< >>) = 0
    OBVIOUS
  <2>2. InopSize > 0 => 0 % InopSize = 0
    BY SentryAssumption, SMT
  <2>3. DegrSize > 0 => 0 % DegrSize = 0
    BY SentryAssumption, SMT
  <2> QED
    BY <2>1, <2>2, <2>3, SentryAssumption DEF Init, RingsHoldNewest, HoldsNewest
<1>2. TypeOK /\ RingsHoldNewest /\ [Next]_vars => RingsHoldNewest'
  <2> SUFFICES ASSUME TypeOK, RingsHoldNewest, [Next]_vars
               PROVE  RingsHoldNewest'
    OBVIOUS
  <2>1. CASE UNCHANGED central_vars
    BY <2>1 DEF RingsHoldNewest, HoldsNewest, central_vars
  <2>2. CASE InopReport
    <3>1. PICK s \in Sentries, ecodes \in ecode_set, emsg \in Emsg, data \in Eid :
            report_inoperable(s, ecodes, emsg, data)
      BY <2>2 DEF InopReport
    <3> DEFINE r == MakeRecord(s, ecodes, emsg, data)
    <3>2. r \in record
      BY MakeRecordType
    <3>3. InopSize \in Nat /\ InopSize > 0
      BY <3>1, SentryAssumption DEF report_inoperable
    <3>4. HoldsNewest([inop_buffer EXCEPT ![inop_i] = r], (inop_i + 1) % InopSize,
                      InopSize, Append(inop_log, r))
      BY <3>2, <3>3, RingStep DEF TypeOK, RingsHoldNewest
    <3>5. HoldsNewest(inop_buffer, inop_i, InopSize, inop_log)'
      BY <3>1, <3>4 DEF report_inoperable
    <3>6. HoldsNewest(degr_buffer, degr_i, DegrSize, degr_log)'
      BY <3>1 DEF report_inoperable, RingsHoldNewest, HoldsNewest
    <3> QED
      BY <3>5, <3>6 DEF RingsHoldNewest
  <2>3. CASE DegrReport
    <3>1. PICK s \in Sentries, ecodes \in ecode_set, emsg \in Emsg, data \in Eid :
            report_degraded(s, ecodes, emsg, data)
      BY <2>3 DEF DegrReport
    <3> DEFINE r == MakeRecord(s, ecodes, emsg, data)
    <3>2. r \in record
      BY MakeRecordType
    <3>3. DegrSize \in Nat /\ DegrSize > 0
      BY <3>1, SentryAssumption DEF report_degraded
    <3>4. HoldsNewest([degr_buffer EXCEPT ![degr_i] = r], (degr_i + 1) % DegrSize,
                      DegrSize, Append(degr_log, r))
      BY <3>2, <3>3, RingStep DEF TypeOK, RingsHoldNewest
    <3>5. HoldsNewest(degr_buffer, degr_i, DegrSize, degr_log)'
      BY <3>1, <3>4 DEF report_degraded
    <3>6. HoldsNewest(inop_buffer, inop_i, InopSize, inop_log)'
      BY <3>1 DEF report_degraded, RingsHoldNewest, HoldsNewest
    <3> QED
      BY <3>5, <3>6 DEF RingsHoldNewest
  <2> QED
    BY <2>1, <2>2, <2>3, StepKinds
<1> QED
  BY <1>1, <1>2, TypeCorrect, PTL DEF Spec

-----------------------------------------------------------------------------
(* How a step changes the codes a sentry holds along with what it reports. *)
CauseReport(s) ==
  \E eid \in (0 .. max_eid) \cup {forbidden_eid}, emsg \in Emsg \ {"set"}, data \in Eid :
    report_inop(s, eid, emsg, data) /\ UNCHANGED degr_ecode

SetReport(s) ==
  \E set \in Sets :
    report_inoperable(s, set, "set", 0) /\ UNCHANGED <<inop_ecode, degr_ecode>>

DegradedReport(s) ==
  \E codes \in SUBSET (0 .. max_eid), emsg \in Emsg, data \in Eid :
    /\ degr_ecode' = [degr_ecode EXCEPT ![s] = codes]
    /\ report_degraded(s, codes, emsg, data)
    /\ UNCHANGED inop_ecode

LEMMA CodeKinds ==
  ASSUME TypeOK, [Next]_vars
  PROVE  \/ \E s \in Sentries : CauseReport(s) \/ SetReport(s) \/ DegradedReport(s)
         \/ UNCHANGED <<central_vars, inop_ecode, degr_ecode>>
<1> USE EidTypes
<1> DEFINE Kinds ==
      \/ \E s \in Sentries : CauseReport(s) \/ SetReport(s) \/ DegradedReport(s)
      \/ UNCHANGED <<central_vars, inop_ecode, degr_ecode>>
<1>1. CASE UNCHANGED vars
  BY <1>1 DEF vars, sentry_vars
<1>2. ASSUME NEW s \in Sentries, construct(s)
      PROVE  Kinds
  BY <1>2 DEF construct
<1>3. ASSUME NEW s \in Sentries, NEW eid \in Eids, set_inoperable(s, eid)
      PROVE  Kinds
  <2>1. /\ UNCHANGED degr_ecode
        /\ \/ report_inop(s, forbidden_eid, "inop eid err", eid)
           \/ eid <= max_eid /\ report_inop(s, eid, "caller", 0)
    BY <1>3 DEF set_inoperable
  <2> QED
    BY <2>1 DEF CauseReport, Emsg
<1>4. ASSUME NEW s \in Sentries, NEW set \in Sets, set_inoperable_set(s, set)
      PROVE  Kinds
  BY <1>4 DEF set_inoperable_set, SetReport, sentry_vars
<1>5. ASSUME NEW s \in Sentries, NEW eid \in Eids, set_degraded(s, eid)
      PROVE  Kinds
  <2>1. CASE /\ report_inop(s, forbidden_eid, "degr eid err", eid)
             /\ UNCHANGED degr_ecode
    BY <2>1 DEF CauseReport, Emsg
  <2>2. CASE /\ eid <= max_eid
             /\ degr_ecode' = [degr_ecode EXCEPT ![s] = @ \cup {eid}]
             /\ report_degraded(s, degr_ecode'[s], "caller", 0)
             /\ UNCHANGED inop_ecode
    <3> DEFINE codes == degr_ecode[s] \cup {eid}
    <3>1. codes \in SUBSET (0 .. max_eid) /\ degr_ecode'[s] = codes
      BY <2>2 DEF TypeOK
    <3> QED
      BY <2>2, <3>1 DEF DegradedReport, Emsg
  <2> QED
    BY <1>5, <2>1, <2>2 DEF set_degraded
<1>6. ASSUME NEW s \in Sentries, NEW set \in Sets, set_degraded_set(s, set)
      PROVE  Kinds
  <2> DEFINE codes == degr_ecode[s] \cap set
  <2>1. /\ degr_ecode' = [degr_ecode EXCEPT ![s] = codes]
        /\ report_degraded(s, degr_ecode'[s], "set", 0)
        /\ UNCHANGED inop_ecode
    BY <1>6 DEF set_degraded_set
  <2>2. codes \in SUBSET (0 .. max_eid) /\ degr_ecode'[s] = codes
    BY <2>1 DEF TypeOK
  <2> QED
    BY <2>1, <2>2 DEF DegradedReport, Emsg
<1>7. ASSUME NEW s \in Sentries, NEW eid \in Eids, unset_degraded(s, eid)
      PROVE  Kinds
  <2> DEFINE codes == degr_ecode[s] \ {eid}
  <2>1. /\ degr_ecode' = [degr_ecode EXCEPT ![s] = codes]
        /\ report_degraded(s, degr_ecode'[s], "unset degraded", eid)
        /\ UNCHANGED inop_ecode
    BY <1>7 DEF unset_degraded
  <2>2. codes \in SUBSET (0 .. max_eid) /\ degr_ecode'[s] = codes
    BY <2>1 DEF TypeOK
  <2> QED
    BY <2>1, <2>2 DEF DegradedReport, Emsg
<1>8. ASSUME NEW s \in Sentries, destruct(s)
      PROVE  Kinds
  BY <1>8 DEF destruct, CauseReport, Emsg
<1> QED
  BY <1>1, <1>2, <1>3, <1>4, <1>5, <1>6, <1>7, <1>8 DEF Next

-----------------------------------------------------------------------------
(* The strengthening of CausesAccumulate: what a sentry has reported is    *)
(* still among the codes it holds.                                         *)
CausesHeld ==
  \A k \in 1 .. Len(inop_log) :
    inop_log[k].emsg # "set" =>
      inop_log[k].ecodes \subseteq inop_ecode[inop_log[k].src]

(* A later cause never hides an earlier one (sentry.cpp:53-57).            *)
THEOREM CausesAreKept == Spec => []CausesAccumulate
<1> DEFINE IInv == CausesHeld /\ CausesAccumulate
<1>1. Init => IInv
  BY DEF Init, CausesHeld, CausesAccumulate
<1>2. TypeOK /\ IInv /\ [Next]_vars => IInv'
  <2> SUFFICES ASSUME TypeOK, CausesHeld, CausesAccumulate, [Next]_vars
               PROVE  IInv'
    OBVIOUS
  <2> DEFINE n == Len(inop_log)
  <2>0. /\ inop_log \in Seq(record) /\ n \in Nat
        /\ \A k \in 1 .. n : inop_log[k] \in record
    BY DEF TypeOK
  <2>1. CASE UNCHANGED <<inop_log, inop_ecode>>
    BY <2>1 DEF CausesHeld, CausesAccumulate
  <2>2. ASSUME NEW s \in Sentries, CauseReport(s)
        PROVE  IInv'
    <3>1. PICK eid \in (0 .. max_eid) \cup {forbidden_eid},
               emsg \in Emsg \ {"set"}, data \in Eid :
            report_inop(s, eid, emsg, data)
      BY <2>2 DEF CauseReport
    <3> DEFINE codes == inop_ecode[s] \cup {eid}
               r     == MakeRecord(s, codes, emsg, data)
    <3>2. inop_ecode' = [inop_ecode EXCEPT ![s] = codes] /\ inop_ecode'[s] = codes
      BY <3>1 DEF report_inop, TypeOK
    <3>3. inop_log' = Append(inop_log, r)
      BY <3>1, <3>2 DEF report_inop, report_inoperable
    <3>4. /\ Len(inop_log') = n + 1 /\ inop_log'[n + 1] = r
          /\ \A k \in 1 .. n : inop_log'[k] = inop_log[k]
      BY <2>0, <3>3
    <3>5. r.src = s /\ r.ecodes = codes
      BY DEF MakeRecord
    <3>6. \A t \in Sentries : inop_ecode[t] \subseteq inop_ecode'[t]
      BY <3>2 DEF TypeOK
    <3>7. \A k \in 1 .. n : inop_log[k].src \in Sentries
      BY <2>0 DEF record
    <3>8. ASSUME NEW k \in 1 .. n + 1, inop_log'[k].emsg # "set"
          PROVE  inop_log'[k].ecodes \subseteq inop_ecode'[inop_log'[k].src]
      <4>1. CASE k \in 1 .. n
        <5>1. inop_log[k].ecodes \subseteq inop_ecode[inop_log[k].src]
          BY <3>4, <3>8, <4>1 DEF CausesHeld
        <5> QED
          BY <3>4, <3>6, <3>7, <4>1, <5>1
      <4>2. CASE k = n + 1
        BY <3>2, <3>4, <3>5, <4>2
      <4> QED
        BY <2>0, <4>1, <4>2
    <3>9. ASSUME NEW j \in 1 .. n + 1, NEW k \in 1 .. n + 1, j < k,
                 inop_log'[j].src = inop_log'[k].src,
                 inop_log'[j].emsg # "set", inop_log'[k].emsg # "set"
          PROVE  inop_log'[j].ecodes \subseteq inop_log'[k].ecodes
      <4>1. j \in 1 .. n /\ (k \in 1 .. n \/ k = n + 1)
        BY <2>0, <3>9
      <4>2. CASE k \in 1 .. n
        BY <3>4, <3>9, <4>1, <4>2 DEF CausesAccumulate
      <4>3. CASE k = n + 1
        <5>1. inop_log[j].src = s /\ inop_log[j].emsg # "set"
          BY <3>4, <3>5, <3>9, <4>1, <4>3
        <5>2. inop_log[j].ecodes \subseteq inop_ecode[s]
          BY <4>1, <5>1 DEF CausesHeld
        <5> QED
          BY <3>4, <3>5, <4>1, <4>3, <5>2
      <4> QED
        BY <4>1, <4>2, <4>3
    <3> QED
      BY <3>4, <3>8, <3>9 DEF CausesHeld, CausesAccumulate
  <2>3. ASSUME NEW s \in Sentries, SetReport(s)
        PROVE  IInv'
    <3>1. PICK set \in Sets :
            /\ report_inoperable(s, set, "set", 0)
            /\ UNCHANGED inop_ecode
      BY <2>3 DEF SetReport
    <3> DEFINE r == MakeRecord(s, set, "set", 0)
    <3>2. inop_log' = Append(inop_log, r)
      BY <3>1 DEF report_inoperable
    <3>3. /\ Len(inop_log') = n + 1 /\ inop_log'[n + 1] = r
          /\ \A k \in 1 .. n : inop_log'[k] = inop_log[k]
      BY <2>0, <3>2
    <3>4. r.emsg = "set"
      BY DEF MakeRecord
    <3>5. \A k \in 1 .. n + 1 : k \in 1 .. n \/ k = n + 1
      BY <2>0
    <3> QED
      BY <3>1, <3>3, <3>4, <3>5 DEF CausesHeld, CausesAccumulate
  <2>4. ASSUME NEW s \in Sentries, DegradedReport(s)
        PROVE  IInv'
    BY <2>1, <2>4 DEF DegradedReport, report_degraded
  <2> QED
    BY <2>1, <2>2, <2>3, <2>4, CodeKinds DEF central_vars
<1> QED
  BY <1>1, <1>2, TypeCorrect, PTL DEF Spec

-----------------------------------------------------------------------------
(* The strengthening of DegradedIsReported: a sentry that has reported a   *)
(* degradation has a newest report.                                        *)
HasNewest == \A s \in Sentries : Own(s) = {} \/ \E k \in Own(s) : \A j \in Own(s) : j <= k

(* What a sentry holds as degraded is what its newest degraded record says *)
(* (sentry.cpp:36-51).                                                     *)
THEOREM DegradationsAreReported == Spec => []DegradedIsReported
<1> DEFINE IInv == HasNewest /\ DegradedIsReported
<1>1. Init => IInv
  <2> SUFFICES ASSUME Init PROVE IInv
    OBVIOUS
  <2>0. Len(degr_log) = 0
    BY DEF Init
  <2>1. \A s \in Sentries : Own(s) = {}
    BY <2>0, SMT DEF Own
  <2>2. \A s \in Sentries : LastDegraded(s) = {} /\ degr_ecode[s] = {}
    BY <2>1 DEF Init, LastDegraded
  <2> QED
    BY <2>1, <2>2 DEF HasNewest, DegradedIsReported
<1>2. TypeOK /\ IInv /\ [Next]_vars => IInv'
  <2> SUFFICES ASSUME TypeOK, HasNewest, DegradedIsReported, [Next]_vars
               PROVE  IInv'
    OBVIOUS
  <2>1. CASE UNCHANGED <<degr_log, degr_ecode>>
    <3>0. degr_log' = degr_log /\ degr_ecode' = degr_ecode
      BY <2>1
    <3>1. \A s \in Sentries : Own(s)' = Own(s)
      BY <3>0 DEF Own
    <3>2. \A s \in Sentries : LastDegraded(s)' = LastDegraded(s)
      BY <3>0, <3>1 DEF LastDegraded
    <3>3. HasNewest'
      BY <3>1 DEF HasNewest
    <3>4. DegradedIsReported'
      BY <2>1, <3>2 DEF DegradedIsReported
    <3> QED
      BY <3>3, <3>4
  <2>2. ASSUME NEW s \in Sentries, CauseReport(s) \/ SetReport(s)
        PROVE  IInv'
    <3>1. UNCHANGED degr_log
      BY <2>2 DEF CauseReport, SetReport, report_inop, report_inoperable
    <3>2. UNCHANGED degr_ecode
      BY <2>2 DEF CauseReport, SetReport
    <3> QED
      BY <2>1, <3>1, <3>2
  <2>3. ASSUME NEW s \in Sentries, DegradedReport(s)
        PROVE  IInv'
    <3> DEFINE n == Len(degr_log)
    <3>1. PICK codes \in SUBSET (0 .. max_eid), emsg \in Emsg, data \in Eid :
            /\ degr_ecode' = [degr_ecode EXCEPT ![s] = codes]
            /\ report_degraded(s, codes, emsg, data)
      BY <2>3 DEF DegradedReport
    <3> DEFINE r == MakeRecord(s, codes, emsg, data)
    <3>2. degr_log \in Seq(record) /\ n \in Nat /\ degr_log' = Append(degr_log, r)
      BY <3>1 DEF report_degraded, TypeOK
    <3>3. /\ Len(degr_log') = n + 1 /\ degr_log'[n + 1] = r
          /\ \A k \in 1 .. n : degr_log'[k] = degr_log[k]
      BY <3>2
    <3>4. r.src = s /\ r.ecodes = codes
      BY DEF MakeRecord
    <3>5. Own(s)' = Own(s) \cup {n + 1}
      BY <3>2, <3>3, <3>4 DEF Own
    <3>6. \A j \in Own(s)' : j <= n + 1
      BY <3>2, <3>5 DEF Own
    <3>7. LastDegraded(s)' = codes
      <4> DEFINE c == Newest(Own(s)')
      <4>1. c \in Own(s)' /\ \A j \in Own(s)' : j <= c
        BY <3>5, <3>6 DEF Newest
      <4>2. c = n + 1
        <5>1. c <= n + 1 /\ n + 1 <= c
          BY <3>5, <3>6, <4>1
        <5>2. Own(s) \subseteq 1 .. n
          BY DEF Own
        <5>3. c \in Own(s) \/ c = n + 1
          BY <3>5, <4>1
        <5>4. c \in 1 .. n + 1
          BY <3>2, <5>2, <5>3
        <5> HIDE DEF c
        <5> QED
          BY <3>2, <5>1, <5>4
      <4>3. LastDegraded(s)' = degr_log'[c].ecodes
        BY <3>5 DEF LastDegraded
      <4> QED
        BY <3>3, <3>4, <4>2, <4>3
    <3>8. ASSUME NEW t \in Sentries, t # s
          PROVE  Own(t)' = Own(t) /\ LastDegraded(t)' = LastDegraded(t)
      <4>1. Own(t)' = Own(t)
        BY <3>2, <3>3, <3>4, <3>8 DEF Own
      <4>2. CASE Own(t) = {}
        BY <4>1, <4>2 DEF LastDegraded
      <4>3. CASE Own(t) # {}
        <5> DEFINE c == Newest(Own(t))
        <5>1. c \in Own(t)
          BY <4>3 DEF HasNewest, Newest
        <5>2. degr_log'[c] = degr_log[c]
          BY <3>3, <5>1 DEF Own
        <5>3. LastDegraded(t) = degr_log[c].ecodes
          BY <4>3 DEF LastDegraded
        <5>4. LastDegraded(t)' = degr_log'[c].ecodes
          BY <4>1, <4>3 DEF LastDegraded
        <5> QED
          BY <4>1, <5>2, <5>3, <5>4
      <4> QED
        BY <4>2, <4>3
    <3>9. HasNewest'
      BY <3>5, <3>6, <3>8 DEF HasNewest
    <3>10. DegradedIsReported'
      BY <3>1, <3>7, <3>8 DEF DegradedIsReported, TypeOK
    <3> QED
      BY <3>9, <3>10
  <2> QED
    BY <2>1, <2>2, <2>3, CodeKinds DEF central_vars
<1> QED
  BY <1>1, <1>2, TypeCorrect, PTL DEF Spec
=============================================================================
