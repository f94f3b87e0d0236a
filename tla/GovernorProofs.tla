--------------------------- MODULE GovernorProofs ---------------------------
(***************************************************************************)
(* Proofs about GovernorManager, for every set of governors, every set of  *)
(* positions and every range of the position.                              *)
(***************************************************************************)
EXTENDS GovernorManager, TLAPS

-----------------------------------------------------------------------------
(* The goal cut to the limits stays within the limits of the current.      *)
LEMMA DesiredRange ==
  ASSUME goal["current"] \in Int, derived \in Int
  PROVE  Desired \in Sign
BY GovernorAssumption, SMT DEF Desired, Least, Greatest, Sign

(* A governor gives the motor a goal or a power within its range.          *)
LEMMA OutputsRange ==
  ASSUME TypeOK, NEW g \in Governors
  PROVE  Outputs(g) \subseteq Goals
<1>1. goal[g] \in Goals
  BY DEF TypeOK
<1>2. CASE g = "current" /\ derived # Null
  <2>1. Goals \subseteq Int /\ derived \in Int
    <3>1. Positions \subseteq Int
      BY GovernorAssumption
    <3>2. derived \in Positions
      BY <1>2 DEF TypeOK
    <3>3. Goals \subseteq Int
      BY <3>1 DEF Goals, Sign
    <3> QED
      BY <3>1, <3>2, <3>3
  <2>2. Desired \in Sign
    BY <1>1, <1>2, <2>1, DesiredRange
  <2> QED
    BY <1>2, <2>2 DEF Outputs, Goals, Sign
<1>3. CASE ~(g = "current" /\ derived # Null)
  BY <1>1, <1>3 DEF Outputs, Goals, Sign
<1> QED
  BY <1>2, <1>3

(* What current_irq of the manager gives to the motor.                     *)
LEMMA CurrentIrqStep ==
  ASSUME TypeOK, current_irq
  PROVE  /\ power' \in Goals
         /\ active_h = Null => power' = 0
<1>1. CASE active_h = Null
  BY <1>1 DEF current_irq, Goals, Sign
<1>2. CASE active_h # Null
  <2>1. active_h \in Governors /\ power' \in Outputs(active_h)
    BY <1>2 DEF current_irq, TypeOK
  <2> QED
    BY <1>2, <2>1, OutputsRange
<1> QED
  BY <1>1, <1>2

-----------------------------------------------------------------------------
(* Where the main loop is tells which pointers are null.                   *)
Pointers ==
  /\ pc \in {"idle", "dis_call", "de_call"} => active_h = active
  /\ pc \in {"dis_active", "de_handle"} => active # Null /\ active_h = active
  /\ pc = "dis_handle" => active = Null /\ active_h # Null
  /\ pc = "search" => active = Null /\ active_h = Null
  /\ pc \in {"engage", "tie"} => active \in Governors /\ active_h = Null
  /\ pc = "de_active" => active # Null /\ active_h = Null
  /\ pc = "dis_call" => active # Null

(* The type of every variable is kept (governor_manager.hpp).              *)
THEOREM TypeCorrect == Spec => [](TypeOK /\ Pointers)
<1> DEFINE IInv == TypeOK /\ Pointers
<1>1. Init => IInv
  <2>1. Init => Pointers
    BY DEF Init, Pointers
  <2>2. Init => goal \in [Governors -> Goals] /\ power \in Goals
    BY DEF Init, Goals, Sign
  <2>3. Init => call \in Calls
    <3>1. [cmd |-> "none", name |-> Unknown] \in Calls
      BY DEF Calls
    <3> QED
      BY <3>1 DEF Init
  <2>4. Init => /\ active \in Governors \cup {Null} /\ active_h \in Governors \cup {Null}
                /\ derived \in Positions \cup {Null} /\ position \in Positions
                /\ at \in Positions /\ engaged_at \in Positions
                /\ pc \in Labels /\ reply \in {"", "OK", "NO"}
                /\ commanded \subseteq Governors /\ sampled \in BOOLEAN
    BY DEF Init, Labels
  <2> QED
    BY <2>1, <2>2, <2>3, <2>4 DEF TypeOK
<1>2. TypeOK /\ Pointers /\ [Next]_vars => TypeOK'
  <2> SUFFICES ASSUME TypeOK, Pointers, [Next]_vars PROVE TypeOK'
    OBVIOUS
  <2> USE GovernorAssumption
  <2>1. ASSUME NEW name \in Names, activate(name)
       PROVE  TypeOK'
    BY <2>1 DEF activate, TypeOK, Go, Return, Labels, Calls, gov_vars, irq_vars, hist_vars, Names
  <2>2. CASE dis_call
    BY <2>2 DEF dis_call, TypeOK, Go, Return, Labels, Calls, gov_vars, irq_vars, hist_vars, disengage, Engaged, Goals, Sign
  <2>3. CASE dis_active
    BY <2>3 DEF dis_active, TypeOK, Go, Return, Labels, Calls, gov_vars, irq_vars, hist_vars
  <2>4. CASE dis_handle
    BY <2>4 DEF dis_handle, TypeOK, Go, Return, Labels, Calls, gov_vars, irq_vars, hist_vars
  <2>5. CASE search
    BY <2>5 DEF search, TypeOK, Go, Return, Labels, Calls, gov_vars, irq_vars, hist_vars, Names
  <2>6. CASE do_engage
    BY <2>6 DEF do_engage, TypeOK, Go, Return, Labels, Calls, gov_vars, irq_vars, hist_vars, engage, Neutral, Pointers, Goals, Sign
  <2>7. CASE tie
    BY <2>7 DEF tie, TypeOK, Go, Return, Labels, Calls, gov_vars, irq_vars, hist_vars, Pointers
  <2>8. CASE deactivate
    BY <2>8 DEF deactivate, TypeOK, Go, Return, Labels, Calls, gov_vars, irq_vars, hist_vars
  <2>9. CASE de_call
    BY <2>9 DEF de_call, TypeOK, Go, Return, Labels, Calls, gov_vars, irq_vars, hist_vars, disengage, Engaged, Goals, Sign
  <2>10. CASE de_handle
    BY <2>10 DEF de_handle, TypeOK, Go, Return, Labels, Calls, gov_vars, irq_vars, hist_vars
  <2>11. CASE de_active
    BY <2>11 DEF de_active, TypeOK, Go, Return, Labels, Calls, gov_vars, irq_vars, hist_vars
  <2>12. ASSUME NEW name \in Names, NEW v \in Sign, NEW refused \in BOOLEAN,
              set(name, v, refused)
       PROVE  TypeOK'
    <3>1. call' \in Calls
      BY <2>12 DEF set, Calls
    <3>2. goal' \in [Governors -> Goals] /\ commanded' \subseteq Governors
      <4>1. goal \in [Governors -> Goals] /\ commanded \subseteq Governors /\ v \in Goals
        BY DEF TypeOK, Goals
      <4>2. \/ /\ name \in Governors /\ goal' = [goal EXCEPT ![name] = v]
               /\ commanded' = commanded \cup {name}
            \/ UNCHANGED <<goal, commanded>>
        BY <2>12 DEF set
      <4> QED
        BY <4>1, <4>2
    <3>3. reply' \in {"", "OK", "NO"}
      BY <2>12 DEF set
    <3> QED
      BY <2>12, <3>1, <3>2, <3>3 DEF set, TypeOK, irq_vars
  <2>13. CASE current_irq
    BY <2>13, CurrentIrqStep DEF current_irq, TypeOK, gov_vars, hist_vars
  <2>14. CASE metrics_irq
    BY <2>14 DEF metrics_irq, TypeOK, Go, Return, Labels, Calls, gov_vars, irq_vars, hist_vars
  <2>15. CASE UNCHANGED vars
    BY <2>15 DEF vars, gov_vars, irq_vars, hist_vars, TypeOK, Calls
  <2> QED
    BY <2>1, <2>2, <2>3, <2>4, <2>5, <2>6, <2>7,
       <2>8, <2>9, <2>10, <2>11, <2>12, <2>13, <2>14, <2>15
       DEF Next, Main, Irq
<1>3. TypeOK /\ Pointers /\ [Next]_vars => Pointers'
  <2> SUFFICES ASSUME TypeOK, Pointers, [Next]_vars PROVE Pointers'
    OBVIOUS
  <2> USE GovernorAssumption
  <2>1. ASSUME NEW name \in Names, activate(name)
       PROVE  Pointers'
    BY <2>1 DEF activate, TypeOK, Pointers, Go, Return, gov_vars, irq_vars, hist_vars
  <2>2. CASE dis_call
    BY <2>2 DEF dis_call, TypeOK, Pointers, Go, Return, gov_vars, irq_vars, hist_vars, Engaged
  <2>3. CASE dis_active
    BY <2>3 DEF dis_active, TypeOK, Pointers, Go, Return, gov_vars, irq_vars, hist_vars
  <2>4. CASE dis_handle
    BY <2>4 DEF dis_handle, TypeOK, Pointers, Go, Return, gov_vars, irq_vars, hist_vars
  <2>5. CASE search
    BY <2>5 DEF search, TypeOK, Pointers, Go, Return, gov_vars, irq_vars, hist_vars
  <2>6. CASE do_engage
    BY <2>6 DEF do_engage, TypeOK, Pointers, Go, Return, gov_vars, irq_vars, hist_vars
  <2>7. CASE tie
    BY <2>7 DEF tie, TypeOK, Pointers, Go, Return, gov_vars, irq_vars, hist_vars
  <2>8. CASE deactivate
    BY <2>8 DEF deactivate, TypeOK, Pointers, Go, Return, gov_vars, irq_vars, hist_vars
  <2>9. CASE de_call
    BY <2>9 DEF de_call, TypeOK, Pointers, Go, Return, gov_vars, irq_vars, hist_vars, Engaged
  <2>10. CASE de_handle
    BY <2>10 DEF de_handle, TypeOK, Pointers, Go, Return, gov_vars, irq_vars, hist_vars
  <2>11. CASE de_active
    BY <2>11 DEF de_active, TypeOK, Pointers, Go, Return, gov_vars, irq_vars, hist_vars
  <2>12. ASSUME NEW name \in Names, NEW v \in Sign, NEW refused \in BOOLEAN,
              set(name, v, refused)
       PROVE  Pointers'
    BY <2>12 DEF set, TypeOK, Pointers, Go, Return, gov_vars, irq_vars, hist_vars
  <2>13. CASE current_irq
    BY <2>13 DEF current_irq, TypeOK, Pointers, Go, Return, gov_vars, irq_vars, hist_vars
  <2>14. CASE metrics_irq
    BY <2>14 DEF metrics_irq, TypeOK, Pointers, Go, Return, gov_vars, irq_vars, hist_vars
  <2>15. CASE UNCHANGED vars
    BY <2>15 DEF vars, gov_vars, irq_vars, hist_vars, TypeOK, Pointers, Go, Return, gov_vars, irq_vars, hist_vars
  <2> QED
    BY <2>1, <2>2, <2>3, <2>4, <2>5, <2>6, <2>7,
       <2>8, <2>9, <2>10, <2>11, <2>12, <2>13, <2>14, <2>15
       DEF Next, Main, Irq
<1> QED
  BY <1>1, <1>2, <1>3, PTL DEF Spec

-----------------------------------------------------------------------------
(* No interrupt reaches a governor while one is being engaged              *)
(* (governor_manager.hpp:36-58).                                           *)
THEOREM EngageIsUndisturbed == Spec => []EngageUndisturbed
<1>1. Pointers => EngageUndisturbed
  BY DEF Pointers, EngageUndisturbed
<1> QED
  BY <1>1, TypeCorrect, PTL

(* Between two commands the manager is without a governor, or has both     *)
(* pointers on the same one (governor_manager.hpp:25-70).                  *)
THEOREM PointersDoAgree == Spec => []PointersAgree
<1>1. Pointers => PointersAgree
  BY DEF Pointers, PointersAgree
<1> QED
  BY <1>1, TypeCorrect, PTL

(* The manager implements GovernorCtl: every step takes, releases or       *)
(* computes, or is invisible to the motor.                                 *)
THEOREM ManagerImplementsCtl == Spec => ImplementsCtl
<1>1. Init => Abstract!Init
  BY DEF Init, Abstract!Init
<1>2. TypeOK /\ Pointers /\ [Next]_vars => [Abstract!Next]_(Abstract!vars)
  <2> SUFFICES ASSUME TypeOK, Pointers, [Next]_vars
               PROVE  Abstract!Next \/ UNCHANGED <<active_h, power>>
    BY DEF Abstract!vars
  <2>1. CASE UNCHANGED vars
    BY <2>1 DEF vars, irq_vars
  <2>2. CASE current_irq
    <3>1. Abstract!Compute
      BY <2>2, CurrentIrqStep DEF current_irq, Abstract!Compute
    <3> QED
      BY <3>1 DEF Abstract!Next
  <2>3. CASE dis_handle \/ de_handle
    <3>1. Abstract!Release
      BY <2>3 DEF dis_handle, de_handle, irq_vars, Pointers, Abstract!Release
    <3> QED
      BY <3>1 DEF Abstract!Next
  <2>4. CASE tie
    <3>1. active \in Governors /\ Abstract!Take(active)
      BY <2>4 DEF tie, irq_vars, Pointers, Abstract!Take
    <3> QED
      BY <3>1 DEF Abstract!Next
  <2>5. CASE \/ \E name \in Names : activate(name)
             \/ dis_call \/ dis_active \/ search \/ do_engage
             \/ deactivate \/ de_call \/ de_active
             \/ \E name \in Names, v \in Sign, refused \in BOOLEAN :
                  set(name, v, refused)
             \/ metrics_irq
    BY <2>5 DEF activate, dis_call, dis_active, search, do_engage, deactivate,
                de_call, de_active, set, metrics_irq, irq_vars
  <2> QED
    BY <2>1, <2>2, <2>3, <2>4, <2>5 DEF Next, Main, Irq
<1> QED
  BY <1>1, <1>2, TypeCorrect, PTL DEF Spec, ImplementsCtl, Abstract!Spec

(* A deactivated motor is not powered: between two commands, an interrupt  *)
(* gives it nothing but zero (governor_manager.hpp:72-77).                 *)
THEOREM UnpoweredWithoutGovernor == Spec => UnpoweredWhenInactive
<1>1. TypeOK /\ Pointers /\ [Next]_vars =>
        [pc = "idle" /\ active = Null /\ power' # power => power' = 0]_vars
  <2> SUFFICES ASSUME TypeOK, Pointers, Next, pc = "idle", active = Null, power' # power
               PROVE  power' = 0
    OBVIOUS
  <2>1. active_h = Null
    BY DEF Pointers
  <2>2. current_irq
    BY DEF Next, Main, Irq, activate, dis_call, dis_active, dis_handle, search,
           do_engage, tie, deactivate, de_call, de_handle, de_active, set,
           metrics_irq, irq_vars
  <2> QED
    BY <2>1, <2>2, CurrentIrqStep
<1> QED
  BY <1>1, TypeCorrect, PTL DEF Spec, UnpoweredWhenInactive

-----------------------------------------------------------------------------
(* The strengthening of NeutralUntilCommanded: it holds of a governor from *)
(* its engage on, before the handle is published.                          *)
IsNeutral(g) == goal[g] = Neutral(g, engaged_at)

NeutralInv ==
  /\ pc = "tie" => active \notin commanded /\ IsNeutral(active)
  /\ active_h # Null /\ active_h \notin commanded => IsNeutral(active_h)

(* A governor drives the motor with its neutral goal until it is given one *)
(* (engage of power, current, velocity and position).                      *)
THEOREM StartsNeutral == Spec => []NeutralUntilCommanded
<1>1. Init => NeutralInv
  BY DEF Init, NeutralInv
<1>2. TypeOK /\ Pointers /\ NeutralInv /\ [Next]_vars => NeutralInv'
  <2> SUFFICES ASSUME TypeOK, Pointers, NeutralInv, [Next]_vars
               PROVE  NeutralInv'
    OBVIOUS
  <2>1. CASE \/ UNCHANGED vars \/ current_irq \/ metrics_irq
             \/ \E name \in Names : activate(name)
             \/ dis_active \/ search \/ deactivate \/ de_active
    BY <2>1 DEF vars, gov_vars, hist_vars, current_irq, metrics_irq, activate,
                dis_active, search, deactivate, de_active, Go, Return,
                NeutralInv, IsNeutral, Neutral
  <2>2. CASE dis_handle \/ de_handle
    BY <2>2 DEF dis_handle, de_handle, Go, NeutralInv
  <2>3. CASE dis_call \/ de_call
    <3>1. /\ UNCHANGED <<active, active_h, hist_vars>>
          /\ pc' \in {"dis_active", "de_handle", "idle"}
          /\ disengage(active) \/ UNCHANGED goal
      BY <2>3 DEF dis_call, de_call, Go, Return
    <3>2. \A g \in Governors : IsNeutral(g) => IsNeutral(g)'
      BY <3>1 DEF IsNeutral, Neutral, disengage, hist_vars, TypeOK
    <3> QED
      BY <3>1, <3>2 DEF NeutralInv, hist_vars, TypeOK
  <2>4. CASE do_engage
    <3>1. active \in Governors /\ active_h' = Null /\ active' = active
      BY <2>4 DEF do_engage, Pointers
    <3>2. active \notin commanded' /\ goal'[active] = Neutral(active, engaged_at')
      BY <2>4, <3>1 DEF do_engage, engage, TypeOK
    <3> QED
      BY <3>1, <3>2 DEF NeutralInv, IsNeutral, Neutral
  <2>5. CASE tie
    <3>1. /\ pc' = "idle" /\ active_h' = active
          /\ UNCHANGED <<goal, commanded, engaged_at>>
      BY <2>5 DEF tie, Return, gov_vars
    <3> QED
      BY <2>5, <3>1 DEF tie, NeutralInv, IsNeutral, Neutral
  <2>6. ASSUME NEW name \in Names, NEW v \in Sign, NEW refused \in BOOLEAN,
               set(name, v, refused)
        PROVE  NeutralInv'
    <3>1. /\ pc' = pc /\ pc = "idle" /\ UNCHANGED <<active_h, engaged_at>>
          /\ \/ /\ goal' = [goal EXCEPT ![name] = v]
                /\ commanded' = commanded \cup {name}
             \/ UNCHANGED <<goal, commanded>>
      BY <2>6 DEF set
    <3> QED
      BY <3>1 DEF NeutralInv, IsNeutral, Neutral, TypeOK
  <2> QED
    BY <2>1, <2>2, <2>3, <2>4, <2>5, <2>6 DEF Next, Main, Irq
<1>3. NeutralInv => NeutralUntilCommanded
  BY DEF NeutralInv, NeutralUntilCommanded, IsNeutral
<1> QED
  BY <1>1, <1>2, <1>3, TypeCorrect, PTL DEF Spec

-----------------------------------------------------------------------------
(* From its first position interrupt on the current governor has derived   *)
(* its limits from the newest position.                                    *)
Derived == active_h = "current" /\ sampled => derived = position

(* Limits derived from a position at a bound keep the current from pushing *)
(* beyond it, and contain 0 in between.                                    *)
LEMMA DesiredSide ==
  ASSUME goal["current"] \in Int, derived \in Int
  PROVE  /\ derived >= lim_max => Desired <= 0
         /\ derived <= lim_min => Desired >= 0
         /\ goal["current"] = 0 /\ derived \in lim_min..lim_max => Desired = 0
BY GovernorAssumption, SMT DEF Desired, Least, Greatest

(* The current governor does not push out of the range of the position     *)
(* once it has seen the position (gov/current/current.hpp:86-108).         *)
THEOREM LimitsHold == Spec => []NeverPushesOut
<1>1. Init => Derived
  BY GovernorAssumption DEF Init, Derived
<1>2. TypeOK /\ Pointers /\ Derived /\ [Next]_vars => Derived'
  <2> SUFFICES ASSUME TypeOK, Pointers, Derived, [Next]_vars
               PROVE  Derived'
    OBVIOUS
  <2>1. CASE UNCHANGED <<active_h, derived, position, sampled>>
    BY <2>1 DEF Derived
  <2>2. CASE active_h' = Null
    BY <2>2, GovernorAssumption DEF Derived
  <2>3. CASE tie
    BY <2>3 DEF tie, Derived
  <2>4. CASE metrics_irq
    BY <2>4 DEF metrics_irq, Derived
  <2>5. CASE dis_handle \/ de_handle
    BY <2>2, <2>5 DEF dis_handle, de_handle
  <2>6. CASE UNCHANGED vars
    BY <2>1, <2>6 DEF vars, gov_vars, irq_vars, hist_vars
  <2>7. CASE \/ current_irq \/ \E name \in Names : activate(name)
             \/ dis_call \/ dis_active \/ search \/ do_engage
             \/ deactivate \/ de_call \/ de_active
             \/ \E name \in Names, v \in Sign, refused \in BOOLEAN :
                  set(name, v, refused)
    BY <2>1, <2>7 DEF current_irq, activate, dis_call, dis_active, search,
           do_engage, deactivate, de_call, de_active, set, gov_vars, irq_vars,
           hist_vars
  <2> QED
    BY <2>3, <2>4, <2>5, <2>6, <2>7 DEF Next, Main, Irq
<1>3. TypeOK /\ Derived => NeverPushesOut
  <2> SUFFICES ASSUME TypeOK, Derived, active_h = "current", sampled,
                      NEW p \in Outputs("current")
               PROVE  /\ position >= lim_max => p <= 0
                      /\ position <= lim_min => p >= 0
                      /\ goal["current"] = 0 /\ position \in lim_min..lim_max => p = 0
    BY DEF NeverPushesOut
  <2>1. derived = position /\ position \in Positions
    BY DEF Derived, TypeOK
  <2>2. derived # Null /\ derived \in Int
    BY <2>1, GovernorAssumption
  <2>3. "current" \in Governors
    <3>1. active_h \in Governors \cup {Null} /\ Null # "current"
      BY GovernorAssumption DEF TypeOK
    <3> QED
      BY <3>1
  <2>4. goal["current"] \in Int
    <3>1. Goals \subseteq Int
      BY GovernorAssumption DEF Goals, Sign
    <3> QED
      BY <2>3, <3>1 DEF TypeOK
  <2>5. p \in {0, Desired}
    BY <2>2 DEF Outputs
  <2> QED
    BY <2>1, <2>2, <2>4, <2>5, DesiredSide
<1> QED
  BY <1>1, <1>2, <1>3, TypeCorrect, PTL DEF Spec

-----------------------------------------------------------------------------
(* The strengthening of ReplyTellsState: the statement reached tells which *)
(* command is run, and for which governor.                                 *)
Running ==
  /\ pc \in {"dis_call", "dis_active", "dis_handle", "search", "engage", "tie"} =>
       call.cmd = "activate"
  /\ pc \in {"de_call", "de_handle", "de_active"} => call.cmd = "deactivate"
  /\ pc \in {"engage", "tie"} => active = call.name

(* The reply to a command tells the state it left (dispatcher.cpp:67-128). *)
THEOREM RepliesTellState == Spec => []ReplyTellsState
<1> DEFINE IInv == Running /\ ReplyTellsState
<1>1. Init => IInv
  <2>1. Init => pc = "idle" /\ call = [cmd |-> "none", name |-> Unknown]
    BY DEF Init
  <2>2. [cmd |-> "none", name |-> Unknown].cmd = "none"
    OBVIOUS
  <2> QED
    BY <2>1, <2>2 DEF Running, ReplyTellsState
<1>2. TypeOK /\ Pointers /\ IInv /\ [Next]_vars => IInv'
  <2> SUFFICES ASSUME TypeOK, Pointers, Running, ReplyTellsState, [Next]_vars
               PROVE  IInv'
    OBVIOUS
  <2> USE DEF Running, ReplyTellsState
  <2>1. CASE UNCHANGED <<pc, call, active, active_h, reply>>
    BY <2>1
  <2>2. CASE UNCHANGED vars \/ current_irq \/ metrics_irq
    BY <2>1, <2>2 DEF vars, current_irq, metrics_irq
  <2>3. ASSUME NEW name \in Names, activate(name)
        PROVE  IInv'
    BY <2>3 DEF activate, Go
  <2>4. CASE deactivate
    BY <2>4 DEF deactivate, Go
  <2>5. CASE dis_call
    <3>1. Engaged
      BY <2>5 DEF dis_call, Engaged, Pointers
    <3> QED
      BY <2>5, <3>1 DEF dis_call, Go
  <2>6. CASE dis_active
    BY <2>6 DEF dis_active, Go
  <2>7. CASE dis_handle
    BY <2>7 DEF dis_handle, Go
  <2>8. CASE search
    BY <2>8 DEF search, Go, Return, Pointers
  <2>9. CASE do_engage
    BY <2>9 DEF do_engage, Go
  <2>10. CASE tie
    BY <2>10 DEF tie, Return, Pointers
  <2>11. CASE de_call
    <3>1. UNCHANGED <<active, active_h, call>>
      BY <2>11 DEF de_call
    <3>2. ~Engaged => active = Null
      BY <2>11 DEF de_call, Engaged, Pointers
    <3>3. pc' \in {"de_handle", "idle"} /\ (pc' = "idle" => ~Engaged) /\ pc = "de_call"
      BY <2>11 DEF de_call, Go, Return
    <3>4. ~Engaged /\ active = Null => active_h = Null
      BY <2>11 DEF de_call, Pointers, Engaged
    <3> QED
      BY <3>1, <3>2, <3>3, <3>4, GovernorAssumption
  <2>12. CASE de_handle
    BY <2>12 DEF de_handle, Go
  <2>13. CASE de_active
    BY <2>13 DEF de_active, Return, Pointers
  <2>14. ASSUME NEW name \in Names, NEW v \in Sign, NEW refused \in BOOLEAN,
                set(name, v, refused)
         PROVE  IInv'
    BY <2>14 DEF set
  <2> QED
    BY <2>2, <2>3, <2>4, <2>5, <2>6, <2>7, <2>8, <2>9, <2>10, <2>11, <2>12,
       <2>13, <2>14 DEF Next, Main, Irq
<1> QED
  BY <1>1, <1>2, TypeCorrect, PTL DEF Spec
=============================================================================
