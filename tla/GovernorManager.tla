-------------------------- MODULE GovernorManager --------------------------
(***************************************************************************)
(* gov::governor_manager, the four governors and the commands that reach   *)
(* them (govctl and gov of core/dispatcher.cpp).                           *)
(*                                                                         *)
(* The main loop runs the commands statement by statement (pc); the        *)
(* current and the position interrupt (prio 1) preempt it between any two  *)
(* statements and run to their end, as nothing that preempts them touches  *)
(* this state.  Values are signs: a goal of 1 is any positive goal.  The   *)
(* PID regulators belong to the emlabcpp library: their output is any      *)
(* value of their range.                                                   *)
(***************************************************************************)
EXTENDS Integers, FiniteSets

CONSTANTS
  Governors,   \* names of the registered governors
  Unknown,     \* a name no governor has
  Null,        \* nullptr
  Positions,   \* positions the encoder may report
  lim_min,     \* pos_lim_min of the configuration
  lim_max      \* pos_lim_max of the configuration

(* The range of the position is not empty, as in the default configuration *)
(* and in the presets; nothing in the code checks it.                      *)
ASSUME GovernorAssumption ==
  /\ Governors \subseteq {"power", "current", "velocity", "position"}
  /\ Null \notin Governors \cup {"current"}
  /\ Unknown \notin Governors
  /\ Null \notin Positions
  /\ Positions \subseteq Int
  /\ Positions # {}
  /\ lim_min \in Int
  /\ lim_max \in Int
  /\ lim_min <= lim_max

VARIABLES
  active,      \* governor_manager::active_
  active_h,    \* governor_manager::active_h_, named by the governor it handles
  goal,        \* the goal field of each governor
  derived,     \* position the current governor derived its limits from, Null before the first
  power,       \* power last given to the motor
  position,    \* position last measured
  pc,          \* next statement of the main loop
  call,        \* command being run, or last run
  at,          \* position the dispatcher handed to activate
  reply,       \* first item of the reply to the last command, "" if there is none
  commanded,   \* history: governors given a goal since they were engaged
  engaged_at,  \* history: position handed to the last engage
  sampled      \* history: the position was measured since the last engage

gov_vars  == <<goal, derived>>
irq_vars  == <<power, position>>
hist_vars == <<commanded, engaged_at, sampled>>
vars      == <<active, active_h, gov_vars, irq_vars, pc, call, at, reply, hist_vars>>

-----------------------------------------------------------------------------
Names  == Governors \cup {Unknown}
Sign   == {-1, 0, 1}
Goals  == Sign \cup Positions
Labels == {"idle", "dis_call", "dis_active", "dis_handle", "search", "engage",
           "tie", "de_call", "de_handle", "de_active"}
Calls  == [cmd : {"none", "deactivate"}, name : {Unknown}]
          \cup [cmd : {"activate", "set"}, name : Names]

Go(label) == pc' = label

Return(st) ==
  /\ pc' = "idle"
  /\ reply' = st

(* Both pointers are checked before a governor is disengaged.              *)
Engaged == active # Null /\ active_h # Null

-----------------------------------------------------------------------------
(* The governors.                                                          *)

(* engage of each governor: the goal is neutral, for the position governor *)
(* that is the position it was engaged at.                                 *)
Neutral(g, pos) == IF g = "position" THEN pos ELSE 0

(* Mutant: the goal is kept.                                               *)
engage_as_is(g) == UNCHANGED goal

engage(g) == goal' = [goal EXCEPT ![g] = Neutral(g, at)]

(* disengage of each governor: power and velocity forget the goal, current *)
(* and position keep it; all of them succeed.                              *)
disengage(g) ==
  goal' = IF g \in {"power", "velocity"} THEN [goal EXCEPT ![g] = 0] ELSE goal

Least(a, b)    == IF a < b THEN a ELSE b
Greatest(a, b) == IF a < b THEN b ELSE a

(* The goal of the current governor, cut to the configured limits of the   *)
(* current, -1 to 1, and then to those derived from the position.          *)
Desired ==
  LET low  == Least(Greatest(-1, lim_min - derived), 1)
      high == Greatest(Least(1, lim_max - derived), -1)
  IN  Greatest(low, Least(goal["current"], high))

(* The powers current_irq of a governor may return.  What a pair of limits *)
(* holds before they are first derived is the library's affair.            *)
Outputs(g) ==
  IF g = "power" THEN {goal[g]}
  ELSE IF g = "current" /\ derived # Null THEN {0, Desired}
  ELSE Sign

-----------------------------------------------------------------------------
(* Interrupts.                                                             *)

(* current_callback: governor_manager::current_irq, then set_power.        *)
current_irq ==
  /\ power' \in IF active_h # Null THEN Outputs(active_h) ELSE {0}
  /\ UNCHANGED <<active, active_h, gov_vars, position, pc, call, at, reply, hist_vars>>

(* Mutant: the limits are not derived again.                               *)
metrics_irq_stale ==
  /\ position' \in Positions
  /\ sampled' = TRUE
  /\ UNCHANGED <<active, active_h, gov_vars, power, pc, call, at, reply, commanded, engaged_at>>

(* position_callback: the metrics are updated, then the handle is told.    *)
(* The limits the other governors derive show only in outputs that are     *)
(* any value here.                                                         *)
metrics_irq ==
  /\ position' \in Positions
  /\ derived' = IF active_h = "current" THEN position' ELSE derived
  /\ sampled' = TRUE
  /\ UNCHANGED <<active, active_h, goal, power, pc, call, at, reply, commanded, engaged_at>>

-----------------------------------------------------------------------------
(* Commands of the main loop.                                              *)

(* Mutant: the governor in control is not disengaged first.                *)
activate_over(name) ==
  /\ pc = "idle"
  /\ call' = [cmd |-> "activate", name |-> name]
  /\ at' = position
  /\ reply' = ""
  /\ Go("search")
  /\ UNCHANGED <<active, active_h, gov_vars, irq_vars, hist_vars>>

(* governor_manager::activate, up to the call of disengage or the search.  *)
activate(name) ==
  /\ pc = "idle"
  /\ call' = [cmd |-> "activate", name |-> name]
  /\ at' = position
  /\ reply' = ""
  /\ Go(IF active # Null THEN "dis_call" ELSE "search")
  /\ UNCHANGED <<active, active_h, gov_vars, irq_vars, hist_vars>>

(* governor_manager::disengage, called by activate.  Its failure, an       *)
(* active governor without a handle, is never met: no engage fails.        *)
dis_call ==
  /\ pc = "dis_call"
  /\ IF Engaged
     THEN disengage(active) /\ Go("dis_active") /\ UNCHANGED reply
     ELSE Return("NO") /\ UNCHANGED goal
  /\ UNCHANGED <<active, active_h, derived, irq_vars, call, at, hist_vars>>

dis_active ==
  /\ pc = "dis_active"
  /\ active' = Null
  /\ Go("dis_handle")
  /\ UNCHANGED <<active_h, gov_vars, irq_vars, call, at, reply, hist_vars>>

dis_handle ==
  /\ pc = "dis_handle"
  /\ active_h' = Null
  /\ Go("search")
  /\ UNCHANGED <<active, gov_vars, irq_vars, call, at, reply, hist_vars>>

(* Mutant: the status the loop starts from is success.                     *)
search_ok ==
  /\ pc = "search"
  /\ \/ /\ call.name \in Governors
        /\ active' = call.name
        /\ Go("engage")
        /\ UNCHANGED reply
     \/ /\ call.name \notin Governors
        /\ Return("OK")
        /\ UNCHANGED active
  /\ UNCHANGED <<active_h, gov_vars, irq_vars, call, at, hist_vars>>

(* The loop over the governors: active_ is set before the governor is      *)
(* engaged; a name nobody has ends the call with an error.                 *)
search ==
  /\ pc = "search"
  /\ \/ /\ call.name \in Governors
        /\ active' = call.name
        /\ Go("engage")
        /\ UNCHANGED reply
     \/ /\ call.name \notin Governors
        /\ Return("NO")
        /\ UNCHANGED active
  /\ UNCHANGED <<active_h, gov_vars, irq_vars, call, at, hist_vars>>

do_engage ==
  /\ pc = "engage"
  /\ engage(active)
  /\ commanded' = commanded \ {active}
  /\ engaged_at' = at
  /\ Go("tie")
  /\ UNCHANGED <<active, active_h, derived, irq_vars, call, at, reply, sampled>>

(* std::tie( s, active_h_ ) = ...: every governor engages with success.    *)
tie ==
  /\ pc = "tie"
  /\ active_h' = active
  /\ Return("OK")
  /\ sampled' = FALSE
  /\ UNCHANGED <<active, gov_vars, irq_vars, call, at, commanded, engaged_at>>

(* governor_manager::deactivate.                                           *)
deactivate ==
  /\ pc = "idle"
  /\ call' = [cmd |-> "deactivate", name |-> Unknown]
  /\ reply' = ""
  /\ Go("de_call")
  /\ UNCHANGED <<active, active_h, gov_vars, irq_vars, at, hist_vars>>

de_call ==
  /\ pc = "de_call"
  /\ \/ /\ Engaged
        /\ disengage(active)
        /\ Go("de_handle")
        /\ UNCHANGED reply
     \/ /\ ~Engaged
        /\ Return("NO")
        /\ UNCHANGED goal
  /\ UNCHANGED <<active, active_h, derived, irq_vars, call, at, hist_vars>>

de_handle ==
  /\ pc = "de_handle"
  /\ active_h' = Null
  /\ Go("de_active")
  /\ UNCHANGED <<active, gov_vars, irq_vars, call, at, reply, hist_vars>>

de_active ==
  /\ pc = "de_active"
  /\ active' = Null
  /\ Return("OK")
  /\ UNCHANGED <<active_h, gov_vars, irq_vars, call, at, hist_vars>>

(* "gov <name> set <goal>": the governor need not be active.  The power    *)
(* governor refuses a goal out of range, the loop over the governors ends  *)
(* without an item in the reply when no governor has the name.             *)
set(name, v, refused) ==
  /\ pc = "idle"
  /\ call' = [cmd |-> "set", name |-> name]
  /\ \/ /\ name \in Governors
        /\ ~refused
        /\ goal' = [goal EXCEPT ![name] = v]
        /\ commanded' = commanded \cup {name}
        /\ reply' = "OK"
     \/ /\ name \in Governors \cap {"power"}
        /\ refused
        /\ reply' = "NO"
        /\ UNCHANGED <<goal, commanded>>
     \/ /\ name \notin Governors
        /\ reply' = ""
        /\ UNCHANGED <<goal, commanded>>
  /\ UNCHANGED <<active, active_h, derived, irq_vars, pc, at, engaged_at, sampled>>

-----------------------------------------------------------------------------
Init ==
  /\ active = Null
  /\ active_h = Null
  /\ goal = [g \in Governors |-> 0]
  /\ derived = Null
  /\ power = 0
  /\ position \in Positions
  /\ pc = "idle"
  /\ call = [cmd |-> "none", name |-> Unknown]
  /\ at = position
  /\ reply = ""
  /\ commanded = {}
  /\ engaged_at = position
  /\ sampled = FALSE

Main ==
  \/ \E name \in Names : activate(name)
  \/ dis_call \/ dis_active \/ dis_handle
  \/ search \/ do_engage \/ tie
  \/ deactivate \/ de_call \/ de_handle \/ de_active
  \/ \E name \in Names, v \in Sign, refused \in BOOLEAN : set(name, v, refused)

Irq == current_irq \/ metrics_irq

Next == Main \/ Irq

Spec == Init /\ [][Next]_vars

-----------------------------------------------------------------------------
(* Properties                                                              *)

(* Every variable holds a value of its type.                               *)
TypeOK ==
  /\ active \in Governors \cup {Null}
  /\ active_h \in Governors \cup {Null}
  /\ goal \in [Governors -> Goals]
  /\ derived \in Positions \cup {Null}
  /\ power \in Goals
  /\ position \in Positions
  /\ pc \in Labels
  /\ call \in Calls
  /\ at \in Positions
  /\ reply \in {"", "OK", "NO"}
  /\ commanded \subseteq Governors
  /\ engaged_at \in Positions
  /\ sampled \in BOOLEAN

(* Between two commands the two pointers of the manager agree: both are    *)
(* null, or both belong to the same governor (governor_manager.hpp:25-70). *)
PointersAgree == pc = "idle" => active_h = active

(* While a governor resets its fields in engage, no interrupt can reach    *)
(* it or any other governor: activate has cleared the handle before.       *)
EngageUndisturbed == pc \in {"search", "engage", "tie"} => active_h = Null

(* A governor that drives the motor and was given no goal since it was     *)
(* engaged has its neutral goal, whatever was sent to it while it was not  *)
(* active or in an earlier engagement.                                     *)
NeutralUntilCommanded ==
  active_h # Null /\ active_h \notin commanded =>
    goal[active_h] = Neutral(active_h, engaged_at)

(* Once the current governor has seen a position since it was engaged, the *)
(* next power it gives does not push out of the configured range of the    *)
(* position, whatever it was told to do and wherever it was engaged before;*)
(* and inside the range it pushes nowhere on its own account               *)
(* (gov/current/current.hpp:86-108, doc/reqs/03.limits.md:10-16).          *)
NeverPushesOut ==
  active_h = "current" /\ sampled =>
    \A p \in Outputs("current") :
      /\ position >= lim_max => p <= 0
      /\ position <= lim_min => p >= 0
      /\ goal["current"] = 0 /\ position \in lim_min..lim_max => p = 0

(* The reply to a command tells the state it left: after an accepted       *)
(* activate the named governor drives the motor, after a refused one none  *)
(* does, and every registered governor can always be activated.            *)
ReplyTellsState ==
  pc = "idle" =>
    /\ call.cmd = "activate" /\ reply = "OK" => active_h = call.name
    /\ call.cmd = "activate" /\ reply = "NO" => active = Null /\ active_h = Null
    /\ call.cmd = "activate" /\ call.name \in Governors => reply = "OK"
    /\ call.cmd = "deactivate" => active = Null /\ active_h = Null

(* Once a deactivate or a refused activate has been answered, no interrupt *)
(* gives the motor any power until the next activate.                      *)
UnpoweredWhenInactive ==
  [][pc = "idle" /\ active = Null /\ power' # power => power' = 0]_vars

(* The manager implements its promise (GovernorCtl): the interrupts see at *)
(* most one governor, never two in turn without none in between.           *)
Abstract == INSTANCE GovernorCtl
              WITH mode <- active_h, output <- power, Powers <- Goals, NoPower <- 0
ImplementsCtl == Abstract!Spec
=============================================================================
