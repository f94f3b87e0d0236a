---------------------------- MODULE GovernorCtl ----------------------------
(***************************************************************************)
(* What the governor manager promises to the rest of the firmware: at most *)
(* one governor drives the motor, the way from one governor to another     *)
(* leads through a state in which none does, and a power other than zero   *)
(* is never produced in that state.                                        *)
(***************************************************************************)
CONSTANTS
  Governors,  \* the governors of the firmware
  Null,       \* no governor
  Powers,     \* what can be sent to the motor
  NoPower     \* the power that leaves the motor unpowered

VARIABLES
  mode,       \* the governor in control, or Null
  output      \* the power last computed

vars == <<mode, output>>

Init ==
  /\ mode = Null
  /\ output = NoPower

(* A governor takes control of a motor nobody controls.                    *)
Take(g) ==
  /\ mode = Null
  /\ mode' = g
  /\ UNCHANGED output

(* The governor in control gives it up.                                    *)
Release ==
  /\ mode # Null
  /\ mode' = Null
  /\ UNCHANGED output

(* One period of the current loop.                                         *)
Compute ==
  /\ output' \in Powers
  /\ mode = Null => output' = NoPower
  /\ UNCHANGED mode

Next == (\E g \in Governors : Take(g)) \/ Release \/ Compute

Spec == Init /\ [][Next]_vars
=============================================================================
