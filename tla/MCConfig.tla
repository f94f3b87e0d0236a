------------------------------ MODULE MCConfig ------------------------------
(* The range of positions, of two fields.  An old version of the firmware  *)
(* does not have the one, and has another type for the other.  The numbers *)
(* are the fields' ids.                                                    *)
EXTENDS Config

position_low_angle == 11
position_high_angle == 12

MCFields  == {position_low_angle, position_high_angle}
MCDefault == [f \in MCFields |-> IF f = position_high_angle THEN 1 ELSE 0]
MCKeys    == [v \in Versions |-> IF v = "old" THEN {position_low_angle} ELSE MCFields]
MCType    == [v \in Versions |-> [f \in MCFields |-> IF v = "old" THEN "int32_t" ELSE "float"]]
MCInputs  == [p \in {"scale", "offset"} |-> MCFields]
MCWrites  == [f \in MCFields |-> <<"scale", "offset">>]
=============================================================================
