---------------------------- MODULE MCIndication ----------------------------
(***************************************************************************)
(* Indication with an uninitialised next_e behind, at and ahead of the     *)
(* clock.                                                                  *)
(***************************************************************************)
EXTENDS Indication

MCLeftovers == {-4, 0, 5}
=============================================================================
