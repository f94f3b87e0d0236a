---------------------------- MODULE MCDfuUpload ----------------------------
(* Files for a flash of three blocks of two words each of two bytes: none, *)
(* ones that end within a word, within a block and with a block, one that  *)
(* fills the flash and one that is longer than that.                       *)
EXTENDS DfuUpload

MCSize == [missing |-> 0, odd |-> 5, part |-> 6, whole |-> 8, full |-> 12, over |-> 14]
=============================================================================
