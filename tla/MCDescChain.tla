---------------------------- MODULE MCDescChain ----------------------------
(***************************************************************************)
(* All chains of up to three descriptors, with integers of three bits:     *)
(* lengths of 0 to 7, of which 4 and more are negative as an int.          *)
(***************************************************************************)
EXTENDS DescChain
=============================================================================
