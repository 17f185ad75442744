------------------------------ MODULE MCSystem ------------------------------
(***************************************************************************)
(* The hart with the block device, for TLC.                                *)
(***************************************************************************)
EXTENDS System
=============================================================================
