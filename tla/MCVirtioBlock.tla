--------------------------- MODULE MCVirtioBlock ---------------------------
(***************************************************************************)
(* VirtioBlock for TLC.                                                    *)
(***************************************************************************)
EXTENDS VirtioBlock
=============================================================================
