------------------------------- MODULE MCAlu -------------------------------
(***************************************************************************)
(* Registers of eight bits, words of four, doubles of five significant     *)
(* bits: operands around the boundaries of both widths.                    *)
(***************************************************************************)
EXTENDS Alu

MCLefts == (0 .. 17) \cup (60 .. 68) \cup (120 .. 146) \cup (238 .. 255)
MCRights == {0, 1, 3, 7, 8, 15, 16, 100, 127, 128, 136, 248, 254, 255}
=============================================================================
