------------------------------ MODULE MCMemory ------------------------------
(***************************************************************************)
(* Four cells: plain memory, mtimecmp, mtime, and a cell that only loads   *)
(* and devices can reach.  Bytes have four values.                         *)
(***************************************************************************)
EXTENDS Memory

D(a, b, c, d, e, f, g, h) == [i \in Lanes |-> <<a, b, c, d, e, f, g, h>>[i + 1]]

MCImage == <<D(1, 2, 3, 1, 0, 0, 0, 0), D(2, 2, 1, 3, 0, 0, 0, 0),
             D(3, 3, 1, 1, 0, 0, 0, 0), D(0, 1, 0, 2, 0, 0, 0, 0),
             D(0, 0, 0, 0, 0, 0, 0, 0), D(1, 0, 0, 0, 0, 0, 0, 0),
             D(2, 1, 2, 3, 0, 0, 0, 0), D(1, 3, 2, 1, 0, 0, 0, 0)>>

MCClock == {D(0, 1, 0, 0, 0, 0, 0, 0), D(3, 0, 0, 0, 0, 0, 0, 0)}
MCValues == {D(3, 1, 2, 0, 1, 3, 0, 2)}
MCChars == {D(2, 1, 0, 0, 0, 0, 0, 0)}
=============================================================================
