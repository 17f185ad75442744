----------------------------- MODULE MCAtomics -----------------------------
(***************************************************************************)
(* Two threads that share one page and have one of their own each at the   *)
(* same virtual address.                                                   *)
(***************************************************************************)
EXTENDS Atomics

MCThreads == {"t1", "t2"}
MCFrame == [t \in MCThreads |->
               [p \in {"shared", "own"} |-> IF p = "shared" THEN "c1"
                                            ELSE IF t = "t1" THEN "c2" ELSE "c3"]]
=============================================================================
