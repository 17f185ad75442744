----------------------------- MODULE HartManual -----------------------------
(***************************************************************************)
(* A sentence of the privileged architecture manual that the repository    *)
(* carries (docs/riscv-privileged.pdf), stated of the hart the emulator    *)
(* implements.  A run refutes it.                                          *)
(***************************************************************************)
EXTENDS Hart

\* Page 27: "the xepc register is written with the virtual address of the
\* instruction that took the trap"; stated of an exception flag that an earlier
\* turn left pending and this turn takes.
EpcOfFaultingInstruction ==
    [][\A c \in hart.flags \ hart'.flags :
          hart'.halt = "run" =>
             raisedAt[c] = IF hart'.cp = MMODE THEN hart'.mepc
                                               ELSE hart'.sepc]_vars

=============================================================================
