-------------------------------- MODULE Plic --------------------------------
(***************************************************************************)
(* The platform-level interrupt controller of csr_file.h: one source (the  *)
(* virtio block device), one context (the supervisor's), and the SEIP bit  *)
(* of mip that it drives.                                                  *)
(***************************************************************************)
Bit == {0, 1}

\* pending: the device's line; served: claimed and not completed yet.
PlicType == [pending : Bit, served : Bit, seip : Bit]

PlicReset == [pending |-> 0, served |-> 0, seip |-> 0]

\* Mutant: the complement before plic_served_irq is missing.
plic_set_irq_emu_OnlyServed(p, state) ==
    [p EXCEPT !.pending = state, !.seip = IF state = p.served THEN state ELSE 0]

\* The device moves its line.  The C condition ~plic_served_irq complements a
\* promoted bool, which is never 0: a line that goes up sets SEIP even while
\* an earlier claim is being served.
plic_set_irq_emu(p, state) == [p EXCEPT !.pending = state, !.seip = state]

\* A load of the claim register; it returns 1 when SEIP was set, else 0.
plic_read(p) == IF p.seip = 1 THEN [p EXCEPT !.served = 1, !.seip = 0] ELSE p

\* A store to the claim register: completion.
plic_write(p) == [p EXCEPT !.served = 0, !.seip = p.pending]

=============================================================================
