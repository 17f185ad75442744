------------------------------- MODULE MCHart -------------------------------
(***************************************************************************)
(* Small instances of Hart: firmwares, guests and CSR values for TLC.      *)
(* Word 0 lies below DRAM, M traps are vectored to word 1 and S traps to   *)
(* word 2; word 3, where the instance has it, is ordinary code.            *)
(***************************************************************************)
EXTENDS HartManual

NoCsr == [r \in CsrNames |-> {}]

Sbi == [Reset EXCEPT !.mtvec = [mode |-> 0, base |-> 1],
                     !.stvec = [mode |-> 0, base |-> 2],
                     !.mstatus.mie = 0]

\* modes: code of every mode, a delegated and a machine interrupt, HMODE and
\* M itself among the modes mret goes to.
ModesFirmwares ==
    {[Sbi EXCEPT !.medeleg = {8, 3}, !.mideleg = {STI}, !.mie = {STI, MSI},
                 !.mstatus.mpp = p] : p \in {SMODE, HMODE, MMODE}}
ModesGuest == [m \in Priv |->
    IF m = MMODE THEN {"plain", "ecall", "mret", "csr"}
    ELSE {"jump", "ecall", "ebreak", "mret", "sret", "csr", "clint"}]
ModesCsr == [NoCsr EXCEPT !["mip"] = {{MSI}}, !["sstatus"] =
    {[uie |-> 0, sie |-> 1, spie |-> 0, spp |-> 1]}]

\* paging: supervisor and user code under Sv39, no interrupt enabled.
PagingFirmwares ==
    {[Sbi EXCEPT !.medeleg = d, !.satp = "sv39", !.mstatus.mpp = p] :
        d \in {{2, 4, 8, 12, 13, 15}, {3, 6, 8, 12, 13, 15}},
        p \in {UMODE, SMODE}}
PagingGuest == [m \in Priv |->
    CASE m = MMODE -> {"plain", "mret"}
      [] m = SMODE -> {"plain", "jump", "fence", "illegal", "load_misaligned",
                       "load_fault", "sret", "ebreak", "bus_error", "csr"}
      [] OTHER -> {"plain", "amo_misaligned", "store_fault", "illegal",
                   "ecall", "uret"}]
PagingCsr == [NoCsr EXCEPT !["satp"] = {"sv48"}]

\* sbi: a supervisor that sleeps on timer and external interrupts and calls
\* machine-mode firmware to set the timer.
SbiFirmwares ==
    {[Sbi EXCEPT !.medeleg = {8, 12, 13, 15}, !.mideleg = {STI, SEI, SSI},
                 !.mie = {STI, SEI, MSI}, !.mstatus.mpp = SMODE, !.mepc = 3]}
SbiGuest == [m \in Priv |->
    CASE m = MMODE -> {"plain", "clint", "mret", "csr"}
      [] m = SMODE -> {"plain", "jump", "fence", "ecall", "sret", "csr", "plic"}
      [] OTHER -> {"plain", "jump", "ecall"}]
SbiCsr == [NoCsr EXCEPT !["mip"] = {{}, {MSI}}, !["sstatus"] =
    {[uie |-> 0, sie |-> e, spie |-> 1, spp |-> p] : e \in Bit, p \in Bit}]

\* manual_epc: supervisor code under a machine software interrupt, with just the
\* classes that reach the late exception.
ManualFirmwares ==
    {[Sbi EXCEPT !.medeleg = {3, 8}, !.mideleg = {STI}, !.mie = {STI, MSI},
                 !.mstatus.mpp = SMODE, !.mepc = 3]}
ManualGuest == [m \in Priv |->
    CASE m = MMODE -> {"plain", "ecall", "clint", "mret"}
      [] m = SMODE -> {"jump", "ebreak", "ecall", "sret", "csr"}
      [] OTHER -> {"jump", "ecall"}]
ManualCsr == [NoCsr EXCEPT !["mip"] = {{MSI}}, !["sstatus"] =
    {[uie |-> 0, sie |-> 0, spie |-> e, spp |-> 0] : e \in Bit}]
=============================================================================
