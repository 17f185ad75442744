-------------------------------- MODULE Hart --------------------------------
(***************************************************************************)
(* The trap machinery of the emulated hart: what one turn of the main loop *)
(* of emu.cpp does to the privilege mode, the trap CSRs, the pending       *)
(* exception flags and the program counter.                                *)
(*                                                                         *)
(* A turn is one action.  It advances the host clock, fetches, executes    *)
(* one instruction and, unless the instruction leaves the turn with the C  *)
(* statement "continue" (fence, page faults), ends with the tail of the    *)
(* loop: STIP is recomputed and ONE interrupt or ONE pending exception is  *)
(* looked at (Finish).  The guest program is the environment: which        *)
(* instruction it executes next is free within Guest.                      *)
(*                                                                         *)
(* Bit registers (mie, mip, xdeleg, the C flags ILL_INS ... ) are sets of  *)
(* cause codes.  The program counter counts 4-byte words: word 0 is        *)
(* address 0, below DRAM; the other words are RAM.                         *)
(***************************************************************************)
EXTENDS Naturals

CONSTANTS
    NPC,         \* number of words of the modelled address space
    Firmwares,   \* states M-mode set-up code may leave the hart in
    Guest,       \* Guest[m]: instruction classes executed in privilege m
    CsrVals,     \* CsrVals[r]: values the guest writes to CSR r
    DataAddrs    \* addresses the guest's faulting accesses use

UMODE == 0
SMODE == 1
HMODE == 2
MMODE == 3
Priv == {UMODE, SMODE, HMODE, MMODE}

CAUSE_ILLEGAL_INSTRUCTION == 2
CAUSE_BREAKPOINT == 3
CAUSE_MISALIGNED_LOAD == 4
CAUSE_MISALIGNED_STORE == 6
CAUSE_FETCH_PAGE_FAULT == 12
CAUSE_LOAD_PAGE_FAULT == 13
CAUSE_STORE_PAGE_FAULT == 15

MEI == 11
MTI == 7
MSI == 3
SEI == 9
STI == 5
SSI == 1
UEI == 8
UTI == 4
USI == 0

IntCodes == {MEI, MTI, MSI, SEI, STI, SSI, UEI, UTI, USI}

\* The position of each interrupt in the else-if chain of the main loop.
IntRank == [c \in IntCodes |->
    CASE c = MEI -> 1 [] c = MTI -> 2 [] c = MSI -> 3
      [] c = SEI -> 4 [] c = STI -> 5 [] c = SSI -> 6
      [] c = UEI -> 7 [] c = UTI -> 8 [] c = USI -> 9]

\* The exception flags some instruction raises.  INS_ACC_FAULT, LD_ACC_FAULT
\* and INS_ADDR_MISSALIG have a place in the chain too, but nothing sets them.
ExcFlags == {CAUSE_ILLEGAL_INSTRUCTION, CAUSE_BREAKPOINT,
             CAUSE_MISALIGNED_LOAD, CAUSE_MISALIGNED_STORE}

\* The chain tests the flags in the order of their cause codes.
ExcRank == [c \in ExcFlags |-> c]

Highest(S, rank) == {c \in S : \A d \in S : rank[c] <= rank[d]}

Codes == 0 .. 15

\* xcause holds a code, with bit 63 (here 16) set for an interrupt.
Interrupt(c) == 16 + c
Causes == 0 .. 31

PCs == 0 .. NPC - 1
BootPC == 1
Succ(p) == IF p = NPC - 1 THEN 0 ELSE p + 1
Prev(p) == IF p = 0 THEN NPC - 1 ELSE p - 1

\* What xtval may hold: an address, or (the value NPC) instruction bits.
InsnBits == NPC
TVals == 0 .. NPC

InstrClasses ==
    {"plain", "jump", "fence", "illegal", "load_misaligned", "amo_misaligned",
     "load_fault", "store_fault", "bus_error", "ecall", "ebreak", "mret",
     "sret", "uret", "csr", "clint", "plic"}

\* The CSRs that take part in traps; writes to the others are Plain.
CsrNames == {"mstatus", "sstatus", "ustatus", "mie", "mip", "medeleg",
             "mideleg", "sedeleg", "sideleg", "mepc", "sepc", "mtvec",
             "stvec", "mcause", "scause", "mtval", "stval", "satp"}

Bit == {0, 1}

\* The mstatus fields the trap machinery reads or writes.
Mstatus == [uie : Bit, sie : Bit, mie : Bit, spie : Bit, mpie : Bit,
            spp : Priv, mpp : Priv, mprv : Bit]

\* The part of mstatus that sstatus aliases.
Sstatus == [uie : Bit, sie : Bit, spie : Bit, spp : Bit]

Tvec == [mode : 0 .. 3, base : PCs]

Translation == {"bare", "sv39", "sv48", "other"}

\* mtime against mtimecmp: mtimecmp = -1 (off), not reached yet, reached.
Timer == {"off", "armed", "due"}

Halts == {"run", "exit0", "exit1", "exit2", "exit3", "exit4", "exit5",
          "outside_ram", "infinite_loop"}

HartType ==
    [pc : PCs, cp : Priv, mstatus : Mstatus,
     mie : SUBSET IntCodes, mip : SUBSET IntCodes,
     medeleg : SUBSET Codes, mideleg : SUBSET Codes,
     sedeleg : SUBSET Codes, sideleg : SUBSET Codes,
     mtvec : Tvec, stvec : Tvec, mepc : PCs, sepc : PCs,
     mcause : Causes, scause : Causes, mtval : TVals, stval : TVals,
     satp : Translation, flags : SUBSET ExcFlags, timer : Timer,
     halt : Halts]

\* The hart as the static initialisers and main() leave it.
Reset ==
    [pc |-> BootPC, cp |-> MMODE,
     mstatus |-> [uie |-> 0, sie |-> 1, mie |-> 1, spie |-> 0, mpie |-> 0,
                  spp |-> 0, mpp |-> 0, mprv |-> 0],
     mie |-> {}, mip |-> {}, medeleg |-> {}, mideleg |-> {},
     sedeleg |-> {}, sideleg |-> {},
     mtvec |-> [mode |-> 0, base |-> 0], stvec |-> [mode |-> 0, base |-> 0],
     mepc |-> 0, sepc |-> 0, mcause |-> 0, scause |-> 0,
     mtval |-> 0, stval |-> 0, satp |-> "bare", flags |-> {},
     timer |-> "off", halt |-> "run"]

CsrTypes(r) ==
    CASE r = "mstatus" -> {s \in Mstatus : s.spp \in Bit}
      [] r = "sstatus" -> Sstatus
      [] r = "ustatus" -> Bit
      [] r \in {"mie", "mip"} -> SUBSET IntCodes
      [] r \in {"medeleg", "mideleg", "sedeleg", "sideleg"} -> SUBSET Codes
      [] r \in {"mepc", "sepc"} -> PCs
      [] r \in {"mtvec", "stvec"} -> Tvec
      [] r \in {"mcause", "scause"} -> Causes
      [] r \in {"mtval", "stval"} -> TVals
      [] r = "satp" -> Translation

ASSUME SizeAssumption == NPC \in Nat /\ NPC >= 2

ASSUME GuestAssumption ==
    /\ DataAddrs \subseteq PCs
    /\ \A m \in Priv : Guest[m] \subseteq InstrClasses
    /\ \A r \in CsrNames : CsrVals[r] \subseteq CsrTypes(r)

\* Set-up code is straight-line M-mode code that takes no trap.
ASSUME FirmwareAssumption ==
    \A f \in Firmwares :
        /\ f \in HartType
        /\ f.cp = MMODE /\ f.flags = {} /\ f.halt = "run"
        /\ f.mip = {} /\ f.mcause = 0 /\ f.scause = 0 /\ f.mstatus.spp \in Bit

VARIABLES
    hart,       \* the hart
    raisedAt    \* history: address of the instruction behind each pending flag

vars == <<hart, raisedAt>>

-----------------------------------------------------------------------------
(* Traps: csr_file.h *)

\* Mutant: the case of M falls into the case of S.
trap_mode_select_MDelegates(c, mdeleg, sdeleg, cp) ==
    CASE cp \in {MMODE, SMODE} -> {IF c \in mdeleg THEN SMODE ELSE MMODE}
      [] cp = UMODE -> {IF c \notin mdeleg THEN MMODE
                        ELSE IF c \in sdeleg THEN UMODE ELSE SMODE}
      [] cp = HMODE -> Priv

\* Mutant: S-mode traps stay in S-mode, the delegation register is not read.
trap_mode_select_SKeeps(c, mdeleg, sdeleg, cp) ==
    CASE cp = MMODE -> {MMODE}
      [] cp = SMODE -> {SMODE}
      [] cp = UMODE -> {IF c \notin mdeleg THEN MMODE
                        ELSE IF c \in sdeleg THEN UMODE ELSE SMODE}
      [] cp = HMODE -> Priv

\* The privilege mode that handles a trap.  The C function has no case for
\* HMODE and falls off its end: any mode may come out.
trap_mode_select(c, mdeleg, sdeleg, cp) ==
    CASE cp = MMODE -> {MMODE}
      [] cp = SMODE -> {IF c \in mdeleg THEN SMODE ELSE MMODE}
      [] cp = UMODE -> {IF c \notin mdeleg THEN MMODE
                        ELSE IF c \in sdeleg THEN UMODE ELSE SMODE}
      [] cp = HMODE -> Priv

\* ecode stays 0 when the current privilege is none of U, S, M.
ExcCode(h, c) == IF h.cp = HMODE THEN 0 ELSE c

ExcModes(h, c) ==
    trap_mode_select(ExcCode(h, c), h.medeleg, h.sedeleg, h.cp)

IntModes(h, c) == trap_mode_select(c, h.mideleg, h.sideleg, h.cp)

\* Mutant: SIE is saved but not cleared.
EnterS_KeepsSie(h, epc, cause, pc) ==
    [h EXCEPT !.mstatus = [h.mstatus EXCEPT !.mpp = h.cp, !.spp = h.cp,
                               !.spie = h.mstatus.sie],
              !.cp = SMODE, !.scause = cause, !.sepc = epc, !.pc = pc]

\* Both trap functions push the mode into mpp AND spp on the way to S.
EnterS(h, epc, cause, pc) ==
    [h EXCEPT !.mstatus = [h.mstatus EXCEPT !.mpp = h.cp, !.spp = h.cp,
                               !.spie = h.mstatus.sie, !.sie = 0],
              !.cp = SMODE, !.scause = cause, !.sepc = epc, !.pc = pc]

\* Mutant: MIE is saved but not cleared.
EnterM_KeepsMie(h, epc, cause, pc) ==
    [h EXCEPT !.mstatus = [h.mstatus EXCEPT !.mpp = h.cp,
                               !.mpie = h.mstatus.mie],
              !.cp = MMODE, !.mcause = cause, !.mepc = epc, !.pc = pc]

EnterM(h, epc, cause, pc) ==
    [h EXCEPT !.mstatus = [h.mstatus EXCEPT !.mpp = h.cp,
                               !.mpie = h.mstatus.mie, !.mie = 0],
              !.cp = MMODE, !.mcause = cause, !.mepc = epc, !.pc = pc]

\* npc is the C parameter PC: the address after the faulting instruction.
excep_function(h, npc, c, m) ==
    CASE m = UMODE -> [h EXCEPT !.halt = "exit4"]
      [] m = SMODE -> EnterS(h, Prev(npc), ExcCode(h, c), h.stvec.base)
      [] m = MMODE -> EnterM(h, Prev(npc), ExcCode(h, c), h.mtvec.base)
      [] m = HMODE -> [h EXCEPT !.pc = npc]

\* The vector of an interrupt: new_PC stays 0 in the reserved modes 2 and 3.
IntVector(tvec) == IF tvec.mode = 0 THEN tvec.base ELSE 0

\* Mutant: the supervisor's global enable is not tested.
interrupt_function_AnySie(h, c, m) ==
    CASE m = UMODE /\ h.mstatus.uie = 1 -> [h EXCEPT !.halt = "exit1"]
      [] m = SMODE -> EnterS(h, h.pc, Interrupt(c), IntVector(h.stvec))
      [] m = MMODE /\ h.mstatus.mie = 1 ->
            [EnterM(h, h.pc, Interrupt(c), IntVector(h.mtvec)) EXCEPT !.halt = "exit5"]
      [] OTHER -> h

\* Mutant: the machine's global enable is not tested.
interrupt_function_AnyMie(h, c, m) ==
    CASE m = SMODE /\ h.mstatus.sie = 1 ->
            EnterS(h, h.pc, Interrupt(c), IntVector(h.stvec))
      [] m = MMODE ->
            [EnterM(h, h.pc, Interrupt(c), IntVector(h.mtvec)) EXCEPT
                !.halt = IF h.cp = MMODE THEN "exit5" ELSE "run"]
      [] OTHER -> h

\* An interrupt that is not globally enabled leaves the hart as it is.
interrupt_function(h, c, m) ==
    CASE m = UMODE /\ h.mstatus.uie = 1 -> [h EXCEPT !.halt = "exit1"]
      [] m = SMODE /\ h.mstatus.sie = 1 ->
            [EnterS(h, h.pc, Interrupt(c), IntVector(h.stvec)) EXCEPT
                !.halt = IF h.stvec.mode = 1 THEN "exit2" ELSE "run"]
      [] m = MMODE /\ h.mstatus.mie = 1 ->
            [EnterM(h, h.pc, Interrupt(c), IntVector(h.mtvec)) EXCEPT
                !.halt = CASE h.mtvec.mode = 1 -> "exit3"
                           [] h.mtvec.mode = 0 /\ h.cp = MMODE -> "exit5"
                           [] OTHER -> "run"]
      [] OTHER -> h

\* Whether the access goes through the page table.
Translated(h, inst) ==
    /\ h.satp = "sv39"
    /\ ~(h.cp = MMODE /\ (h.mstatus.mprv = 0 \/ inst))
    /\ ~(h.mstatus.mprv = 1 /\ h.mstatus.mpp = MMODE)

\* translate() may return -1: the tables are the guest's, so any page may be
\* unmapped; an unknown satp.MODE faults on everything.
MayFault(h, inst) == Translated(h, inst) \/ h.satp = "other"

-----------------------------------------------------------------------------
(* The main loop: emu.cpp *)

\* The host's wall clock is read at the top of every turn.  It may go forward
\* past mtimecmp, and back behind it when the host's time is set.
Tick(h) == IF h.timer = "off" THEN {h}
           ELSE {h, [h EXCEPT !.timer = "armed"], [h EXCEPT !.timer = "due"]}

\* Mutant: the comparison goes to bit 6, the bit after STIP.
SampleTimer_WrongBit(h) ==
    [h EXCEPT !.mip = IF h.timer = "due" THEN @ \cup {6} ELSE @ \ {6}]

\* Mutant: STIP is only cleared.
SampleTimer_NeverSets(h) == [h EXCEPT !.mip = @ \ {STI}]

\* Mutant: STIP is only set.
SampleTimer_Latches(h) == [h EXCEPT !.mip = IF h.timer = "due" THEN @ \cup {STI} ELSE @]

\* mip.STIP = (mtime >= mtimecmp)
SampleTimer(h) ==
    [h EXCEPT !.mip = IF h.timer = "due" THEN @ \cup {STI} ELSE @ \ {STI}]

\* A turn that ends on the address it began with stops the emulator.
LoopCheck(h, lpc) ==
    IF h.halt = "run" /\ h.pc = lpc THEN [h EXCEPT !.halt = "infinite_loop"]
                                    ELSE h

\* Commit the turn; at is where each flag that is still pending was raised.
Commit(h, at) ==
    /\ hart' = h
    /\ raisedAt' = [c \in ExcFlags |-> IF c \in h.flags THEN at[c] ELSE 0]

\* Mutant: the flag of the exception that is taken is not reset.
Finish_KeepsFlag(h0, lpc, at) ==
    LET h == SampleTimer(h0)
        enabled == h.mie \cap h.mip
    IN  \/ \E c \in Highest(enabled, IntRank) : \E m \in IntModes(h, c) :
              Commit(LoopCheck(interrupt_function(h, c, m), lpc), at)
        \/ /\ enabled = {}
           /\ \E c \in Highest(h.flags, ExcRank) : \E m \in ExcModes(h, c) :
                 Commit(LoopCheck(excep_function(h, h.pc, c, m), lpc), at)
        \/ /\ enabled = {} /\ h.flags = {}
           /\ Commit(LoopCheck(h, lpc), at)

\* The tail of the loop for an instruction fetched from lpc.  Interrupts are
\* tested before the exception flags, and a declined interrupt ends the chain.
Finish(h0, lpc, at) ==
    LET h == SampleTimer(h0)
        enabled == h.mie \cap h.mip
    IN  \/ \E c \in Highest(enabled, IntRank) : \E m \in IntModes(h, c) :
              Commit(LoopCheck(interrupt_function(h, c, m), lpc), at)
        \/ /\ enabled = {}
           /\ \E c \in Highest(h.flags, ExcRank) : \E m \in ExcModes(h, c) :
                 LET g == [h EXCEPT !.flags = @ \ {c}]
                 IN  Commit(LoopCheck(excep_function(g, h.pc, c, m), lpc), at)
        \/ /\ enabled = {} /\ h.flags = {}
           /\ Commit(LoopCheck(h, lpc), at)

\* Raise a flag for the instruction at lpc, then run the tail.
Raise(h, c, lpc) ==
    Finish([h EXCEPT !.flags = @ \cup {c}, !.pc = Succ(lpc)],
           lpc, [raisedAt EXCEPT ![c] = lpc])

Running == hart.halt = "run"

\* A user program that reaches address 0 ends the emulation, so does Sv48.
FetchExit ==
    /\ Running
    /\ hart.satp = "sv48" \/ (hart.cp = UMODE /\ hart.pc = 0)
    /\ \E h \in Tick(hart) : Commit([h EXCEPT !.halt = "exit0"], raisedAt)

MayFetch == Running /\ hart.satp # "sv48" /\ ~(hart.cp = UMODE /\ hart.pc = 0)

FetchFault ==
    /\ MayFetch
    /\ MayFault(hart, TRUE)
    /\ \E h \in Tick(hart) :
       \E m \in ExcModes(h, CAUSE_FETCH_PAGE_FAULT) :
          Commit([excep_function(h, Succ(h.pc), CAUSE_FETCH_PAGE_FAULT, m)
                     EXCEPT !.mtval = h.pc, !.stval = h.pc], raisedAt)

FetchOutsideRam ==
    /\ MayFetch
    /\ hart.satp # "other"
    /\ Translated(hart, TRUE) \/ hart.pc = 0
    /\ \E h \in Tick(hart) : Commit([h EXCEPT !.halt = "outside_ram"], raisedAt)

\* An instruction of class k is fetched.
Fetched(k) ==
    /\ MayFetch
    /\ hart.satp # "other"
    /\ Translated(hart, TRUE) \/ hart.pc # 0
    /\ k \in Guest[hart.cp]

\* Instructions that touch no trap state: lui, auipc, the integer operations,
\* loads, stores and AMOs that succeed, and a misaligned store, which is
\* dropped without an exception.
Plain ==
    /\ Fetched("plain")
    /\ \E h \in Tick(hart) :
        Finish([h EXCEPT !.pc = Succ(@)], h.pc, raisedAt)

\* jal, jalr and the conditional branches
Jump ==
    /\ Fetched("jump")
    /\ \E h \in Tick(hart), t \in PCs :
        Finish([h EXCEPT !.pc = t], h.pc, raisedAt)

\* fence leaves the turn with continue: no interrupt is looked at.
Fence ==
    /\ Fetched("fence")
    /\ \E h \in Tick(hart) :
        Commit([h EXCEPT !.pc = Succ(@)], raisedAt)

\* Floating point, an unknown AMO.W, and a CSR access that csr_read or
\* csr_write refuses
Illegal ==
    /\ Fetched("illegal")
    /\ \E h \in Tick(hart) :
        Raise([h EXCEPT !.mtval = InsnBits], CAUSE_ILLEGAL_INSTRUCTION, h.pc)

LoadMisaligned ==
    /\ Fetched("load_misaligned")
    /\ \E h \in Tick(hart), a \in DataAddrs :
        Raise([h EXCEPT !.mtval = a], CAUSE_MISALIGNED_LOAD, h.pc)

AmoMisaligned ==
    /\ Fetched("amo_misaligned")
    /\ \E h \in Tick(hart), a \in DataAddrs :
        Raise([h EXCEPT !.mtval = a], CAUSE_MISALIGNED_STORE, h.pc)

\* Mutant: the supervisor's handler is not told the address.
RouteTval_NoStval(h, a) ==
    CASE h.cp = MMODE -> [h EXCEPT !.mtval = a]
      [] h.cp \in {SMODE, UMODE} -> [h EXCEPT !.mtval = 0]
      [] h.cp = HMODE -> [h EXCEPT !.mtval = a]

\* The faulting address goes to the tval of the mode the trap was taken in;
\* mtval is cleared when that is not M.
RouteTval(h, a) ==
    CASE h.cp = MMODE -> [h EXCEPT !.mtval = a]
      [] h.cp = SMODE -> [h EXCEPT !.stval = a, !.mtval = 0]
      [] h.cp = UMODE -> [h EXCEPT !.mtval = 0]
      [] h.cp = HMODE -> [h EXCEPT !.mtval = a]

\* A load, store or AMO page fault: the trap is taken at once and the turn
\* ends with continue.
DataFault(k, c) ==
    /\ Fetched(k)
    /\ \E h \in Tick(hart), a \in DataAddrs :
        /\ MayFault(h, FALSE)
        /\ \E m \in ExcModes(h, c) :
              Commit(RouteTval(excep_function(h, Succ(h.pc), c, m), a), raisedAt)

LoadFault == DataFault("load_fault", CAUSE_LOAD_PAGE_FAULT)

StoreFault == DataFault("store_fault", CAUSE_STORE_PAGE_FAULT)

\* A physical address outside RAM and the devices ends the emulation.
BusError ==
    /\ Fetched("bus_error")
    /\ \E h \in Tick(hart) :
        Commit([h EXCEPT !.pc = Succ(@), !.halt = "exit0"], raisedAt)

EcallCode(cp) == CASE cp = UMODE -> 8 [] cp = SMODE -> 9 [] cp = MMODE -> 11
                   [] cp = HMODE -> 0

\* The environment call traps at once, and then the tail runs in the new mode.
Ecall ==
    /\ Fetched("ecall")
    /\ \E h \in Tick(hart) : \E m \in ExcModes(h, EcallCode(h.cp)) :
        LET g == excep_function(h, Succ(h.pc), EcallCode(h.cp), m)
        IN  IF g.halt = "run" THEN Finish(g, h.pc, raisedAt)
                              ELSE Commit(g, raisedAt)

Ebreak ==
    /\ Fetched("ebreak")
    /\ \E h \in Tick(hart) :
        Raise(h, CAUSE_BREAKPOINT, h.pc)

\* mret enables MIE whatever MPIE holds; no privilege check.
MretState(h) ==
    [h EXCEPT !.pc = h.mepc, !.cp = h.mstatus.mpp,
              !.mstatus = [@ EXCEPT !.mie = 1, !.mpp = UMODE, !.mpie = 0]]

Mret ==
    /\ Fetched("mret")
    /\ \E h \in Tick(hart) :
        Finish(MretState(h), h.pc, raisedAt)

SretState(h) ==
    [h EXCEPT !.pc = h.sepc, !.cp = h.mstatus.spp,
              !.mstatus = [h.mstatus EXCEPT !.spp = UMODE,
                               !.sie = h.mstatus.spie, !.spie = 1]]

Sret ==
    /\ Fetched("sret")
    /\ \E h \in Tick(hart) :
        Finish(SretState(h), h.pc, raisedAt)

Uret ==
    /\ Fetched("uret")
    /\ \E h \in Tick(hart) :
        Commit([h EXCEPT !.pc = Succ(@), !.halt = "exit0"], raisedAt)

\* The two CSRs csr_read checks the privilege for; a refusal is Illegal.
CsrAllowed(r, cp) ==
    CASE r = "mstatus" -> cp = MMODE
      [] r = "sstatus" -> cp \in {SMODE, MMODE}
      [] OTHER -> TRUE

\* SIE and SIP are mie and mip, all nine bits of them.
csr_write(h, r, v) ==
    CASE r = "mstatus" -> [h EXCEPT !.mstatus = v]
      [] r = "sstatus" ->
            [h EXCEPT !.mstatus = [@ EXCEPT !.uie = v.uie, !.sie = v.sie,
                                       !.spie = v.spie, !.spp = v.spp]]
      [] r = "ustatus" -> [h EXCEPT !.mstatus = [@ EXCEPT !.uie = v]]
      [] r = "mie" -> [h EXCEPT !.mie = v]
      [] r = "mip" -> [h EXCEPT !.mip = v]
      [] r = "medeleg" -> [h EXCEPT !.medeleg = v]
      [] r = "mideleg" -> [h EXCEPT !.mideleg = v]
      [] r = "sedeleg" -> [h EXCEPT !.sedeleg = v]
      [] r = "sideleg" -> [h EXCEPT !.sideleg = v]
      [] r = "mepc" -> [h EXCEPT !.mepc = v]
      [] r = "sepc" -> [h EXCEPT !.sepc = v]
      [] r = "mtvec" -> [h EXCEPT !.mtvec = v]
      [] r = "stvec" -> [h EXCEPT !.stvec = v]
      [] r = "mcause" -> [h EXCEPT !.mcause = v]
      [] r = "scause" -> [h EXCEPT !.scause = v]
      [] r = "mtval" -> [h EXCEPT !.mtval = v]
      [] r = "stval" -> [h EXCEPT !.stval = v]
      [] r = "satp" -> [h EXCEPT !.satp = v]

\* The six CSR instructions, by the value that ends up written.
CsrWrite ==
    /\ Fetched("csr")
    /\ \E h \in Tick(hart), r \in CsrNames :
        /\ CsrAllowed(r, h.cp)
        /\ \E v \in CsrVals[r] :
              Finish([csr_write(h, r, v) EXCEPT !.pc = Succ(@)], h.pc, raisedAt)

\* A store to mtimecmp (or to the DRAM cell it aliases)
ClintWrite ==
    /\ Fetched("clint")
    /\ \E h \in Tick(hart), t \in Timer :
        Finish([h EXCEPT !.timer = t, !.pc = Succ(@)], h.pc, raisedAt)

\* An access to the PLIC or to the virtio device leaves SEIP set or clear.
PlicAccess ==
    /\ Fetched("plic")
    /\ \E h \in Tick(hart), on \in BOOLEAN :
        Finish([h EXCEPT !.mip = IF on THEN @ \cup {SEI} ELSE @ \ {SEI},
                            !.pc = Succ(@)], h.pc, raisedAt)

\* The process has ended.
Stopped == ~Running /\ UNCHANGED vars

Init ==
    /\ hart \in Firmwares
    /\ raisedAt = [c \in ExcFlags |-> 0]

\* The turns that reach the tail of the loop
Checked ==
    \/ Plain \/ Jump \/ Illegal \/ LoadMisaligned \/ AmoMisaligned
    \/ Ecall \/ Ebreak \/ Mret \/ Sret \/ CsrWrite \/ ClintWrite \/ PlicAccess

\* The turns that end with continue, break or exit
Unchecked ==
    \/ FetchExit \/ FetchFault \/ FetchOutsideRam \/ Fence \/ LoadFault
    \/ StoreFault \/ BusError \/ Uret

Next == Checked \/ Unchecked \/ Stopped

Spec == Init /\ [][Next]_vars

-----------------------------------------------------------------------------
(* Properties *)

\* Type correctness of the hart and of the history of pending flags.
TypeOK ==
    /\ hart \in HartType
    /\ raisedAt \in [ExcFlags -> PCs]

\* Below M-mode, mstatus.mpp never names M-mode: the "mprv and mpp = 3"
\* exemption of translate() is out of reach and an mret executed in S or U,
\* which the emulator does not refuse, cannot climb to M.
MppBelowMachine ==
    /\ hart.cp # MMODE => hart.mstatus.mpp # MMODE
    /\ hart.mstatus.spp # MMODE

\* M-mode is entered from a lower mode only by a trap: at the mtvec vector and
\* with MIE cleared, never by one of the xret instructions.
MachineEnteredByTrap ==
    [][(hart.cp # MMODE /\ hart'.cp = MMODE) =>
          /\ hart'.mstatus.mie = 0
          /\ hart'.pc \in {hart'.mtvec.base, 0}]_vars

\* The emulator never calls one of the exit(1) ... exit(5) of the trap
\* functions: no user-level handler, no vectored interrupt, no interrupt
\* taken from M-mode to M-mode.
NeverAborts == hart.halt \notin {"exit1", "exit2", "exit3", "exit4", "exit5"}

\* The discipline under which no abort is possible, whatever the rest of the
\* guest does: direct vectors and no user-level delegation; machine mode runs
\* with MIE clear, returns to S or U and raises nothing itself; nobody raises
\* one of the exceptions that wait behind a masked interrupt.
Disciplined ==
    /\ \A f \in Firmwares :
          /\ f.mtvec.mode = 0 /\ f.stvec.mode = 0
          /\ f.sedeleg = {} /\ f.sideleg = {} /\ f.satp # "other"
          /\ f.mstatus.mie = 0 /\ f.mstatus.mpp \in {UMODE, SMODE}
    /\ \A m \in Priv : Guest[m] \cap {"illegal", "load_misaligned",
                                      "amo_misaligned", "ebreak"} = {}
    /\ Guest[MMODE] \cap {"ecall", "load_fault", "store_fault"} = {}
    /\ \A v \in CsrVals["mstatus"] : v.mie = 0 /\ v.mpp \in {UMODE, SMODE}
    /\ \A v \in CsrVals["mtvec"] \cup CsrVals["stvec"] : v.mode = 0
    /\ CsrVals["sedeleg"] \cup CsrVals["sideleg"] \subseteq {{}}
    /\ "other" \notin CsrVals["satp"]

\* No interrupt is ever enabled: bare-metal programs such as the ISA tests.
NoInterrupts ==
    /\ \A f \in Firmwares : f.mie = {}
    /\ CsrVals["mie"] \subseteq {{}}

\* A supervisor that handles the fetch faults below M-mode and, once set up,
\* writes neither the delegation nor the registers its traps are reported in;
\* HMODE, for which trap_mode_select has no case, is never returned to.
SupervisorSetUp ==
    /\ \A f \in Firmwares :
          /\ f.mstatus.mpp # HMODE /\ f.satp # "other"
          /\ CAUSE_FETCH_PAGE_FAULT \in f.medeleg \ f.sedeleg
    /\ \A v \in CsrVals["mstatus"] : v.mpp # HMODE
    /\ \A v \in CsrVals["sedeleg"] : CAUSE_FETCH_PAGE_FAULT \notin v
    /\ "other" \notin CsrVals["satp"]
    /\ \A r \in {"medeleg", "mideleg", "scause", "sepc", "stval"} : CsrVals[r] = {}

\* Between two turns no exception flag is pending: each exception is taken in
\* the turn of the instruction that raised it.
ExceptionsPrecise == hart.flags = {}

\* A supervisor page-fault handler finds the faulting address in stval: the
\* fetch address, which is also sepc, or the address of the data access.
FaultAddressVisible ==
    /\ hart.scause = CAUSE_FETCH_PAGE_FAULT => hart.stval = hart.sepc
    /\ hart.scause \in {CAUSE_LOAD_PAGE_FAULT, CAUSE_STORE_PAGE_FAULT} =>
          hart.stval \in DataAddrs

\* scause only ever reports traps that mideleg or medeleg hands to S-mode.
SupervisorOnlyDelegated ==
    \/ hart.scause = 0
    \/ hart.scause \in hart.medeleg
    \/ \E c \in hart.mideleg : hart.scause = Interrupt(c)

\* A delegated timer interrupt that supervisor or user code may take.
TimerDeliverable ==
    /\ Running
    /\ hart.cp \in {UMODE, SMODE}
    /\ hart.timer = "due"
    /\ STI \in hart.mie \cap hart.mideleg
    /\ hart.mstatus.sie = 1

\* A supervisor that is told of a timer interrupt finds its time reached: not a
\* due time that a clock set back, or a turn that skipped the tail (fence, page
\* fault), left in STIP.  (For guests that do not write scause themselves.)
TimerTrapsDue ==
    [][(hart.scause # Interrupt(STI) /\ hart'.scause = Interrupt(STI))
          => hart'.timer = "due"]_vars

\* The main loop is sequential and never waits: it always makes another turn.
FairSpec == Spec /\ WF_vars(Checked \/ Unchecked)

\* A due and deliverable timer interrupt does not stay untaken for ever.
TimerNotStarved == ~<>[]TimerDeliverable

=============================================================================
