---------------------------- MODULE SystemProofs ----------------------------
(***************************************************************************)
(* The hart with the block device, for rings of every size and every image:*)
(* the turns of the main loop run the driver that VirtioBlock assumes, and *)
(* keep the emulation, the interrupted context and the driver's critical   *)
(* section intact.                                                         *)
(*                                                                         *)
(* The argument: the tail of the loop (Finish) either leaves the hart where*)
(* the instruction left it or, in supervisor mode with SIE set, takes one  *)
(* of the two delegated interrupts (LoopTail).  The invariant SysInv says  *)
(* of each word of the program what is true when the hart is about to      *)
(* fetch it.                                                               *)
(***************************************************************************)
EXTENDS System, VirtioBlockProofs

-----------------------------------------------------------------------------
(* The hart of this program *)

\* What the kernel and its firmware leave alone: the vectors, the delegation of
\* the two supervisor interrupts and of nothing else, no pending exception.
Fixed(h) ==
    /\ h \in H!HartType
    /\ h.mtvec = [mode |-> 0, base |-> SetTimer]
    /\ h.stvec = [mode |-> 0, base |-> Vector]
    /\ h.mideleg = {H!SEI, H!STI} /\ h.sideleg = {}
    /\ h.medeleg = {} /\ h.sedeleg = {}
    /\ h.mie = {H!SEI, H!STI} /\ h.mip \subseteq {H!SEI, H!STI}
    /\ h.flags = {} /\ h.satp = "bare" /\ h.halt = "run"

\* The tail of the loop finds nothing it may take in h: only STIP moves.
Resumes(h, g) ==
    /\ g.pc = h.pc /\ g.cp = h.cp /\ g.mstatus = h.mstatus
    /\ g.sepc = h.sepc /\ g.mepc = h.mepc /\ g.scause = h.scause
    /\ H!SEI \in g.mip <=> H!SEI \in h.mip

\* The tail of the loop takes an interrupt in h.
Interrupted(h, g) ==
    /\ h.cp = H!SMODE /\ h.mstatus.sie = 1
    /\ g.pc = Vector /\ g.cp = H!SMODE
    /\ g.mstatus.sie = 0 /\ g.mstatus.spp = H!SMODE
    /\ g.sepc = h.pc
    /\ g.scause \in {H!Interrupt(H!SEI), H!Interrupt(H!STI)}
    /\ g.scause = H!Interrupt(H!SEI) => H!SEI \in h.mip
    /\ H!SEI \in g.mip <=> H!SEI \in h.mip

\* SEI and STI are delegated: S-mode handles them in S-mode; M-mode keeps them.
LEMMA OwnMode ==
    ASSUME NEW h, Fixed(h), NEW c \in {H!SEI, H!STI}, NEW m \in H!IntModes(h, c),
           h.cp \in {H!SMODE, H!MMODE}
    PROVE  m = h.cp
  BY DEF Fixed, H!IntModes, H!trap_mode_select, H!SEI, H!STI, H!SMODE, H!MMODE, H!UMODE, H!HMODE

\* The comparison of mtime and mtimecmp moves STIP only.
LEMMA SampleFixed ==
    ASSUME NEW h, Fixed(h)
    PROVE  LET s == H!SampleTimer(h)
           IN  Fixed(s) /\ Resumes(h, s)
  BY DEF Fixed, Resumes, H!SampleTimer, H!HartType, H!SEI, H!STI, H!IntCodes

\* interrupt_function declines or enters the supervisor's handler.
LEMMA InterruptStep ==
    ASSUME NEW h, Fixed(h), NEW c \in h.mip, h.cp \in {H!SMODE, H!MMODE},
           h.cp = H!MMODE => h.mstatus.mie = 0
    PROVE  LET g == H!interrupt_function(h, c, h.cp)
           IN  /\ Fixed(g)
               /\ g = h \/ Interrupted(h, g)
  <1> DEFINE g == H!interrupt_function(h, c, h.cp)
  <1>c. c \in {H!SEI, H!STI}
    BY DEF Fixed
  <1>1. CASE h.cp = H!MMODE \/ h.mstatus.sie # 1
    <2>1. g = h
      BY <1>1 DEF H!interrupt_function, H!SMODE, H!MMODE, H!UMODE
    <2> QED BY <2>1
  <1>2. CASE h.cp = H!SMODE /\ h.mstatus.sie = 1
    <2>1. g = [H!EnterS(h, h.pc, H!Interrupt(c), Vector) EXCEPT !.halt = "run"]
      BY <1>2 DEF H!interrupt_function, H!SMODE, H!MMODE, H!UMODE, H!IntVector, Fixed, Vector
    <2> HIDE DEF g
    <2>m. /\ h.mstatus \in H!Mstatus /\ h.cp \in H!Priv
          /\ h.pc \in H!PCs /\ H!Interrupt(c) \in H!Causes
      BY <1>c DEF Fixed, H!HartType, H!SEI, H!STI, H!Interrupt, H!Causes
    <2> DEFINE ms == [h.mstatus EXCEPT !.mpp = h.cp, !.spp = h.cp,
                                       !.spie = h.mstatus.sie, !.sie = 0]
    <2>s. ms \in H!Mstatus /\ ms.sie = 0 /\ ms.spp = h.cp
      BY <2>m DEF H!Mstatus, H!Bit
    <2>g. g = [h EXCEPT !.mstatus = ms, !.cp = H!SMODE, !.scause = H!Interrupt(c),
                        !.sepc = h.pc, !.pc = Vector, !.halt = "run"]
      BY <2>1 DEF H!EnterS, Fixed, H!HartType
    <2> HIDE DEF ms
    <2>2. Interrupted(h, g)
      BY <2>s, <2>g, <1>c, <1>2 DEF Interrupted, Fixed, H!HartType, H!SEI, H!STI, H!Interrupt
    <2>t. /\ h \in H!HartType /\ Vector \in H!PCs
          /\ H!SMODE \in H!Priv /\ "run" \in H!Halts
      BY DEF Fixed, H!PCs, Vector, H!Priv, H!Halts
    <2>4. g \in H!HartType
      BY <2>m, <2>s, <2>g, <2>t DEF H!HartType
    <2>5. /\ g.mtvec = h.mtvec /\ g.stvec = h.stvec /\ g.mideleg = h.mideleg
          /\ g.sideleg = h.sideleg /\ g.medeleg = h.medeleg /\ g.sedeleg = h.sedeleg
          /\ g.mie = h.mie /\ g.mip = h.mip /\ g.flags = h.flags
          /\ g.satp = h.satp /\ g.halt = "run"
      BY <2>g, <2>t DEF H!HartType
    <2>3. Fixed(g)
      BY <2>4, <2>5 DEF Fixed
    <2> QED BY <2>2, <2>3 DEF g
  <1> QED BY <1>1, <1>2

\* What the tail of the loop may do to a hart of this program
LEMMA LoopTail ==
    ASSUME NEW h, Fixed(h), NEW lpc, NEW at, H!Finish(h, lpc, at),
           h.cp \in {H!SMODE, H!MMODE}, h.cp = H!MMODE => h.mstatus.mie = 0,
           h.pc # lpc, h.mstatus.sie = 1 => lpc # Vector
    PROVE  Fixed(hart') /\ (Resumes(h, hart') \/ Interrupted(h, hart'))
  <1> DEFINE s == H!SampleTimer(h)
  <1>s. Fixed(s) /\ Resumes(h, s)
    BY SampleFixed
  <1> HIDE DEF s
  <1>f. s.flags = {} /\ s.mie = {H!SEI, H!STI} /\ s.halt = "run" /\ s.pc # lpc
    BY <1>s DEF Fixed, Resumes
  <1>1. CASE \E c \in H!Highest(s.mie \cap s.mip, H!IntRank) : \E m \in H!IntModes(s, c) :
                 H!Commit(H!LoopCheck(H!interrupt_function(s, c, m), lpc), at)
    <2> PICK c \in H!Highest(s.mie \cap s.mip, H!IntRank) : \E m \in H!IntModes(s, c) :
                 H!Commit(H!LoopCheck(H!interrupt_function(s, c, m), lpc), at)
      BY <1>1
    <2> PICK m \in H!IntModes(s, c) :
                 H!Commit(H!LoopCheck(H!interrupt_function(s, c, m), lpc), at)
      OBVIOUS
    <2>1. c \in s.mip /\ c \in {H!SEI, H!STI}
      BY <1>f DEF H!Highest
    <2>2. m = s.cp
      BY <1>s, <2>1, OwnMode DEF Resumes
    <2> DEFINE g == H!interrupt_function(s, c, s.cp)
    <2>3. Fixed(g) /\ (g = s \/ Interrupted(s, g))
      BY <1>s, <2>1, InterruptStep DEF Resumes
    <2>4. hart' = H!LoopCheck(g, lpc)
      BY <2>2 DEF H!Commit
    <2> HIDE DEF g
    <2>5. g.pc # lpc
      BY <2>3, <1>f, <1>s DEF Interrupted, Resumes
    <2>6. hart' = g
      BY <2>4, <2>5 DEF H!LoopCheck
    <2> QED BY <2>3, <2>6, <1>s DEF Interrupted, Resumes
  <1>2. CASE H!Commit(H!LoopCheck(s, lpc), at)
    <2>1. hart' = s
      BY <1>2, <1>f DEF H!Commit, H!LoopCheck
    <2> QED BY <2>1, <1>s
  <1> QED
    BY <1>1, <1>2, <1>f DEF H!Finish, s, H!Highest

\* The clock at the top of a turn
LEMMA TickFixed ==
    ASSUME Fixed(hart), NEW h \in H!Tick(hart)
    PROVE  /\ Fixed(h) /\ Resumes(hart, h)
           /\ h.mstatus = hart.mstatus /\ h.mip = hart.mip /\ h.mcause = hart.mcause
  BY DEF Fixed, Resumes, H!Tick, H!HartType, H!Timer

\* A write of the program counter
LEMMA SetPc ==
    ASSUME NEW h, Fixed(h), NEW p \in H!PCs
    PROVE  LET g == [h EXCEPT !.pc = p]
           IN  /\ Fixed(g) /\ g.pc = p /\ g.cp = h.cp /\ g.mstatus = h.mstatus
               /\ g.sepc = h.sepc /\ g.mepc = h.mepc /\ g.scause = h.scause
               /\ g.mip = h.mip
  BY DEF Fixed, H!HartType

\* The three transfers between the kernel, its handler and its firmware
LEMMA MretFixed ==
    ASSUME NEW h, Fixed(h)
    PROVE  LET g == H!MretState(h)
           IN  /\ Fixed(g) /\ g.pc = h.mepc /\ g.cp = h.mstatus.mpp
               /\ g.mstatus.sie = h.mstatus.sie /\ g.mstatus.spp = h.mstatus.spp
               /\ g.sepc = h.sepc /\ g.mepc = h.mepc /\ g.scause = h.scause
               /\ g.mip = h.mip
  <1> DEFINE ms == [h.mstatus EXCEPT !.mie = 1, !.mpp = H!UMODE, !.mpie = 0]
  <1>1. h.mstatus \in H!Mstatus /\ H!UMODE \in H!Priv
    BY DEF Fixed, H!HartType, H!Priv
  <1>2. ms \in H!Mstatus /\ ms.sie = h.mstatus.sie /\ ms.spp = h.mstatus.spp
    BY <1>1 DEF H!Mstatus, H!Bit
  <1>3. h.mstatus.mpp \in H!Priv
    BY <1>1 DEF H!Mstatus
  <1>4. H!MretState(h) = [h EXCEPT !.pc = h.mepc, !.cp = h.mstatus.mpp, !.mstatus = ms]
    BY DEF H!MretState
  <1> HIDE DEF ms
  <1> QED BY <1>2, <1>3, <1>4, ZenonT(60) DEF Fixed, H!HartType

LEMMA SretFixed ==
    ASSUME NEW h, Fixed(h)
    PROVE  LET g == H!SretState(h)
           IN  /\ Fixed(g) /\ g.pc = h.sepc /\ g.cp = h.mstatus.spp
               /\ g.mip = h.mip
  <1> DEFINE ms == [h.mstatus EXCEPT !.spp = H!UMODE, !.sie = h.mstatus.spie, !.spie = 1]
  <1>1. h.mstatus \in H!Mstatus /\ H!UMODE \in H!Priv
    BY DEF Fixed, H!HartType, H!Priv
  <1>2. ms \in H!Mstatus
    BY <1>1 DEF H!Mstatus, H!Bit
  <1>3. h.mstatus.spp \in H!Priv
    BY <1>1 DEF H!Mstatus
  <1>4. H!SretState(h) = [h EXCEPT !.pc = h.sepc, !.cp = h.mstatus.spp, !.mstatus = ms]
    BY DEF H!SretState
  <1> HIDE DEF ms
  <1> QED BY <1>2, <1>3, <1>4, ZenonT(60) DEF Fixed, H!HartType

LEMMA EcallFixed ==
    ASSUME NEW h, Fixed(h), h.cp = H!SMODE, NEW m \in H!ExcModes(h, H!EcallCode(h.cp))
    PROVE  LET g == H!excep_function(h, H!Succ(h.pc), H!EcallCode(h.cp), m)
           IN  /\ Fixed(g) /\ g.pc = SetTimer /\ g.cp = H!MMODE
               /\ g.mstatus.mie = 0 /\ g.mstatus.mpp = H!SMODE
               /\ g.mstatus.sie = h.mstatus.sie /\ g.mstatus.spp = h.mstatus.spp
               /\ g.sepc = h.sepc /\ g.mepc = h.pc /\ g.scause = h.scause
               /\ g.mip = h.mip
  <1> DEFINE ms == [h.mstatus EXCEPT !.mpp = h.cp, !.mpie = h.mstatus.mie, !.mie = 0]
  <1> DEFINE g == H!excep_function(h, H!Succ(h.pc), H!EcallCode(h.cp), m)
  <1>1. h.mstatus \in H!Mstatus /\ H!MMODE \in H!Priv /\ h.cp \in H!Priv
    BY DEF Fixed, H!HartType, H!Priv
  <1>2. /\ ms \in H!Mstatus /\ ms.sie = h.mstatus.sie /\ ms.spp = h.mstatus.spp
        /\ ms.mie = 0 /\ ms.mpp = h.cp
    BY <1>1 DEF H!Mstatus, H!Bit
  <1>3. m = H!MMODE
    BY DEF Fixed, H!ExcModes, H!trap_mode_select, H!SMODE, H!MMODE, H!UMODE, H!HMODE
  <1>4. h.pc \in H!PCs /\ H!Prev(H!Succ(h.pc)) = h.pc /\ SetTimer \in H!PCs
    BY DEF Fixed, H!HartType, H!PCs, H!Prev, H!Succ, SetTimer
  <1>5. H!ExcCode(h, H!EcallCode(h.cp)) = 9 /\ 9 \in H!Causes
    BY DEF H!ExcCode, H!EcallCode, H!SMODE, H!UMODE, H!HMODE, H!MMODE, H!Causes
  <1>6. g = H!EnterM(h, h.pc, 9, SetTimer)
    <2>1. g = H!EnterM(h, H!Prev(H!Succ(h.pc)), H!ExcCode(h, H!EcallCode(h.cp)), h.mtvec.base)
      BY <1>3 DEF H!excep_function, H!SMODE, H!UMODE, H!HMODE, H!MMODE
    <2>2. h.mtvec.base = SetTimer
      BY DEF Fixed
    <2> QED BY <2>1, <2>2, <1>4, <1>5
  <1>7. g = [h EXCEPT !.mstatus = ms, !.cp = H!MMODE, !.mcause = 9, !.mepc = h.pc, !.pc = SetTimer]
    BY <1>6 DEF H!EnterM
  <1> HIDE DEF ms, g
  <1>t. h \in H!HartType
    BY DEF Fixed
  <1>8. g \in H!HartType
    BY <1>1, <1>2, <1>4, <1>5, <1>7, <1>t DEF H!HartType
  <1>9. /\ g.mtvec = h.mtvec /\ g.stvec = h.stvec /\ g.mideleg = h.mideleg
        /\ g.sideleg = h.sideleg /\ g.medeleg = h.medeleg /\ g.sedeleg = h.sedeleg
        /\ g.mie = h.mie /\ g.mip = h.mip /\ g.flags = h.flags
        /\ g.satp = h.satp /\ g.halt = h.halt
        /\ g.mstatus = ms /\ g.cp = H!MMODE /\ g.mepc = h.pc /\ g.pc = SetTimer
        /\ g.sepc = h.sepc /\ g.scause = h.scause
    BY <1>7, <1>t DEF H!HartType
  <1>10. Fixed(g)
    BY <1>8, <1>9 DEF Fixed
  <1> QED BY <1>2, <1>9, <1>10 DEF g

-----------------------------------------------------------------------------
(* The invariant *)

\* What sret needs to come back to the kernel's loop
Saved(h) == /\ h.sepc \in {Work, WorkBack}
            /\ h.mstatus.sie = 0 /\ h.mstatus.spp = H!SMODE
            /\ h.scause \in {H!Interrupt(H!SEI), H!Interrupt(H!STI)}

\* Words 1-3: entering the kernel for the first time, or serving the ecall of
\* the timer's handler, which mret goes back to
InFirmware ==
    /\ hart.pc \in {SetTimer, SkipEcall, Leave}
    /\ hart.cp = H!MMODE /\ hart.mstatus.mie = 0 /\ hart.mstatus.mpp = H!SMODE
    /\ drv.irq = "off" /\ drv.proc # "added" /\ ~QueueBusy
    /\ \/ hart.pc = Leave /\ hart.scause = 0 /\ hart.mepc = Work
       \/ Saved(hart) /\ TimerTrap /\ hart.mepc = IF hart.pc = Leave THEN Serve ELSE Vector

\* Words 4-5
InKernel ==
    /\ hart.pc \in {Work, WorkBack} /\ hart.cp = H!SMODE
    /\ drv.irq = "off"
    /\ drv.proc = "added" => hart.mstatus.sie = 0
    /\ QueueBusy => hart.pc = Work

\* Words 6-8
InHandler ==
    /\ hart.pc \in {Vector, Serve, ServeBack} /\ hart.cp = H!SMODE
    /\ Saved(hart) /\ drv.proc # "added"
    /\ hart.pc = Vector => drv.irq = "off"
    /\ hart.pc = ServeBack => ExternalTrap
    /\ TimerTrap => drv.irq = "off"
    /\ QueueBusy => hart.pc = Serve /\ ExternalTrap

\* Between the turns SEIP is what the PLIC left in it.
SeipFollows == ~QueueBusy => (H!SEI \in hart.mip <=> plic.seip = 1)

\* The handler entered for an external interrupt finds one to claim.
EntryHasCause == hart.pc = Vector /\ ExternalTrap => plic.seip = 1

Phases == InFirmware \/ InKernel \/ InHandler

SysInv == VBTypeOK /\ Fixed(hart) /\ Phases /\ SeipFollows /\ EntryHasCause

\* A turn in supervisor mode that would go on at p with SIE = sie
Turned(p, sie, seip) ==
    /\ Fixed(hart') /\ hart'.cp = H!SMODE
    /\ H!SEI \in hart'.mip <=> seip
    /\ \/ /\ hart'.pc = p /\ hart'.mstatus.sie = sie
          /\ hart'.mstatus.spp = hart.mstatus.spp
          /\ hart'.sepc = hart.sepc /\ hart'.scause = hart.scause
       \/ /\ sie = 1 /\ hart'.pc = Vector /\ hart'.sepc = p
          /\ hart'.mstatus.sie = 0 /\ hart'.mstatus.spp = H!SMODE
          /\ hart'.scause \in {H!Interrupt(H!SEI), H!Interrupt(H!STI)}
          /\ hart'.scause = H!Interrupt(H!SEI) => seip

LEMMA ModesDiffer == H!SMODE # H!MMODE
  BY DEF H!SMODE, H!MMODE

LEMMA SuccStep ==
    /\ \A p \in 1 .. 7 : H!Succ(p) = p + 1 /\ p + 1 \in H!PCs /\ p \in H!PCs
    /\ SetTimer \in 1 .. 7 /\ SkipEcall \in 1 .. 7 /\ Work \in 1 .. 7 /\ Vector \in 1 .. 7
    /\ Serve \in 1 .. 7 /\ WorkBack \in 1 .. 7
  BY DEF H!Succ, H!PCs, SetTimer, SkipEcall, Work, Vector, Serve, WorkBack

LEMMA MemTurned ==
    ASSUME Fixed(hart), hart.cp = H!SMODE, MemTurn, hart.pc \in 1 .. 7,
           hart.mstatus.sie = 1 => hart.pc # Vector
    PROVE  Turned(hart.pc + 1, hart.mstatus.sie, H!SEI \in hart.mip)
  <1>1. PICK h \in H!Tick(hart) : H!Finish([h EXCEPT !.pc = H!Succ(@)], h.pc, raisedAt)
    BY DEF MemTurn, Turn
  <1>2. Fixed(h) /\ Resumes(hart, h) /\ h.mip = hart.mip
    BY TickFixed
  <1>3. h.pc = hart.pc /\ H!Succ(h.pc) = hart.pc + 1 /\ hart.pc + 1 \in H!PCs
    BY <1>2, SuccStep DEF Resumes
  <1> DEFINE g == [h EXCEPT !.pc = hart.pc + 1]
  <1>4. H!Finish(g, hart.pc, raisedAt)
    BY <1>1, <1>3
  <1>5. /\ Fixed(g) /\ g.pc = hart.pc + 1 /\ g.cp = h.cp /\ g.mstatus = h.mstatus
        /\ g.sepc = h.sepc /\ g.mepc = h.mepc /\ g.scause = h.scause /\ g.mip = h.mip
    BY <1>2, <1>3, SetPc
  <1> HIDE DEF g
  <1>6. Fixed(hart') /\ (Resumes(g, hart') \/ Interrupted(g, hart'))
    BY <1>2, <1>4, <1>5, LoopTail, ModesDiffer DEF Resumes
  <1> QED BY <1>2, <1>5, <1>6 DEF Resumes, Interrupted, Turned

LEMMA JumpTurned ==
    ASSUME Fixed(hart), hart.cp = H!SMODE, NEW p \in H!PCs, JumpTo(p),
           hart.pc # Vector, hart.pc # p
    PROVE  Turned(p, hart.mstatus.sie, H!SEI \in hart.mip)
  <1>1. PICK h \in H!Tick(hart) : H!Finish([h EXCEPT !.pc = p], h.pc, raisedAt)
    BY DEF JumpTo, Turn
  <1>2. Fixed(h) /\ Resumes(hart, h) /\ h.mip = hart.mip
    BY TickFixed
  <1> DEFINE g == [h EXCEPT !.pc = p]
  <1>4. H!Finish(g, hart.pc, raisedAt)
    BY <1>1, <1>2 DEF Resumes
  <1>5. /\ Fixed(g) /\ g.pc = p /\ g.cp = h.cp /\ g.mstatus = h.mstatus
        /\ g.sepc = h.sepc /\ g.mepc = h.mepc /\ g.scause = h.scause /\ g.mip = h.mip
    BY <1>2, SetPc
  <1> HIDE DEF g
  <1>6. Fixed(hart') /\ (Resumes(g, hart') \/ Interrupted(g, hart'))
    BY <1>2, <1>4, <1>5, LoopTail, ModesDiffer DEF Resumes
  <1> QED BY <1>2, <1>5, <1>6 DEF Resumes, Interrupted, Turned

LEMMA SieTurned ==
    ASSUME Fixed(hart), hart.cp = H!SMODE, hart.pc = Work, NEW b \in H!Bit, SetSie(b)
    PROVE  Turned(WorkBack, b, H!SEI \in hart.mip)
  <1>1. PICK h \in H!Tick(hart) :
          H!Finish([h EXCEPT !.mstatus = [@ EXCEPT !.sie = b], !.pc = H!Succ(@)], h.pc, raisedAt)
    BY DEF SetSie, Turn
  <1>2. Fixed(h) /\ Resumes(hart, h) /\ h.mip = hart.mip
    BY TickFixed
  <1>3. h.pc = Work /\ H!Succ(h.pc) = WorkBack /\ WorkBack \in H!PCs
    BY <1>2, SuccStep DEF Resumes, Work, WorkBack
  <1> DEFINE ms == [h.mstatus EXCEPT !.sie = b]
             g == [h EXCEPT !.mstatus = ms, !.pc = WorkBack]
  <1>4. H!Finish(g, Work, raisedAt)
    BY <1>1, <1>3
  <1>m. h.mstatus \in H!Mstatus
    BY <1>2 DEF Fixed, H!HartType
  <1>n. ms \in H!Mstatus /\ ms.sie = b /\ ms.spp = h.mstatus.spp
    BY <1>m DEF H!Mstatus
  <1> HIDE DEF ms
  <1>5. /\ Fixed(g) /\ g.pc = WorkBack /\ g.cp = h.cp /\ g.mstatus = ms
        /\ g.sepc = h.sepc /\ g.mepc = h.mepc /\ g.scause = h.scause /\ g.mip = h.mip
    BY <1>2, <1>3, <1>n DEF Fixed, H!HartType
  <1> HIDE DEF g
  <1>p. Work # WorkBack /\ Work # Vector
    BY DEF Work, WorkBack, Vector
  <1>6. Fixed(hart') /\ (Resumes(g, hart') \/ Interrupted(g, hart'))
    BY <1>2, <1>4, <1>5, <1>p, LoopTail, ModesDiffer DEF Resumes
  <1> QED BY <1>2, <1>n, <1>5, <1>6 DEF Resumes, Interrupted, Turned

LEMMA RegisterTurned ==
    ASSUME Fixed(hart), hart.cp = H!SMODE, RegisterTurn, hart.pc \in 1 .. 7,
           hart.pc # Vector
    PROVE  Turned(hart.pc + 1, hart.mstatus.sie, plic'.seip = 1)
  <1> DEFINE mp == IF plic'.seip = 1 THEN hart.mip \cup {H!SEI} ELSE hart.mip \ {H!SEI}
  <1>1. PICK h \in H!Tick(hart) :
          H!Finish([h EXCEPT !.pc = H!Succ(@),
                             !.mip = IF plic'.seip = 1 THEN @ \cup {H!SEI} ELSE @ \ {H!SEI}],
                   h.pc, raisedAt)
    BY DEF RegisterTurn, Turn
  <1>2. Fixed(h) /\ Resumes(hart, h) /\ h.mip = hart.mip
    BY TickFixed
  <1>3. h.pc = hart.pc /\ H!Succ(h.pc) = hart.pc + 1 /\ hart.pc + 1 \in H!PCs
    BY <1>2, SuccStep DEF Resumes
  <1> DEFINE g == [h EXCEPT !.pc = hart.pc + 1, !.mip = mp]
  <1>4. H!Finish(g, hart.pc, raisedAt)
    BY <1>1, <1>2, <1>3
  <1>m. mp \in SUBSET {H!SEI, H!STI} /\ (H!SEI \in mp <=> plic'.seip = 1)
    BY DEF Fixed
  <1> HIDE DEF mp
  <1>5. /\ Fixed(g) /\ g.pc = hart.pc + 1 /\ g.cp = h.cp /\ g.mstatus = h.mstatus
        /\ g.sepc = h.sepc /\ g.mepc = h.mepc /\ g.scause = h.scause /\ g.mip = mp
    BY <1>2, <1>3, <1>m DEF Fixed, H!HartType, H!SEI, H!STI, H!IntCodes
  <1> HIDE DEF g
  <1>6. Fixed(hart') /\ (Resumes(g, hart') \/ Interrupted(g, hart'))
    BY <1>2, <1>4, <1>5, LoopTail, ModesDiffer DEF Resumes
  <1> QED BY <1>2, <1>5, <1>6, <1>m DEF Resumes, Interrupted, Turned

-----------------------------------------------------------------------------
(* The composition runs the device's driver *)

LEMMA DriverStep == [SysNext]_svars => [VBNext]_vbvars
  <1>1. UNCHANGED svars => UNCHANGED vbvars
    BY DEF svars, vbvars
  <1>2. FirmwareTurn => UNCHANGED vbvars
    BY DEF FirmwareTurn, FirmwareTimer, FirmwareSkip, FirmwareReturn
  <1>3. KernelTurn => VBNext \/ UNCHANGED vbvars
    BY DEF KernelTurn, Idle, IrqSave, IrqRestore, KernelMem, KernelReset, KernelNotify,
           KernelLoop, SetSie, JumpTo, VBNext, Process
  <1>4. NotifyTurn => VBNext
    BY DEF NotifyTurn, DeviceServes, NotifyEnds, VBNext, Device
  <1>5. HandlerTurn => VBNext \/ UNCHANGED vbvars
    BY DEF HandlerTurn, ExternalEntry, TimerEntry, HandlerRegister, HandlerMem, HandlerNotify,
           HandlerLoop, HandlerReturn, JumpTo, VBNext, Handler
  <1> QED BY <1>1, <1>2, <1>3, <1>4, <1>5 DEF SysNext

\* Whatever the turns of the main loop do to the order of the driver's two
\* contexts, they take the steps of the driver VirtioBlock assumes.
THEOREM RunsDriver == SysSpec => VBSpec
  <1>1. SysInit => VBInit
    BY DEF SysInit
  <1> QED BY <1>1, DriverStep, PTL DEF SysSpec, VBSpec

-----------------------------------------------------------------------------
(* The invariant is inductive *)

LEMMA Words ==
    /\ SetTimer = 1 /\ SkipEcall = 2 /\ Leave = 3 /\ Work = 4 /\ WorkBack = 5
    /\ Vector = 6 /\ Serve = 7 /\ ServeBack = 8
  BY DEF SetTimer, SkipEcall, Leave, Work, WorkBack, Vector, Serve, ServeBack

LEMMA CausesDiffer ==
    /\ H!Interrupt(H!SEI) # H!Interrupt(H!STI) /\ H!Interrupt(H!STI) # 0
    /\ H!Interrupt(H!SEI) # 0
  BY DEF H!Interrupt, H!SEI, H!STI

LEMMA SysInitInv == SysInit => SysInv
  <1> SUFFICES ASSUME SysInit PROVE SysInv
    OBVIOUS
  <1>1. VBTypeOK
    BY InitType DEF SysInit
  <1>2. ~QueueBusy /\ drv.irq = "off" /\ drv.proc = "idle" /\ plic.seip = 0
    BY DEF SysInit, VBInit, QueueBusy, ResetDev, PlicReset
  <1>3. H!Reset \in H!HartType
    BY DEF H!Reset, H!HartType, H!Mstatus, H!Priv, H!PCs, H!BootPC, H!Bit, H!UMODE, H!MMODE,
           H!Tvec, H!Causes, H!TVals, H!Translation, H!Timer, H!Halts
  <1>a. H!Reset.mstatus \in H!Mstatus
    BY <1>3 DEF H!HartType
  <1> DEFINE ms == [H!Reset.mstatus EXCEPT !.mie = 0, !.mpp = H!SMODE]
  <1>b. ms \in H!Mstatus /\ ms.mie = 0 /\ ms.mpp = H!SMODE
    BY <1>a DEF H!Mstatus, H!Bit, H!Priv, H!SMODE
  <1> DEFINE tv(b) == [mode |-> 0, base |-> b]
  <1>c. /\ tv(SetTimer) \in H!Tvec /\ tv(Vector) \in H!Tvec
        /\ {H!SEI, H!STI} \in SUBSET H!Codes /\ {H!SEI, H!STI} \in SUBSET H!IntCodes
        /\ Leave \in H!PCs /\ Work \in H!PCs /\ "armed" \in H!Timer
    BY Words DEF H!Tvec, H!PCs, H!Codes, H!IntCodes, H!SEI, H!STI, H!Timer
  <1>e. hart = [H!Reset EXCEPT !.pc = Leave, !.mepc = Work, !.mtvec = tv(SetTimer),
                  !.stvec = tv(Vector), !.mideleg = {H!SEI, H!STI}, !.mie = {H!SEI, H!STI},
                  !.mstatus = ms, !.timer = "armed"]
    BY DEF SysInit
  <1> HIDE DEF ms, tv
  <1>g. hart \in H!HartType
    BY <1>3, <1>b, <1>c, <1>e DEF H!HartType
  <1>h. /\ hart.pc = Leave /\ hart.mepc = Work /\ hart.mtvec = tv(SetTimer)
        /\ hart.stvec = tv(Vector) /\ hart.mideleg = {H!SEI, H!STI}
        /\ hart.mie = {H!SEI, H!STI} /\ hart.mstatus = ms
        /\ hart.sideleg = {} /\ hart.medeleg = {} /\ hart.sedeleg = {}
        /\ hart.mip = {} /\ hart.flags = {} /\ hart.satp = "bare" /\ hart.halt = "run"
        /\ hart.cp = H!MMODE /\ hart.scause = 0
    BY <1>e DEF H!Reset
  <1>4. Fixed(hart) /\ InFirmware
    <2>1. Fixed(hart)
      BY <1>g, <1>h DEF Fixed, tv
    <2>2. InFirmware
      BY <1>2, <1>b, <1>h DEF InFirmware
    <2> QED BY <2>1, <2>2
  <1>5. H!SEI \notin hart.mip /\ hart.pc # Vector
    BY <1>h, Words
  <1> QED BY <1>1, <1>2, <1>4, <1>5 DEF SysInv, Phases, SeipFollows, EntryHasCause

LEMMA SysInvStep == SysInv /\ [SysNext]_svars => SysInv'
  <1> SUFFICES ASSUME SysInv, [SysNext]_svars PROVE SysInv'
    OBVIOUS
  <1>t. VBTypeOK /\ VBTypeOK'
    BY DriverStep, TypeStep DEF SysInv
  <1>d. dev \in DevType /\ drv \in DrvType /\ plic \in PlicType
    BY <1>t DEF VBTypeOK
  <1>f. Fixed(hart) /\ Phases /\ SeipFollows /\ EntryHasCause
    BY DEF SysInv
  <1>w. hart.pc \in {Work, WorkBack} => InKernel
    BY <1>f, Words DEF Phases, InFirmware, InHandler
  <1>v. hart.pc \in {Vector, Serve, ServeBack} => InHandler
    BY <1>f, Words DEF Phases, InFirmware, InKernel
  <1>m. hart.pc \in {SetTimer, SkipEcall, Leave} => InFirmware
    BY <1>f, Words DEF Phases, InKernel, InHandler
  \* What a turn of the kernel's loop or of its handler may lead to
  <1>k. ASSUME NEW p \in {Work, WorkBack}, NEW sie, Turned(p, sie, plic'.seip = 1),
               ~QueueBusy', drv'.irq = "off", drv'.proc = "added" => sie = 0
        PROVE  SysInv'
    <2>1. Fixed(hart') /\ (H!SEI \in hart'.mip <=> plic'.seip = 1) /\ hart'.cp = H!SMODE
      BY <1>k DEF Turned
    <2>2. CASE hart'.pc = p /\ hart'.mstatus.sie = sie
      <3>1. InKernel'
        BY <1>k, <2>1, <2>2 DEF InKernel
      <3>2. hart'.pc # Vector
        BY <2>2, Words
      <3> QED BY <1>t, <2>1, <3>1, <3>2 DEF SysInv, Phases, SeipFollows, EntryHasCause
    <2>3. CASE /\ sie = 1 /\ hart'.pc = Vector /\ hart'.sepc = p
               /\ hart'.mstatus.sie = 0 /\ hart'.mstatus.spp = H!SMODE
               /\ hart'.scause \in {H!Interrupt(H!SEI), H!Interrupt(H!STI)}
               /\ (hart'.scause = H!Interrupt(H!SEI) => plic'.seip = 1)
      <3>1. InHandler'
        BY <1>k, <2>1, <2>3, Words DEF InHandler, Saved
      <3> QED BY <1>t, <2>1, <2>3, <3>1 DEF SysInv, Phases, SeipFollows, EntryHasCause, ExternalTrap
    <2> QED BY <1>k, <2>2, <2>3 DEF Turned
  <1>h. ASSUME NEW p \in {Serve, ServeBack}, InHandler, Turned(p, 0, plic'.seip = 1),
               ~QueueBusy', drv'.proc # "added", p = ServeBack => ExternalTrap,
               TimerTrap => drv'.irq = "off"
        PROVE  SysInv'
    <2>1. Fixed(hart') /\ (H!SEI \in hart'.mip <=> plic'.seip = 1) /\ hart'.cp = H!SMODE
      BY <1>h DEF Turned
    <2>2. /\ hart'.pc = p /\ hart'.mstatus.sie = 0 /\ hart'.mstatus.spp = hart.mstatus.spp
          /\ hart'.sepc = hart.sepc /\ hart'.scause = hart.scause
      BY <1>h DEF Turned
    <2>3. Saved(hart')
      BY <1>h, <2>2 DEF Saved, InHandler
    <2>4. hart'.pc # Vector
      BY <2>2, Words
    <2>5. InHandler'
      BY <1>h, <2>1, <2>2, <2>3, <2>4 DEF InHandler, ExternalTrap, TimerTrap
    <2> QED BY <1>t, <2>1, <2>4, <2>5 DEF SysInv, Phases, SeipFollows, EntryHasCause
  <1>u. UNCHANGED vbvars => UNCHANGED <<QueueBusy, plic, drv>>
    BY DEF vbvars, QueueBusy
  <1>q. ~QueueBusy => (H!SEI \in hart.mip <=> plic.seip = 1)
    BY <1>f DEF SeipFollows
  \* In machine mode MIE is off: the tail takes nothing.
  <1>z. ASSUME NEW g, Fixed(g), H!Finish(g, hart.pc, raisedAt), g.cp = H!MMODE,
               g.mstatus.mie = 0, g.pc # hart.pc, g.mstatus.sie = 1 => hart.pc # Vector
        PROVE  Fixed(hart') /\ Resumes(g, hart')
    BY <1>z, LoopTail, ModesDiffer DEF Interrupted
  <1>1. CASE FirmwareTimer
    <2>1. hart.pc = SetTimer /\ ~QueueBusy /\ UNCHANGED vbvars
      BY <1>1 DEF FirmwareTimer, At
    <2>2. PICK h \in H!Tick(hart), t \in H!Timer :
            H!Finish([h EXCEPT !.timer = t, !.pc = H!Succ(@)], h.pc, raisedAt)
      BY <1>1 DEF FirmwareTimer, H!ClintWrite
    <2>3. Fixed(h) /\ Resumes(hart, h) /\ h.mip = hart.mip
      BY <1>f, TickFixed
    <2>4. h.pc = SetTimer /\ H!Succ(h.pc) = SkipEcall /\ SkipEcall \in H!PCs
      BY <2>1, <2>3, SuccStep, Words DEF Resumes
    <2> DEFINE g == [h EXCEPT !.timer = t, !.pc = SkipEcall]
    <2>5. H!Finish(g, hart.pc, raisedAt)
      BY <2>1, <2>2, <2>4
    <2>6. /\ Fixed(g) /\ g.pc = SkipEcall /\ g.cp = h.cp /\ g.mstatus = h.mstatus
          /\ g.sepc = h.sepc /\ g.mepc = h.mepc /\ g.scause = h.scause /\ g.mip = h.mip
      BY <2>3, <2>4 DEF Fixed, H!HartType
    <2> HIDE DEF g
    <2>7. Fixed(hart') /\ Resumes(g, hart')
      BY <1>m, <1>z, <2>1, <2>3, <2>5, <2>6, Words DEF InFirmware, Resumes
    <2>8. /\ hart'.pc = SkipEcall /\ hart'.cp = hart.cp /\ hart'.mstatus = hart.mstatus
          /\ hart'.sepc = hart.sepc /\ hart'.mepc = hart.mepc /\ hart'.scause = hart.scause
          /\ H!SEI \in hart'.mip <=> H!SEI \in hart.mip
      BY <2>3, <2>6, <2>7 DEF Resumes
    <2>9. InFirmware'
      BY <1>m, <1>u, <2>1, <2>8, Words DEF InFirmware, Saved, TimerTrap
    <2> QED BY <1>t, <1>f, <1>u, <2>1, <2>7, <2>8, <2>9, Words
            DEF SysInv, Phases, SeipFollows, EntryHasCause
  <1>2. CASE FirmwareSkip
    <2>1. hart.pc = SkipEcall /\ ~QueueBusy /\ UNCHANGED vbvars
      BY <1>2 DEF FirmwareSkip, At
    <2>2. PICK h \in H!Tick(hart) :
            H!Finish([H!csr_write(h, "mepc", H!Succ(h.mepc)) EXCEPT !.pc = H!Succ(@)],
                     h.pc, raisedAt)
      BY <1>2 DEF FirmwareSkip, Turn
    <2>3. Fixed(h) /\ Resumes(hart, h) /\ h.mip = hart.mip
      BY <1>f, TickFixed
    <2>4. /\ h.pc = SkipEcall /\ H!Succ(h.pc) = Leave /\ Leave \in H!PCs
          /\ h.mepc = Vector /\ H!Succ(h.mepc) = Serve /\ Serve \in H!PCs
      BY <1>m, <2>1, <2>3, SuccStep, Words DEF Resumes, InFirmware
    <2>a. H!csr_write(h, "mepc", Serve) = [h EXCEPT !.mepc = Serve]
      BY DEF H!csr_write
    <2>b. [h EXCEPT !.mepc = Serve].pc = h.pc
      BY <2>3 DEF Fixed, H!HartType
    <2> DEFINE g == [[h EXCEPT !.mepc = Serve] EXCEPT !.pc = Leave]
    <2>5. H!Finish(g, hart.pc, raisedAt)
      BY <2>1, <2>2, <2>4, <2>a, <2>b
    <2>6. /\ Fixed(g) /\ g.pc = Leave /\ g.cp = h.cp /\ g.mstatus = h.mstatus
          /\ g.sepc = h.sepc /\ g.mepc = Serve /\ g.scause = h.scause /\ g.mip = h.mip
      BY <2>3, <2>4 DEF Fixed, H!HartType
    <2> HIDE DEF g
    <2>7. Fixed(hart') /\ Resumes(g, hart')
      BY <1>m, <1>z, <2>1, <2>3, <2>5, <2>6, Words DEF InFirmware, Resumes
    <2>8. /\ hart'.pc = Leave /\ hart'.cp = hart.cp /\ hart'.mstatus = hart.mstatus
          /\ hart'.sepc = hart.sepc /\ hart'.mepc = Serve /\ hart'.scause = hart.scause
          /\ H!SEI \in hart'.mip <=> H!SEI \in hart.mip
      BY <2>3, <2>6, <2>7 DEF Resumes
    <2>9. InFirmware'
      BY <1>m, <1>u, <2>1, <2>8, Words DEF InFirmware, Saved, TimerTrap
    <2> QED BY <1>t, <1>f, <1>u, <2>1, <2>7, <2>8, <2>9, Words
            DEF SysInv, Phases, SeipFollows, EntryHasCause
  <1>3. CASE FirmwareReturn
    <2>1. hart.pc = Leave /\ ~QueueBusy /\ UNCHANGED vbvars /\ InFirmware
      BY <1>3, <1>m DEF FirmwareReturn, At
    <2>2. PICK h \in H!Tick(hart) : H!Finish(H!MretState(h), h.pc, raisedAt)
      BY <1>3 DEF FirmwareReturn, H!Mret
    <2>3. Fixed(h) /\ Resumes(hart, h) /\ h.mip = hart.mip
      BY <1>f, TickFixed
    <2> DEFINE g == H!MretState(h)
    <2>5. H!Finish(g, hart.pc, raisedAt)
      BY <2>2, <2>3 DEF Resumes
    <2>6. /\ Fixed(g) /\ g.pc = h.mepc /\ g.cp = h.mstatus.mpp
          /\ g.mstatus.sie = h.mstatus.sie /\ g.mstatus.spp = h.mstatus.spp
          /\ g.sepc = h.sepc /\ g.mepc = h.mepc /\ g.scause = h.scause
          /\ g.mip = h.mip
      BY <2>3, MretFixed
    <2> HIDE DEF g
    <2>7. /\ g.pc = hart.mepc /\ g.cp = H!SMODE /\ hart.mepc \in {Work, Serve}
          /\ g.mstatus.sie = hart.mstatus.sie /\ g.mstatus.spp = hart.mstatus.spp
          /\ g.sepc = hart.sepc /\ g.scause = hart.scause
          /\ H!SEI \in g.mip <=> plic'.seip = 1
      BY <1>q, <1>u, <2>1, <2>3, <2>6 DEF Resumes, InFirmware
    <2>8. Fixed(hart') /\ (Resumes(g, hart') \/ Interrupted(g, hart'))
      BY <2>1, <2>5, <2>6, <2>7, LoopTail, ModesDiffer, Words
    <2>9. Turned(hart.mepc, hart.mstatus.sie, plic'.seip = 1)
      BY <2>7, <2>8 DEF Turned, Resumes, Interrupted
    <2>10. ~QueueBusy' /\ drv' = drv /\ drv.irq = "off" /\ drv.proc # "added"
      BY <1>u, <2>1 DEF InFirmware
    <2>11. CASE hart.mepc = Work
      BY <1>k, <2>9, <2>10, <2>11
    <2>12. CASE hart.mepc = Serve
      <3>1. Saved(hart) /\ TimerTrap
        BY <2>1, <2>12, Words DEF InFirmware
      <3>2. /\ hart'.pc = Serve /\ hart'.cp = H!SMODE /\ hart'.mstatus.sie = 0
            /\ hart'.mstatus.spp = hart.mstatus.spp /\ hart'.sepc = hart.sepc
            /\ hart'.scause = hart.scause /\ (H!SEI \in hart'.mip <=> plic'.seip = 1)
        BY <2>9, <2>12, <3>1 DEF Turned, Saved
      <3>3. InHandler'
        BY <2>10, <3>1, <3>2, Words DEF InHandler, Saved, TimerTrap, ExternalTrap
      <3> QED BY <1>t, <2>8, <3>2, <3>3, Words DEF SysInv, Phases, SeipFollows, EntryHasCause
    <2> QED BY <2>7, <2>11, <2>12
  <1>4. CASE Idle
    <2>1. MemTurn /\ hart.pc = Work /\ ~QueueBusy /\ drv.proc = "idle"
      BY <1>4 DEF Idle, At
    <2>2. Turned(WorkBack, hart.mstatus.sie, H!SEI \in hart.mip)
      BY <1>f, <1>w, <2>1, MemTurned, Words DEF InKernel
    <2>3. ~QueueBusy' /\ plic' = plic /\ drv' = drv
      BY <1>4, <1>u, <2>1 DEF Idle
    <2>4. Turned(WorkBack, hart.mstatus.sie, plic'.seip = 1)
      BY <1>q, <2>1, <2>2, <2>3 DEF Turned
    <2> QED BY <1>k, <1>w, <2>1, <2>3, <2>4 DEF InKernel
  <1>5. CASE IrqSave
    <2>1. SetSie(0) /\ hart.pc = Work /\ ~QueueBusy /\ drv.proc = "idle"
      BY <1>5 DEF IrqSave, At
    <2>2. Turned(WorkBack, 0, H!SEI \in hart.mip)
      BY <1>f, <1>w, <2>1, SieTurned DEF InKernel, H!Bit
    <2>3. ~QueueBusy' /\ plic' = plic /\ drv' = drv
      BY <1>u, <2>1 DEF SetSie
    <2>4. Turned(WorkBack, 0, plic'.seip = 1)
      BY <1>q, <2>1, <2>2, <2>3 DEF Turned
    <2> QED BY <1>k, <1>w, <2>1, <2>3, <2>4 DEF InKernel
  <1>6. CASE IrqRestore
    <2>1. SetSie(1) /\ hart.pc = Work /\ ~QueueBusy /\ drv.proc = "published"
      BY <1>6 DEF IrqRestore, At
    <2>2. Turned(WorkBack, 1, H!SEI \in hart.mip)
      BY <1>f, <1>w, <2>1, SieTurned DEF InKernel, H!Bit
    <2>3. ~QueueBusy' /\ plic' = plic /\ drv' = drv
      BY <1>u, <2>1 DEF SetSie
    <2>4. Turned(WorkBack, 1, plic'.seip = 1)
      BY <1>q, <2>1, <2>2, <2>3 DEF Turned
    <2> QED BY <1>k, <1>w, <2>1, <2>3, <2>4 DEF InKernel
  <1>s. Fixed(hart) => hart.mstatus.sie \in {0, 1}
    BY DEF Fixed, H!HartType, H!Mstatus, H!Bit
  <1>7. CASE KernelMem
    <2>1. MemTurn /\ hart.pc = Work /\ ~QueueBusy /\ hart.mstatus.sie = 0 /\ (Add \/ Publish)
      BY <1>7, <1>f, <1>s DEF KernelMem, At, Enabled
    <2>2. Turned(WorkBack, 0, H!SEI \in hart.mip)
      BY <1>f, <1>w, <2>1, MemTurned, Words DEF InKernel
    <2>3. ~QueueBusy' /\ plic' = plic /\ drv'.irq = "off"
      BY <1>d, <2>1 DEF Add, Publish, DrvType, QueueBusy
    <2>4. Turned(WorkBack, 0, plic'.seip = 1)
      BY <1>q, <2>1, <2>2, <2>3 DEF Turned
    <2> QED BY <1>k, <1>w, <2>1, <2>3, <2>4
  <1>8. CASE KernelReset
    <2>1. RegisterTurn /\ hart.pc = Work /\ ~QueueBusy /\ ResetDevice
      BY <1>8 DEF KernelReset, At
    <2>2. Turned(WorkBack, hart.mstatus.sie, plic'.seip = 1)
      BY <1>f, <1>w, <2>1, RegisterTurned, Words DEF InKernel
    <2>3. ~QueueBusy' /\ drv'.irq = "off" /\ drv'.proc = "idle"
      BY <1>d, <2>1 DEF ResetDevice, ResetDev, DrvType, QueueBusy
    <2> QED BY <1>k, <2>2, <2>3
  <1>9. CASE KernelNotify
    <2>1. /\ hart.pc = Work /\ hart' = hart /\ plic' = plic
          /\ drv'.irq = "off" /\ drv'.proc = "idle"
      BY <1>9, <1>d DEF KernelNotify, At, Notify, hvars, DrvType
    <2>2. QueueBusy'
      <3>1. dev'.loop = mem.avail_idx /\ mem.avail_idx \in Indices
        BY <1>9, <1>d, <1>t DEF KernelNotify, Notify, EnterNotify, DevType, VBTypeOK, MemType
      <3> QED BY <3>1, IndexArith DEF QueueBusy, NoLoop, Indices
    <2>3. InKernel'
      BY <1>w, <2>1 DEF InKernel
    <2> QED BY <1>t, <1>f, <2>1, <2>2, <2>3, Words DEF SysInv, Phases, SeipFollows, EntryHasCause
  <1>10. CASE DeviceServes
    <2>1. QueueBusy /\ hart' = hart /\ drv' = drv
      BY <1>10 DEF DeviceServes, ServeNext, hvars
    <2>2. dev'.loop = dev.loop
      BY <1>10, <1>d DEF DeviceServes, ServeNext, ServeIn, ServeOut, DropRequest, DevType
    <2>3. QueueBusy'
      BY <2>1, <2>2 DEF QueueBusy
    <2>4. Phases' /\ hart.pc # Vector
      BY <1>f, <2>1, Words DEF Phases, InFirmware, InKernel, InHandler, ExternalTrap, TimerTrap
    <2> QED BY <1>t, <1>f, <2>1, <2>3, <2>4 DEF SysInv, SeipFollows, EntryHasCause
  <1>11. CASE NotifyEnds
    <2>1. QueueBusy /\ ~QueueBusy' /\ drv' = drv /\ RegisterTurn
      BY <1>11, <1>d DEF NotifyEnds, NotifyDone, QueueBusy, DevType
    <2>2. /\ hart.pc \in {Work, Serve} /\ hart.cp = H!SMODE
          /\ hart.pc = Work => InKernel
          /\ hart.pc = Serve => InHandler /\ ExternalTrap
      BY <1>f, <2>1, Words DEF Phases, InFirmware, InKernel, InHandler
    <2>3. Turned(hart.pc + 1, hart.mstatus.sie, plic'.seip = 1)
      BY <1>f, <2>1, <2>2, RegisterTurned, Words
    <2>4. CASE hart.pc = Work
      BY <1>k, <2>1, <2>2, <2>3, <2>4, Words DEF InKernel
    <2>5. CASE hart.pc = Serve
      <3>1. hart.mstatus.sie = 0 /\ drv.proc # "added" /\ ~TimerTrap
        BY <2>2, <2>5, CausesDiffer DEF InHandler, Saved, TimerTrap, ExternalTrap
      <3> QED BY <1>h, <2>1, <2>2, <2>3, <2>5, <3>1, Words
    <2> QED BY <2>2, <2>4, <2>5
  <1>12. CASE KernelLoop
    <2>1. JumpTo(Work) /\ hart.pc = WorkBack /\ ~QueueBusy
      BY <1>12 DEF KernelLoop, At
    <2>2. Turned(Work, hart.mstatus.sie, H!SEI \in hart.mip)
      BY <1>f, <1>w, <2>1, JumpTurned, SuccStep, Words DEF InKernel
    <2>3. ~QueueBusy' /\ plic' = plic /\ drv' = drv
      BY <1>u, <2>1 DEF JumpTo
    <2>4. Turned(Work, hart.mstatus.sie, plic'.seip = 1)
      BY <1>q, <2>1, <2>2, <2>3 DEF Turned
    <2> QED BY <1>k, <1>w, <2>1, <2>3, <2>4 DEF InKernel
  <1>13. CASE ExternalEntry
    <2>1. hart.pc = Vector /\ ~QueueBusy /\ ExternalTrap /\ TakeIrq /\ MemTurn /\ InHandler
      BY <1>13, <1>v DEF ExternalEntry, At
    <2>2. Turned(Serve, 0, H!SEI \in hart.mip)
      BY <1>f, <2>1, MemTurned, Words DEF InHandler, Saved
    <2>3. ~QueueBusy' /\ plic' = plic /\ drv'.proc # "added"
      BY <1>d, <2>1 DEF TakeIrq, IrqStep, DrvType, QueueBusy
    <2>4. Turned(Serve, 0, plic'.seip = 1)
      BY <1>q, <2>1, <2>2, <2>3 DEF Turned
    <2>5. ~TimerTrap
      BY <2>1, CausesDiffer DEF TimerTrap, ExternalTrap
    <2> QED BY <1>h, <2>1, <2>3, <2>4, <2>5, Words
  <1>14. CASE TimerEntry
    <2>1. /\ hart.pc = Vector /\ ~QueueBusy /\ UNCHANGED vbvars /\ InHandler
          /\ TimerTrap /\ hart.cp = H!SMODE
      BY <1>14, <1>v DEF TimerEntry, At, InHandler
    <2>2. PICK h \in H!Tick(hart) : \E m \in H!ExcModes(h, H!EcallCode(h.cp)) :
             LET g == H!excep_function(h, H!Succ(h.pc), H!EcallCode(h.cp), m)
             IN  IF g.halt = "run" THEN H!Finish(g, h.pc, raisedAt)
                                   ELSE H!Commit(g, raisedAt)
      BY <1>14 DEF TimerEntry, H!Ecall
    <2>3. PICK m \in H!ExcModes(h, H!EcallCode(h.cp)) :
             LET g == H!excep_function(h, H!Succ(h.pc), H!EcallCode(h.cp), m)
             IN  IF g.halt = "run" THEN H!Finish(g, h.pc, raisedAt)
                                   ELSE H!Commit(g, raisedAt)
      BY <2>2
    <2>4. Fixed(h) /\ Resumes(hart, h) /\ h.mip = hart.mip
      BY <1>f, TickFixed
    <2> DEFINE g == H!excep_function(h, H!Succ(h.pc), H!EcallCode(h.cp), m)
    <2>5. /\ Fixed(g) /\ g.pc = SetTimer /\ g.cp = H!MMODE
          /\ g.mstatus.mie = 0 /\ g.mstatus.mpp = H!SMODE
          /\ g.mstatus.sie = h.mstatus.sie /\ g.mstatus.spp = h.mstatus.spp
          /\ g.sepc = h.sepc /\ g.mepc = h.pc /\ g.scause = h.scause
          /\ g.mip = h.mip
      BY <2>1, <2>4, EcallFixed DEF Resumes
    <2>6. IF g.halt = "run" THEN H!Finish(g, h.pc, raisedAt) ELSE H!Commit(g, raisedAt)
      BY <2>3
    <2> HIDE DEF g
    <2>7. H!Finish(g, hart.pc, raisedAt)
      BY <2>4, <2>5, <2>6 DEF Fixed, Resumes
    <2>8. g.mstatus.sie = 0
      BY <2>1, <2>4, <2>5 DEF InHandler, Saved, Resumes
    <2>9. Fixed(hart') /\ Resumes(g, hart')
      BY <1>z, <2>1, <2>5, <2>7, <2>8, Words
    <2>10. InFirmware'
      BY <1>u, <2>1, <2>4, <2>5, <2>9, Words DEF InFirmware, InHandler, Saved, TimerTrap, Resumes
    <2>11. (H!SEI \in hart'.mip <=> plic'.seip = 1) /\ hart'.pc # Vector
      BY <1>q, <1>u, <2>1, <2>4, <2>5, <2>9, Words DEF Resumes
    <2> QED BY <1>t, <2>9, <2>10, <2>11 DEF SysInv, Phases, SeipFollows, EntryHasCause
  <1>15. CASE HandlerRegister
    <2>1. /\ hart.pc = Serve /\ ~QueueBusy /\ ExternalTrap /\ RegisterTurn /\ InHandler
          /\ Claim \/ Ack \/ Complete
      BY <1>15, <1>v DEF HandlerRegister, At
    <2>2. Turned(ServeBack, 0, plic'.seip = 1)
      BY <1>f, <2>1, RegisterTurned, Words DEF InHandler, Saved
    <2>3. ~QueueBusy' /\ drv'.proc # "added"
      BY <1>d, <2>1 DEF Claim, Ack, Complete, IrqStep, DrvType, DevType, QueueBusy, InHandler
    <2>4. ~TimerTrap
      BY <2>1, CausesDiffer DEF TimerTrap, ExternalTrap
    <2> QED BY <1>h, <2>1, <2>2, <2>3, <2>4
  <1>16. CASE HandlerMem
    <2>1. /\ hart.pc = Serve /\ ~QueueBusy /\ ExternalTrap /\ MemTurn /\ InHandler
          /\ CollectUsed \/ AddInIrq \/ PublishInIrq \/ Drained
      BY <1>16, <1>v DEF HandlerMem, At
    <2>2. Turned(ServeBack, 0, H!SEI \in hart.mip)
      BY <1>f, <2>1, MemTurned, Words DEF InHandler, Saved
    <2>3. ~QueueBusy' /\ plic' = plic /\ drv'.proc # "added"
      BY <1>d, <2>1 DEF CollectUsed, AddInIrq, PublishInIrq, Drained, IrqStep, DrvType,
                        QueueBusy, InHandler
    <2>4. Turned(ServeBack, 0, plic'.seip = 1)
      BY <1>q, <2>1, <2>2, <2>3 DEF Turned
    <2>5. ~TimerTrap
      BY <2>1, CausesDiffer DEF TimerTrap, ExternalTrap
    <2> QED BY <1>h, <2>1, <2>3, <2>4, <2>5
  <1>17. CASE HandlerNotify
    <2>1. /\ hart.pc = Serve /\ ExternalTrap /\ InHandler /\ hart' = hart
          /\ drv'.proc # "added"
      BY <1>17, <1>v, <1>d DEF HandlerNotify, At, hvars, NotifyInIrq, IrqStep, DrvType, InHandler
    <2>2. QueueBusy'
      <3>1. dev'.loop = mem.avail_idx /\ mem.avail_idx \in Indices
        BY <1>17, <1>d, <1>t DEF HandlerNotify, NotifyInIrq, EnterNotify, DevType, VBTypeOK, MemType
      <3> QED BY <3>1, IndexArith DEF QueueBusy, NoLoop, Indices
    <2>3. InHandler'
      BY <2>1, Words, CausesDiffer DEF InHandler, ExternalTrap, TimerTrap
    <2> QED BY <1>t, <1>f, <2>1, <2>2, <2>3, Words DEF SysInv, Phases, SeipFollows, EntryHasCause
  <1>18. CASE HandlerLoop
    <2>1. JumpTo(Serve) /\ hart.pc = ServeBack /\ ~QueueBusy /\ InHandler
      BY <1>18, <1>v DEF HandlerLoop, At
    <2>2. Turned(Serve, 0, H!SEI \in hart.mip)
      BY <1>f, <2>1, JumpTurned, SuccStep, Words DEF InHandler, Saved
    <2>3. ~QueueBusy' /\ plic' = plic /\ drv' = drv
      BY <1>u, <2>1 DEF JumpTo
    <2>4. Turned(Serve, 0, plic'.seip = 1)
      BY <1>q, <2>1, <2>2, <2>3 DEF Turned
    <2> QED BY <1>h, <2>1, <2>3, <2>4, Words DEF InHandler
  <1>19. CASE HandlerReturn
    <2>1. /\ hart.pc \in {Serve, ServeBack} /\ ~QueueBusy /\ UNCHANGED vbvars
          /\ InHandler /\ drv.irq = "off"
      BY <1>19, <1>v DEF HandlerReturn, At, InHandler
    <2>2. PICK h \in H!Tick(hart) : H!Finish(H!SretState(h), h.pc, raisedAt)
      BY <1>19 DEF HandlerReturn, H!Sret
    <2>3. Fixed(h) /\ Resumes(hart, h) /\ h.mip = hart.mip
      BY <1>f, TickFixed
    <2> DEFINE g == H!SretState(h)
    <2>4. H!Finish(g, hart.pc, raisedAt)
      BY <2>2, <2>3 DEF Resumes
    <2>5. Fixed(g) /\ g.pc = hart.sepc /\ g.cp = H!SMODE /\ g.mip = hart.mip
      BY <2>1, <2>3, SretFixed DEF Resumes, InHandler, Saved
    <2> HIDE DEF g
    <2>6. hart.sepc \in {Work, WorkBack}
      BY <2>1 DEF InHandler, Saved
    <2>7. Fixed(hart') /\ (Resumes(g, hart') \/ Interrupted(g, hart'))
      BY <2>1, <2>4, <2>5, <2>6, LoopTail, ModesDiffer, Words
    <2>8. ~QueueBusy' /\ plic' = plic /\ drv' = drv /\ drv.proc # "added"
      BY <1>u, <2>1 DEF InHandler
    <2>9. H!SEI \in hart'.mip <=> plic'.seip = 1
      BY <1>q, <2>1, <2>5, <2>7, <2>8 DEF Resumes, Interrupted
    <2>10. CASE Resumes(g, hart')
      <3>1. InKernel'
        BY <2>1, <2>5, <2>6, <2>8, <2>10 DEF InKernel, Resumes
      <3> QED BY <1>t, <2>5, <2>6, <2>7, <2>9, <2>10, <3>1, Words
              DEF SysInv, Phases, SeipFollows, EntryHasCause, Resumes
    <2>11. CASE Interrupted(g, hart')
      <3>1. InHandler'
        BY <2>1, <2>5, <2>6, <2>8, <2>11, Words DEF InHandler, Saved, Interrupted
      <3>2. EntryHasCause'
        BY <2>9, <2>11 DEF EntryHasCause, ExternalTrap, Interrupted
      <3> QED BY <1>t, <2>7, <2>9, <3>1, <3>2 DEF SysInv, Phases, SeipFollows
    <2> QED BY <2>7, <2>10, <2>11
  <1>20. CASE UNCHANGED svars
    <2>1. UNCHANGED <<hart, dev, mem, store, plic, drv>>
      BY <1>20 DEF svars
    <2>2. Phases' /\ SeipFollows' /\ EntryHasCause'
      BY <1>f, <2>1 DEF Phases, InFirmware, InKernel, InHandler, SeipFollows, EntryHasCause,
                        ExternalTrap, TimerTrap, QueueBusy
    <2> QED BY <1>t, <1>f, <2>1, <2>2 DEF SysInv
  <1> QED
    BY <1>1, <1>2, <1>3, <1>4, <1>5, <1>6, <1>7, <1>8, <1>9, <1>10, <1>11, <1>12, <1>13,
       <1>14, <1>15, <1>16, <1>17, <1>18, <1>19, <1>20
    DEF SysNext, FirmwareTurn, KernelTurn, NotifyTurn, HandlerTurn

LEMMA SysInvariant == SysSpec => []SysInv
  BY SysInitInv, SysInvStep, PTL DEF SysSpec

-----------------------------------------------------------------------------
(* What the invariant says *)

\* With this kernel and firmware the main loop never leaves through an exit of
\* the trap functions, a fetch outside RAM or its test for an endless loop,
\* wherever the timer and the device interrupt.
THEOREM NeverStops == SysSpec => []KeepsRunning
  <1>1. SysInv => KeepsRunning
    BY DEF SysInv, Fixed, KeepsRunning
  <1> QED BY <1>1, SysInvariant, PTL

\* sepc, SPP and SIE survive the handler and the firmware call under it: the
\* tail takes no second interrupt until sret.
THEOREM ReturnContextKept == SysSpec => []ContextKept
  <1>1. SysInv => ContextKept
    BY Words DEF SysInv, Phases, InFirmware, InKernel, InHandler, Saved, ContextKept
  <1> QED BY <1>1, SysInvariant, PTL

\* Between filling the ring and publishing, the driver's handler never runs,
\* for rings of every size.
THEOREM CriticalSectionHeld == SysSpec => []CriticalSection
  <1>1. SysInv => CriticalSection
    BY DEF SysInv, Phases, InFirmware, InKernel, InHandler, CriticalSection
  <1> QED BY <1>1, SysInvariant, PTL

\* Interrupted at any instruction by the hart's own traps, the rings, the indices
\* and the interrupt line still implement the block store.
THEOREM SysStoreImplemented == SysSpec => SysImplementsStore
  BY RunsDriver, StoreImplemented, PTL DEF SysImplementsStore

=============================================================================
