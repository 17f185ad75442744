----------------------------- MODULE HartProofs -----------------------------
(***************************************************************************)
(* Proofs about the trap machinery of Hart, for every size of the address  *)
(* space, every firmware and every guest.                                  *)
(***************************************************************************)
EXTENDS Hart, TLAPS

-----------------------------------------------------------------------------
(* Every function of the trap machinery maps harts to harts. *)

LEMMA EnterSType ==
    ASSUME NEW h \in HartType, NEW epc \in PCs, NEW cause \in Causes,
           NEW pc \in PCs
    PROVE  EnterS(h, epc, cause, pc) \in HartType
BY DEF EnterS, HartType, Mstatus, Bit, Priv, SMODE

LEMMA EnterMType ==
    ASSUME NEW h \in HartType, NEW epc \in PCs, NEW cause \in Causes,
           NEW pc \in PCs
    PROVE  EnterM(h, epc, cause, pc) \in HartType
BY DEF EnterM, HartType, Mstatus, Bit, Priv, MMODE

LEMMA SuccPrevType == \A p \in PCs : Succ(p) \in PCs /\ Prev(p) \in PCs
BY SizeAssumption DEF Succ, Prev, PCs

LEMMA ModeTypes ==
    \A h \in HartType : \A c : ExcModes(h, c) \subseteq Priv /\ IntModes(h, c) \subseteq Priv
BY DEF ExcModes, IntModes, trap_mode_select, HartType, Priv, UMODE, SMODE, HMODE, MMODE

LEMMA ExcepType ==
    ASSUME NEW h \in HartType, NEW npc \in PCs, NEW c \in Codes, NEW m \in Priv
    PROVE  excep_function(h, npc, c, m) \in HartType
<1> DEFINE e == excep_function(h, npc, c, m)
<1>1. Prev(npc) \in PCs /\ h.stvec.base \in PCs /\ h.mtvec.base \in PCs
  BY SuccPrevType DEF HartType, Tvec
<1>2. ExcCode(h, c) \in Causes
  BY DEF ExcCode, Codes, Causes
<1>3. CASE m = UMODE
  <2>1. e = [h EXCEPT !.halt = "exit4"]
    BY <1>3 DEF excep_function, UMODE, SMODE, MMODE, HMODE
  <2> QED  BY <2>1 DEF HartType, Halts
<1>4. CASE m = SMODE
  <2>1. e = EnterS(h, Prev(npc), ExcCode(h, c), h.stvec.base)
    BY <1>4 DEF excep_function, UMODE, SMODE, MMODE, HMODE
  <2> QED  BY <2>1, <1>1, <1>2, EnterSType
<1>5. CASE m = MMODE
  <2>1. e = EnterM(h, Prev(npc), ExcCode(h, c), h.mtvec.base)
    BY <1>5 DEF excep_function, UMODE, SMODE, MMODE, HMODE
  <2> QED  BY <2>1, <1>1, <1>2, EnterMType
<1>6. CASE m = HMODE
  <2>1. e = [h EXCEPT !.pc = npc]
    BY <1>6 DEF excep_function, UMODE, SMODE, MMODE, HMODE
  <2> QED  BY <2>1 DEF HartType
<1> QED  BY <1>3, <1>4, <1>5, <1>6 DEF Priv

LEMMA IntVectorType ==
    ASSUME NEW h \in HartType, NEW c \in IntCodes
    PROVE  /\ Interrupt(c) \in Causes
           /\ h.pc \in PCs
           /\ IntVector(h.stvec) \in PCs /\ IntVector(h.mtvec) \in PCs
BY SizeAssumption DEF IntCodes, MEI, MTI, MSI, SEI, STI, SSI, UEI, UTI, USI,
   Interrupt, Causes, HartType, Tvec, IntVector, PCs

LEMMA InterruptType ==
    ASSUME NEW h \in HartType, NEW c \in IntCodes, NEW m \in Priv
    PROVE  interrupt_function(h, c, m) \in HartType
<1>3. CASE m = UMODE /\ h.mstatus.uie = 1
  <2>1. interrupt_function(h, c, m) = [h EXCEPT !.halt = "exit1"]
    BY <1>3 DEF interrupt_function, UMODE, SMODE, MMODE
  <2> QED  BY <2>1 DEF HartType, Halts
<1>4. CASE m = SMODE /\ h.mstatus.sie = 1
  <2> DEFINE e == EnterS(h, h.pc, Interrupt(c), IntVector(h.stvec))
             x == IF h.stvec.mode = 1 THEN "exit2" ELSE "run"
  <2>1. interrupt_function(h, c, m) = [e EXCEPT !.halt = x]
    BY <1>4 DEF interrupt_function, UMODE, SMODE, MMODE
  <2>2. e \in HartType
    BY IntVectorType, EnterSType
  <2>3. x \in Halts
    BY DEF Halts
  <2> HIDE DEF e, x
  <2> QED  BY <2>1, <2>2, <2>3 DEF HartType
<1>5. CASE m = MMODE /\ h.mstatus.mie = 1
  <2> DEFINE e == EnterM(h, h.pc, Interrupt(c), IntVector(h.mtvec))
             x == CASE h.mtvec.mode = 1 -> "exit3"
                    [] h.mtvec.mode = 0 /\ h.cp = MMODE -> "exit5"
                    [] OTHER -> "run"
  <2>1. interrupt_function(h, c, m) = [e EXCEPT !.halt = x]
    BY <1>5 DEF interrupt_function, UMODE, SMODE, MMODE
  <2>2. e \in HartType
    BY IntVectorType, EnterMType
  <2>3. x \in Halts
    BY DEF Halts
  <2> HIDE DEF e, x
  <2> QED  BY <2>1, <2>2, <2>3 DEF HartType
<1>6. CASE /\ ~(m = UMODE /\ h.mstatus.uie = 1)
           /\ ~(m = SMODE /\ h.mstatus.sie = 1)
           /\ ~(m = MMODE /\ h.mstatus.mie = 1)
  <2>1. interrupt_function(h, c, m) = h
    BY <1>6 DEF interrupt_function
  <2> QED  BY <2>1
<1> QED  BY <1>3, <1>4, <1>5, <1>6

LEMMA LoopCheckType ==
    ASSUME NEW h \in HartType, NEW lpc
    PROVE  LoopCheck(h, lpc) \in HartType
BY DEF LoopCheck, HartType, Halts

LEMMA SampleTimerType ==
    ASSUME NEW h \in HartType
    PROVE  SampleTimer(h) \in HartType
BY DEF SampleTimer, HartType, IntCodes

LEMMA TickType ==
    ASSUME NEW h \in HartType
    PROVE  \A g \in Tick(h) : g \in HartType /\ g.pc = h.pc
BY DEF Tick, HartType, Timer

LEMMA CommitType ==
    ASSUME NEW h \in HartType, NEW at \in [ExcFlags -> PCs], Commit(h, at)
    PROVE  TypeOK'
BY SizeAssumption DEF Commit, TypeOK, PCs

LEMMA FinishType ==
    ASSUME NEW h0 \in HartType, NEW lpc \in PCs,
           NEW at \in [ExcFlags -> PCs], Finish(h0, lpc, at)
    PROVE  TypeOK'
<1> DEFINE h == SampleTimer(h0)
           enabled == h.mie \cap h.mip
<1>1. h \in HartType
  BY SampleTimerType
<1>2. enabled \subseteq IntCodes /\ h.flags \subseteq ExcFlags /\ h.pc \in PCs
  BY <1>1 DEF HartType
<1>3. Finish(h0, lpc, at) <=>
        \/ \E c \in Highest(enabled, IntRank) : \E m \in IntModes(h, c) :
              Commit(LoopCheck(interrupt_function(h, c, m), lpc), at)
        \/ /\ enabled = {}
           /\ \E c \in Highest(h.flags, ExcRank) : \E m \in ExcModes(h, c) :
                 Commit(LoopCheck(excep_function([h EXCEPT !.flags = @ \ {c}],
                                                 h.pc, c, m), lpc), at)
        \/ /\ enabled = {} /\ h.flags = {}
           /\ Commit(LoopCheck(h, lpc), at)
  BY DEF Finish
<1> HIDE DEF h
<1>4. CASE \E c \in Highest(enabled, IntRank) : \E m \in IntModes(h, c) :
              Commit(LoopCheck(interrupt_function(h, c, m), lpc), at)
  <2>1. PICK c \in IntCodes, m \in Priv :
              Commit(LoopCheck(interrupt_function(h, c, m), lpc), at)
    BY <1>1, <1>2, <1>4, ModeTypes DEF Highest
  <2> QED  BY <1>1, <2>1, InterruptType, LoopCheckType, CommitType
<1>5. CASE \E c \in Highest(h.flags, ExcRank) : \E m \in ExcModes(h, c) :
                 Commit(LoopCheck(excep_function([h EXCEPT !.flags = @ \ {c}],
                                                 h.pc, c, m), lpc), at)
  <2>1. PICK c \in ExcFlags, m \in Priv :
           Commit(LoopCheck(excep_function([h EXCEPT !.flags = @ \ {c}],
                                           h.pc, c, m), lpc), at)
    BY <1>1, <1>2, <1>5, ModeTypes DEF Highest
  <2>2. [h EXCEPT !.flags = @ \ {c}] \in HartType
    BY <1>1 DEF HartType
  <2>3. c \in Codes
    BY DEF ExcFlags, Codes, CAUSE_ILLEGAL_INSTRUCTION, CAUSE_BREAKPOINT,
           CAUSE_MISALIGNED_LOAD, CAUSE_MISALIGNED_STORE
  <2> QED  BY <1>2, <2>1, <2>2, <2>3, ExcepType, LoopCheckType, CommitType
<1>6. CASE Commit(LoopCheck(h, lpc), at)
  BY <1>1, <1>6, LoopCheckType, CommitType
<1> QED  BY <1>3, <1>4, <1>5, <1>6

LEMMA FlagCodes == ExcFlags \subseteq Codes
BY DEF ExcFlags, Codes, CAUSE_ILLEGAL_INSTRUCTION, CAUSE_BREAKPOINT,
       CAUSE_MISALIGNED_LOAD, CAUSE_MISALIGNED_STORE

LEMMA RaiseType ==
    ASSUME TypeOK, NEW h \in HartType, NEW c \in ExcFlags, Raise(h, c, h.pc)
    PROVE  TypeOK'
<1>1. h.pc \in PCs /\ Succ(h.pc) \in PCs
  BY SuccPrevType DEF HartType
<1>2. [h EXCEPT !.flags = @ \cup {c}, !.pc = Succ(h.pc)] \in HartType
  BY <1>1 DEF HartType
<1>3. [raisedAt EXCEPT ![c] = h.pc] \in [ExcFlags -> PCs]
  BY <1>1 DEF TypeOK
<1> QED  BY <1>1, <1>2, <1>3, FinishType DEF Raise

LEMMA RouteTvalType ==
    ASSUME NEW h \in HartType, NEW a \in TVals
    PROVE  RouteTval(h, a) \in HartType
<1>1. 0 \in TVals
  BY SizeAssumption DEF TVals
<1>2. h.cp \in {MMODE, SMODE, UMODE, HMODE}
  BY DEF HartType, Priv
<1> QED
  BY <1>1, <1>2 DEF RouteTval, HartType, UMODE, SMODE, HMODE, MMODE

LEMMA CsrWriteType ==
    ASSUME NEW h \in HartType, NEW r \in CsrNames, NEW v \in CsrTypes(r)
    PROVE  csr_write(h, r, v) \in HartType
<1>1. CASE r \in {"mstatus", "sstatus", "ustatus"}
  <2>1. CASE r = "mstatus"
    BY <2>1 DEF csr_write, CsrTypes, HartType
  <2>2. CASE r = "sstatus"
    <3>1. v \in Sstatus /\ h.mstatus \in Mstatus
      BY <2>2 DEF CsrTypes, HartType
    <3>2. [h.mstatus EXCEPT !.uie = v.uie, !.sie = v.sie, !.spie = v.spie,
                            !.spp = v.spp] \in Mstatus
      BY <3>1 DEF Sstatus, Mstatus, Bit, Priv, UMODE, SMODE
    <3> QED  BY <2>2, <3>2 DEF csr_write, HartType
  <2>3. CASE r = "ustatus"
    <3>1. v \in Bit /\ h.mstatus \in Mstatus
      BY <2>3 DEF CsrTypes, HartType
    <3>2. [h.mstatus EXCEPT !.uie = v] \in Mstatus
      BY <3>1 DEF Mstatus
    <3> QED  BY <2>3, <3>2 DEF csr_write, HartType
  <2> QED  BY <1>1, <2>1, <2>2, <2>3
<1>2. CASE r \in {"mie", "mip", "medeleg", "mideleg", "sedeleg", "sideleg"}
  BY <1>2 DEF csr_write, CsrTypes, HartType
<1>3. CASE r \in {"mepc", "sepc", "mtvec", "stvec"}
  BY <1>3 DEF csr_write, CsrTypes, HartType
<1>4. CASE r \in {"mcause", "scause", "mtval", "stval", "satp"}
  BY <1>4 DEF csr_write, CsrTypes, HartType
<1> QED  BY <1>1, <1>2, <1>3, <1>4 DEF CsrNames

\* No CSR write changes the mode, and only the three status registers alias
\* mstatus.
LEMMA CsrWriteCp ==
    ASSUME NEW h \in HartType, NEW r \in CsrNames, NEW v \in CsrTypes(r)
    PROVE  /\ csr_write(h, r, v).cp = h.cp
           /\ csr_write(h, r, v).flags = h.flags
           /\ csr_write(h, r, v).halt = h.halt
           /\ r \notin {"mstatus", "sstatus", "ustatus"} =>
                 csr_write(h, r, v).mstatus = h.mstatus
BY DEF csr_write, HartType, CsrNames

LEMMA RetType ==
    ASSUME NEW h \in HartType
    PROVE  MretState(h) \in HartType /\ SretState(h) \in HartType
BY DEF MretState, SretState, HartType, Mstatus, Bit, Priv, UMODE

LEMMA RetFields ==
    ASSUME NEW h \in HartType
    PROVE  /\ MretState(h).cp = h.mstatus.mpp /\ MretState(h).mstatus.mpp = UMODE
           /\ MretState(h).mstatus.spp = h.mstatus.spp
           /\ MretState(h).mstatus.mie = 1
           /\ SretState(h).cp = h.mstatus.spp /\ SretState(h).mstatus.spp = UMODE
           /\ SretState(h).mstatus.mpp = h.mstatus.mpp
           /\ SretState(h).mstatus.mie = h.mstatus.mie
<1>1. h.mstatus \in Mstatus
  BY DEF HartType
<1>2. LET s == [h.mstatus EXCEPT !.mie = 1, !.mpp = UMODE, !.mpie = 0]
      IN  MretState(h).mstatus = s /\ MretState(h).cp = h.mstatus.mpp
  BY DEF MretState, HartType
<1>3. LET s == [h.mstatus EXCEPT !.spp = UMODE, !.sie = h.mstatus.spie, !.spie = 1]
      IN  SretState(h).mstatus = s /\ SretState(h).cp = h.mstatus.spp
  BY DEF SretState, HartType
<1> QED  BY <1>1, <1>2, <1>3 DEF Mstatus

LEMMA EcallCodeType == \A m \in Priv : EcallCode(m) \in Codes
BY DEF EcallCode, Codes, Priv, UMODE, SMODE, HMODE, MMODE

-----------------------------------------------------------------------------
(* Type correctness *)

LEMMA DataFaultType ==
    ASSUME TypeOK, NEW k, NEW c \in Codes, DataFault(k, c)
    PROVE  TypeOK'
<1>1. PICK h \in Tick(hart), a \in DataAddrs : \E m \in ExcModes(h, c) :
         Commit(RouteTval(excep_function(h, Succ(h.pc), c, m), a), raisedAt)
  BY DEF DataFault
<1>0. PICK m \in ExcModes(h, c) :
         Commit(RouteTval(excep_function(h, Succ(h.pc), c, m), a), raisedAt)
  BY <1>1
<1>2. h \in HartType /\ h.pc \in PCs /\ Succ(h.pc) \in PCs /\ m \in Priv
  BY TickType, ModeTypes, SuccPrevType DEF TypeOK, HartType
<1>3. a \in TVals
  BY GuestAssumption, SizeAssumption DEF TVals, PCs
<1>4. excep_function(h, Succ(h.pc), c, m) \in HartType
  BY <1>2, ExcepType
<1> QED  BY <1>0, <1>3, <1>4, RouteTvalType, CommitType DEF TypeOK

LEMMA TypeStep == TypeOK /\ [Next]_vars => TypeOK'
<1> SUFFICES ASSUME TypeOK, [Next]_vars PROVE TypeOK'
  OBVIOUS
<1>a. hart \in HartType /\ raisedAt \in [ExcFlags -> PCs]
  BY DEF TypeOK
<1>b. \A h \in Tick(hart) : h \in HartType /\ h.pc \in PCs /\ Succ(h.pc) \in PCs
  BY <1>a, TickType, SuccPrevType DEF HartType
<1>c. \A h \in HartType : \A q \in PCs : [h EXCEPT !.pc = q] \in HartType
  BY DEF HartType
<1>1. CASE Plain
  BY <1>1, <1>a, <1>b, <1>c, FinishType DEF Plain
<1>2. CASE Jump
  BY <1>2, <1>a, <1>b, <1>c, FinishType DEF Jump
<1>3. CASE Illegal
  <2>1. PICK h \in Tick(hart) :
           Raise([h EXCEPT !.mtval = InsnBits], CAUSE_ILLEGAL_INSTRUCTION, h.pc)
    BY <1>3 DEF Illegal
  <2>2. /\ [h EXCEPT !.mtval = InsnBits] \in HartType
        /\ [h EXCEPT !.mtval = InsnBits].pc = h.pc
    BY <1>b, SizeAssumption DEF HartType, TVals, InsnBits
  <2> QED  BY <2>1, <2>2, RaiseType DEF ExcFlags
<1>4. CASE LoadMisaligned \/ AmoMisaligned
  <2>1. PICK h \in Tick(hart), a \in DataAddrs,
             c \in {CAUSE_MISALIGNED_LOAD, CAUSE_MISALIGNED_STORE} :
           Raise([h EXCEPT !.mtval = a], c, h.pc)
    BY <1>4 DEF LoadMisaligned, AmoMisaligned
  <2>2. a \in TVals
    BY GuestAssumption, SizeAssumption DEF TVals, PCs
  <2>3. [h EXCEPT !.mtval = a] \in HartType /\ [h EXCEPT !.mtval = a].pc = h.pc
    BY <1>b, <2>2 DEF HartType
  <2> QED  BY <2>1, <2>3, RaiseType DEF ExcFlags
<1>5. CASE Ecall
  <2>0. PICK h \in Tick(hart) : \E m \in ExcModes(h, EcallCode(h.cp)) :
          LET g == excep_function(h, Succ(h.pc), EcallCode(h.cp), m)
          IN  IF g.halt = "run" THEN Finish(g, h.pc, raisedAt)
                                ELSE Commit(g, raisedAt)
    BY <1>5 DEF Ecall
  <2>1. PICK m \in ExcModes(h, EcallCode(h.cp)) :
          LET g == excep_function(h, Succ(h.pc), EcallCode(h.cp), m)
          IN  IF g.halt = "run" THEN Finish(g, h.pc, raisedAt)
                                ELSE Commit(g, raisedAt)
    BY <2>0
  <2>2. EcallCode(h.cp) \in Codes /\ m \in Priv
    BY <1>b, EcallCodeType, ModeTypes DEF HartType
  <2>3. excep_function(h, Succ(h.pc), EcallCode(h.cp), m) \in HartType
    BY <1>b, <2>2, ExcepType
  <2> QED  BY <1>a, <1>b, <2>1, <2>3, FinishType, CommitType
<1>6. CASE Ebreak
  BY <1>6, <1>b, RaiseType DEF Ebreak, ExcFlags
<1>7. CASE Mret
  BY <1>7, <1>a, <1>b, RetType, FinishType DEF Mret
<1>8. CASE Sret
  BY <1>8, <1>a, <1>b, RetType, FinishType DEF Sret
<1>9. CASE CsrWrite
  <2>1. PICK h \in Tick(hart), r \in CsrNames : \E v \in CsrVals[r] :
           Finish([csr_write(h, r, v) EXCEPT !.pc = Succ(@)], h.pc, raisedAt)
    BY <1>9 DEF CsrWrite
  <2>0. PICK v \in CsrVals[r] :
           Finish([csr_write(h, r, v) EXCEPT !.pc = Succ(@)], h.pc, raisedAt)
    BY <2>1
  <2>2. v \in CsrTypes(r)
    BY GuestAssumption
  <2>3. csr_write(h, r, v) \in HartType
    BY <1>b, <2>2, CsrWriteType
  <2>4. [csr_write(h, r, v) EXCEPT !.pc = Succ(@)] \in HartType
    BY <2>3, <1>c, SuccPrevType DEF HartType
  <2> QED  BY <1>a, <1>b, <2>0, <2>4, FinishType
<1>10. CASE ClintWrite
  <2>1. PICK h \in Tick(hart), t \in Timer :
           Finish([h EXCEPT !.timer = t, !.pc = Succ(@)], h.pc, raisedAt)
    BY <1>10 DEF ClintWrite
  <2>2. [h EXCEPT !.timer = t, !.pc = Succ(@)] \in HartType
    BY <1>b DEF HartType
  <2> QED  BY <1>a, <1>b, <2>1, <2>2, FinishType
<1>11. CASE PlicAccess
  <2>1. PICK h \in Tick(hart), on \in BOOLEAN :
          Finish([h EXCEPT !.mip = IF on THEN @ \cup {SEI} ELSE @ \ {SEI},
                            !.pc = Succ(@)], h.pc, raisedAt)
    BY <1>11 DEF PlicAccess
  <2>2. (IF on THEN h.mip \cup {SEI} ELSE h.mip \ {SEI}) \in SUBSET IntCodes
    BY <1>b DEF HartType, IntCodes
  <2>3. [h EXCEPT !.mip = IF on THEN @ \cup {SEI} ELSE @ \ {SEI},
                   !.pc = Succ(@)] \in HartType
    BY <1>b, <2>2, ZenonT(60) DEF HartType
  <2> QED  BY <1>a, <1>b, <2>1, <2>3, FinishType
<1>12. CASE FetchExit \/ FetchOutsideRam \/ BusError \/ Uret \/ Fence
  <2>1. \A h \in HartType, x \in Halts : [h EXCEPT !.halt = x] \in HartType
    BY DEF HartType
  <2>2. "exit0" \in Halts /\ "outside_ram" \in Halts
    BY DEF Halts
  <2>3. \A h \in HartType : \A q \in PCs, x \in Halts :
           [h EXCEPT !.pc = q, !.halt = x] \in HartType
    BY DEF HartType
  <2> QED
    BY <1>12, <1>a, <1>b, <1>c, <2>1, <2>2, <2>3, CommitType
    DEF FetchExit, FetchOutsideRam, BusError, Uret, Fence
<1>13. CASE FetchFault
  <2>0. PICK h \in Tick(hart) : \E m \in ExcModes(h, CAUSE_FETCH_PAGE_FAULT) :
          Commit([excep_function(h, Succ(h.pc), CAUSE_FETCH_PAGE_FAULT, m)
                     EXCEPT !.mtval = h.pc, !.stval = h.pc], raisedAt)
    BY <1>13 DEF FetchFault
  <2>1. PICK m \in ExcModes(h, CAUSE_FETCH_PAGE_FAULT) :
          Commit([excep_function(h, Succ(h.pc), CAUSE_FETCH_PAGE_FAULT, m)
                     EXCEPT !.mtval = h.pc, !.stval = h.pc], raisedAt)
    BY <2>0
  <2>2. m \in Priv /\ CAUSE_FETCH_PAGE_FAULT \in Codes
    BY <1>b, ModeTypes DEF CAUSE_FETCH_PAGE_FAULT, Codes
  <2>3. excep_function(h, Succ(h.pc), CAUSE_FETCH_PAGE_FAULT, m) \in HartType
    BY <1>b, <2>2, ExcepType
  <2>4. \A t \in PCs : t \in TVals
    BY SizeAssumption DEF PCs, TVals
  <2>5. [excep_function(h, Succ(h.pc), CAUSE_FETCH_PAGE_FAULT, m)
                     EXCEPT !.mtval = h.pc, !.stval = h.pc] \in HartType
    BY <1>b, <2>3, <2>4 DEF HartType
  <2> QED  BY <1>a, <2>1, <2>5, CommitType
<1>14. CASE LoadFault \/ StoreFault
  BY <1>14, DataFaultType
  DEF LoadFault, StoreFault, Codes, CAUSE_LOAD_PAGE_FAULT, CAUSE_STORE_PAGE_FAULT
<1>15. CASE Stopped \/ UNCHANGED vars
  BY <1>15 DEF Stopped, vars, TypeOK
<1> QED
  BY <1>1, <1>2, <1>3, <1>4, <1>5, <1>6, <1>7, <1>8, <1>9, <1>10, <1>11,
     <1>12, <1>13, <1>14, <1>15 DEF Next, Checked, Unchecked

\* Every reachable state of every instance is well typed: no trap, xret or CSR
\* write leaves a register, the pc or the privilege mode out of its range.
THEOREM TypeCorrect == Spec => []TypeOK
<1>1. Init => TypeOK
  BY FirmwareAssumption, SizeAssumption DEF Init, TypeOK, PCs
<1> QED  BY <1>1, TypeStep, PTL DEF Spec

-----------------------------------------------------------------------------
(* What the tail of a turn can do, case by case *)

LEMMA FinishOutcome ==
    ASSUME NEW h0 \in HartType, NEW lpc, NEW at, Finish(h0, lpc, at),
           NEW h, h = SampleTimer(h0)
    PROVE  /\ h \in HartType
           /\ \/ /\ h.mie \cap h.mip # {}
                 /\ \E c \in IntCodes : \E m \in IntModes(h, c) :
                       hart' = LoopCheck(interrupt_function(h, c, m), lpc)
              \/ /\ h.mie \cap h.mip = {}
                 /\ \E c \in h.flags : \E m \in ExcModes(h, c) :
                       hart' = LoopCheck(excep_function(
                          [h EXCEPT !.flags = @ \ {c}], h.pc, c, m), lpc)
              \/ /\ h.mie \cap h.mip = {} /\ h.flags = {}
                 /\ hart' = LoopCheck(h, lpc)
<1>1. h \in HartType
  BY SampleTimerType
<1>2. h.mie \subseteq IntCodes
  BY <1>1 DEF HartType
<1> QED  BY <1>1, <1>2 DEF Finish, Commit, Highest

\* The three outcomes of a trap, for a mode trap_mode_select may return.
LEMMA ExcepCases ==
    ASSUME NEW h \in HartType, NEW npc, NEW c, NEW m \in ExcModes(h, c)
    PROVE  LET e == excep_function(h, npc, c, m)
           IN  \/ /\ m = UMODE /\ (h.cp = HMODE \/ h.sedeleg # {})
                  /\ e = [h EXCEPT !.halt = "exit4"]
               \/ /\ m = SMODE /\ h.cp # MMODE
                  /\ e = EnterS(h, Prev(npc), ExcCode(h, c), h.stvec.base)
               \/ /\ m = MMODE
                  /\ e = EnterM(h, Prev(npc), ExcCode(h, c), h.mtvec.base)
               \/ m = HMODE /\ h.cp = HMODE /\ e = [h EXCEPT !.pc = npc]
<1>1. h.cp \in {UMODE, SMODE, HMODE, MMODE}
  BY DEF HartType, Priv
<1>2. /\ m \in {UMODE, SMODE, HMODE, MMODE}
      /\ m = SMODE => h.cp # MMODE
      /\ m = HMODE => h.cp = HMODE
      /\ m = UMODE => h.cp = HMODE \/ h.sedeleg # {}
  BY <1>1 DEF ExcModes, trap_mode_select, Priv, UMODE, SMODE, HMODE, MMODE
<1> QED  BY <1>2 DEF excep_function, UMODE, SMODE, HMODE, MMODE

LEMMA InterruptCases ==
    ASSUME NEW h \in HartType, NEW c, NEW m \in IntModes(h, c)
    PROVE  LET i == interrupt_function(h, c, m)
           IN  \/ i = h
               \/ /\ h.cp = HMODE \/ h.sideleg # {}
                  /\ i = [h EXCEPT !.halt = "exit1"]
               \/ /\ h.cp # MMODE
                  /\ \E x \in {"exit2", "run"} :
                        /\ x = "run" \/ h.stvec.mode = 1
                        /\ i = [EnterS(h, h.pc, Interrupt(c), IntVector(h.stvec))
                                   EXCEPT !.halt = x]
               \/ /\ h.mstatus.mie = 1
                  /\ \E x \in {"exit3", "exit5", "run"} :
                        /\ x = "run" \/ h.mtvec.mode = 1 \/ h.cp = MMODE
                        /\ i = [EnterM(h, h.pc, Interrupt(c), IntVector(h.mtvec))
                                   EXCEPT !.halt = x]
<1>1. h.cp \in {UMODE, SMODE, HMODE, MMODE}
  BY DEF HartType, Priv
<1>2. /\ m = SMODE => h.cp # MMODE
      /\ m = UMODE => h.cp = HMODE \/ h.sideleg # {}
  BY <1>1 DEF IntModes, trap_mode_select, Priv, UMODE, SMODE, HMODE, MMODE
<1> QED  BY <1>2 DEF interrupt_function, UMODE, SMODE, HMODE, MMODE

-----------------------------------------------------------------------------
(* The actions, by what they do before the tail of the turn *)

\* g and h agree on everything that decides how traps are taken.
Core(g, h) ==
    /\ g.cp = h.cp /\ g.mstatus = h.mstatus /\ g.mie = h.mie
    /\ g.mtvec = h.mtvec /\ g.stvec = h.stvec /\ g.satp = h.satp
    /\ g.sedeleg = h.sedeleg /\ g.sideleg = h.sideleg
    /\ g.medeleg = h.medeleg /\ g.mideleg = h.mideleg
    /\ g.scause = h.scause /\ g.sepc = h.sepc

LEMMA TickCore ==
    ASSUME TypeOK, NEW h \in Tick(hart)
    PROVE  /\ h \in HartType /\ Core(h, hart) /\ h.pc = hart.pc
           /\ h.flags = hart.flags /\ h.halt = hart.halt /\ h.stval = hart.stval
           /\ h.pc \in PCs /\ Succ(h.pc) \in PCs
BY TickType, SuccPrevType DEF Tick, TypeOK, HartType, Core

LEMMA QuietTurn ==
    ASSUME TypeOK, Plain \/ Jump \/ ClintWrite \/ PlicAccess
    PROVE  \E g \in HartType : \E lpc, at :
              /\ Core(g, hart) /\ g.flags = hart.flags /\ g.halt = hart.halt
              /\ g.stval = hart.stval
              /\ Finish(g, lpc, at)
<1>1. CASE Plain \/ Jump
  <2>1. PICK h \in Tick(hart), q \in PCs :
           Finish([h EXCEPT !.pc = q], h.pc, raisedAt)
    BY <1>1, TickCore DEF Plain, Jump
  <2> DEFINE g == [h EXCEPT !.pc = q]
  <2>2. /\ g \in HartType /\ Core(g, h) /\ g.flags = h.flags /\ g.halt = h.halt
        /\ g.stval = h.stval
    BY TickCore DEF HartType, Core
  <2> HIDE DEF g
  <2> QED  BY <2>1, <2>2, TickCore, ZenonT(60) DEF g, Core
<1>2. CASE ClintWrite
  <2>1. PICK h \in Tick(hart), t \in Timer :
           Finish([h EXCEPT !.timer = t, !.pc = Succ(@)], h.pc, raisedAt)
    BY <1>2 DEF ClintWrite
  <2> DEFINE g == [h EXCEPT !.timer = t, !.pc = Succ(@)]
  <2>2. /\ g \in HartType /\ Core(g, h) /\ g.flags = h.flags /\ g.halt = h.halt
        /\ g.stval = h.stval
    BY TickCore DEF HartType, Core
  <2> HIDE DEF g
  <2> QED  BY <2>1, <2>2, TickCore, ZenonT(60) DEF g, Core
<1>3. CASE PlicAccess
  <2>1. PICK h \in Tick(hart), on \in BOOLEAN :
          Finish([h EXCEPT !.mip = IF on THEN @ \cup {SEI} ELSE @ \ {SEI},
                            !.pc = Succ(@)], h.pc, raisedAt)
    BY <1>3 DEF PlicAccess
  <2> DEFINE x == IF on THEN h.mip \cup {SEI} ELSE h.mip \ {SEI}
             g == [h EXCEPT !.mip = x, !.pc = Succ(@)]
  <2>2. x \in SUBSET IntCodes
    BY TickCore DEF HartType, IntCodes
  <2>3. Finish(g, h.pc, raisedAt)
    BY <2>1
  <2> HIDE DEF x
  <2>4. /\ g \in HartType /\ Core(g, h) /\ g.flags = h.flags /\ g.halt = h.halt
        /\ g.stval = h.stval
    BY <2>2, TickCore DEF HartType, Core
  <2> HIDE DEF g
  <2> QED  BY <2>3, <2>4, TickCore DEF Core
<1> QED  BY <1>1, <1>2, <1>3

LEMMA RaisingTurn ==
    ASSUME TypeOK, Illegal \/ LoadMisaligned \/ AmoMisaligned \/ Ebreak
    PROVE  \E g \in HartType, c \in ExcFlags : \E lpc, at :
              /\ Core(g, hart) /\ g.flags = hart.flags \cup {c}
              /\ g.halt = hart.halt /\ g.stval = hart.stval /\ Finish(g, lpc, at)
<1>1. PICK h \in Tick(hart), a \in TVals, c \in ExcFlags :
         \/ Raise([h EXCEPT !.mtval = a], c, h.pc)
         \/ Raise(h, c, h.pc)
  <2>1. 0 \in TVals /\ InsnBits \in TVals /\ DataAddrs \subseteq TVals
    BY GuestAssumption, SizeAssumption DEF TVals, InsnBits, PCs
  <2>2. CASE Illegal \/ Ebreak
    BY <2>1, <2>2 DEF Illegal, Ebreak, ExcFlags
  <2>3. CASE LoadMisaligned \/ AmoMisaligned
    BY <2>1, <2>3 DEF LoadMisaligned, AmoMisaligned, ExcFlags
  <2> QED  BY <2>2, <2>3
<1>2. PICK h1 \in {h, [h EXCEPT !.mtval = a]} : Raise(h1, c, h.pc)
  BY <1>1
<1>3. /\ h1 \in HartType /\ Core(h1, h) /\ h1.flags = h.flags /\ h1.halt = h.halt
      /\ h1.stval = h.stval
  BY TickCore DEF HartType, Core
<1> DEFINE g == [h1 EXCEPT !.flags = @ \cup {c}, !.pc = Succ(h.pc)]
<1>4. /\ g \in HartType /\ Core(g, h1) /\ g.flags = h1.flags \cup {c}
      /\ g.halt = h1.halt /\ g.stval = h1.stval
  BY <1>3, TickCore, ZenonT(60) DEF HartType, Core
<1>5. Finish(g, h.pc, [raisedAt EXCEPT ![c] = h.pc])
  BY <1>2 DEF Raise
<1> HIDE DEF g
<1> QED  BY <1>3, <1>4, <1>5, TickCore DEF Core

LEMMA EndingTurn ==
    ASSUME TypeOK, FetchExit \/ FetchOutsideRam \/ BusError \/ Uret \/ Fence
    PROVE  /\ Core(hart', hart) /\ hart'.flags = hart.flags /\ hart'.stval = hart.stval
           /\ hart'.halt \in {hart.halt, "exit0", "outside_ram"}
<1>1. PICK h \in Tick(hart), q \in PCs, x \in {hart.halt, "exit0", "outside_ram"} :
         \/ hart' = [h EXCEPT !.halt = x]
         \/ hart' = [h EXCEPT !.pc = q, !.halt = x]
         \/ hart' = [h EXCEPT !.pc = q] /\ x = h.halt
  BY TickCore DEF FetchExit, FetchOutsideRam, BusError, Uret, Fence, Commit
<1>2. h \in HartType
  BY TickCore
<1>3. /\ Core(hart', h) /\ hart'.flags = h.flags /\ hart'.halt = x
      /\ hart'.stval = h.stval
  BY <1>1, <1>2, ZenonT(60) DEF HartType, Core
<1> QED  BY <1>3, TickCore DEF Core

LEMMA FaultTurn ==
    ASSUME TypeOK, FetchFault \/ LoadFault \/ StoreFault
    PROVE  \E h \in HartType, c \in Codes : \E m \in ExcModes(h, c) :
             LET e == excep_function(h, Succ(h.pc), c, m)
             IN  /\ Core(h, hart) /\ h.flags = hart.flags /\ h.halt = hart.halt
                 /\ Core(hart', e) /\ hart'.flags = e.flags
                 /\ hart'.halt = e.halt /\ hart'.pc = e.pc
<1>1. CASE FetchFault
  <2>1. PICK h \in Tick(hart) : \E m \in ExcModes(h, CAUSE_FETCH_PAGE_FAULT) :
          hart' = [excep_function(h, Succ(h.pc), CAUSE_FETCH_PAGE_FAULT, m)
                     EXCEPT !.mtval = h.pc, !.stval = h.pc]
    BY <1>1 DEF FetchFault, Commit
  <2>2. PICK m \in ExcModes(h, CAUSE_FETCH_PAGE_FAULT) :
          hart' = [excep_function(h, Succ(h.pc), CAUSE_FETCH_PAGE_FAULT, m)
                     EXCEPT !.mtval = h.pc, !.stval = h.pc]
    BY <2>1
  <2>3. m \in Priv /\ CAUSE_FETCH_PAGE_FAULT \in Codes
    BY TickCore, ModeTypes DEF CAUSE_FETCH_PAGE_FAULT, Codes
  <2> DEFINE e == excep_function(h, Succ(h.pc), CAUSE_FETCH_PAGE_FAULT, m)
  <2>4. e \in HartType
    BY <2>3, TickCore, ExcepType
  <2>5. hart' = [e EXCEPT !.mtval = h.pc, !.stval = h.pc]
    BY <2>2
  <2> HIDE DEF e
  <2>6. /\ Core(hart', e) /\ hart'.flags = e.flags
        /\ hart'.halt = e.halt /\ hart'.pc = e.pc
    BY <2>4, <2>5 DEF HartType, Core
  <2> QED  BY <2>3, <2>6, TickCore DEF e
<1>2. CASE LoadFault \/ StoreFault
  <2>1. PICK h \in Tick(hart), a \in DataAddrs,
             c \in {CAUSE_LOAD_PAGE_FAULT, CAUSE_STORE_PAGE_FAULT} :
          \E m \in ExcModes(h, c) :
             hart' = RouteTval(excep_function(h, Succ(h.pc), c, m), a)
    BY <1>2 DEF LoadFault, StoreFault, DataFault, Commit
  <2>2. PICK m \in ExcModes(h, c) :
             hart' = RouteTval(excep_function(h, Succ(h.pc), c, m), a)
    BY <2>1
  <2>3. m \in Priv /\ c \in Codes
    BY TickCore, ModeTypes DEF CAUSE_LOAD_PAGE_FAULT, CAUSE_STORE_PAGE_FAULT, Codes
  <2> DEFINE e == excep_function(h, Succ(h.pc), c, m)
  <2>4. e \in HartType
    BY <2>3, TickCore, ExcepType
  <2>5. hart' = RouteTval(e, a)
    BY <2>2
  <2> HIDE DEF e
  <2>6. e.cp \in {MMODE, SMODE, UMODE, HMODE}
    BY <2>4 DEF HartType, Priv
  <2>7. /\ Core(hart', e) /\ hart'.flags = e.flags
        /\ hart'.halt = e.halt /\ hart'.pc = e.pc
    BY <2>4, <2>5, <2>6 DEF HartType, Core, RouteTval, UMODE, SMODE, HMODE, MMODE
  <2> QED  BY <2>3, <2>7, TickCore DEF e
<1> QED  BY <1>1, <1>2

LEMMA LoopCheckCore ==
    \A g \in HartType : \A lpc :
        /\ Core(LoopCheck(g, lpc), g)
        /\ LoopCheck(g, lpc).flags = g.flags /\ LoopCheck(g, lpc).pc = g.pc
        /\ LoopCheck(g, lpc).stval = g.stval
        /\ LoopCheck(g, lpc).halt \in {g.halt, "infinite_loop"}
BY DEF LoopCheck, HartType, Core

LEMMA SampleTimerCore ==
    \A g \in HartType : /\ Core(SampleTimer(g), g)
                        /\ SampleTimer(g).flags = g.flags
                        /\ SampleTimer(g).pc = g.pc
                        /\ SampleTimer(g).stval = g.stval
                        /\ SampleTimer(g).halt = g.halt
BY DEF SampleTimer, HartType, Core

-----------------------------------------------------------------------------
(* Privilege *)

\* MppBelowMachine, of one hart.
Below(h) == /\ h.cp # MMODE => h.mstatus.mpp # MMODE
            /\ h.mstatus.spp # MMODE

LEMMA EnterBelow ==
    ASSUME NEW h \in HartType, Below(h), NEW epc, NEW cause, NEW pc
    PROVE  /\ h.cp # MMODE => Below(EnterS(h, epc, cause, pc))
           /\ Below(EnterM(h, epc, cause, pc))
BY DEF EnterS, EnterM, HartType, Mstatus, Below

\* Clearing a flag changes nothing trap_mode_select looks at.
LEMMA ClearFlag ==
    ASSUME NEW h \in HartType, NEW c
    PROVE  LET g == [h EXCEPT !.flags = @ \ {c}]
           IN  /\ g \in HartType /\ Core(g, h) /\ g.flags = h.flags \ {c}
               /\ g.halt = h.halt /\ g.pc = h.pc /\ g.stval = h.stval
               /\ ExcModes(g, c) = ExcModes(h, c)
BY DEF HartType, Core, ExcModes, ExcCode

LEMMA BelowCore == \A g, h : Core(g, h) => (Below(g) <=> Below(h))
BY DEF Core, Below

LEMMA ExcepBelow ==
    ASSUME NEW h \in HartType, Below(h), NEW npc \in PCs, NEW c \in Codes,
           NEW m \in ExcModes(h, c)
    PROVE  Below(excep_function(h, npc, c, m))
<1>1. Below([h EXCEPT !.halt = "exit4"]) /\ Below([h EXCEPT !.pc = npc])
  BY DEF HartType, Below
<1>2. /\ h.cp # MMODE =>
            Below(EnterS(h, Prev(npc), ExcCode(h, c), h.stvec.base))
      /\ Below(EnterM(h, Prev(npc), ExcCode(h, c), h.mtvec.base))
  BY EnterBelow
<1> QED  BY <1>1, <1>2, ExcepCases

LEMMA InterruptBelow ==
    ASSUME NEW h \in HartType, Below(h), NEW c \in IntCodes,
           NEW m \in IntModes(h, c)
    PROVE  Below(interrupt_function(h, c, m))
<1> DEFINE es == EnterS(h, h.pc, Interrupt(c), IntVector(h.stvec))
           em == EnterM(h, h.pc, Interrupt(c), IntVector(h.mtvec))
<1>1. Below([h EXCEPT !.halt = "exit1"])
  BY DEF HartType, Below
<1>3. es \in HartType /\ em \in HartType
  BY IntVectorType, EnterSType, EnterMType
<1>4. (h.cp # MMODE => Below(es)) /\ Below(em)
  BY EnterBelow
<1> HIDE DEF es, em
<1>5. \A x : /\ h.cp # MMODE => Below([es EXCEPT !.halt = x])
             /\ Below([em EXCEPT !.halt = x])
  BY <1>3, <1>4 DEF HartType, Below
<1>6. LET i == interrupt_function(h, c, m)
      IN  \/ i = h
          \/ i = [h EXCEPT !.halt = "exit1"]
          \/ h.cp # MMODE /\ \E x : i = [es EXCEPT !.halt = x]
          \/ \E x : i = [em EXCEPT !.halt = x]
  BY InterruptCases DEF es, em
<1> QED  BY <1>1, <1>5, <1>6

LEMMA FinishBelow ==
    ASSUME NEW h0 \in HartType, Below(h0), NEW lpc, NEW at, Finish(h0, lpc, at)
    PROVE  Below(hart')
<1> DEFINE h == SampleTimer(h0)
<1>1. h \in HartType /\ Below(h)
  BY SampleTimerType, SampleTimerCore, BelowCore
<1>2. \A g \in HartType : \A q : Below(g) => Below(LoopCheck(g, q))
  BY LoopCheckCore, BelowCore
<1> HIDE DEF h
<1>3. CASE \E c \in IntCodes : \E m \in IntModes(h, c) :
              hart' = LoopCheck(interrupt_function(h, c, m), lpc)
  BY <1>1, <1>2, <1>3, InterruptBelow, InterruptType, ModeTypes
<1>4. CASE \E c \in h.flags : \E m \in ExcModes(h, c) :
              hart' = LoopCheck(excep_function(
                          [h EXCEPT !.flags = @ \ {c}], h.pc, c, m), lpc)
  <2>1. PICK c \in h.flags, m \in Priv :
            /\ m \in ExcModes(h, c)
            /\ hart' = LoopCheck(excep_function(
                          [h EXCEPT !.flags = @ \ {c}], h.pc, c, m), lpc)
    BY <1>1, <1>4, ModeTypes
  <2> DEFINE g == [h EXCEPT !.flags = @ \ {c}]
  <2>2. /\ g \in HartType /\ Below(g) /\ h.pc \in PCs /\ c \in Codes
        /\ m \in ExcModes(g, c)
    BY <1>1, <2>1, ClearFlag, FlagCodes, BelowCore DEF HartType
  <2>3. hart' = LoopCheck(excep_function(g, h.pc, c, m), lpc)
    BY <2>1
  <2> HIDE DEF g
  <2> QED  BY <1>2, <2>2, <2>3, ExcepBelow, ExcepType
<1>5. CASE hart' = LoopCheck(h, lpc)
  BY <1>1, <1>2, <1>5
<1> QED  BY <1>3, <1>4, <1>5, FinishOutcome DEF h

LEMMA BelowStep ==
    ASSUME "sret" \notin Guest[MMODE], TypeOK, Below(hart), [Next]_vars
    PROVE  Below(hart')
<1>1. CASE Plain \/ Jump \/ ClintWrite \/ PlicAccess
  BY <1>1, QuietTurn, BelowCore, FinishBelow
<1>2. CASE Illegal \/ LoadMisaligned \/ AmoMisaligned \/ Ebreak
  BY <1>2, RaisingTurn, BelowCore, FinishBelow
<1>3. CASE Ecall
  <2>1. PICK h \in Tick(hart) : \E m \in ExcModes(h, EcallCode(h.cp)) :
          LET g == excep_function(h, Succ(h.pc), EcallCode(h.cp), m)
          IN  Finish(g, h.pc, raisedAt) \/ hart' = g
    BY <1>3 DEF Ecall, Commit
  <2>2. PICK m \in ExcModes(h, EcallCode(h.cp)) :
          LET g == excep_function(h, Succ(h.pc), EcallCode(h.cp), m)
          IN  Finish(g, h.pc, raisedAt) \/ hart' = g
    BY <2>1
  <2>3. h \in HartType /\ Below(h) /\ Succ(h.pc) \in PCs
    BY TickCore, BelowCore
  <2>4. EcallCode(h.cp) \in Codes /\ m \in Priv
    BY <2>3, EcallCodeType, ModeTypes DEF HartType
  <2>5. /\ excep_function(h, Succ(h.pc), EcallCode(h.cp), m) \in HartType
        /\ Below(excep_function(h, Succ(h.pc), EcallCode(h.cp), m))
    BY <2>3, <2>4, ExcepType, ExcepBelow
  <2> QED  BY <2>2, <2>5, FinishBelow
<1>4. CASE Mret
  <2>1. PICK h \in Tick(hart) : Finish(MretState(h), h.pc, raisedAt)
    BY <1>4 DEF Mret
  <2>2. h \in HartType /\ Below(h)
    BY TickCore, BelowCore
  <2>3. Below(MretState(h))
    BY <2>2, RetFields DEF Below, UMODE, MMODE
  <2> QED  BY <2>1, <2>2, <2>3, RetType, FinishBelow
<1>5. CASE Sret
  <2>1. PICK h \in Tick(hart) : Finish(SretState(h), h.pc, raisedAt)
    BY <1>5 DEF Sret
  <2>2. h \in HartType /\ Below(h) /\ h.cp = hart.cp
    BY TickCore, BelowCore DEF Core
  <2>3. h.cp # MMODE
    BY <1>5, <2>2 DEF Sret, Fetched
  <2>4. Below(SretState(h))
    BY <2>2, <2>3, RetFields DEF Below, UMODE, MMODE
  <2> QED  BY <2>1, <2>2, <2>4, RetType, FinishBelow
<1>6. CASE CsrWrite
  <2>1. PICK h \in Tick(hart), r \in CsrNames : \E v \in CsrVals[r] :
          /\ CsrAllowed(r, h.cp)
          /\ Finish([csr_write(h, r, v) EXCEPT !.pc = Succ(@)], h.pc, raisedAt)
    BY <1>6 DEF CsrWrite
  <2>2. PICK v \in CsrVals[r] :
          /\ CsrAllowed(r, h.cp)
          /\ Finish([csr_write(h, r, v) EXCEPT !.pc = Succ(@)], h.pc, raisedAt)
    BY <2>1
  <2>3. h \in HartType /\ Below(h) /\ v \in CsrTypes(r)
    BY TickCore, BelowCore, GuestAssumption
  <2> DEFINE w == csr_write(h, r, v)
             g == [w EXCEPT !.pc = Succ(@)]
  <2>4. w \in HartType
    BY <2>3, CsrWriteType
  <2>5. Below(w)
    <3>1. CASE r = "mstatus"
      BY <2>2, <2>3, <3>1
      DEF csr_write, CsrAllowed, CsrTypes, HartType, Mstatus, Below, Bit, MMODE
    <3>2. CASE r = "sstatus"
      <4>1. v.spp \in Bit /\ h.mstatus \in Mstatus
        BY <2>3, <3>2 DEF CsrTypes, Sstatus, HartType
      <4>2. /\ w.cp = h.cp
            /\ w.mstatus = [h.mstatus EXCEPT !.uie = v.uie, !.sie = v.sie,
                               !.spie = v.spie, !.spp = v.spp]
        BY <2>3, <3>2 DEF csr_write, HartType
      <4> HIDE DEF w
      <4>3. w.mstatus.spp = v.spp /\ w.mstatus.mpp = h.mstatus.mpp
        BY <4>1, <4>2 DEF Mstatus
      <4> QED  BY <2>3, <4>1, <4>2, <4>3 DEF Below, Bit, MMODE
    <3>3. CASE r = "ustatus"
      BY <2>3, <3>3 DEF csr_write, HartType, Mstatus, Below
    <3>4. CASE r \notin {"mstatus", "sstatus", "ustatus"}
      <4>1. w.cp = h.cp /\ w.mstatus = h.mstatus
        BY <2>3, <3>4, CsrWriteCp
      <4> QED  BY <2>3, <4>1 DEF Below
    <3> QED  BY <3>1, <3>2, <3>3, <3>4
  <2> HIDE DEF w
  <2>6. g \in HartType /\ Below(g)
    BY <2>4, <2>5, SuccPrevType DEF HartType, Below
  <2>7. Finish(g, h.pc, raisedAt)
    BY <2>2 DEF w
  <2> QED  BY <2>6, <2>7, FinishBelow
<1>7. CASE FetchExit \/ FetchOutsideRam \/ BusError \/ Uret \/ Fence
  BY <1>7, EndingTurn, BelowCore
<1>8. CASE FetchFault \/ LoadFault \/ StoreFault
  <2>1. PICK h \in HartType, c \in Codes : \E m \in ExcModes(h, c) :
           /\ Core(h, hart)
           /\ Core(hart', excep_function(h, Succ(h.pc), c, m))
    BY <1>8, FaultTurn
  <2>2. Below(h) /\ Succ(h.pc) \in PCs
    BY <2>1, BelowCore, SuccPrevType DEF HartType
  <2> QED  BY <2>1, <2>2, ExcepBelow, BelowCore
<1>9. CASE Stopped \/ UNCHANGED vars
  BY <1>9 DEF Stopped, vars
<1> QED
  BY <1>1, <1>2, <1>3, <1>4, <1>5, <1>6, <1>7, <1>8, <1>9
  DEF Next, Checked, Unchecked

\* Whatever the firmware and whatever lower-privileged code does (mret and sret
\* are not refused to it), mpp never names M below M-mode: provided machine-mode
\* code itself returns with mret only.
THEOREM Privilege ==
    ASSUME "sret" \notin Guest[MMODE]
    PROVE  Spec => []MppBelowMachine
<1>1. Init => Below(hart)
  BY FirmwareAssumption DEF Init, Below, Bit, MMODE
<1>2. TypeOK /\ Below(hart) /\ [Next]_vars => Below(hart)'
  BY BelowStep
<1>3. Below(hart) => MppBelowMachine
  BY DEF Below, MppBelowMachine
<1> QED  BY <1>1, <1>2, <1>3, TypeCorrect, PTL DEF Spec

-----------------------------------------------------------------------------
(* Entering machine mode *)

\* M-mode, if that is the mode, has just been entered by a trap.
Entered(h) ==
    h.cp = MMODE => h.mstatus.mie = 0 /\ h.pc \in {h.mtvec.base, 0}

LEMMA EnterEntered ==
    ASSUME NEW h \in HartType, NEW epc, NEW cause, NEW pc
    PROVE  /\ Entered(EnterS(h, epc, cause, pc))
           /\ pc \in {h.mtvec.base, 0} => Entered(EnterM(h, epc, cause, pc))
<1>1. EnterS(h, epc, cause, pc).cp = SMODE
  BY DEF EnterS, HartType
<1>2. /\ EnterM(h, epc, cause, pc).pc = pc
      /\ EnterM(h, epc, cause, pc).mtvec = h.mtvec
      /\ EnterM(h, epc, cause, pc).mstatus =
            [h.mstatus EXCEPT !.mpp = h.cp, !.mpie = h.mstatus.mie, !.mie = 0]
  BY DEF EnterM, HartType
<1>3. EnterM(h, epc, cause, pc).mstatus.mie = 0
  BY <1>2 DEF HartType, Mstatus
<1> QED  BY <1>1, <1>2, <1>3 DEF Entered, SMODE, MMODE

LEMMA ExcepEntered ==
    ASSUME NEW h \in HartType, Entered(h), NEW npc, NEW c,
           NEW m \in ExcModes(h, c)
    PROVE  Entered(excep_function(h, npc, c, m))
<1>1. Entered([h EXCEPT !.halt = "exit4"])
  BY DEF HartType, Entered
<1>2. h.cp = HMODE => Entered([h EXCEPT !.pc = npc])
  BY DEF HartType, Entered, HMODE, MMODE
<1>3. /\ Entered(EnterS(h, Prev(npc), ExcCode(h, c), h.stvec.base))
      /\ Entered(EnterM(h, Prev(npc), ExcCode(h, c), h.mtvec.base))
  BY EnterEntered
<1> QED  BY <1>1, <1>2, <1>3, ExcepCases

LEMMA InterruptEntered ==
    ASSUME NEW h \in HartType, Entered(h), NEW c \in IntCodes,
           NEW m \in IntModes(h, c)
    PROVE  Entered(interrupt_function(h, c, m))
<1> DEFINE es == EnterS(h, h.pc, Interrupt(c), IntVector(h.stvec))
           em == EnterM(h, h.pc, Interrupt(c), IntVector(h.mtvec))
<1>1. Entered([h EXCEPT !.halt = "exit1"])
  BY DEF HartType, Entered
<1>2. es \in HartType /\ em \in HartType
  BY IntVectorType, EnterSType, EnterMType
<1>3. Entered(es) /\ Entered(em)
  BY EnterEntered DEF IntVector
<1> HIDE DEF es, em
<1>4. \A x : Entered([es EXCEPT !.halt = x]) /\ Entered([em EXCEPT !.halt = x])
  BY <1>2, <1>3 DEF HartType, Entered
<1>5. LET i == interrupt_function(h, c, m)
      IN  \/ i = h
          \/ i = [h EXCEPT !.halt = "exit1"]
          \/ \E x : i = [es EXCEPT !.halt = x]
          \/ \E x : i = [em EXCEPT !.halt = x]
  BY InterruptCases DEF es, em
<1> QED  BY <1>1, <1>4, <1>5

LEMMA EnteredCore ==
    \A g, h : Core(g, h) /\ g.pc = h.pc => (Entered(g) <=> Entered(h))
BY DEF Core, Entered

LEMMA FinishEntered ==
    ASSUME NEW h0 \in HartType, Entered(h0), NEW lpc, NEW at, Finish(h0, lpc, at)
    PROVE  Entered(hart')
<1> DEFINE h == SampleTimer(h0)
<1>1. h \in HartType /\ Entered(h)
  BY SampleTimerType, SampleTimerCore, EnteredCore
<1>2. \A g \in HartType : \A q : Entered(g) => Entered(LoopCheck(g, q))
  BY LoopCheckCore, EnteredCore
<1> HIDE DEF h
<1>3. CASE \E c \in IntCodes : \E m \in IntModes(h, c) :
              hart' = LoopCheck(interrupt_function(h, c, m), lpc)
  BY <1>1, <1>2, <1>3, InterruptEntered, InterruptType, ModeTypes
<1>4. CASE \E c \in h.flags : \E m \in ExcModes(h, c) :
              hart' = LoopCheck(excep_function(
                          [h EXCEPT !.flags = @ \ {c}], h.pc, c, m), lpc)
  <2>1. PICK c \in h.flags, m \in Priv :
            /\ m \in ExcModes(h, c)
            /\ hart' = LoopCheck(excep_function(
                          [h EXCEPT !.flags = @ \ {c}], h.pc, c, m), lpc)
    BY <1>1, <1>4, ModeTypes
  <2> DEFINE g == [h EXCEPT !.flags = @ \ {c}]
  <2>2. /\ g \in HartType /\ Entered(g) /\ h.pc \in PCs /\ c \in Codes
        /\ m \in ExcModes(g, c)
    BY <1>1, <2>1, ClearFlag, FlagCodes, EnteredCore DEF HartType
  <2>3. hart' = LoopCheck(excep_function(g, h.pc, c, m), lpc)
    BY <2>1
  <2> HIDE DEF g
  <2> QED  BY <1>2, <2>2, <2>3, ExcepEntered, ExcepType
<1>5. CASE hart' = LoopCheck(h, lpc)
  BY <1>1, <1>2, <1>5
<1> QED  BY <1>3, <1>4, <1>5, FinishOutcome DEF h

LEMMA EnteredStep ==
    ASSUME TypeOK, Below(hart), hart.cp # MMODE, Next
    PROVE  Entered(hart')
<1>a. \A g : Core(g, hart) => Entered(g)
  BY DEF Core, Entered
<1>1. CASE Plain \/ Jump \/ ClintWrite \/ PlicAccess
  BY <1>1, <1>a, QuietTurn, FinishEntered
<1>2. CASE Illegal \/ LoadMisaligned \/ AmoMisaligned \/ Ebreak
  BY <1>2, <1>a, RaisingTurn, FinishEntered
<1>3. CASE Ecall
  <2>1. PICK h \in Tick(hart) : \E m \in ExcModes(h, EcallCode(h.cp)) :
          LET g == excep_function(h, Succ(h.pc), EcallCode(h.cp), m)
          IN  Finish(g, h.pc, raisedAt) \/ hart' = g
    BY <1>3 DEF Ecall, Commit
  <2>2. PICK m \in ExcModes(h, EcallCode(h.cp)) :
          LET g == excep_function(h, Succ(h.pc), EcallCode(h.cp), m)
          IN  Finish(g, h.pc, raisedAt) \/ hart' = g
    BY <2>1
  <2>3. h \in HartType /\ Entered(h) /\ Succ(h.pc) \in PCs
    BY <1>a, TickCore
  <2>4. EcallCode(h.cp) \in Codes /\ m \in Priv
    BY <2>3, EcallCodeType, ModeTypes DEF HartType
  <2>5. /\ excep_function(h, Succ(h.pc), EcallCode(h.cp), m) \in HartType
        /\ Entered(excep_function(h, Succ(h.pc), EcallCode(h.cp), m))
    BY <2>3, <2>4, ExcepType, ExcepEntered
  <2> QED  BY <2>2, <2>5, FinishEntered
<1>4. CASE Mret \/ Sret
  <2>1. PICK h \in Tick(hart) : \/ Finish(MretState(h), h.pc, raisedAt)
                                \/ Finish(SretState(h), h.pc, raisedAt)
    BY <1>4 DEF Mret, Sret
  <2>2. h \in HartType /\ h.mstatus.mpp # MMODE /\ h.mstatus.spp # MMODE
    BY TickCore DEF Core, Below
  <2>3. Entered(MretState(h)) /\ Entered(SretState(h))
    BY <2>2, RetFields DEF Entered
  <2> QED  BY <2>1, <2>2, <2>3, RetType, FinishEntered
<1>5. CASE CsrWrite
  <2>1. PICK h \in Tick(hart), r \in CsrNames : \E v \in CsrVals[r] :
          Finish([csr_write(h, r, v) EXCEPT !.pc = Succ(@)], h.pc, raisedAt)
    BY <1>5 DEF CsrWrite
  <2>2. PICK v \in CsrVals[r] :
          Finish([csr_write(h, r, v) EXCEPT !.pc = Succ(@)], h.pc, raisedAt)
    BY <2>1
  <2>3. h \in HartType /\ h.cp # MMODE /\ v \in CsrTypes(r)
    BY TickCore, GuestAssumption DEF Core
  <2> DEFINE w == csr_write(h, r, v)
             g == [w EXCEPT !.pc = Succ(@)]
  <2>4. w \in HartType /\ w.cp = h.cp
    BY <2>3, CsrWriteType, CsrWriteCp
  <2>5. Finish(g, h.pc, raisedAt)
    BY <2>2
  <2> HIDE DEF w
  <2>6. g \in HartType /\ Entered(g)
    BY <2>3, <2>4, SuccPrevType DEF HartType, Entered
  <2> QED  BY <2>5, <2>6, FinishEntered
<1>6. CASE FetchExit \/ FetchOutsideRam \/ BusError \/ Uret \/ Fence
  BY <1>6, <1>a, EndingTurn
<1>7. CASE FetchFault \/ LoadFault \/ StoreFault
  <2>1. PICK h \in HartType, c \in Codes : \E m \in ExcModes(h, c) :
           LET e == excep_function(h, Succ(h.pc), c, m)
           IN  Core(h, hart) /\ Core(hart', e) /\ hart'.pc = e.pc
    BY <1>7, FaultTurn
  <2> QED  BY <2>1, <1>a, ExcepEntered, EnteredCore
<1>8. CASE Stopped
  BY <1>8 DEF Stopped, vars, Entered
<1> QED
  BY <1>1, <1>2, <1>3, <1>4, <1>5, <1>6, <1>7, <1>8
  DEF Next, Checked, Unchecked

\* The only way from a lower mode into M-mode is a trap, which arrives at the
\* mtvec vector with MIE clear.
THEOREM MachineEntry ==
    ASSUME "sret" \notin Guest[MMODE]
    PROVE  Spec => MachineEnteredByTrap
<1> DEFINE Step == (hart.cp # MMODE /\ hart'.cp = MMODE) =>
                      /\ hart'.mstatus.mie = 0
                      /\ hart'.pc \in {hart'.mtvec.base, 0}
<1>1. TypeOK /\ MppBelowMachine /\ [Next]_vars => [Step]_vars
  BY EnteredStep DEF Entered, Below, MppBelowMachine
<1>2. MachineEnteredByTrap <=> [][Step]_vars
  BY DEF MachineEnteredByTrap
<1> QED  BY <1>1, <1>2, TypeCorrect, Privilege, PTL DEF Spec

-----------------------------------------------------------------------------
(* No abort *)

Aborts == {"exit1", "exit2", "exit3", "exit4", "exit5"}

\* The inductive invariant behind NeverAborts.  The flags must be empty, or an
\* exception of S-mode could be taken in M-mode after an ecall and push M into
\* mpp; mpp must name S or U, or mret, which sets MIE, would stay in M-mode.
Safe(h) ==
    /\ h.mtvec.mode = 0 /\ h.stvec.mode = 0 /\ h.satp # "other"
    /\ h.sedeleg = {} /\ h.sideleg = {}
    /\ h.mstatus.mpp \in {UMODE, SMODE} /\ h.mstatus.spp \in {UMODE, SMODE}
    /\ h.cp \in {UMODE, SMODE, MMODE}
    /\ h.cp = MMODE => h.mstatus.mie = 0
    /\ h.flags = {}
    /\ h.halt \notin Aborts

LEMMA SafeCore ==
    \A g, h : (/\ Core(g, h) /\ g.flags = h.flags
               /\ g.halt \in {h.halt, "exit0", "outside_ram", "infinite_loop"})
              => (Safe(h) => Safe(g))
BY DEF Core, Safe, Aborts

\* Fields of a hart that has just taken a trap.
LEMMA EnterFields ==
    ASSUME NEW h \in HartType, NEW epc, NEW cause, NEW pc,
           NEW e \in {EnterS(h, epc, cause, pc), EnterM(h, epc, cause, pc)}
    PROVE  /\ e.mtvec = h.mtvec /\ e.stvec = h.stvec /\ e.satp = h.satp
           /\ e.sedeleg = h.sedeleg /\ e.sideleg = h.sideleg
           /\ e.mie = h.mie /\ e.flags = h.flags /\ e.halt = h.halt
           /\ e.mstatus.mpp = h.cp
           /\ e.mstatus.spp \in {h.cp, h.mstatus.spp}
           /\ \/ e.cp = SMODE
              \/ e.cp = MMODE /\ e.mstatus.mie = 0
<1>1. h.mstatus \in Mstatus
  BY DEF HartType
<1>2. CASE e = EnterS(h, epc, cause, pc)
  <2>1. /\ e.mtvec = h.mtvec /\ e.stvec = h.stvec /\ e.satp = h.satp
        /\ e.sedeleg = h.sedeleg /\ e.sideleg = h.sideleg
        /\ e.mie = h.mie /\ e.flags = h.flags /\ e.halt = h.halt
        /\ e.cp = SMODE
        /\ e.mstatus = [h.mstatus EXCEPT !.mpp = h.cp, !.spp = h.cp,
                               !.spie = h.mstatus.sie, !.sie = 0]
    BY <1>2 DEF EnterS, HartType
  <2> QED  BY <1>1, <2>1 DEF Mstatus
<1>3. CASE e = EnterM(h, epc, cause, pc)
  <2>1. /\ e.mtvec = h.mtvec /\ e.stvec = h.stvec /\ e.satp = h.satp
        /\ e.sedeleg = h.sedeleg /\ e.sideleg = h.sideleg
        /\ e.mie = h.mie /\ e.flags = h.flags /\ e.halt = h.halt
        /\ e.cp = MMODE
        /\ e.mstatus = [h.mstatus EXCEPT !.mpp = h.cp,
                               !.mpie = h.mstatus.mie, !.mie = 0]
    BY <1>3 DEF EnterM, HartType
  <2> QED  BY <1>1, <2>1 DEF Mstatus
<1> QED  BY <1>2, <1>3

LEMMA EnterSafe ==
    ASSUME NEW h \in HartType, Safe(h), h.cp # MMODE,
           NEW epc, NEW cause, NEW pc
    PROVE  Safe(EnterS(h, epc, cause, pc)) /\ Safe(EnterM(h, epc, cause, pc))
BY EnterFields DEF Safe, UMODE, SMODE, MMODE

LEMMA ExcepSafe ==
    ASSUME NEW h \in HartType, Safe(h), h.cp # MMODE, NEW npc, NEW c,
           NEW m \in ExcModes(h, c)
    PROVE  Safe(excep_function(h, npc, c, m))
<1>1. h.cp # HMODE /\ h.sedeleg = {}
  BY DEF Safe, UMODE, SMODE, HMODE, MMODE
<1>2. /\ Safe(EnterS(h, Prev(npc), ExcCode(h, c), h.stvec.base))
      /\ Safe(EnterM(h, Prev(npc), ExcCode(h, c), h.mtvec.base))
  BY EnterSafe
<1> QED  BY <1>1, <1>2, ExcepCases

LEMMA InterruptSafe ==
    ASSUME NEW h \in HartType, Safe(h), NEW c \in IntCodes,
           NEW m \in IntModes(h, c)
    PROVE  Safe(interrupt_function(h, c, m))
<1> DEFINE es == EnterS(h, h.pc, Interrupt(c), IntVector(h.stvec))
           em == EnterM(h, h.pc, Interrupt(c), IntVector(h.mtvec))
<1>1. /\ h.cp # HMODE /\ h.sideleg = {} /\ h.mtvec.mode # 1 /\ h.stvec.mode # 1
      /\ h.cp = MMODE => h.mstatus.mie # 1
  BY DEF Safe, UMODE, SMODE, HMODE, MMODE
<1>2. es \in HartType /\ em \in HartType
  BY IntVectorType, EnterSType, EnterMType
<1>3. h.cp # MMODE => Safe(es) /\ Safe(em)
  BY EnterSafe
<1> HIDE DEF es, em
<1>4. \A g \in {es, em} : Safe(g) => Safe([g EXCEPT !.halt = "run"])
  BY <1>2 DEF HartType, Safe, Aborts
<1>5. LET i == interrupt_function(h, c, m)
      IN  \/ i = h
          \/ h.cp # MMODE /\ i = [es EXCEPT !.halt = "run"]
          \/ h.cp # MMODE /\ i = [em EXCEPT !.halt = "run"]
  BY <1>1, InterruptCases DEF es, em
<1> QED  BY <1>3, <1>4, <1>5

LEMMA FinishSafe ==
    ASSUME NEW h0 \in HartType, Safe(h0), NEW lpc, NEW at, Finish(h0, lpc, at)
    PROVE  Safe(hart')
<1> DEFINE h == SampleTimer(h0)
<1>1. h \in HartType /\ Safe(h)
  BY SampleTimerType, SampleTimerCore, SafeCore
<1>2. \A g \in HartType : \A q : Safe(g) => Safe(LoopCheck(g, q))
  BY LoopCheckCore, SafeCore
<1> HIDE DEF h
<1>3. CASE \E c \in IntCodes : \E m \in IntModes(h, c) :
              hart' = LoopCheck(interrupt_function(h, c, m), lpc)
  BY <1>1, <1>2, <1>3, InterruptSafe, InterruptType, ModeTypes
<1>4. CASE hart' = LoopCheck(h, lpc)
  BY <1>1, <1>2, <1>4
<1>5. h.flags = {}
  BY <1>1 DEF Safe
<1> QED  BY <1>3, <1>4, <1>5, FinishOutcome DEF h

LEMMA SafeStep ==
    ASSUME Disciplined, TypeOK, Safe(hart), [Next]_vars
    PROVE  Safe(hart')
<1>a. hart.cp \in Priv
  BY DEF TypeOK, HartType
<1>1. CASE Plain \/ Jump \/ ClintWrite \/ PlicAccess
  BY <1>1, QuietTurn, SafeCore, FinishSafe
<1>2. CASE Illegal \/ LoadMisaligned \/ AmoMisaligned \/ Ebreak
  <2>1. Guest[hart.cp] \cap {"illegal", "load_misaligned",
                             "amo_misaligned", "ebreak"} # {}
    BY <1>2 DEF Illegal, LoadMisaligned, AmoMisaligned, Ebreak, Fetched
  <2> QED  BY <1>a, <2>1 DEF Disciplined
<1>3. CASE Ecall
  <2>1. PICK h \in Tick(hart) : \E m \in ExcModes(h, EcallCode(h.cp)) :
          LET g == excep_function(h, Succ(h.pc), EcallCode(h.cp), m)
          IN  Finish(g, h.pc, raisedAt) \/ hart' = g
    BY <1>3 DEF Ecall, Commit
  <2>2. PICK m \in ExcModes(h, EcallCode(h.cp)) :
          LET g == excep_function(h, Succ(h.pc), EcallCode(h.cp), m)
          IN  Finish(g, h.pc, raisedAt) \/ hart' = g
    BY <2>1
  <2>3. h \in HartType /\ Safe(h) /\ Succ(h.pc) \in PCs /\ h.cp = hart.cp
    BY TickCore, SafeCore DEF Core
  <2>4. h.cp # MMODE
    BY <1>3, <2>3 DEF Ecall, Fetched, Disciplined
  <2>5. EcallCode(h.cp) \in Codes /\ m \in Priv
    BY <2>3, EcallCodeType, ModeTypes DEF HartType
  <2>6. /\ excep_function(h, Succ(h.pc), EcallCode(h.cp), m) \in HartType
        /\ Safe(excep_function(h, Succ(h.pc), EcallCode(h.cp), m))
    BY <2>3, <2>4, <2>5, ExcepType, ExcepSafe
  <2> QED  BY <2>2, <2>6, FinishSafe
<1>4. CASE Mret \/ Sret
  <2>1. PICK h \in Tick(hart) : \/ Finish(MretState(h), h.pc, raisedAt)
                                \/ Finish(SretState(h), h.pc, raisedAt)
    BY <1>4 DEF Mret, Sret
  <2>2. h \in HartType /\ Safe(h)
    BY TickCore, SafeCore
  <2>3. \A g \in {MretState(h), SretState(h)} :
           /\ g.mtvec = h.mtvec /\ g.stvec = h.stvec /\ g.satp = h.satp
           /\ g.sedeleg = h.sedeleg /\ g.sideleg = h.sideleg
           /\ g.flags = h.flags /\ g.halt = h.halt
    BY <2>2 DEF MretState, SretState, HartType
  <2>4. Safe(MretState(h)) /\ Safe(SretState(h))
    BY <2>2, <2>3, RetFields DEF Safe, UMODE, SMODE, MMODE
  <2> QED  BY <2>1, <2>2, <2>4, RetType, FinishSafe
<1>5. CASE CsrWrite
  <2>1. PICK h \in Tick(hart), r \in CsrNames : \E v \in CsrVals[r] :
          /\ CsrAllowed(r, h.cp)
          /\ Finish([csr_write(h, r, v) EXCEPT !.pc = Succ(@)], h.pc, raisedAt)
    BY <1>5 DEF CsrWrite
  <2>2. PICK v \in CsrVals[r] :
          /\ CsrAllowed(r, h.cp)
          /\ Finish([csr_write(h, r, v) EXCEPT !.pc = Succ(@)], h.pc, raisedAt)
    BY <2>1
  <2>3. h \in HartType /\ Safe(h) /\ v \in CsrTypes(r)
    BY TickCore, SafeCore, GuestAssumption
  <2> DEFINE w == csr_write(h, r, v)
             g == [w EXCEPT !.pc = Succ(@)]
  <2>4. w \in HartType /\ w.cp = h.cp /\ w.flags = h.flags /\ w.halt = h.halt
    BY <2>3, CsrWriteType, CsrWriteCp
  <2>5. /\ w.mtvec.mode = 0 /\ w.stvec.mode = 0 /\ w.satp # "other"
        /\ w.sedeleg = {} /\ w.sideleg = {}
    <3>1. /\ v \in CsrVals[r]
          /\ h.mtvec.mode = 0 /\ h.stvec.mode = 0 /\ h.satp # "other"
          /\ h.sedeleg = {} /\ h.sideleg = {}
      BY <2>3 DEF Safe
    <3>2. CASE r \in {"mtvec", "stvec", "satp"}
      <4>1. r \in {"mtvec", "stvec"} => v.mode = 0
        BY <3>1 DEF Disciplined
      <4>2. r = "satp" => v # "other"
        BY <3>1 DEF Disciplined
      <4> QED  BY <2>3, <3>1, <3>2, <4>1, <4>2 DEF csr_write, HartType
    <3>3. CASE r \in {"sedeleg", "sideleg"}
      <4>1. v = {}
        BY <3>1, <3>3 DEF Disciplined
      <4> QED  BY <2>3, <3>1, <3>3, <4>1 DEF csr_write, HartType
    <3>4. CASE r \in {"mstatus", "sstatus", "ustatus", "mie", "mip", "medeleg",
                      "mideleg", "mepc", "sepc"}
      BY <2>3, <3>1, <3>4 DEF csr_write, HartType
    <3>5. CASE r \in {"mcause", "scause", "mtval", "stval"}
      BY <2>3, <3>1, <3>5 DEF csr_write, HartType
    <3> QED  BY <3>2, <3>3, <3>4, <3>5 DEF CsrNames
  <2>6. /\ w.mstatus.mpp \in {UMODE, SMODE} /\ w.mstatus.spp \in {UMODE, SMODE}
        /\ w.cp = MMODE => w.mstatus.mie = 0
    <3>1. CASE r = "mstatus"
      <4>1. w.mstatus = v /\ v.spp \in Bit /\ v.mie = 0 /\ v.mpp \in {UMODE, SMODE}
        BY <2>2, <2>3, <3>1 DEF csr_write, CsrTypes, HartType, Disciplined
      <4> QED  BY <4>1 DEF Bit, UMODE, SMODE
    <3>2. CASE r = "sstatus"
      <4>1. /\ v.spp \in Bit /\ h.mstatus \in Mstatus
            /\ w.mstatus = [h.mstatus EXCEPT !.uie = v.uie, !.sie = v.sie,
                               !.spie = v.spie, !.spp = v.spp]
        BY <2>3, <3>2 DEF csr_write, CsrTypes, Sstatus, HartType
      <4> HIDE DEF w
      <4>2. /\ w.mstatus.spp = v.spp /\ w.mstatus.mpp = h.mstatus.mpp
            /\ w.mstatus.mie = h.mstatus.mie
        BY <4>1 DEF Mstatus
      <4> QED  BY <2>3, <2>4, <4>1, <4>2 DEF Safe, Bit, UMODE, SMODE
    <3>3. CASE r = "ustatus"
      <4>1. h.mstatus \in Mstatus /\ w.mstatus = [h.mstatus EXCEPT !.uie = v]
        BY <2>3, <3>3 DEF csr_write, HartType
      <4> HIDE DEF w
      <4>2. /\ w.mstatus.spp = h.mstatus.spp /\ w.mstatus.mpp = h.mstatus.mpp
            /\ w.mstatus.mie = h.mstatus.mie
        BY <4>1 DEF Mstatus
      <4> QED  BY <2>3, <2>4, <4>2 DEF Safe
    <3>4. CASE r \notin {"mstatus", "sstatus", "ustatus"}
      BY <2>3, <2>4, <3>4, CsrWriteCp DEF Safe
    <3> QED  BY <3>1, <3>2, <3>3, <3>4
  <2>7. Finish(g, h.pc, raisedAt)
    BY <2>2
  <2> HIDE DEF w
  <2>8. Safe(w)
    BY <2>3, <2>4, <2>5, <2>6 DEF Safe
  <2>9. g \in HartType /\ Core(g, w) /\ g.flags = w.flags /\ g.halt = w.halt
    BY <2>4, SuccPrevType DEF HartType, Core
  <2> QED  BY <2>7, <2>8, <2>9, SafeCore, FinishSafe
<1>6. CASE FetchExit \/ FetchOutsideRam \/ BusError \/ Uret \/ Fence
  BY <1>6, EndingTurn, SafeCore
<1>7. CASE FetchFault \/ LoadFault \/ StoreFault
  <2>1. hart.cp # MMODE
    <3>1. CASE FetchFault
      BY <3>1 DEF FetchFault, MayFault, Translated, Safe
    <3>2. CASE LoadFault \/ StoreFault
      BY <3>2 DEF LoadFault, StoreFault, DataFault, Fetched, Disciplined
    <3> QED  BY <1>7, <3>1, <3>2
  <2>2. PICK h \in HartType, c \in Codes : \E m \in ExcModes(h, c) :
           LET e == excep_function(h, Succ(h.pc), c, m)
           IN  /\ Core(h, hart) /\ h.flags = hart.flags /\ h.halt = hart.halt
               /\ Core(hart', e) /\ hart'.flags = e.flags /\ hart'.halt = e.halt
    BY <1>7, FaultTurn
  <2>3. Safe(h) /\ h.cp # MMODE
    BY <2>1, <2>2, SafeCore DEF Core
  <2> QED  BY <2>2, <2>3, ExcepSafe, SafeCore
<1>8. CASE Stopped \/ UNCHANGED vars
  BY <1>8 DEF Stopped, vars
<1> QED
  BY <1>1, <1>2, <1>3, <1>4, <1>5, <1>6, <1>7, <1>8
  DEF Next, Checked, Unchecked

\* Disciplined firmware and guests never make the emulator call exit(1) ...
\* exit(5): in particular no interrupt is ever taken from M-mode to M-mode.
THEOREM NoAbort ==
    ASSUME Disciplined
    PROVE  Spec => []NeverAborts
<1>1. Init => Safe(hart)
  BY FirmwareAssumption
  DEF Init, Safe, Disciplined, Aborts, Bit, UMODE, SMODE, MMODE
<1>2. TypeOK /\ Safe(hart) /\ [Next]_vars => Safe(hart)'
  BY SafeStep
<1>3. Safe(hart) => NeverAborts
  BY DEF Safe, Aborts, NeverAborts
<1> QED  BY <1>1, <1>2, <1>3, TypeCorrect, PTL DEF Spec

-----------------------------------------------------------------------------
(* Precise exceptions *)

\* Nothing is pending and nothing can be enabled.
Clean(h) == h.mie = {} /\ h.flags = {}

LEMMA ExcepKeeps ==
    ASSUME NEW h \in HartType, NEW npc, NEW c, NEW m \in ExcModes(h, c)
    PROVE  /\ excep_function(h, npc, c, m).mie = h.mie
           /\ excep_function(h, npc, c, m).flags = h.flags
<1> DEFINE es == EnterS(h, Prev(npc), ExcCode(h, c), h.stvec.base)
           em == EnterM(h, Prev(npc), ExcCode(h, c), h.mtvec.base)
           ex == [h EXCEPT !.halt = "exit4"]
           ep == [h EXCEPT !.pc = npc]
<1>1. excep_function(h, npc, c, m) \in {es, em, ex, ep}
  BY ExcepCases
<1>2. ex.mie = h.mie /\ ex.flags = h.flags /\ ep.mie = h.mie /\ ep.flags = h.flags
  BY DEF HartType
<1>3. es.mie = h.mie /\ es.flags = h.flags /\ em.mie = h.mie /\ em.flags = h.flags
  BY DEF EnterS, EnterM, HartType
<1> HIDE DEF es, em, ex, ep
<1> QED  BY <1>1, <1>2, <1>3

\* A tail that finds no enabled interrupt takes the one exception there is.
LEMMA FinishClean ==
    ASSUME NEW h0 \in HartType, h0.mie = {}, NEW c0, h0.flags \subseteq {c0},
           NEW lpc, NEW at, Finish(h0, lpc, at)
    PROVE  Clean(hart')
<1> DEFINE h == SampleTimer(h0)
<1>1. h \in HartType /\ h.mie = {} /\ h.flags \subseteq {c0}
  BY SampleTimerType, SampleTimerCore DEF Core
<1> HIDE DEF h
<1>2. CASE \E c \in h.flags : \E m \in ExcModes(h, c) :
              hart' = LoopCheck(excep_function(
                          [h EXCEPT !.flags = @ \ {c}], h.pc, c, m), lpc)
  <2>1. PICK c \in h.flags, m \in Priv :
            /\ m \in ExcModes(h, c)
            /\ hart' = LoopCheck(excep_function(
                          [h EXCEPT !.flags = @ \ {c}], h.pc, c, m), lpc)
    BY <1>1, <1>2, ModeTypes
  <2> DEFINE g == [h EXCEPT !.flags = @ \ {c}]
             e == excep_function(g, h.pc, c, m)
  <2>2. /\ g \in HartType /\ g.mie = {} /\ g.flags = {}
        /\ h.pc \in PCs /\ c \in Codes /\ m \in ExcModes(g, c)
    BY <1>1, <2>1, ClearFlag, FlagCodes DEF HartType, Core
  <2>3. hart' = LoopCheck(e, lpc)
    BY <2>1
  <2> HIDE DEF g
  <2>4. e \in HartType /\ e.mie = {} /\ e.flags = {}
    BY <2>2, ExcepType, ExcepKeeps
  <2> HIDE DEF e
  <2> QED  BY <2>3, <2>4, LoopCheckCore DEF Clean, Core
<1>3. CASE h.flags = {} /\ hart' = LoopCheck(h, lpc)
  BY <1>1, <1>3, LoopCheckCore DEF Clean, Core
<1> QED  BY <1>1, <1>2, <1>3, FinishOutcome DEF h

LEMMA CleanStep ==
    ASSUME NoInterrupts, TypeOK, Clean(hart), [Next]_vars
    PROVE  Clean(hart')
<1>1. CASE Plain \/ Jump \/ ClintWrite \/ PlicAccess
  BY <1>1, QuietTurn, FinishClean DEF Clean, Core
<1>2. CASE Illegal \/ LoadMisaligned \/ AmoMisaligned \/ Ebreak
  <2>1. PICK g \in HartType, c \in ExcFlags : \E lpc, at :
          g.mie = {} /\ g.flags \subseteq {c} /\ Finish(g, lpc, at)
    BY <1>2, RaisingTurn DEF Clean, Core
  <2> QED  BY <2>1, FinishClean
<1>3. CASE Ecall
  <2>1. PICK h \in Tick(hart) : \E m \in ExcModes(h, EcallCode(h.cp)) :
          LET g == excep_function(h, Succ(h.pc), EcallCode(h.cp), m)
          IN  Finish(g, h.pc, raisedAt) \/ hart' = g
    BY <1>3 DEF Ecall, Commit
  <2>2. PICK m \in ExcModes(h, EcallCode(h.cp)) :
          LET g == excep_function(h, Succ(h.pc), EcallCode(h.cp), m)
          IN  Finish(g, h.pc, raisedAt) \/ hart' = g
    BY <2>1
  <2>3. h \in HartType /\ Clean(h) /\ Succ(h.pc) \in PCs
    BY TickCore DEF Clean, Core
  <2>4. EcallCode(h.cp) \in Codes /\ m \in Priv
    BY <2>3, EcallCodeType, ModeTypes DEF HartType
  <2> DEFINE e == excep_function(h, Succ(h.pc), EcallCode(h.cp), m)
  <2>5. e \in HartType /\ e.mie = {} /\ e.flags = {}
    BY <2>3, <2>4, ExcepType, ExcepKeeps DEF Clean
  <2>6. Finish(e, h.pc, raisedAt) \/ hart' = e
    BY <2>2
  <2> HIDE DEF e
  <2> QED  BY <2>5, <2>6, FinishClean DEF Clean
<1>4. CASE Mret \/ Sret
  <2>1. PICK h \in Tick(hart) : \/ Finish(MretState(h), h.pc, raisedAt)
                                \/ Finish(SretState(h), h.pc, raisedAt)
    BY <1>4 DEF Mret, Sret
  <2>2. h \in HartType /\ Clean(h)
    BY TickCore DEF Clean, Core
  <2>3. \A g \in {MretState(h), SretState(h)} : g.mie = {} /\ g.flags = {}
    BY <2>2 DEF MretState, SretState, HartType, Clean
  <2> QED  BY <2>1, <2>2, <2>3, RetType, FinishClean
<1>5. CASE CsrWrite
  <2>1. PICK h \in Tick(hart), r \in CsrNames : \E v \in CsrVals[r] :
          Finish([csr_write(h, r, v) EXCEPT !.pc = Succ(@)], h.pc, raisedAt)
    BY <1>5 DEF CsrWrite
  <2>2. PICK v \in CsrVals[r] :
          Finish([csr_write(h, r, v) EXCEPT !.pc = Succ(@)], h.pc, raisedAt)
    BY <2>1
  <2>3. h \in HartType /\ Clean(h) /\ v \in CsrTypes(r)
    BY TickCore, GuestAssumption DEF Clean, Core
  <2> DEFINE w == csr_write(h, r, v)
             g == [w EXCEPT !.pc = Succ(@)]
  <2>4. w \in HartType /\ w.flags = {}
    BY <2>3, CsrWriteType, CsrWriteCp DEF Clean
  <2>5. w.mie = {}
    <3>1. CASE r = "mie"
      BY <2>2, <2>3, <3>1 DEF csr_write, NoInterrupts, HartType
    <3>2. CASE r # "mie"
      BY <2>3, <3>2 DEF csr_write, CsrNames, Clean, HartType
    <3> QED  BY <3>1, <3>2
  <2>6. Finish(g, h.pc, raisedAt)
    BY <2>2
  <2> HIDE DEF w
  <2>7. g \in HartType /\ g.mie = {} /\ g.flags = {}
    BY <2>4, <2>5, SuccPrevType DEF HartType
  <2> QED  BY <2>6, <2>7, FinishClean
<1>6. CASE FetchExit \/ FetchOutsideRam \/ BusError \/ Uret \/ Fence
  BY <1>6, EndingTurn DEF Clean, Core
<1>7. CASE FetchFault \/ LoadFault \/ StoreFault
  <2>1. PICK h \in HartType, c \in Codes : \E m \in ExcModes(h, c) :
           LET e == excep_function(h, Succ(h.pc), c, m)
           IN  /\ Core(h, hart) /\ h.flags = hart.flags
               /\ Core(hart', e) /\ hart'.flags = e.flags
    BY <1>7, FaultTurn
  <2> QED  BY <2>1, ExcepKeeps DEF Clean, Core
<1>8. CASE Stopped \/ UNCHANGED vars
  BY <1>8 DEF Stopped, vars
<1> QED
  BY <1>1, <1>2, <1>3, <1>4, <1>5, <1>6, <1>7, <1>8
  DEF Next, Checked, Unchecked

\* As long as no interrupt is enabled every exception is taken in the turn of
\* the instruction that raised it: no flag waits for a later turn.
THEOREM Precise ==
    ASSUME NoInterrupts
    PROVE  Spec => []ExceptionsPrecise
<1>1. Init => Clean(hart)
  BY FirmwareAssumption DEF Init, Clean, NoInterrupts
<1>2. TypeOK /\ Clean(hart) /\ [Next]_vars => Clean(hart)'
  BY CleanStep
<1>3. Clean(hart) => ExceptionsPrecise
  BY DEF Clean, ExceptionsPrecise
<1> QED  BY <1>1, <1>2, <1>3, TypeCorrect, PTL DEF Spec

-----------------------------------------------------------------------------
(* What the supervisor is told *)

PageFaults == {CAUSE_FETCH_PAGE_FAULT, CAUSE_LOAD_PAGE_FAULT, CAUSE_STORE_PAGE_FAULT}

\* scause is that of a trap which is delegated.
Delegated(h, cause) == cause \in h.medeleg \/ \E c \in h.mideleg : cause = Interrupt(c)

\* SupervisorOnlyDelegated and FaultAddressVisible, of one hart, with what a
\* step needs to keep them: no mode without a case in trap_mode_select, and
\* fetch faults that only S-mode takes.
Told(h) ==
    /\ h.cp # HMODE /\ h.mstatus.mpp # HMODE /\ h.mstatus.spp # HMODE
    /\ h.satp # "other" /\ CAUSE_FETCH_PAGE_FAULT \in h.medeleg \ h.sedeleg
    /\ h.scause = 0 \/ Delegated(h, h.scause)
    /\ h.scause = CAUSE_FETCH_PAGE_FAULT => h.stval = h.sepc
    /\ h.scause \in {CAUSE_LOAD_PAGE_FAULT, CAUSE_STORE_PAGE_FAULT} => h.stval \in DataAddrs

LEMMA ToldCore ==
    \A g, h : Core(g, h) /\ g.stval = h.stval => (Told(g) <=> Told(h))
BY DEF Core, Told, Delegated

LEMMA PrevSucc == \A p \in PCs : Prev(Succ(p)) = p
BY SizeAssumption DEF Prev, Succ, PCs

\* The modes a trap goes to, where every mode has its case
LEMMA TrapModes ==
    ASSUME NEW h \in HartType, h.cp # HMODE, NEW c
    PROVE  /\ \A m \in ExcModes(h, c) :
                 /\ m # HMODE /\ (m = SMODE => c \in h.medeleg)
                 /\ m = UMODE => h.cp = UMODE /\ c \in h.sedeleg
                 /\ m = MMODE => h.cp = MMODE \/ c \notin h.medeleg
           /\ \A m \in IntModes(h, c) : m # HMODE /\ (m = SMODE => c \in h.mideleg)
           /\ ExcCode(h, c) = c
<1>1. h.cp \in {UMODE, SMODE, MMODE}
  BY DEF HartType, Priv
<1>2. ExcCode(h, c) = c
  BY DEF ExcCode
<1> QED
  BY <1>1, <1>2 DEF ExcModes, IntModes, trap_mode_select, UMODE, SMODE, HMODE, MMODE

\* What entering S-mode and M-mode leaves of the registers Told is about
LEMMA EnterTold ==
    ASSUME NEW h \in HartType, NEW epc, NEW cause, NEW pc
    PROVE  /\ LET s == EnterS(h, epc, cause, pc)
              IN  /\ s.cp = SMODE /\ s.mstatus.mpp = h.cp /\ s.mstatus.spp = h.cp
                  /\ s.satp = h.satp /\ s.medeleg = h.medeleg /\ s.mideleg = h.mideleg
                  /\ s.sedeleg = h.sedeleg /\ s.scause = cause /\ s.sepc = epc
                  /\ s.stval = h.stval
           /\ LET s == EnterM(h, epc, cause, pc)
              IN  /\ s.cp = MMODE /\ s.mstatus.mpp = h.cp
                  /\ s.mstatus.spp = h.mstatus.spp
                  /\ s.satp = h.satp /\ s.medeleg = h.medeleg /\ s.mideleg = h.mideleg
                  /\ s.sedeleg = h.sedeleg /\ s.scause = h.scause /\ s.sepc = h.sepc
                  /\ s.stval = h.stval
<1>1. h.mstatus \in Mstatus
  BY DEF HartType
<1>2. /\ EnterS(h, epc, cause, pc).mstatus =
            [h.mstatus EXCEPT !.mpp = h.cp, !.spp = h.cp, !.spie = h.mstatus.sie, !.sie = 0]
      /\ EnterM(h, epc, cause, pc).mstatus =
            [h.mstatus EXCEPT !.mpp = h.cp, !.mpie = h.mstatus.mie, !.mie = 0]
  BY DEF EnterS, EnterM, HartType
<1>3. /\ EnterS(h, epc, cause, pc).mstatus.mpp = h.cp
      /\ EnterS(h, epc, cause, pc).mstatus.spp = h.cp
      /\ EnterM(h, epc, cause, pc).mstatus.mpp = h.cp
      /\ EnterM(h, epc, cause, pc).mstatus.spp = h.mstatus.spp
  BY <1>1, <1>2 DEF Mstatus
<1>4. LET s == EnterS(h, epc, cause, pc)
      IN  /\ s.cp = SMODE /\ s.satp = h.satp /\ s.medeleg = h.medeleg
          /\ s.mideleg = h.mideleg /\ s.sedeleg = h.sedeleg /\ s.scause = cause
          /\ s.sepc = epc /\ s.stval = h.stval
  BY DEF EnterS, HartType
<1>5. LET s == EnterM(h, epc, cause, pc)
      IN  /\ s.cp = MMODE /\ s.satp = h.satp /\ s.medeleg = h.medeleg
          /\ s.mideleg = h.mideleg /\ s.sedeleg = h.sedeleg /\ s.scause = h.scause
          /\ s.sepc = h.sepc /\ s.stval = h.stval
  BY DEF EnterM, HartType
<1> QED  BY <1>3, <1>4, <1>5

\* Any trap but a page fault
LEMMA EntersTold ==
    ASSUME NEW h \in HartType, Told(h), NEW epc, NEW cause, NEW pc
    PROVE  /\ Told(EnterM(h, epc, cause, pc))
           /\ Delegated(h, cause) /\ cause \notin PageFaults => Told(EnterS(h, epc, cause, pc))
<1>1. Told(EnterM(h, epc, cause, pc))
  BY EnterTold DEF Told, Delegated, MMODE, HMODE
<1>2. ASSUME Delegated(h, cause), cause \notin PageFaults PROVE Told(EnterS(h, epc, cause, pc))
  BY <1>2, EnterTold DEF Told, Delegated, SMODE, HMODE, PageFaults
<1> QED  BY <1>1, <1>2

LEMMA ExcepTold ==
    ASSUME NEW h \in HartType, Told(h), NEW npc, NEW c, c \notin PageFaults,
           NEW m \in ExcModes(h, c)
    PROVE  Told(excep_function(h, npc, c, m))
<1>1. h.cp # HMODE
  BY DEF Told
<1>2. /\ m # HMODE /\ ExcCode(h, c) = c /\ (m = SMODE => Delegated(h, c))
  BY <1>1, TrapModes DEF Delegated
<1>3. Told([h EXCEPT !.halt = "exit4"])
  BY DEF HartType, Told, Delegated
<1>4. /\ Told(EnterM(h, Prev(npc), c, h.mtvec.base))
      /\ m = SMODE => Told(EnterS(h, Prev(npc), c, h.stvec.base))
  BY <1>2, EntersTold
<1> QED  BY <1>2, <1>3, <1>4, ExcepCases

LEMMA InterruptTold ==
    ASSUME NEW h \in HartType, Told(h), NEW c \in IntCodes, NEW m \in IntModes(h, c)
    PROVE  Told(interrupt_function(h, c, m))
<1> DEFINE es == EnterS(h, h.pc, Interrupt(c), IntVector(h.stvec))
           em == EnterM(h, h.pc, Interrupt(c), IntVector(h.mtvec))
<1>1. h.cp # HMODE /\ Interrupt(c) \notin PageFaults
  BY DEF Told, Interrupt, PageFaults, IntCodes, MEI, MTI, MSI, SEI, STI, SSI, UEI, UTI, USI,
         CAUSE_FETCH_PAGE_FAULT, CAUSE_LOAD_PAGE_FAULT, CAUSE_STORE_PAGE_FAULT
<1>2. m # HMODE /\ (m = SMODE => Delegated(h, Interrupt(c)))
  BY <1>1, TrapModes DEF Delegated
<1>3. es \in HartType /\ em \in HartType
  BY IntVectorType, EnterSType, EnterMType
<1>4. Told(em) /\ (m = SMODE => Told(es))
  BY <1>1, <1>2, EntersTold
<1>5. Told([h EXCEPT !.halt = "exit1"])
  BY DEF HartType, Told, Delegated
<1>6. LET i == interrupt_function(h, c, m)
      IN  \/ i = h \/ i = [h EXCEPT !.halt = "exit1"]
          \/ m = SMODE /\ \E x : i = [es EXCEPT !.halt = x]
          \/ \E x : i = [em EXCEPT !.halt = x]
  <2>1. CASE m = SMODE /\ h.mstatus.sie = 1
    <3>1. interrupt_function(h, c, m) =
              [es EXCEPT !.halt = IF h.stvec.mode = 1 THEN "exit2" ELSE "run"]
      BY <2>1 DEF interrupt_function, UMODE, SMODE, MMODE
    <3> HIDE DEF es, em
    <3> QED  BY <2>1, <3>1
  <2>2. CASE m = UMODE
    BY <2>2 DEF interrupt_function, UMODE, SMODE, MMODE
  <2>3. CASE m = SMODE /\ h.mstatus.sie # 1
    BY <2>3 DEF interrupt_function, UMODE, SMODE, MMODE
  <2>4. CASE m = MMODE
    <3>1. PICK x : x = CASE h.mtvec.mode = 1 -> "exit3"
                         [] h.mtvec.mode = 0 /\ h.cp = MMODE -> "exit5"
                         [] OTHER -> "run"
      OBVIOUS
    <3>2. interrupt_function(h, c, m) \in {h, [em EXCEPT !.halt = x]}
      BY <2>4, <3>1 DEF interrupt_function, UMODE, SMODE, MMODE
    <3> HIDE DEF es, em
    <3> QED  BY <3>2
  <2>5. m \in Priv
    BY ModeTypes
  <2> QED  BY <1>2, <2>1, <2>2, <2>3, <2>4, <2>5 DEF Priv
<1> HIDE DEF es, em
<1>7. \A x : /\ Told(em) => Told([em EXCEPT !.halt = x])
             /\ Told(es) => Told([es EXCEPT !.halt = x])
  BY <1>3 DEF HartType, Told, Delegated
<1> QED  BY <1>4, <1>5, <1>6, <1>7

LEMMA FinishTold ==
    ASSUME NEW h0 \in HartType, Told(h0), NEW lpc, NEW at, Finish(h0, lpc, at)
    PROVE  Told(hart')
<1> DEFINE h == SampleTimer(h0)
<1>1. h \in HartType /\ Told(h)
  BY SampleTimerType, SampleTimerCore, ToldCore
<1>2. \A g \in HartType : \A q : Told(g) => Told(LoopCheck(g, q))
  BY LoopCheckCore, ToldCore
<1> HIDE DEF h
<1>3. CASE \E c \in IntCodes : \E m \in IntModes(h, c) :
              hart' = LoopCheck(interrupt_function(h, c, m), lpc)
  BY <1>1, <1>2, <1>3, InterruptTold, InterruptType, ModeTypes
<1>4. CASE \E c \in h.flags : \E m \in ExcModes(h, c) :
              hart' = LoopCheck(excep_function(
                          [h EXCEPT !.flags = @ \ {c}], h.pc, c, m), lpc)
  <2>1. PICK c \in h.flags, m \in Priv :
            /\ m \in ExcModes(h, c)
            /\ hart' = LoopCheck(excep_function(
                          [h EXCEPT !.flags = @ \ {c}], h.pc, c, m), lpc)
    BY <1>1, <1>4, ModeTypes
  <2> DEFINE g == [h EXCEPT !.flags = @ \ {c}]
  <2>2. /\ g \in HartType /\ Told(g) /\ h.pc \in PCs /\ c \in Codes
        /\ m \in ExcModes(g, c)
    BY <1>1, <2>1, ClearFlag, FlagCodes, ToldCore DEF HartType
  <2>3. c \notin PageFaults
    BY <1>1, <2>1 DEF HartType, ExcFlags, PageFaults, CAUSE_ILLEGAL_INSTRUCTION,
       CAUSE_BREAKPOINT, CAUSE_MISALIGNED_LOAD, CAUSE_MISALIGNED_STORE,
       CAUSE_FETCH_PAGE_FAULT, CAUSE_LOAD_PAGE_FAULT, CAUSE_STORE_PAGE_FAULT
  <2>4. hart' = LoopCheck(excep_function(g, h.pc, c, m), lpc)
    BY <2>1
  <2> HIDE DEF g
  <2> QED  BY <1>2, <2>2, <2>3, <2>4, ExcepTold, ExcepType
<1>5. CASE hart' = LoopCheck(h, lpc)
  BY <1>1, <1>2, <1>5
<1> QED  BY <1>3, <1>4, <1>5, FinishOutcome DEF h

\* A fetch fault goes to S-mode, with the address of the fetch in sepc and stval.
LEMMA FetchFaultTold ==
    ASSUME TypeOK, Told(hart), FetchFault
    PROVE  Told(hart')
<1> DEFINE c == CAUSE_FETCH_PAGE_FAULT
<1>1. PICK h \in Tick(hart) : \E m \in ExcModes(h, c) :
        hart' = [excep_function(h, Succ(h.pc), c, m) EXCEPT !.mtval = h.pc, !.stval = h.pc]
  BY DEF FetchFault, Commit
<1>2. PICK m \in ExcModes(h, c) :
        hart' = [excep_function(h, Succ(h.pc), c, m) EXCEPT !.mtval = h.pc, !.stval = h.pc]
  BY <1>1
<1>3. h \in HartType /\ h.pc \in PCs /\ Told(h) /\ h.cp = hart.cp
  BY TickCore, ToldCore DEF Core
<1>4. h.cp # MMODE
  BY <1>3 DEF FetchFault, MayFault, Translated, Told
<1>5. m \in Priv /\ m # HMODE /\ m # UMODE /\ m # MMODE /\ ExcCode(h, c) = c
  BY <1>3, <1>4, TrapModes, ModeTypes DEF Told
<1>6. m = SMODE
  BY <1>5 DEF Priv
<1> DEFINE e == EnterS(h, h.pc, c, h.stvec.base)
<1>7. excep_function(h, Succ(h.pc), c, m) = e
  BY <1>3, <1>5, <1>6, PrevSucc DEF excep_function, UMODE, SMODE, MMODE, HMODE
<1>8. e \in HartType
  BY <1>3, EnterSType DEF HartType, Tvec, Causes, CAUSE_FETCH_PAGE_FAULT
<1>9. /\ e.cp = SMODE /\ e.mstatus.mpp = h.cp /\ e.mstatus.spp = h.cp
      /\ e.satp = h.satp /\ e.medeleg = h.medeleg /\ e.sedeleg = h.sedeleg
      /\ e.scause = c /\ e.sepc = h.pc
  BY <1>3, EnterTold
<1>10. hart' = [e EXCEPT !.mtval = h.pc, !.stval = h.pc]
  BY <1>2, <1>7
<1> HIDE DEF e
<1>11. Core(hart', e) /\ hart'.stval = h.pc
  BY <1>8, <1>10 DEF HartType, Core
<1> QED
  BY <1>3, <1>9, <1>11 DEF Core, Told, Delegated, SMODE, HMODE,
     CAUSE_FETCH_PAGE_FAULT, CAUSE_LOAD_PAGE_FAULT, CAUSE_STORE_PAGE_FAULT

\* A data fault that S-mode takes leaves the address in stval; one that M-mode
\* takes leaves the supervisor's registers alone.
LEMMA DataFaultTold ==
    ASSUME TypeOK, Told(hart), NEW k,
           NEW c \in {CAUSE_LOAD_PAGE_FAULT, CAUSE_STORE_PAGE_FAULT}, DataFault(k, c)
    PROVE  Told(hart')
<1>1. PICK h \in Tick(hart), a \in DataAddrs : \E m \in ExcModes(h, c) :
        hart' = RouteTval(excep_function(h, Succ(h.pc), c, m), a)
  BY DEF DataFault, Commit
<1>2. PICK m \in ExcModes(h, c) : hart' = RouteTval(excep_function(h, Succ(h.pc), c, m), a)
  BY <1>1
<1>3. h \in HartType /\ h.pc \in PCs /\ Told(h)
  BY TickCore, ToldCore
<1>4. /\ m \in Priv /\ m # HMODE /\ ExcCode(h, c) = c
      /\ m = SMODE => c \in h.medeleg
      /\ m = UMODE => h.cp = UMODE
  BY <1>3, TrapModes, ModeTypes DEF Told
<1>5. Prev(Succ(h.pc)) = h.pc /\ c \in Causes
  BY <1>3, PrevSucc DEF Causes, CAUSE_LOAD_PAGE_FAULT, CAUSE_STORE_PAGE_FAULT
<1>6. CASE m = SMODE
  <2> DEFINE e == EnterS(h, h.pc, c, h.stvec.base)
  <2>1. excep_function(h, Succ(h.pc), c, m) = e
    BY <1>4, <1>5, <1>6 DEF excep_function, UMODE, SMODE, MMODE, HMODE
  <2>2. e \in HartType
    BY <1>3, <1>5, EnterSType DEF HartType, Tvec
  <2>3. /\ e.cp = SMODE /\ e.mstatus.mpp = h.cp /\ e.mstatus.spp = h.cp
        /\ e.satp = h.satp /\ e.medeleg = h.medeleg /\ e.sedeleg = h.sedeleg
        /\ e.scause = c
    BY <1>3, EnterTold
  <2>4. hart' = RouteTval(e, a)
    BY <1>2, <2>1
  <2> HIDE DEF e
  <2>5. Core(hart', e) /\ hart'.stval = a
    <3>1. hart' = [e EXCEPT !.stval = a, !.mtval = 0]
      BY <2>3, <2>4 DEF RouteTval, UMODE, SMODE, HMODE, MMODE
    <3> QED  BY <2>2, <3>1 DEF HartType, Core
  <2> QED
    BY <1>3, <1>4, <1>6, <2>3, <2>5 DEF Core, Told, Delegated, SMODE, HMODE,
       CAUSE_FETCH_PAGE_FAULT, CAUSE_LOAD_PAGE_FAULT, CAUSE_STORE_PAGE_FAULT
<1>7. CASE m = MMODE
  <2> DEFINE e == EnterM(h, h.pc, c, h.mtvec.base)
  <2>1. excep_function(h, Succ(h.pc), c, m) = e
    BY <1>4, <1>5, <1>7 DEF excep_function, UMODE, SMODE, MMODE, HMODE
  <2>2. e \in HartType
    BY <1>3, <1>5, EnterMType DEF HartType, Tvec
  <2>3. Told(e) /\ e.cp = MMODE
    BY <1>3, EntersTold, EnterTold
  <2>4. hart' = RouteTval(e, a)
    BY <1>2, <2>1
  <2> HIDE DEF e
  <2>5. Core(hart', e) /\ hart'.stval = e.stval
    BY <2>2, <2>3, <2>4 DEF RouteTval, HartType, Core, UMODE, SMODE, HMODE, MMODE
  <2> QED  BY <2>3, <2>5, ToldCore
<1>8. CASE m = UMODE
  <2> DEFINE e == [h EXCEPT !.halt = "exit4"]
  <2>1. excep_function(h, Succ(h.pc), c, m) = e
    BY <1>8 DEF excep_function, UMODE, SMODE, MMODE, HMODE
  <2>2. e \in HartType /\ Core(e, h) /\ e.stval = h.stval /\ e.cp = UMODE
    BY <1>3, <1>4, <1>8 DEF HartType, Halts, Core
  <2>3. hart' = RouteTval(e, a)
    BY <1>2, <2>1
  <2> HIDE DEF e
  <2>4. Core(hart', e) /\ hart'.stval = e.stval
    BY <2>2, <2>3 DEF RouteTval, HartType, Core, UMODE, SMODE, HMODE, MMODE
  <2> QED  BY <1>3, <2>2, <2>4, ToldCore
<1> QED  BY <1>4, <1>6, <1>7, <1>8 DEF Priv

\* The CSR writes SupervisorSetUp allows
LEMMA CsrTold ==
    ASSUME SupervisorSetUp, NEW h \in HartType, Told(h), NEW r \in CsrNames,
           NEW v \in CsrVals[r]
    PROVE  csr_write(h, r, v) \in HartType /\ Told(csr_write(h, r, v))
<1> DEFINE w == csr_write(h, r, v)
<1>1. v \in CsrTypes(r) /\ r \notin {"medeleg", "mideleg", "scause", "sepc", "stval"}
  BY GuestAssumption DEF SupervisorSetUp
<1>2. w \in HartType /\ w.cp = h.cp
  BY <1>1, CsrWriteType, CsrWriteCp
<1>3. /\ w.medeleg = h.medeleg /\ w.mideleg = h.mideleg /\ w.scause = h.scause
      /\ w.sepc = h.sepc /\ w.stval = h.stval
  <2>1. CASE r \in {"mstatus", "sstatus", "ustatus", "mie", "mip", "sedeleg", "sideleg"}
    BY <2>1 DEF csr_write, HartType
  <2>2. CASE r \in {"mepc", "mtvec", "stvec", "mcause", "mtval", "satp"}
    BY <2>2 DEF csr_write, HartType
  <2> QED  BY <1>1, <2>1, <2>2 DEF CsrNames
<1>4. w.satp # "other" /\ CAUSE_FETCH_PAGE_FAULT \notin w.sedeleg
  <2>1. h.satp # "other" /\ CAUSE_FETCH_PAGE_FAULT \notin h.sedeleg
    BY DEF Told
  <2>2. CASE r = "satp"
    <3>1. v # "other"
      BY <2>2 DEF SupervisorSetUp
    <3> QED  BY <2>1, <2>2, <3>1 DEF csr_write, HartType
  <2>3. CASE r = "sedeleg"
    <3>1. CAUSE_FETCH_PAGE_FAULT \notin v
      BY <2>3 DEF SupervisorSetUp
    <3> QED  BY <2>1, <2>3, <3>1 DEF csr_write, HartType
  <2>4. CASE r \in {"mstatus", "sstatus", "ustatus", "mie", "mip", "sideleg"}
    BY <2>1, <2>4 DEF csr_write, HartType
  <2>5. CASE r \in {"mepc", "mtvec", "stvec", "mcause", "mtval"}
    BY <2>1, <2>5 DEF csr_write, HartType
  <2> QED  BY <1>1, <2>2, <2>3, <2>4, <2>5 DEF CsrNames
<1>5. w.mstatus.mpp # HMODE /\ w.mstatus.spp # HMODE
  <2>1. h.mstatus.mpp # HMODE /\ h.mstatus.spp # HMODE /\ h.mstatus \in Mstatus
    BY DEF Told, HartType
  <2>2. CASE r = "mstatus"
    <3>1. w.mstatus = v /\ v.spp \in Bit /\ v.mpp # HMODE
      BY <1>1, <2>2 DEF csr_write, CsrTypes, HartType, SupervisorSetUp
    <3> QED  BY <3>1 DEF Bit, HMODE
  <2>3. CASE r = "sstatus"
    <3>1. /\ v.spp \in Bit
          /\ w.mstatus = [h.mstatus EXCEPT !.uie = v.uie, !.sie = v.sie,
                             !.spie = v.spie, !.spp = v.spp]
      BY <1>1, <2>3 DEF csr_write, CsrTypes, Sstatus, HartType
    <3> HIDE DEF w
    <3>2. w.mstatus.spp = v.spp /\ w.mstatus.mpp = h.mstatus.mpp
      BY <2>1, <3>1 DEF Mstatus
    <3> QED  BY <2>1, <3>1, <3>2 DEF Bit, HMODE
  <2>4. CASE r = "ustatus"
    <3>1. w.mstatus = [h.mstatus EXCEPT !.uie = v]
      BY <2>4 DEF csr_write, HartType
    <3> HIDE DEF w
    <3> QED  BY <2>1, <3>1 DEF Mstatus
  <2>5. CASE r \notin {"mstatus", "sstatus", "ustatus"}
    BY <1>1, <2>1, <2>5, CsrWriteCp
  <2> QED  BY <2>2, <2>3, <2>4, <2>5
<1> HIDE DEF w
<1>6. Told(w)
  BY <1>2, <1>3, <1>4, <1>5 DEF Told, Delegated
<1> QED  BY <1>2, <1>6 DEF w

LEMMA ToldStep ==
    ASSUME SupervisorSetUp, TypeOK, Told(hart), [Next]_vars
    PROVE  Told(hart')
<1>1. CASE Plain \/ Jump \/ ClintWrite \/ PlicAccess
  BY <1>1, QuietTurn, ToldCore, FinishTold
<1>2. CASE Illegal \/ LoadMisaligned \/ AmoMisaligned \/ Ebreak
  BY <1>2, RaisingTurn, ToldCore, FinishTold
<1>3. CASE Ecall
  <2>1. PICK h \in Tick(hart) : \E m \in ExcModes(h, EcallCode(h.cp)) :
          LET g == excep_function(h, Succ(h.pc), EcallCode(h.cp), m)
          IN  Finish(g, h.pc, raisedAt) \/ hart' = g
    BY <1>3 DEF Ecall, Commit
  <2>2. PICK m \in ExcModes(h, EcallCode(h.cp)) :
          LET g == excep_function(h, Succ(h.pc), EcallCode(h.cp), m)
          IN  Finish(g, h.pc, raisedAt) \/ hart' = g
    BY <2>1
  <2>3. h \in HartType /\ Told(h) /\ Succ(h.pc) \in PCs
    BY TickCore, ToldCore
  <2>4. EcallCode(h.cp) \in Codes /\ m \in Priv
    BY <2>3, EcallCodeType, ModeTypes DEF HartType
  <2>5. EcallCode(h.cp) \notin PageFaults
    BY <2>3 DEF HartType, Priv, EcallCode, PageFaults, UMODE, SMODE, HMODE, MMODE,
       CAUSE_FETCH_PAGE_FAULT, CAUSE_LOAD_PAGE_FAULT, CAUSE_STORE_PAGE_FAULT
  <2>6. /\ excep_function(h, Succ(h.pc), EcallCode(h.cp), m) \in HartType
        /\ Told(excep_function(h, Succ(h.pc), EcallCode(h.cp), m))
    BY <2>3, <2>4, <2>5, ExcepType, ExcepTold
  <2> QED  BY <2>2, <2>6, FinishTold
<1>4. CASE Mret \/ Sret
  <2>1. PICK h \in Tick(hart) : \/ Finish(MretState(h), h.pc, raisedAt)
                                \/ Finish(SretState(h), h.pc, raisedAt)
    BY <1>4 DEF Mret, Sret
  <2>2. h \in HartType /\ Told(h)
    BY TickCore, ToldCore
  <2>3. \A g \in {MretState(h), SretState(h)} :
           /\ g.satp = h.satp /\ g.medeleg = h.medeleg /\ g.mideleg = h.mideleg
           /\ g.sedeleg = h.sedeleg /\ g.scause = h.scause /\ g.sepc = h.sepc
           /\ g.stval = h.stval
    BY <2>2 DEF MretState, SretState, HartType
  <2>4. Told(MretState(h)) /\ Told(SretState(h))
    BY <2>2, <2>3, RetFields DEF Told, Delegated, UMODE, HMODE
  <2> QED  BY <2>1, <2>2, <2>4, RetType, FinishTold
<1>5. CASE CsrWrite
  <2>1. PICK h \in Tick(hart), r \in CsrNames : \E v \in CsrVals[r] :
          Finish([csr_write(h, r, v) EXCEPT !.pc = Succ(@)], h.pc, raisedAt)
    BY <1>5 DEF CsrWrite
  <2>2. PICK v \in CsrVals[r] :
          Finish([csr_write(h, r, v) EXCEPT !.pc = Succ(@)], h.pc, raisedAt)
    BY <2>1
  <2> DEFINE w == csr_write(h, r, v)
             g == [w EXCEPT !.pc = Succ(@)]
  <2>3. w \in HartType /\ Told(w)
    BY TickCore, ToldCore, CsrTold
  <2>4. Finish(g, h.pc, raisedAt)
    BY <2>2
  <2> HIDE DEF w
  <2>5. g \in HartType /\ Core(g, w) /\ g.stval = w.stval
    BY <2>3, SuccPrevType DEF HartType, Core
  <2> QED  BY <2>3, <2>4, <2>5, ToldCore, FinishTold
<1>6. CASE FetchExit \/ FetchOutsideRam \/ BusError \/ Uret \/ Fence
  BY <1>6, EndingTurn, ToldCore
<1>7. CASE FetchFault
  BY <1>7, FetchFaultTold
<1>8. CASE LoadFault \/ StoreFault
  BY <1>8, DataFaultTold DEF LoadFault, StoreFault
<1>9. CASE Stopped \/ UNCHANGED vars
  BY <1>9 DEF Stopped, vars
<1> QED
  BY <1>1, <1>2, <1>3, <1>4, <1>5, <1>6, <1>7, <1>8, <1>9
  DEF Next, Checked, Unchecked

LEMMA ToldAlways ==
    ASSUME SupervisorSetUp
    PROVE  Spec => []Told(hart)
<1>1. Init => Told(hart)
  <2> SUFFICES ASSUME Init PROVE Told(hart)
    OBVIOUS
  <2>1. /\ hart \in Firmwares /\ hart \in HartType /\ hart.cp = MMODE
        /\ hart.scause = 0 /\ hart.mstatus.spp \in Bit
    BY FirmwareAssumption DEF Init
  <2> QED
    BY <2>1 DEF SupervisorSetUp, Told, Bit, MMODE, HMODE,
       CAUSE_FETCH_PAGE_FAULT, CAUSE_LOAD_PAGE_FAULT, CAUSE_STORE_PAGE_FAULT
<1>2. TypeOK /\ Told(hart) /\ [Next]_vars => Told(hart)'
  BY ToldStep
<1> QED  BY <1>1, <1>2, TypeCorrect, PTL DEF Spec

\* Under a supervisor that is set up once, whatever its user programs do, the
\* handler of a page fault finds the faulting address in stval: excep_function
\* and the fault paths of the main loop agree on who is told what.
THEOREM FaultAddress ==
    ASSUME SupervisorSetUp
    PROVE  Spec => []FaultAddressVisible
<1>1. Told(hart) => FaultAddressVisible
  BY DEF Told, FaultAddressVisible
<1> QED  BY <1>1, ToldAlways, PTL

\* trap_mode_select hands S-mode nothing that medeleg or mideleg does not
\* delegate to it, so scause never reports anything else.
THEOREM OnlyDelegated ==
    ASSUME SupervisorSetUp
    PROVE  Spec => []SupervisorOnlyDelegated
<1>1. Told(hart) => SupervisorOnlyDelegated
  BY DEF Told, Delegated, SupervisorOnlyDelegated
<1> QED  BY <1>1, ToldAlways, PTL

-----------------------------------------------------------------------------
(* Timer interrupts *)

TimerCause == Interrupt(STI)

\* No exception is reported as a timer interrupt.
LEMMA ExcepCause ==
    ASSUME NEW h \in HartType, NEW npc, NEW c \in Codes, NEW m \in ExcModes(h, c),
           h.scause # TimerCause
    PROVE  excep_function(h, npc, c, m).scause # TimerCause
<1> DEFINE es == EnterS(h, Prev(npc), ExcCode(h, c), h.stvec.base)
           em == EnterM(h, Prev(npc), ExcCode(h, c), h.mtvec.base)
           ex == [h EXCEPT !.halt = "exit4"]
           ep == [h EXCEPT !.pc = npc]
<1>1. excep_function(h, npc, c, m) \in {es, em, ex, ep}
  BY ExcepCases
<1>2. ex.scause = h.scause /\ ep.scause = h.scause
  BY DEF HartType
<1>3. es.scause = ExcCode(h, c) /\ em.scause = h.scause
  BY DEF EnterS, EnterM, HartType
<1>4. ExcCode(h, c) # TimerCause
  BY DEF ExcCode, Codes, TimerCause, Interrupt, STI
<1> HIDE DEF es, em, ex, ep
<1> QED  BY <1>1, <1>2, <1>3, <1>4

\* An interrupt leaves the clock and mtimecmp as they are and is reported under
\* its own code.
LEMMA InterruptCause ==
    ASSUME NEW h \in HartType, NEW c \in IntCodes, NEW m \in IntModes(h, c),
           h.scause # TimerCause
    PROVE  LET i == interrupt_function(h, c, m)
           IN  i.timer = h.timer /\ (i.scause = TimerCause => c = STI)
<1> DEFINE i == interrupt_function(h, c, m)
           es == EnterS(h, h.pc, Interrupt(c), IntVector(h.stvec))
           em == EnterM(h, h.pc, Interrupt(c), IntVector(h.mtvec))
<1>1. \E x \in {"exit1", "exit2", "exit3", "exit5", "run"} :
         i \in {h, [h EXCEPT !.halt = x], [es EXCEPT !.halt = x], [em EXCEPT !.halt = x]}
  BY InterruptCases
<1>2. es \in HartType /\ em \in HartType
  BY IntVectorType, EnterSType, EnterMType
<1>3. /\ es.scause = Interrupt(c) /\ es.timer = h.timer
      /\ em.scause = h.scause /\ em.timer = h.timer
  BY DEF EnterS, EnterM, HartType
<1>4. Interrupt(c) = TimerCause => c = STI
  BY DEF TimerCause, Interrupt, IntCodes, MEI, MTI, MSI, SEI, STI, SSI, UEI, UTI, USI
<1> HIDE DEF i, es, em
<1>5. i.timer = h.timer /\ i.scause \in {h.scause, Interrupt(c)}
  BY <1>1, <1>2, <1>3 DEF HartType
<1> QED  BY <1>4, <1>5 DEF i

\* The tail of a turn takes a timer interrupt only when it has just found the
\* time reached.
LEMMA FinishTimely ==
    ASSUME NEW h0 \in HartType, h0.scause # TimerCause, NEW lpc, NEW at, Finish(h0, lpc, at)
    PROVE  hart'.scause = TimerCause => hart'.timer = "due"
<1> DEFINE h == SampleTimer(h0)
<1>1. h \in HartType /\ h.scause # TimerCause /\ (STI \in h.mip => h.timer = "due")
  BY SampleTimerType DEF SampleTimer, HartType
<1>2. \A g \in HartType : /\ LoopCheck(g, lpc).timer = g.timer
                          /\ LoopCheck(g, lpc).scause = g.scause
  BY DEF LoopCheck, HartType
<1>3. ASSUME NEW c \in h.mie \cap h.mip, NEW m \in IntModes(h, c),
             hart' = LoopCheck(interrupt_function(h, c, m), lpc)
      PROVE  hart'.scause = TimerCause => hart'.timer = "due"
  <2>1. c \in IntCodes /\ m \in Priv
    BY <1>1, ModeTypes DEF HartType
  <2> HIDE DEF h
  <2>2. interrupt_function(h, c, m) \in HartType
    BY <1>1, <2>1, InterruptType
  <2>3. /\ interrupt_function(h, c, m).timer = h.timer
        /\ interrupt_function(h, c, m).scause = TimerCause => c = STI
    BY <1>1, <2>1, InterruptCause
  <2> QED  BY <1>1, <1>2, <1>3, <2>2, <2>3
<1>4. ASSUME NEW c \in h.flags, NEW m \in ExcModes(h, c),
             hart' = LoopCheck(excep_function([h EXCEPT !.flags = @ \ {c}], h.pc, c, m), lpc)
      PROVE  hart'.scause # TimerCause
  <2> DEFINE g == [h EXCEPT !.flags = @ \ {c}]
  <2> HIDE DEF h
  <2>1. /\ g \in HartType /\ h.pc \in PCs /\ c \in Codes /\ g.scause = h.scause
        /\ m \in ExcModes(g, c) /\ m \in Priv
    BY <1>1, ClearFlag, FlagCodes, ModeTypes, ZenonT(60) DEF HartType, Core
  <2>2. hart' = LoopCheck(excep_function(g, h.pc, c, m), lpc)
    BY <1>4
  <2> HIDE DEF g
  <2> QED  BY <1>1, <1>2, <2>1, <2>2, ExcepType, ExcepCause
<1>5. \/ \E c \in h.mie \cap h.mip : \E m \in IntModes(h, c) :
            hart' = LoopCheck(interrupt_function(h, c, m), lpc)
      \/ \E c \in h.flags : \E m \in ExcModes(h, c) :
            hart' = LoopCheck(excep_function([h EXCEPT !.flags = @ \ {c}], h.pc, c, m), lpc)
      \/ hart' = LoopCheck(h, lpc)
  BY DEF Finish, Commit, Highest
<1> HIDE DEF h
<1> QED  BY <1>1, <1>2, <1>3, <1>4, <1>5

LEMMA TimelyStep ==
    ASSUME CsrVals["scause"] = {}, TypeOK, hart.scause # TimerCause, Next
    PROVE  hart'.scause = TimerCause => hart'.timer = "due"
<1>1. CASE Plain \/ Jump \/ ClintWrite \/ PlicAccess
  BY <1>1, QuietTurn, FinishTimely DEF Core
<1>2. CASE Illegal \/ LoadMisaligned \/ AmoMisaligned \/ Ebreak
  BY <1>2, RaisingTurn, FinishTimely DEF Core
<1>3. CASE Ecall
  <2>1. PICK h \in Tick(hart) : \E m \in ExcModes(h, EcallCode(h.cp)) :
          LET g == excep_function(h, Succ(h.pc), EcallCode(h.cp), m)
          IN  Finish(g, h.pc, raisedAt) \/ hart' = g
    BY <1>3 DEF Ecall, Commit
  <2>2. PICK m \in ExcModes(h, EcallCode(h.cp)) :
          LET g == excep_function(h, Succ(h.pc), EcallCode(h.cp), m)
          IN  Finish(g, h.pc, raisedAt) \/ hart' = g
    BY <2>1
  <2>3. h \in HartType /\ h.scause # TimerCause /\ Succ(h.pc) \in PCs
    BY TickCore DEF Core
  <2>4. EcallCode(h.cp) \in Codes /\ m \in Priv
    BY <2>3, EcallCodeType, ModeTypes DEF HartType
  <2> DEFINE e == excep_function(h, Succ(h.pc), EcallCode(h.cp), m)
  <2>5. e \in HartType /\ e.scause # TimerCause
    BY <2>3, <2>4, ExcepType, ExcepCause
  <2>6. Finish(e, h.pc, raisedAt) \/ hart' = e
    BY <2>2
  <2> HIDE DEF e
  <2> QED  BY <2>5, <2>6, FinishTimely
<1>4. CASE Mret \/ Sret
  <2>1. PICK h \in Tick(hart) : \/ Finish(MretState(h), h.pc, raisedAt)
                                \/ Finish(SretState(h), h.pc, raisedAt)
    BY <1>4 DEF Mret, Sret
  <2>2. h \in HartType /\ h.scause # TimerCause
    BY TickCore DEF Core
  <2>3. \A g \in {MretState(h), SretState(h)} : g.scause = h.scause
    BY <2>2 DEF MretState, SretState, HartType
  <2> QED  BY <2>1, <2>2, <2>3, RetType, FinishTimely
<1>5. CASE CsrWrite
  <2>1. PICK h \in Tick(hart), r \in CsrNames : \E v \in CsrVals[r] :
          Finish([csr_write(h, r, v) EXCEPT !.pc = Succ(@)], h.pc, raisedAt)
    BY <1>5 DEF CsrWrite
  <2>2. PICK v \in CsrVals[r] :
          Finish([csr_write(h, r, v) EXCEPT !.pc = Succ(@)], h.pc, raisedAt)
    BY <2>1
  <2>3. h \in HartType /\ h.scause # TimerCause /\ v \in CsrTypes(r) /\ r # "scause"
    BY TickCore, GuestAssumption DEF Core
  <2> DEFINE w == csr_write(h, r, v)
             g == [w EXCEPT !.pc = Succ(@)]
  <2>4. w \in HartType
    BY <2>3, CsrWriteType
  <2>5. w.scause = h.scause
    BY <2>3 DEF csr_write, CsrNames, HartType
  <2>6. Finish(g, h.pc, raisedAt)
    BY <2>2
  <2> HIDE DEF w
  <2>7. g \in HartType /\ g.scause = h.scause
    BY <2>4, <2>5, SuccPrevType DEF HartType
  <2> QED  BY <2>3, <2>6, <2>7, FinishTimely
<1>6. CASE FetchExit \/ FetchOutsideRam \/ BusError \/ Uret \/ Fence
  BY <1>6, EndingTurn DEF Core
<1>7. CASE FetchFault \/ LoadFault \/ StoreFault
  <2>1. PICK h \in HartType, c \in Codes : \E m \in ExcModes(h, c) :
           LET e == excep_function(h, Succ(h.pc), c, m)
           IN  Core(h, hart) /\ Core(hart', e)
    BY <1>7, FaultTurn
  <2> QED  BY <2>1, ExcepCause DEF Core
<1>8. CASE Stopped
  BY <1>8 DEF Stopped, vars
<1> QED
  BY <1>1, <1>2, <1>3, <1>4, <1>5, <1>6, <1>7, <1>8
  DEF Next, Checked, Unchecked

\* A supervisor that does not write scause itself is told of a timer interrupt
\* only in a turn whose clock has reached mtimecmp: the tail of the main loop
\* recomputes STIP before it looks at mip, so no due time left over from an
\* earlier turn is delivered.
THEOREM TimerTrapsInTime ==
    ASSUME CsrVals["scause"] = {}
    PROVE  Spec => TimerTrapsDue
<1> DEFINE Step == (hart.scause # Interrupt(STI) /\ hart'.scause = Interrupt(STI))
                      => hart'.timer = "due"
<1>1. TypeOK /\ [Next]_vars => [Step]_vars
  BY TimelyStep DEF TimerCause
<1>2. TimerTrapsDue <=> [][Step]_vars
  BY DEF TimerTrapsDue
<1> QED  BY <1>1, <1>2, TypeCorrect, PTL DEF Spec
=============================================================================
