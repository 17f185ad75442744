------------------------------ MODULE Atomics ------------------------------
(***************************************************************************)
(* LR/SC and the atomic memory operations of emu.cpp on a hart that the    *)
(* guest's operating system shares between threads.                        *)
(*                                                                         *)
(* Memory is made of double-words (cells) of two words; what they hold     *)
(* does not matter here, who wrote to them last does.  The hart keeps      *)
(* one reservation for LR.W and one for LR.D, each the VIRTUAL address of  *)
(* the last LR; only an SC of the same width gives one up.  A virtual      *)
(* address is a page of the running thread and an offset: 0 and 4 are the  *)
(* two words, 6 stands for the offsets at which a word would leave its     *)
(* cell, the only misalignment that the word instructions see.             *)
(*                                                                         *)
(* What the running thread does is free.  The operating system takes the   *)
(* hart at any point, gives up reservations with dummy SCs of the widths   *)
(* in Yield and resumes any thread.                                        *)
(***************************************************************************)
EXTENDS Naturals

CONSTANTS
    Threads, Pages, Cells,
    Frame,       \* Frame[t][p]: the cell that page p of thread t is mapped to
    BaseCell,    \* the cell at DRAM_BASE
    Yield        \* widths of the dummy SCs of a context switch

Widths == {"W", "D"}
Offsets == {0, 4, 6}
VAddr == [page : Pages, off : Offsets]
Words == Cells \X {0, 4}

ASSUME AtomicsAssumption ==
    /\ Frame \in [Threads -> [Pages -> Cells]]
    /\ Yield \subseteq Widths

VARIABLES
    resv,       \* resv[w]: {amo_reserve_addr(64)}, or {} while not valid
    ret_data,   \* what the last AMO instruction put in rd
    cur,        \* the running thread
    halted,     \* the emulator has called exit
    lr          \* history: what the LR of each thread and width holds

avars == <<resv, ret_data, cur, halted, lr>>

\* rd as a later branch sees it: 0, 1 or loaded data
Rets == {"zero", "one", "data"}

\* Words that an LR has read and nobody else has written to since; {} when its
\* thread has executed the SC or another thread has written.
Broken == {}

-----------------------------------------------------------------------------

\* The words that an access of width w of thread t touches.
Covered(t, va, w) ==
    LET c == Frame[t][va.page]
    IN  IF w = "D" THEN {c} \X {0, 4} ELSE {<<c, va.off>>}

\* Word accesses fail where the word leaves its cell, double-words off 0.
Aligned(va, w) == IF w = "W" THEN va.off # 6 ELSE va.off = 0

\* An AMO must lie strictly above DRAM_BASE; one at DRAM_BASE ends the run.
AtBase(va) == Frame[cur][va.page] = BaseCell /\ va.off = 0

\* The running thread may execute an AMO instruction at va.
Ready(va) == ~halted /\ ~AtBase(va)

\* The running thread changes the words ws; its LRs are then own, those of
\* other threads on these words are broken.
Write(ws, own) ==
    lr' = [t \in Threads |->
              IF t = cur THEN own
              ELSE [w \in Widths |-> IF lr[t][w] \cap ws = {} THEN lr[t][w]
                                                            ELSE Broken]]

-----------------------------------------------------------------------------

\* LR.W and LR.D
LR(w, va) ==
    /\ Ready(va) /\ Aligned(va, w)
    /\ resv' = [resv EXCEPT ![w] = {va}]
    /\ ret_data' = "data"
    /\ lr' = [lr EXCEPT ![cur][w] = Covered(cur, va, w)]
    /\ UNCHANGED <<cur, halted>>

\* Mutant: the reservation is made before the alignment is tested.
Misaligned_Reserves(w, va) ==
    /\ Ready(va) /\ ~Aligned(va, w)
    /\ resv' = [resv EXCEPT ![w] = {va}]
    /\ UNCHANGED <<ret_data, cur, halted, lr>>

\* A misaligned LR or AMO raises STORE_ADDR_MISSALIG and leaves ret_data, which
\* goes to rd, as an earlier AMO instruction left it.
Misaligned(w, va) ==
    /\ Ready(va) /\ ~Aligned(va, w)
    /\ UNCHANGED <<resv, ret_data, cur, halted, lr>>

Reserved(w, va) == va \in resv[w]

\* Mutant: an SC does not give its reservation up.
AfterSC_Keeps(rs, w) == rs

\* Every SC ends the reservation of its own width, and of no other.
AfterSC(rs, w) == [rs EXCEPT ![w] = {}]

\* SC.W and SC.D on a valid reservation of the same address.  A misaligned SC.D
\* would leave ret_data alone, a misaligned SC.W would set it to 1.
ScReserved(w, va) ==
    /\ Ready(va) /\ Reserved(w, va)
    /\ Write(IF Aligned(va, w) THEN Covered(cur, va, w) ELSE {},
             [lr[cur] EXCEPT ![w] = Broken])
    /\ ret_data' = IF Aligned(va, w) THEN "zero"
                   ELSE IF w = "W" THEN "one" ELSE ret_data
    /\ resv' = AfterSC(resv, w)
    /\ UNCHANGED <<cur, halted>>

\* SC.W and SC.D otherwise
ScRefused(w, va) ==
    /\ Ready(va) /\ ~Reserved(w, va)
    /\ ret_data' = "one"
    /\ resv' = AfterSC(resv, w)
    /\ lr' = [lr EXCEPT ![cur][w] = Broken]
    /\ UNCHANGED <<cur, halted>>

\* AMOSWAP ... AMOMAXU: the old value goes to rd, a new one to memory.
Amo(w, va) ==
    /\ Ready(va) /\ Aligned(va, w)
    /\ Write(Covered(cur, va, w), lr[cur])
    /\ ret_data' = "data"
    /\ UNCHANGED <<resv, cur, halted>>

\* A plain store; a misaligned one is dropped.  Reservations stay.
Store(w, va) ==
    /\ ~halted /\ Aligned(va, w)
    /\ Write(Covered(cur, va, w), lr[cur])
    /\ UNCHANGED <<resv, ret_data, cur, halted>>

AmoAtBase(va) ==
    /\ ~halted /\ AtBase(va)
    /\ halted' = TRUE
    /\ UNCHANGED <<resv, ret_data, cur, lr>>

\* A trap (an interrupt, or a page fault of any of the above) and the return
\* to thread t, with the dummy SCs of the context switch on the way.
Switch(t) ==
    /\ ~halted
    /\ cur' = t
    /\ resv' = [w \in Widths |-> IF w \in Yield THEN AfterSC(resv, w)[w] ELSE resv[w]]
    /\ ret_data' = IF Yield = {} THEN ret_data ELSE "one"
    /\ UNCHANGED <<halted, lr>>

Exited == halted /\ UNCHANGED avars

AInit ==
    /\ resv = [w \in Widths |-> {}]
    /\ ret_data = "zero"
    /\ cur \in Threads
    /\ halted = FALSE
    /\ lr = [t \in Threads |-> [w \in Widths |-> Broken]]

Conditional == \E w \in Widths, va \in VAddr : ScReserved(w, va) \/ ScRefused(w, va)

ANext ==
    \/ \E w \in Widths, va \in VAddr :
          LR(w, va) \/ Misaligned(w, va) \/ Amo(w, va) \/ Store(w, va)
    \/ Conditional
    \/ \E va \in VAddr : AmoAtBase(va)
    \/ \E t \in Threads : Switch(t)
    \/ Exited

ASpec == AInit /\ [][ANext]_avars

\* The hart keeps executing.
AFair == ASpec /\ WF_avars(ANext)

-----------------------------------------------------------------------------
(* Properties *)

\* Type correctness
ATypeOK ==
    /\ resv \in [Widths -> SUBSET VAddr]
    /\ ret_data \in Rets /\ cur \in Threads /\ halted \in BOOLEAN
    /\ lr \in [Threads -> [Widths -> SUBSET Words]]

\* An SC stores only where the LR of its own thread has read, and only if no
\* other thread has written there in between, whatever the operating system
\* and the other threads have done since.
ScExclusive ==
    [][\A w \in Widths, va \in VAddr :
          (ScReserved(w, va) /\ Aligned(va, w)) => lr[cur][w] = Covered(cur, va, w)]_avars

\* rd tells the truth about an SC: 0 if and only if it has stored.  In
\* particular no SC answers with what an earlier instruction left in ret_data.
ScTellsTruth ==
    [][\A w \in Widths, va \in VAddr :
          (ScReserved(w, va) \/ ScRefused(w, va)) =>
              (ret_data' = "zero" <=> Reserved(w, va) /\ Aligned(va, w))]_avars

=============================================================================
