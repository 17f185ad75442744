-------------------------------- MODULE Sv39 --------------------------------
(***************************************************************************)
(* Address translation: the page-table walk of translate() in csr_file.h,  *)
(* on tables in guest memory that an operating system edits while its      *)
(* processes access memory, take page faults and try again.                *)
(*                                                                         *)
(* A page number is a tuple of three digits, the most significant first:   *)
(* <<PPN2, PPN1, PPN0>> of a frame, <<VPN2, VPN1, VPN0>> of a virtual      *)
(* page.  The page offset passes through a translation unchanged and is    *)
(* left out.  translate() computes with PPN2 in 32 bits: an address keeps  *)
(* it modulo PaTop (4), a pointer to a table modulo PtrTop (2^14).         *)
(***************************************************************************)
EXTENDS Naturals

CONSTANTS
    Idx,         \* values of the digits other than PPN2
    Tops,        \* values of PPN2
    PaTop, PtrTop,
    BaseTop,     \* PPN2 of DRAM_BASE
    Ram,         \* frames of the RAM array
    Root,        \* satp.PPN
    Edits,       \* Edits[f][i]: what the guest writes to entry i of frame f
    Requests     \* the accesses its processes make

Bit == {0, 1}
Frames == Tops \X Idx \X Idx
Pages == Idx \X Idx \X Idx

ASSUME DigitsAssumption ==
    /\ Idx \subseteq Nat /\ 0 \in Idx /\ Tops \subseteq Nat /\ 0 \in Tops
    /\ PaTop \in Nat /\ PtrTop \in Nat /\ BaseTop \in Nat
    /\ 0 < BaseTop /\ BaseTop <= PaTop /\ PaTop <= PtrTop

\* RAM lies in the 4 GiB that an address reaches.
ASSUME RamAssumption ==
    /\ Ram \subseteq Frames /\ Root \in Ram
    /\ \A f \in Ram : BaseTop <= f[1] /\ f[1] < PaTop

PTEs == [v : Bit, r : Bit, w : Bit, x : Bit, u : Bit, a : Bit, d : Bit,
         ppn : Frames]

\* RAM is zero when the emulator starts.
ZeroPTE == [v |-> 0, r |-> 0, w |-> 0, x |-> 0, u |-> 0, a |-> 0, d |-> 0,
            ppn |-> <<0, 0, 0>>]

ASSUME EditsAssumption ==
    \A f \in Ram, i \in Idx : Edits[f][i] \subseteq PTEs

AccessTypes == {"INST", "LOAD", "STOR"}
Privs == {"U", "S"}

\* sum and mxr are the bits of mstatus.
Accesses == [va : Pages, type : AccessTypes, priv : Privs, sum : Bit, mxr : Bit]

ASSUME RequestsAssumption == Requests \subseteq Accesses

VARIABLES
    pt,      \* pt[f][i]: entry i of frame f, read as a page-table entry
    acc,     \* the access of the running process
    phase,   \* "idle", "walk", "fault", "done", "killed", "crashed"
    page     \* the frame that the access has reached, or NoPage

svars == <<pt, acc, phase, page>>

NoPage == <<0, 0, 0>>
Phases == {"idle", "walk", "fault", "done", "killed", "crashed"}

-----------------------------------------------------------------------------
(* translate() *)

Fault == [kind |-> "fault"]
Crash == [kind |-> "crashed"]
Found(f) == [kind |-> "done", frame |-> f]

\* The RAM array starts at DRAM_BASE; a table below it is not refused and
\* aliases RAM.
ArrayFrame(f) == IF f[1] >= BaseTop THEN f ELSE <<f[1] + BaseTop, f[2], f[3]>>

\* memory.at() throws beyond the array.
InArray(f) == ArrayFrame(f) \in Ram
Entry(f, i) == pt[ArrayFrame(f)][i]

Invalid(e) == e.v = 0 \/ (e.r = 0 /\ e.w = 1)
IsLeaf(e) == e.r = 1 \/ e.x = 1

\* sv39pte_t: PPN2 << 18 in 32 bits
NextTable(e) == <<e.ppn[1] % PtrTop, e.ppn[2], e.ppn[3]>>

\* Mutant: the digit is not cut to 32 bits.
PhyAddr_Wide(p2, p1, p0) == <<p2, p1, p0>>

\* sv39pa_t: PPN2 << 30 in 32 bits
PhyAddr(p2, p1, p0) == <<p2 % PaTop, p1, p0>>

\* Mutant: a load wants the dirty bit too.
LeafRefuses_LoadDirty(e, type) ==
    \/ e.a = 0 \/ e.d = 0
    \/ type = "STOR" /\ e.w = 0

\* Mutant: a store does not look at the W bit.
LeafRefuses_NoW(e, type) ==
    \/ type = "STOR" /\ (e.a = 0 \/ e.d = 0)
    \/ type \in {"INST", "LOAD"} /\ e.a = 0

\* What is left of the checks on a leaf
LeafRefuses(e, type) ==
    \/ type = "STOR" /\ (e.a = 0 \/ e.d = 0)
    \/ type \in {"INST", "LOAD"} /\ e.a = 0
    \/ type = "STOR" /\ e.w = 0

Leaf(e, type, pa) == IF LeafRefuses(e, type) THEN Fault ELSE Found(pa)

\* pte0
Walk0(f, va, type) ==
    LET e == Entry(f, va[3])
    IN  CASE ~InArray(f) -> Crash
          [] InArray(f) /\ (Invalid(e) \/ ~IsLeaf(e)) -> Fault
          [] OTHER -> Leaf(e, type, PhyAddr(e.ppn[1], e.ppn[2], e.ppn[3]))

\* Mutant: a superpage takes its last digit from the entry.
Walk1_KeepsPPN0(f, va, type) ==
    LET e == Entry(f, va[2])
    IN  CASE ~InArray(f) -> Crash
          [] InArray(f) /\ Invalid(e) -> Fault
          [] InArray(f) /\ ~Invalid(e) /\ IsLeaf(e) ->
                Leaf(e, type, PhyAddr(e.ppn[1], e.ppn[2], e.ppn[3]))
          [] OTHER -> Walk0(NextTable(e), va, type)

\* pte1
Walk1(f, va, type) ==
    LET e == Entry(f, va[2])
    IN  CASE ~InArray(f) -> Crash
          [] InArray(f) /\ Invalid(e) -> Fault
          [] InArray(f) /\ ~Invalid(e) /\ IsLeaf(e) ->
                Leaf(e, type, PhyAddr(e.ppn[1], e.ppn[2], va[3]))
          [] OTHER -> Walk0(NextTable(e), va, type)

\* pte2; the privilege mode no longer matters here.
translate(va, type) ==
    LET e == Entry(Root, va[1])
    IN  CASE Invalid(e) -> Fault
          [] ~Invalid(e) /\ IsLeaf(e) -> Leaf(e, type, PhyAddr(e.ppn[1], va[2], va[3]))
          [] OTHER -> Walk1(NextTable(e), va, type)

-----------------------------------------------------------------------------
(* Section 4.3.2 of the privileged manual.  Level n stands for its i = 3 - n. *)

\* The table at each level, and the entry in it that va selects
Entry1(va) == pt[Root][va[1]]
Entry2(va) == pt[Entry1(va).ppn][va[2]]
Entry3(va) == pt[Entry2(va).ppn][va[3]]

TableAt(va, n) == CASE n = 1 -> Root [] n = 2 -> Entry1(va).ppn
                    [] n = 3 -> Entry2(va).ppn
EntryAt(va, n) == CASE n = 1 -> Entry1(va) [] n = 2 -> Entry2(va)
                    [] n = 3 -> Entry3(va)

\* Step 4: a valid entry that points to the next table, which is in RAM
Points(e) == e.v = 1 /\ e.r = 0 /\ e.w = 0 /\ e.x = 0 /\ e.ppn \in Ram

Reaches(va, n) == /\ n > 1 => Points(Entry1(va))
                  /\ n > 2 => Points(Entry2(va))

\* Step 5
Permits(e, acs) ==
    /\ acs.type = "STOR" => e.w = 1
    /\ acs.type = "INST" => e.x = 1
    /\ acs.type = "LOAD" => (e.r = 1 \/ (acs.mxr = 1 /\ e.x = 1))
    /\ acs.priv = "U" => e.u = 1
    /\ (acs.priv = "S" /\ e.u = 1) => (acs.type # "INST" /\ acs.sum = 1)

\* Steps 3 to 6 end at level n with a leaf that allows the access.
Allowed(acs, n) ==
    LET e == EntryAt(acs.va, n)
    IN  /\ Reaches(acs.va, n)
        /\ e.v = 1 /\ ~(e.r = 0 /\ e.w = 1) /\ (e.r = 1 \/ e.x = 1)
        /\ Permits(e, acs)
        /\ \A k \in 2 .. 3 : k > n => e.ppn[k] = 0

\* Step 7
Current(e, type) == e.a = 1 /\ (type = "STOR" => e.d = 1)

\* Step 8
Target(va, n) ==
    LET e == EntryAt(va, n)
    IN  <<e.ppn[1], IF n >= 2 THEN e.ppn[2] ELSE va[2],
                    IF n >= 3 THEN e.ppn[3] ELSE va[3]>>

-----------------------------------------------------------------------------
(* Processes and the operating system *)

Request ==
    /\ phase \in {"idle", "done", "killed"}
    /\ acc' \in Requests
    /\ phase' = "walk" /\ page' = NoPage
    /\ UNCHANGED pt

\* The load, store, AMO or fetch is executed.
Walk ==
    /\ phase = "walk"
    /\ LET t == translate(acc.va, acc.type)
       IN  /\ phase' = t.kind
           /\ page' = IF t.kind = "done" THEN t.frame ELSE page
    /\ UNCHANGED <<pt, acc>>

Marked(e, type) == [e EXCEPT !.a = 1, !.d = IF type = "STOR" THEN 1 ELSE e.d]

\* The page-fault handler keeps the A and D bits, which the emulator does not
\* set, in software, and has the access repeated.
Repair ==
    /\ phase = "fault"
    /\ \E n \in 1 .. 3 :
          /\ Allowed(acc, n)
          /\ pt' = [pt EXCEPT ![TableAt(acc.va, n)][acc.va[n]] =
                       Marked(EntryAt(acc.va, n), acc.type)]
    /\ phase' = "walk"
    /\ UNCHANGED <<acc, page>>

\* The handler finds no mapping for the access.
Kill ==
    /\ phase = "fault"
    /\ \A n \in 1 .. 3 : ~Allowed(acc, n)
    /\ phase' = "killed"
    /\ UNCHANGED <<pt, acc, page>>

\* The operating system changes an entry, between two accesses or before an
\* access is repeated.
Edit ==
    /\ phase \in {"idle", "walk"}
    /\ \E f \in Ram, i \in Idx : \E e \in Edits[f][i] :
          pt' = [pt EXCEPT ![f][i] = e]
    /\ UNCHANGED <<acc, phase, page>>

Crashed == phase = "crashed" /\ UNCHANGED svars

SInit ==
    /\ pt = [f \in Ram |-> [i \in Idx |-> ZeroPTE]]
    /\ acc \in Requests /\ phase = "idle" /\ page = NoPage

SNext == Request \/ Walk \/ Repair \/ Kill \/ Edit \/ Crashed

SSpec == SInit /\ [][SNext]_svars

\* The hart keeps executing: an access is carried out, a handler runs.
SFair == SSpec /\ WF_svars(Walk) /\ WF_svars(Repair \/ Kill)

-----------------------------------------------------------------------------
(* Properties *)

\* Type correctness.  A physical address has 32 bits, so that none is mistaken
\* for the -1 of a page fault.
STypeOK ==
    /\ pt \in [Ram -> [Idx -> PTEs]]
    /\ acc \in Accesses /\ phase \in Phases
    /\ page \in (0 .. PaTop - 1) \X Idx \X Idx

\* Whatever the tables hold, an access that the manual's algorithm carries out
\* to RAM is carried out by translate(), to the same address: at every level,
\* for superpages too, no page fault is spurious.
WalkAgrees ==
    \A acs \in Accesses, n \in 1 .. 3 :
        (/\ Allowed(acs, n) /\ Current(EntryAt(acs.va, n), acs.type)
         /\ Target(acs.va, n) \in Ram)
        => translate(acs.va, acs.type) = Found(Target(acs.va, n))

\* Every pointer of the tables leads to RAM.
TablesInRam ==
    \A f \in Ram, i \in Idx :
        LET e == pt[f][i]
        IN  (~Invalid(e) /\ ~IsLeaf(e)) => e.ppn \in Ram

\* Copy on write and write-back rest on this: a store reaches memory only
\* through an entry that is writable and already marked dirty.
StoresTracked ==
    [][(Walk /\ acc.type = "STOR" /\ phase' = "done" /\ TablesInRam) =>
          \E n \in 1 .. 3 :
              LET e == EntryAt(acc.va, n)
              IN  /\ Reaches(acc.va, n) /\ IsLeaf(e)
                  /\ e.v = 1 /\ e.w = 1 /\ e.d = 1 /\ e.a = 1
                  /\ page'[1] = e.ppn[1] % PaTop]_svars

\* Unless the tables change for ever, an access ends: a handler that sets A,
\* and D for a store, is never sent round in circles.
DemandPagingEnds ==
    \/ []<><<Edit>>_svars
    \/ (phase = "walk" ~> phase \in {"done", "killed", "crashed"})

=============================================================================
