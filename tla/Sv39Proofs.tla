----------------------------- MODULE Sv39Proofs -----------------------------
(***************************************************************************)
(* Sv39 for every width of the digits, every RAM and every table.          *)
(***************************************************************************)
EXTENDS Sv39, TLAPS

\* What translate() returns is a fault, a crash or a frame below 4 GiB.
LEMMA WalkType ==
    ASSUME STypeOK, NEW va \in Pages, NEW type \in AccessTypes
    PROVE  LET t == translate(va, type)
           IN  \/ t = Fault \/ t = Crash
               \/ \E f \in (0 .. PaTop - 1) \X Idx \X Idx : t = Found(f)
<1> DEFINE Out(t) == \/ t = Fault \/ t = Crash
                     \/ \E f \in (0 .. PaTop - 1) \X Idx \X Idx : t = Found(f)
<1>1. ASSUME NEW e \in PTEs, NEW p1 \in Idx, NEW p0 \in Idx
      PROVE  Out(Leaf(e, type, PhyAddr(e.ppn[1], p1, p0)))
  <2>1. e.ppn[1] \in Nat
    BY DigitsAssumption DEF PTEs, Frames
  <2>2. e.ppn[1] % PaTop \in 0 .. PaTop - 1
    BY <2>1, DigitsAssumption
  <2>3. PhyAddr(e.ppn[1], p1, p0) \in (0 .. PaTop - 1) \X Idx \X Idx
    BY <2>2 DEF PhyAddr
  <2> QED BY <2>3 DEF Leaf
<1>2. va[1] \in Idx /\ va[2] \in Idx /\ va[3] \in Idx
  BY DEF Pages
<1>3. ASSUME NEW f, InArray(f), NEW i \in Idx
      PROVE  Entry(f, i) \in PTEs
  BY <1>3 DEF InArray, Entry, STypeOK
<1>4. ASSUME NEW e \in PTEs
      PROVE  e.ppn[2] \in Idx /\ e.ppn[3] \in Idx
  BY DEF PTEs, Frames
<1>5. ASSUME NEW f PROVE Out(Walk0(f, va, type))
  <2>1. CASE ~InArray(f)
    BY <2>1 DEF Walk0
  <2>2. CASE InArray(f)
    <3>1. Entry(f, va[3]) \in PTEs
      BY <1>2, <1>3, <2>2
    <3> HIDE DEF Out
    <3>2. Out(Fault) BY DEF Out
    <3>3. Out(Leaf(Entry(f, va[3]), type,
                   PhyAddr(Entry(f, va[3]).ppn[1], Entry(f, va[3]).ppn[2],
                           Entry(f, va[3]).ppn[3])))
      BY <1>1, <1>4, <3>1
    <3> QED BY <2>2, <3>2, <3>3 DEF Walk0
  <2> QED BY <2>1, <2>2
<1>6. ASSUME NEW f PROVE Out(Walk1(f, va, type))
  <2>1. CASE ~InArray(f)
    BY <2>1 DEF Walk1
  <2>2. CASE InArray(f)
    <3>1. Entry(f, va[2]) \in PTEs
      BY <1>2, <1>3, <2>2
    <3> HIDE DEF Out
    <3>2. Out(Fault) BY DEF Out
    <3>3. Out(Leaf(Entry(f, va[2]), type,
                   PhyAddr(Entry(f, va[2]).ppn[1], Entry(f, va[2]).ppn[2], va[3])))
      BY <1>1, <1>2, <1>4, <3>1
    <3> QED BY <1>5, <2>2, <3>2, <3>3 DEF Walk1
  <2> QED BY <2>1, <2>2
<1>7. InArray(Root)
  BY RamAssumption DEF InArray, ArrayFrame
<1>8. Entry(Root, va[1]) \in PTEs
  BY <1>2, <1>3, <1>7
<1>9. Out(translate(va, type))
  <2> HIDE DEF Out
  <2>1. Out(Fault) BY DEF Out
  <2>2. Out(Leaf(Entry(Root, va[1]), type,
                 PhyAddr(Entry(Root, va[1]).ppn[1], va[2], va[3])))
    BY <1>1, <1>2, <1>8
  <2> QED BY <1>6, <2>1, <2>2 DEF translate
<1> QED BY <1>9

\* A frame of RAM is its own place in the array and survives the cut to 32 bits.
LEMMA RamFrames ==
    ASSUME NEW f \in Ram
    PROVE  /\ f = <<f[1], f[2], f[3]>> /\ f \in Frames
           /\ ArrayFrame(f) = f /\ InArray(f)
           /\ f[1] % PaTop = f[1] /\ f[1] % PtrTop = f[1]
<1>1. f \in Frames /\ BaseTop <= f[1] /\ f[1] < PaTop
  BY RamAssumption
<1>2. f = <<f[1], f[2], f[3]>> /\ f[1] \in Nat
  <2>1. PICK a \in Tops, b \in Idx, c \in Idx : f = <<a, b, c>>
    BY <1>1 DEF Frames
  <2> QED BY <2>1, DigitsAssumption
<1>3. f[1] % PaTop = f[1] /\ f[1] % PtrTop = f[1]
  BY <1>1, <1>2, DigitsAssumption
<1>4. ArrayFrame(f) = f
  BY <1>1 DEF ArrayFrame
<1> QED BY <1>1, <1>2, <1>3, <1>4 DEF InArray

\* A pointer to a table in RAM is followed to that table.
LEMMA FollowsPointer ==
    ASSUME NEW e \in PTEs, e.ppn \in Ram
    PROVE  NextTable(e) = e.ppn
BY RamFrames DEF NextTable

\* The address of a frame in RAM is that frame.
LEMMA ReachesRam ==
    ASSUME NEW a \in Nat, NEW b, NEW c, <<a, b, c>> \in Ram
    PROVE  PhyAddr(a, b, c) = <<a, b, c>>
<1>1. <<a, b, c>>[1] % PaTop = <<a, b, c>>[1]
  BY RamFrames
<1> QED BY <1>1 DEF PhyAddr

\* The root and every entry that the walk reads through RAM are entries.
LEMMA EntryTypes ==
    ASSUME STypeOK, NEW va \in Pages, NEW n \in 1 .. 3, Reaches(va, n)
    PROVE  /\ EntryAt(va, n) \in PTEs
           /\ Entry1(va) \in PTEs
           /\ n > 1 => Entry2(va) \in PTEs
<1>1. va[1] \in Idx /\ va[2] \in Idx /\ va[3] \in Idx
  BY DEF Pages
<1>2. ASSUME NEW f \in Ram, NEW i \in Idx PROVE pt[f][i] \in PTEs
  BY DEF STypeOK
<1>3. Entry1(va) \in PTEs
  BY <1>1, <1>2, RamAssumption DEF Entry1
<1>4. ASSUME n > 1 PROVE Entry2(va) \in PTEs
  BY <1>1, <1>2, <1>4 DEF Entry2, Reaches, Points
<1>5. ASSUME n > 2 PROVE Entry3(va) \in PTEs
  BY <1>1, <1>2, <1>5 DEF Entry3, Reaches, Points
<1>6. n = 1 \/ n = 2 \/ n = 3
  OBVIOUS
<1> QED BY <1>3, <1>4, <1>5, <1>6 DEF EntryAt

\* translate() follows the manual's walk down to level n: it ends with that
\* leaf's checks, at the manual's address cut to 32 bits.
LEMMA WalkFollows ==
    ASSUME STypeOK, NEW va \in Pages, NEW type \in AccessTypes,
           NEW n \in 1 .. 3, Reaches(va, n),
           ~Invalid(EntryAt(va, n)), IsLeaf(EntryAt(va, n))
    PROVE  translate(va, type) =
              Leaf(EntryAt(va, n), type,
                   PhyAddr(Target(va, n)[1], Target(va, n)[2], Target(va, n)[3]))
<1>1. Entry(Root, va[1]) = Entry1(va)
  BY RamAssumption, RamFrames DEF Entry, Entry1
<1>2. CASE n = 1
  <2>1. EntryAt(va, n) = Entry1(va)
    BY <1>2 DEF EntryAt
  <2>2. Target(va, n) = <<Entry1(va).ppn[1], va[2], va[3]>>
    BY <1>2, <2>1 DEF Target
  <2> QED BY <1>1, <2>1, <2>2 DEF translate
<1>3. ASSUME n > 1
      PROVE  /\ translate(va, type) = Walk1(Entry1(va).ppn, va, type)
             /\ InArray(Entry1(va).ppn)
             /\ Entry(Entry1(va).ppn, va[2]) = Entry2(va)
  <2>1. Points(Entry1(va)) /\ Entry1(va) \in PTEs
    BY <1>3, EntryTypes DEF Reaches
  <2>2. ~Invalid(Entry1(va)) /\ ~IsLeaf(Entry1(va)) /\ Entry1(va).ppn \in Ram
    BY <2>1 DEF Points, Invalid, IsLeaf
  <2>3. NextTable(Entry1(va)) = Entry1(va).ppn
    BY <2>1, <2>2, FollowsPointer
  <2>4. translate(va, type) = Walk1(Entry1(va).ppn, va, type)
    BY <1>1, <2>2, <2>3 DEF translate
  <2> QED BY <2>2, <2>4, RamFrames DEF Entry, Entry2
<1>4. CASE n = 2
  <2>1. EntryAt(va, n) = Entry2(va)
    BY <1>4 DEF EntryAt
  <2>2. Target(va, n) = <<Entry2(va).ppn[1], Entry2(va).ppn[2], va[3]>>
    BY <1>4, <2>1 DEF Target
  <2> QED BY <1>3, <1>4, <2>1, <2>2 DEF Walk1
<1>5. CASE n = 3
  <2>1. EntryAt(va, n) = Entry3(va)
    BY <1>5 DEF EntryAt
  <2>2. Target(va, n) = <<Entry3(va).ppn[1], Entry3(va).ppn[2], Entry3(va).ppn[3]>>
    BY <1>5, <2>1 DEF Target
  <2>3. Points(Entry2(va)) /\ Entry2(va) \in PTEs
    BY <1>5, EntryTypes DEF Reaches
  <2>4. ~Invalid(Entry2(va)) /\ ~IsLeaf(Entry2(va)) /\ Entry2(va).ppn \in Ram
    BY <2>3 DEF Points, Invalid, IsLeaf
  <2>5. NextTable(Entry2(va)) = Entry2(va).ppn
    BY <2>3, <2>4, FollowsPointer
  <2>6. translate(va, type) = Walk0(Entry2(va).ppn, va, type)
    BY <1>3, <1>5, <2>4, <2>5 DEF Walk1
  <2>7. InArray(Entry2(va).ppn) /\ Entry(Entry2(va).ppn, va[3]) = Entry3(va)
    BY <2>4, RamFrames DEF Entry, Entry3
  <2> QED BY <2>1, <2>2, <2>6, <2>7 DEF Walk0
<1> QED BY <1>2, <1>4, <1>5

\* With all tables in RAM, a walk that does not fault ends at a leaf.
LEMMA EndsAtLeaf ==
    ASSUME STypeOK, TablesInRam, NEW va \in Pages, NEW type \in AccessTypes,
           translate(va, type) # Fault
    PROVE  \E n \in 1 .. 3 : /\ Reaches(va, n)
                             /\ ~Invalid(EntryAt(va, n)) /\ IsLeaf(EntryAt(va, n))
<1> SUFFICES ASSUME \A n \in 1 .. 3 : Reaches(va, n) =>
                        Invalid(EntryAt(va, n)) \/ ~IsLeaf(EntryAt(va, n))
             PROVE  FALSE
  OBVIOUS
<1>0. va[1] \in Idx /\ va[2] \in Idx /\ va[3] \in Idx
  BY DEF Pages
<1>1. ASSUME NEW f \in Ram, NEW i \in Idx,
             ~Invalid(pt[f][i]), ~IsLeaf(pt[f][i])
      PROVE  Points(pt[f][i]) /\ NextTable(pt[f][i]) = pt[f][i].ppn
  <2>1. pt[f][i] \in PTEs
    BY DEF STypeOK
  <2>2. pt[f][i].ppn \in Ram
    BY <1>1 DEF TablesInRam
  <2>3. Points(pt[f][i])
    BY <1>1, <2>1, <2>2 DEF Points, Invalid, IsLeaf, PTEs, Bit
  <2> QED BY <2>1, <2>2, <2>3, FollowsPointer
<1>2. Entry(Root, va[1]) = Entry1(va)
  BY RamAssumption, RamFrames DEF Entry, Entry1
<1>3. ~Invalid(Entry1(va))
  BY <1>2 DEF translate
<1>4. ~IsLeaf(Entry1(va))
  BY <1>3 DEF Reaches, EntryAt
<1>5. Points(Entry1(va)) /\ NextTable(Entry1(va)) = Entry1(va).ppn
  BY <1>0, <1>1, <1>3, <1>4, RamAssumption DEF Entry1
<1>6. Entry1(va).ppn \in Ram
  BY <1>5 DEF Points
<1>7. translate(va, type) = Walk1(Entry1(va).ppn, va, type)
  BY <1>2, <1>3, <1>4, <1>5 DEF translate
<1>8. InArray(Entry1(va).ppn) /\ Entry(Entry1(va).ppn, va[2]) = Entry2(va)
  BY <1>6, RamFrames DEF Entry, Entry2
<1>9. ~Invalid(Entry2(va))
  BY <1>7, <1>8 DEF Walk1
<1>10. ~IsLeaf(Entry2(va))
  BY <1>5, <1>9 DEF Reaches, EntryAt
<1>11. Points(Entry2(va)) /\ NextTable(Entry2(va)) = Entry2(va).ppn
  BY <1>0, <1>1, <1>6, <1>9, <1>10 DEF Entry2
<1>12. Entry2(va).ppn \in Ram
  BY <1>11 DEF Points
<1>13. translate(va, type) = Walk0(Entry2(va).ppn, va, type)
  BY <1>7, <1>8, <1>9, <1>10, <1>11 DEF Walk1
<1>14. InArray(Entry2(va).ppn) /\ Entry(Entry2(va).ppn, va[3]) = Entry3(va)
  BY <1>12, RamFrames DEF Entry, Entry3
<1>15. ~Invalid(Entry3(va)) /\ IsLeaf(Entry3(va))
  BY <1>13, <1>14 DEF Walk0
<1> QED BY <1>5, <1>11, <1>15 DEF Reaches, EntryAt

-----------------------------------------------------------------------------

\* Type correctness is inductive.
LEMMA PagingInductive ==
    STypeOK /\ [SNext]_svars => STypeOK'
<1> SUFFICES ASSUME STypeOK, [SNext]_svars PROVE STypeOK'
  OBVIOUS
<1> USE DEF STypeOK
<1>1. CASE Request
  <2>1. NoPage \in (0 .. PaTop - 1) \X Idx \X Idx
    BY DigitsAssumption DEF NoPage
  <2> QED BY <1>1, <2>1, RequestsAssumption DEF Request, Phases
<1>2. CASE Walk
  <2>1. acc.va \in Pages /\ acc.type \in AccessTypes
    BY DEF Accesses
  <2> DEFINE t == translate(acc.va, acc.type)
  <2>2. \/ t = Fault \/ t = Crash
        \/ \E f \in (0 .. PaTop - 1) \X Idx \X Idx : t = Found(f)
    BY <2>1, WalkType
  <2>3. phase' = t.kind /\ page' = (IF t.kind = "done" THEN t.frame ELSE page)
        /\ pt' = pt /\ acc' = acc
    BY <1>2 DEF Walk
  <2> HIDE DEF t
  <2> QED BY <2>2, <2>3 DEF Fault, Crash, Found, Phases
<1>3. CASE Repair
  <2>1. PICK n \in 1 .. 3 :
           /\ Allowed(acc, n)
           /\ pt' = [pt EXCEPT ![TableAt(acc.va, n)][acc.va[n]] =
                        Marked(EntryAt(acc.va, n), acc.type)]
    BY <1>3 DEF Repair
  <2>2. acc.va \in Pages /\ acc.va[n] \in Idx
    BY DEF Accesses, Pages
  <2>3. TableAt(acc.va, n) \in Ram
    BY <2>1, RamAssumption DEF Allowed, Reaches, Points, TableAt
  <2>4. EntryAt(acc.va, n) \in PTEs
    BY <2>1, <2>2, EntryTypes DEF Allowed
  <2>5. Marked(EntryAt(acc.va, n), acc.type) \in PTEs
    BY <2>4 DEF Marked, PTEs, Bit
  <2>6. pt' \in [Ram -> [Idx -> PTEs]]
    BY <2>1, <2>2, <2>3, <2>5
  <2> QED BY <1>3, <2>6 DEF Repair, Phases
<1>4. CASE Kill
  BY <1>4 DEF Kill, Phases
<1>5. CASE Edit
  <2>1. PICK f \in Ram, i \in Idx :
           \E e \in Edits[f][i] : pt' = [pt EXCEPT ![f][i] = e]
    BY <1>5 DEF Edit
  <2>2. PICK e \in Edits[f][i] : pt' = [pt EXCEPT ![f][i] = e]
    BY <2>1
  <2>3. e \in PTEs
    BY EditsAssumption
  <2> QED BY <1>5, <2>2, <2>3 DEF Edit
<1>6. CASE Crashed \/ UNCHANGED svars
  BY <1>6 DEF Crashed, svars
<1> QED BY <1>1, <1>2, <1>3, <1>4, <1>5, <1>6 DEF SNext

\* Page tables, accesses and the addresses that translate() returns keep their
\* types; in particular a physical address never has more than 32 bits.
THEOREM PagingTypeCorrect == SSpec => []STypeOK
<1>1. SInit => STypeOK
  <2> SUFFICES ASSUME SInit PROVE STypeOK
    OBVIOUS
  <2>1. ZeroPTE \in PTEs
    BY DigitsAssumption DEF ZeroPTE, PTEs, Frames, Bit
  <2>2. NoPage \in (0 .. PaTop - 1) \X Idx \X Idx
    BY DigitsAssumption DEF NoPage
  <2> QED BY <2>1, <2>2, RequestsAssumption DEF SInit, STypeOK, Phases
<1> QED BY <1>1, PagingInductive, PTL DEF SSpec

\* For every table, every access and every RAM: translate() never faults on an
\* access that the privileged manual carries out, and finds the same address.
THEOREM WalkCorrect == SSpec => []WalkAgrees
<1>1. STypeOK => WalkAgrees
  <2> SUFFICES ASSUME STypeOK, NEW acs \in Accesses, NEW n \in 1 .. 3,
                      Allowed(acs, n), Current(EntryAt(acs.va, n), acs.type),
                      Target(acs.va, n) \in Ram
               PROVE  translate(acs.va, acs.type) = Found(Target(acs.va, n))
    BY DEF WalkAgrees
  <2> DEFINE e == EntryAt(acs.va, n)
  <2>1. acs.va \in Pages /\ acs.type \in AccessTypes
    BY DEF Accesses
  <2>2. Reaches(acs.va, n) /\ e \in PTEs
    BY <2>1, EntryTypes DEF Allowed
  <2>3. ~Invalid(e) /\ IsLeaf(e)
    BY DEF Allowed, Invalid, IsLeaf
  <2>4. ~LeafRefuses(e, acs.type)
    BY <2>2 DEF Allowed, Permits, Current, LeafRefuses, PTEs, Bit
  <2> DEFINE T == Target(acs.va, n)
  <2>5. translate(acs.va, acs.type) = Leaf(e, acs.type, PhyAddr(T[1], T[2], T[3]))
    BY <2>1, <2>2, <2>3, WalkFollows
  <2>6. T = <<T[1], T[2], T[3]>> /\ T[1] \in Nat
    BY RamFrames, DigitsAssumption DEF Frames
  <2>7. PhyAddr(T[1], T[2], T[3]) = T
    <3> HIDE DEF T
    <3>1. <<T[1], T[2], T[3]>> \in Ram
      BY <2>6 DEF T
    <3> QED BY <2>6, <3>1, ReachesRam
  <2> QED BY <2>4, <2>5, <2>7 DEF Leaf
<1> QED BY <1>1, PagingTypeCorrect, PTL

\* For every table in RAM: a store reaches memory only through a leaf that is
\* writable, accessed and dirty, at the frame that leaf names.
THEOREM DirtyTracking == SSpec => StoresTracked
<1>1. STypeOK /\ [SNext]_svars =>
        ((Walk /\ acc.type = "STOR" /\ phase' = "done" /\ TablesInRam) =>
          \E n \in 1 .. 3 :
              LET e == EntryAt(acc.va, n)
              IN  /\ Reaches(acc.va, n) /\ IsLeaf(e)
                  /\ e.v = 1 /\ e.w = 1 /\ e.d = 1 /\ e.a = 1
                  /\ page'[1] = e.ppn[1] % PaTop)
  <2> SUFFICES ASSUME STypeOK, Walk, acc.type = "STOR", phase' = "done", TablesInRam
               PROVE  \E n \in 1 .. 3 :
                         LET e == EntryAt(acc.va, n)
                         IN  /\ Reaches(acc.va, n) /\ IsLeaf(e)
                             /\ e.v = 1 /\ e.w = 1 /\ e.d = 1 /\ e.a = 1
                             /\ page'[1] = e.ppn[1] % PaTop
    OBVIOUS
  <2> DEFINE t == translate(acc.va, acc.type)
  <2>1. acc.va \in Pages /\ acc.type \in AccessTypes
    BY DEF STypeOK, Accesses
  <2>2. t.kind = "done" /\ page' = t.frame
    BY DEF Walk
  <2>3. t # Fault
    BY <2>2 DEF Fault
  <2>4. PICK n \in 1 .. 3 : /\ Reaches(acc.va, n)
                            /\ ~Invalid(EntryAt(acc.va, n)) /\ IsLeaf(EntryAt(acc.va, n))
    BY <2>1, <2>3, EndsAtLeaf
  <2> DEFINE e == EntryAt(acc.va, n)
             T == Target(acc.va, n)
  <2>5. e \in PTEs
    BY <2>1, <2>4, EntryTypes
  <2>6. t = Leaf(e, "STOR", PhyAddr(T[1], T[2], T[3]))
    BY <2>1, <2>4, WalkFollows
  <2>7. ~LeafRefuses(e, "STOR") /\ t = Found(PhyAddr(T[1], T[2], T[3]))
    BY <2>3, <2>6 DEF Leaf
  <2>8. e.v = 1 /\ e.w = 1 /\ e.d = 1 /\ e.a = 1
    BY <2>4, <2>5, <2>7 DEF LeafRefuses, Invalid, PTEs, Bit
  <2>9. page'[1] = T[1] % PaTop
    <3>1. page' = PhyAddr(T[1], T[2], T[3])
      BY <2>2, <2>7 DEF Found
    <3> QED BY <3>1 DEF PhyAddr
  <2>10. T[1] = e.ppn[1]
    BY DEF Target
  <2> QED BY <2>4, <2>8, <2>9, <2>10
<1> QED BY <1>1, PagingTypeCorrect, PTL DEF StoresTracked, SSpec

=============================================================================
