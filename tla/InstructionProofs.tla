------------------------- MODULE InstructionProofs -------------------------
(***************************************************************************)
(* The instructions that TLC checks on small words and few addresses:      *)
(* LR/SC for every number of threads, every memory map and every program;  *)
(* the integer instructions for every width and all contents of the        *)
(* registers.  The two parts share nothing but this module.                *)
(***************************************************************************)
EXTENDS Atomics, Alu, WellFoundedInduction, TLAPS

(* LR/SC *)

\* The words an aligned access touches are words of memory.
LEMMA CoveredWords ==
    ASSUME NEW t \in Threads, NEW va \in VAddr, NEW w \in Widths, Aligned(va, w)
    PROVE  Covered(t, va, w) \subseteq Words
  <1>1. Frame[t][va.page] \in Cells
    BY AtomicsAssumption DEF VAddr
  <1>2. CASE w = "D"
    BY <1>1, <1>2 DEF Covered, Words
  <1>3. CASE w = "W"
    <2>1. va.off \in {0, 4}
      BY <1>3 DEF Aligned, VAddr, Offsets
    <2> QED BY <1>1, <1>3, <2>1 DEF Covered, Words
  <1> QED BY <1>2, <1>3 DEF Widths

\* A write keeps the shape of the history and the running thread's part of it.
LEMMA WriteEffect ==
    ASSUME ATypeOK, NEW ws \in SUBSET Words, NEW own \in [Widths -> SUBSET Words],
           Write(ws, own)
    PROVE  lr' \in [Threads -> [Widths -> SUBSET Words]] /\ lr'[cur] = own
  BY DEF ATypeOK, Write, Broken

LEMMA AInitType == AInit => ATypeOK
  BY DEF AInit, ATypeOK, Rets, Broken

LEMMA ATypeStep == ATypeOK /\ [ANext]_avars => ATypeOK'
  <1> SUFFICES ASSUME ATypeOK, [ANext]_avars PROVE ATypeOK'
    OBVIOUS
  <1>1. /\ resv \in [Widths -> SUBSET VAddr] /\ ret_data \in Rets /\ cur \in Threads
        /\ halted \in BOOLEAN /\ lr \in [Threads -> [Widths -> SUBSET Words]]
    BY DEF ATypeOK
  <1>2. ASSUME NEW w \in Widths, NEW va \in VAddr, LR(w, va) PROVE ATypeOK'
    <2>1. Covered(cur, va, w) \in SUBSET Words
      BY <1>1, <1>2, CoveredWords DEF LR
    <2> QED BY <1>1, <1>2, <2>1 DEF LR, ATypeOK, Rets
  <1>3. ASSUME NEW w \in Widths, NEW va \in VAddr, Misaligned(w, va) PROVE ATypeOK'
    BY <1>1, <1>3 DEF Misaligned, ATypeOK
  <1>4. ASSUME NEW w \in Widths, NEW va \in VAddr, Amo(w, va) \/ Store(w, va)
        PROVE ATypeOK'
    <2>1. Covered(cur, va, w) \in SUBSET Words /\ lr[cur] \in [Widths -> SUBSET Words]
      BY <1>1, <1>4, CoveredWords DEF Amo, Store
    <2>2. lr' \in [Threads -> [Widths -> SUBSET Words]]
      BY <1>4, <2>1, WriteEffect DEF Amo, Store
    <2> QED BY <1>1, <1>4, <2>2 DEF Amo, Store, ATypeOK, Rets
  <1>5. ASSUME NEW w \in Widths, NEW va \in VAddr, ScReserved(w, va) PROVE ATypeOK'
    <2> DEFINE ws == IF Aligned(va, w) THEN Covered(cur, va, w) ELSE {}
               own == [lr[cur] EXCEPT ![w] = Broken]
    <2>1. ws \in SUBSET Words
      BY <1>1, CoveredWords
    <2>2. own \in [Widths -> SUBSET Words]
      BY <1>1 DEF Broken
    <2>3. Write(ws, own)
      BY <1>5 DEF ScReserved
    <2>4. lr' \in [Threads -> [Widths -> SUBSET Words]]
      <3> HIDE DEF ws, own
      <3> QED BY <2>1, <2>2, <2>3, WriteEffect
    <2> QED BY <1>1, <1>5, <2>4 DEF ScReserved, AfterSC, ATypeOK, Rets
  <1>6. ASSUME NEW w \in Widths, NEW va \in VAddr, ScRefused(w, va) PROVE ATypeOK'
    BY <1>1, <1>6 DEF ScRefused, AfterSC, Broken, ATypeOK, Rets
  <1>7. ASSUME NEW va \in VAddr, AmoAtBase(va) PROVE ATypeOK'
    BY <1>1, <1>7 DEF AmoAtBase, ATypeOK
  <1>8. ASSUME NEW t \in Threads, Switch(t) PROVE ATypeOK'
    BY <1>1, <1>8 DEF Switch, AfterSC, ATypeOK, Rets
  <1>9. CASE Exited \/ UNCHANGED avars
    BY <1>1, <1>9 DEF Exited, avars, ATypeOK
  <1> QED BY <1>2, <1>3, <1>4, <1>5, <1>6, <1>7, <1>8, <1>9 DEF ANext, Conditional

\* Types of the reservations, of ret_data and of the history
THEOREM AtomicsTypeCorrect == ASpec => []ATypeOK
  BY AInitType, ATypeStep, PTL DEF ASpec

-----------------------------------------------------------------------------

\* The inductive invariant: the reservation of each width is aligned and is held
\* by the LR of the running thread, unbroken.
ResvAligned == \A w \in Widths : \A va \in resv[w] : Aligned(va, w)

ResvHeld == \A w \in Widths : \A va \in resv[w] : lr[cur][w] = Covered(cur, va, w)

LEMMA AlignedStep == ATypeOK /\ ResvAligned /\ [ANext]_avars => ResvAligned'
  <1> SUFFICES ASSUME ATypeOK, ResvAligned, [ANext]_avars PROVE ResvAligned'
    OBVIOUS
  <1>1. resv \in [Widths -> SUBSET VAddr]
    BY DEF ATypeOK
  <1>2. ASSUME NEW w \in Widths, NEW va \in VAddr, LR(w, va) PROVE ResvAligned'
    BY <1>1, <1>2 DEF LR, ResvAligned, Aligned
  <1>3. ASSUME NEW w \in Widths, NEW va \in VAddr,
               Misaligned(w, va) \/ Amo(w, va) \/ Store(w, va)
        PROVE  ResvAligned'
    BY <1>3 DEF Misaligned, Amo, Store, ResvAligned, Aligned
  <1>4. ASSUME NEW w \in Widths, NEW va \in VAddr, ScReserved(w, va) \/ ScRefused(w, va)
        PROVE  ResvAligned'
    BY <1>1, <1>4 DEF ScReserved, ScRefused, AfterSC, ResvAligned, Aligned
  <1>5. ASSUME NEW va \in VAddr, AmoAtBase(va) PROVE ResvAligned'
    BY <1>5 DEF AmoAtBase, ResvAligned, Aligned
  <1>6. ASSUME NEW t \in Threads, Switch(t) PROVE ResvAligned'
    BY <1>1, <1>6 DEF Switch, AfterSC, ResvAligned, Aligned
  <1>7. CASE Exited \/ UNCHANGED avars
    BY <1>7 DEF Exited, avars, ResvAligned, Aligned
  <1> QED BY <1>2, <1>3, <1>4, <1>5, <1>6, <1>7 DEF ANext, Conditional

\* No SC leaves a stale ret_data in rd: the branch that would is dead code.
THEOREM ScAnswer == ASpec => ScTellsTruth
  <1> DEFINE Truth(w, va) ==
        (ScReserved(w, va) \/ ScRefused(w, va)) =>
            (ret_data' = "zero" <=> Reserved(w, va) /\ Aligned(va, w))
  <1>1. AInit => ResvAligned
    BY DEF AInit, ResvAligned
  <1>2. ResvAligned => [\A w \in Widths, va \in VAddr : Truth(w, va)]_avars
    <2> SUFFICES ASSUME ResvAligned, NEW w \in Widths, NEW va \in VAddr PROVE Truth(w, va)
      OBVIOUS
    <2>1. CASE ScReserved(w, va)
      <3>1. Reserved(w, va) /\ Aligned(va, w)
        BY <2>1 DEF ScReserved, Reserved, ResvAligned
      <3> QED BY <2>1, <3>1 DEF ScReserved
    <2>2. CASE ScRefused(w, va)
      BY <2>2 DEF ScRefused
    <2> QED BY <2>1, <2>2
  <1>3. ATypeOK /\ ResvAligned /\ [ANext]_avars => ATypeOK' /\ ResvAligned'
    BY ATypeStep, AlignedStep
  <1> QED BY <1>1, <1>2, <1>3, AInitType, PTL DEF ASpec, ScTellsTruth

\* A context switch that gives up both reservations keeps LR/SC exclusive.
LEMMA HeldStep ==
    ASSUME Yield = Widths
    PROVE  ATypeOK /\ ResvHeld /\ [ANext]_avars => ResvHeld'
  <1> SUFFICES ASSUME ATypeOK, ResvHeld, [ANext]_avars PROVE ResvHeld'
    OBVIOUS
  <1>1. /\ resv \in [Widths -> SUBSET VAddr] /\ cur \in Threads
        /\ lr \in [Threads -> [Widths -> SUBSET Words]]
    BY DEF ATypeOK
  <1>2. ASSUME NEW w \in Widths, NEW va \in VAddr, LR(w, va) PROVE ResvHeld'
    <2> SUFFICES ASSUME NEW u \in Widths, NEW x \in resv'[u]
                 PROVE  lr'[cur'][u] = Covered(cur', x, u)
      BY DEF ResvHeld
    <2>1. cur' = cur
      BY <1>2 DEF LR
    <2>2. CASE u = w
      <3>1. x = va /\ lr'[cur][u] = Covered(cur, va, w)
        BY <1>1, <1>2, <2>2 DEF LR
      <3> QED BY <2>1, <2>2, <3>1
    <2>3. CASE u # w
      <3>1. x \in resv[u] /\ lr'[cur][u] = lr[cur][u]
        BY <1>1, <1>2, <2>3 DEF LR
      <3> QED BY <2>1, <3>1 DEF ResvHeld
    <2> QED BY <2>2, <2>3
  <1>3. ASSUME NEW w \in Widths, NEW va \in VAddr, Amo(w, va) \/ Store(w, va)
        PROVE  ResvHeld'
    <2>1. Covered(cur, va, w) \in SUBSET Words /\ lr[cur] \in [Widths -> SUBSET Words]
      BY <1>1, <1>3, CoveredWords DEF Amo, Store
    <2>2. lr'[cur] = lr[cur] /\ cur' = cur /\ resv' = resv
      BY <1>3, <2>1, WriteEffect DEF Amo, Store
    <2> QED BY <2>2 DEF ResvHeld
  <1>4. ASSUME NEW w \in Widths, NEW va \in VAddr, ScReserved(w, va) \/ ScRefused(w, va)
        PROVE  ResvHeld'
    <2>1. \A u \in Widths : u # w => lr'[cur][u] = lr[cur][u]
      <3>1. CASE ScReserved(w, va)
        <4> DEFINE ws == IF Aligned(va, w) THEN Covered(cur, va, w) ELSE {}
                   own == [lr[cur] EXCEPT ![w] = Broken]
        <4>1. ws \in SUBSET Words
          BY <1>1, CoveredWords
        <4>2. own \in [Widths -> SUBSET Words]
          BY <1>1 DEF Broken
        <4>3. Write(ws, own)
          BY <3>1 DEF ScReserved
        <4>4. lr'[cur] = own
          <5> HIDE DEF ws, own
          <5> QED BY <4>1, <4>2, <4>3, WriteEffect
        <4> QED BY <1>1, <4>4
      <3>2. CASE ScRefused(w, va)
        BY <1>1, <3>2 DEF ScRefused
      <3> QED BY <1>4, <3>1, <3>2
    <2>2. cur' = cur /\ resv'[w] = {} /\ \A u \in Widths : u # w => resv'[u] = resv[u]
      BY <1>1, <1>4 DEF ScReserved, ScRefused, AfterSC
    <2> QED BY <2>1, <2>2 DEF ResvHeld
  <1>5. ASSUME NEW w \in Widths, NEW va \in VAddr, Misaligned(w, va) PROVE ResvHeld'
    BY <1>5 DEF Misaligned, ResvHeld
  <1>6. ASSUME NEW va \in VAddr, AmoAtBase(va) PROVE ResvHeld'
    BY <1>6 DEF AmoAtBase, ResvHeld
  <1>7. ASSUME NEW t \in Threads, Switch(t) PROVE ResvHeld'
    BY <1>1, <1>7 DEF Switch, AfterSC, ResvHeld
  <1>8. CASE Exited \/ UNCHANGED avars
    BY <1>8 DEF Exited, avars, ResvHeld
  <1> QED BY <1>2, <1>3, <1>4, <1>5, <1>6, <1>7, <1>8 DEF ANext, Conditional

\* If a context switch executes both an SC.W and an SC.D, no thread's SC ever
\* stores over another thread's write or on a cell its LR has not read.
THEOREM Exclusive ==
    ASSUME Yield = Widths
    PROVE  ASpec => ScExclusive
  <1> DEFINE Excl(w, va) ==
        (ScReserved(w, va) /\ Aligned(va, w)) => lr[cur][w] = Covered(cur, va, w)
  <1>1. AInit => ResvHeld
    BY DEF AInit, ResvHeld
  <1>2. ResvHeld => [\A w \in Widths, va \in VAddr : Excl(w, va)]_avars
    BY DEF ResvHeld, ScReserved, Reserved
  <1>3. ATypeOK /\ ResvHeld /\ [ANext]_avars => ATypeOK' /\ ResvHeld'
    BY ATypeStep, HeldStep
  <1> QED BY <1>1, <1>2, <1>3, AInitType, PTL DEF ASpec, ScExclusive

-----------------------------------------------------------------------------
(* Recursion over an interval of naturals *)

\* A set of naturals that is not empty has a least element.
LEMMA LeastNat ==
    ASSUME NEW T \in SUBSET Nat, T # {}
    PROVE  \E x \in T : \A y \in T : x <= y
  <1> DEFINE R == OpToRel(<, Nat)
  <1>1. IsWellFoundedOn(R, Nat)
    BY NatLessThanWellFounded
  <1>2. R = {ss \in Nat \X Nat : ss[1] < ss[2]}
    BY DEF OpToRel
  <1> HIDE DEF R
  <1>3. PICK x \in T : \A y \in T : ~(<<y, x>> \in R)
    BY <1>1, WFMin
  <1>4. \A y \in T : ~(y < x)
    BY <1>2, <1>3
  <1> QED BY <1>3, <1>4

\* Induction over the naturals, the property given as the set that has it
LEMMA NatSetInduction ==
    ASSUME NEW T, 0 \in T, \A n \in Nat : n \in T => n + 1 \in T
    PROVE  Nat \subseteq T
  <1> DEFINE U == Nat \ T
  <1>1. ASSUME U # {} PROVE FALSE
    <2>1. PICK x \in U : \A y \in U : x <= y
      BY <1>1, LeastNat
    <2>2. x # 0 /\ x - 1 \in Nat
      OBVIOUS
    <2>3. x - 1 \in T
      BY <2>1, <2>2
    <2> QED BY <2>2, <2>3
  <1> QED BY <1>1

\* f is G applied to x 0, 1, ..., k times.
Iterate(f, G, x, k) == f[0] = x /\ \A n \in 1 .. k : f[n] = G[f[n - 1]]

\* What a recursion over 0 .. k computes exists.
LEMMA Iterates ==
    ASSUME NEW X, NEW x \in X, NEW G \in [X -> X], NEW k \in Nat
    PROVE  \E f \in [0 .. k -> X] : Iterate(f, G, x, k)
  <1> DEFINE F(f, m) == f[0] = x /\ \A n \in 1 .. m : f[n] = G[f[n - 1]]
             T == {m \in Nat : \E f \in [0 .. m -> X] : F(f, m)}
  <1>1. 0 \in T
    <2> DEFINE f0 == [n \in 0 .. 0 |-> x]
    <2>1. f0 \in [0 .. 0 -> X] /\ F(f0, 0)
      OBVIOUS
    <2> QED BY <2>1
  <1>2. ASSUME NEW m \in Nat, m \in T PROVE m + 1 \in T
    <2>1. PICK f \in [0 .. m -> X] : F(f, m)
      BY <1>2
    <2> DEFINE g == [n \in 0 .. m + 1 |-> IF n <= m THEN f[n] ELSE G[f[m]]]
    <2>2. g \in [0 .. m + 1 -> X]
      OBVIOUS
    <2>3. (\A n \in 0 .. m : g[n] = f[n]) /\ g[m + 1] = G[f[m]]
      OBVIOUS
    <2> HIDE DEF g
    <2>4. ASSUME NEW n \in 1 .. m + 1 PROVE g[n] = G[g[n - 1]]
      <3>1. CASE n <= m
        <4>1. n \in 1 .. m /\ n \in 0 .. m /\ n - 1 \in 0 .. m
          BY <3>1
        <4> QED BY <2>1, <2>3, <4>1
      <3>2. CASE n = m + 1
        <4>1. n - 1 = m /\ m \in 0 .. m
          BY <3>2
        <4> QED BY <2>3, <3>2, <4>1
      <3> QED BY <3>1, <3>2
    <2>5. g[0] = x
      BY <2>1, <2>3
    <2> QED BY <2>2, <2>4, <2>5
  <1>3. k \in T
    <2> HIDE DEF T
    <2> QED BY <1>1, <1>2, NatSetInduction
  <1> QED BY <1>3 DEF Iterate

-----------------------------------------------------------------------------
(* Powers of two, remainders and congruences *)

\* Powers of two
LEMMA Pow2Is ==
    /\ Pow2 \in [0 .. 2 * XLEN -> Nat \ {0}] /\ Pow2[0] = 1
    /\ \A n \in 1 .. 2 * XLEN : Pow2[n] = 2 * Pow2[n - 1]
  <1> DEFINE N == 2 * XLEN
             X == Nat \ {0}
             G == [v \in X |-> 2 * v]
             Eq(f) == f = [n \in 0 .. N |-> IF n = 0 THEN 1 ELSE 2 * f[n - 1]]
  <1>1. N \in Nat
    BY WidthAssumption
  <1>2. 1 \in X /\ G \in [X -> X]
    OBVIOUS
  <1> HIDE DEF N
  <1>3. PICK f \in [0 .. N -> X] : Iterate(f, G, 1, N)
    <2> HIDE DEF G, X
    <2> QED BY <1>1, <1>2, Iterates
  <1>4. \A n \in 0 .. N : f[n] = IF n = 0 THEN 1 ELSE 2 * f[n - 1]
    <2> SUFFICES ASSUME NEW n \in 0 .. N, n # 0 PROVE f[n] = 2 * f[n - 1]
      BY <1>3 DEF Iterate
    <2>1. n \in 1 .. N /\ n - 1 \in 0 .. N
      BY <1>1
    <2>2. f[n - 1] \in X
      BY <2>1
    <2> QED BY <1>3, <2>1, <2>2 DEF Iterate
  <1>5. Eq(f)
    BY <1>4, Zenon
  <1>6. Pow2 = CHOOSE t : Eq(t)
    BY DEF Pow2, N
  <1>7. Eq(Pow2)
    BY <1>5, <1>6
  <1>8. Pow2[0] = 1 /\ \A n \in 1 .. N : Pow2[n] = 2 * Pow2[n - 1]
    <2> SUFFICES ASSUME Pow2 = [n \in 0 .. N |-> IF n = 0 THEN 1 ELSE 2 * Pow2[n - 1]]
                 PROVE  Pow2[0] = 1 /\ \A n \in 1 .. N : Pow2[n] = 2 * Pow2[n - 1]
      BY <1>7
    <2> QED BY <1>1
  <1> DEFINE T == {n \in Nat : n <= N => Pow2[n] \in X}
  <1>9. 0 \in T
    BY <1>8
  <1>10. ASSUME NEW n \in Nat, n \in T PROVE n + 1 \in T
    <2>1. CASE n + 1 <= N
      <3>1. n + 1 \in 1 .. N /\ (n + 1) - 1 = n /\ n <= N
        BY <1>1, <2>1
      <3>2. Pow2[n + 1] = 2 * Pow2[n]
        BY <1>8, <3>1
      <3> QED BY <1>10, <3>1, <3>2
    <2> QED BY <2>1
  <1>11. \A n \in 0 .. N : Pow2[n] \in X
    <2>1. Nat \subseteq T
      <3> HIDE DEF T
      <3> QED BY <1>9, <1>10, NatSetInduction
    <2> QED BY <1>1, <2>1
  <1>12. Pow2 \in [0 .. N -> X]
    <2> HIDE DEF X
    <2> QED BY <1>7, <1>11, Zenon
  <1> QED BY <1>8, <1>12 DEF N

\* Powers of sums
LEMMA Pow2Sum ==
    ASSUME NEW m \in Nat, NEW n \in Nat, m + n <= 2 * XLEN
    PROVE  Pow2[m + n] = Pow2[m] * Pow2[n]
  <1> DEFINE N == 2 * XLEN
             T == {j \in Nat : m + j <= N => Pow2[m + j] = Pow2[m] * Pow2[j]}
  <1>1. N \in Nat
    BY WidthAssumption
  <1> HIDE DEF N
  <1>p. /\ \A i \in 0 .. N : Pow2[i] \in Nat
        /\ Pow2[0] = 1 /\ \A i \in 1 .. N : Pow2[i] = 2 * Pow2[i - 1]
    BY Pow2Is DEF N
  <1>2. 0 \in T
    <2> SUFFICES ASSUME m <= N PROVE Pow2[m + 0] = Pow2[m] * Pow2[0]
      BY <1>1
    <2>1. Pow2[m] \in Nat /\ m + 0 = m
      BY <1>1, <1>p
    <2> QED BY <1>p, <2>1
  <1>3. ASSUME NEW j \in Nat, j \in T PROVE j + 1 \in T
    <2>1. CASE m + (j + 1) <= N
      <3>1. /\ m + j \in 0 .. N /\ m + (j + 1) \in 1 .. N /\ j + 1 \in 1 .. N /\ m \in 0 .. N
            /\ j \in 0 .. N /\ (j + 1) - 1 = j /\ (m + (j + 1)) - 1 = m + j
        BY <1>1, <2>1
      <3> DEFINE a == Pow2[m]
                 b == Pow2[j]
      <3>2. a \in Nat /\ b \in Nat
        BY <1>p, <3>1
      <3>3. Pow2[m + (j + 1)] = 2 * (a * b) /\ Pow2[j + 1] = 2 * b
        BY <1>3, <1>p, <3>1
      <3> HIDE DEF a, b
      <3>4. 2 * (a * b) = a * (2 * b)
        BY <3>2
      <3> QED BY <3>3, <3>4 DEF a
    <2> QED BY <2>1
  <1>4. n \in T
    <2> HIDE DEF T
    <2> QED BY <1>2, <1>3, NatSetInduction
  <1> QED BY <1>4 DEF N

\* The widths
LEMMA Powers ==
    /\ Pow2[XLEN] \in Nat \ {0} /\ Pow2[WLEN] \in Nat \ {0}
    /\ Top \in Nat \ {0} /\ WTop \in Nat \ {0}
    /\ Pow2[XLEN] = 2 * Top /\ Pow2[WLEN] = 2 * WTop
    /\ Pow2[XLEN] = Pow2[WLEN] * Pow2[WLEN]
    /\ Pow2[2 * XLEN] = Pow2[XLEN] * Pow2[XLEN]
  <1>1. /\ XLEN \in 1 .. 2 * XLEN /\ WLEN \in 1 .. 2 * XLEN /\ XLEN - 1 \in 0 .. 2 * XLEN
        /\ WLEN - 1 \in 0 .. 2 * XLEN /\ WLEN \in Nat /\ XLEN \in Nat
        /\ XLEN = WLEN + WLEN /\ 2 * XLEN = XLEN + XLEN /\ WLEN + WLEN <= 2 * XLEN
    BY WidthAssumption
  <1>2. Pow2[WLEN + WLEN] = Pow2[WLEN] * Pow2[WLEN]
    BY <1>1, Pow2Sum
  <1>3. Pow2[XLEN + XLEN] = Pow2[XLEN] * Pow2[XLEN]
    BY <1>1, Pow2Sum
  <1>4. \A n \in 0 .. 2 * XLEN : Pow2[n] \in Nat \ {0}
    BY Pow2Is
  <1>5. \A n \in 1 .. 2 * XLEN : Pow2[n] = 2 * Pow2[n - 1]
    BY Pow2Is
  <1> QED BY <1>1, <1>2, <1>3, <1>4, <1>5 DEF Top, WTop

\* Division with a remainder that is never negative, and its uniqueness
LEMMA DivMod ==
    ASSUME NEW b \in Nat \ {0}, NEW x \in Int
    PROVE  /\ x \div b \in Int /\ x % b \in 0 .. b - 1
           /\ x = b * (x \div b) + (x % b)
  OBVIOUS

LEMMA DivModUnique ==
    ASSUME NEW b \in Nat \ {0}, NEW q \in Int, NEW r \in 0 .. b - 1
    PROVE  (b * q + r) \div b = q /\ (b * q + r) % b = r
  <1> DEFINE x == b * q + r
  <1>1. x \in Int
    OBVIOUS
  <1> DEFINE p == x \div b
             s == x % b
  <1>2. p \in Int /\ s \in 0 .. b - 1 /\ x = b * p + s
    <2> HIDE DEF x
    <2> QED BY <1>1, DivMod
  <1>3. b * q + r = b * p + s
    BY <1>2
  <1> HIDE DEF p, s, x
  <1>4. b * (q - p) = s - r /\ s - r < b /\ s - r > -b
    BY <1>2, <1>3
  <1>5. q - p < 1
    <2> SUFFICES ASSUME q - p >= 1 PROVE FALSE
      BY <1>2
    <2>1. b * (q - p) >= b
      BY <1>2
    <2> QED BY <1>2, <1>4, <2>1
  <1>6. q - p > -1
    <2> SUFFICES ASSUME q - p <= -1 PROVE FALSE
      BY <1>2
    <2>1. b * (q - p) <= -b
      BY <1>2
    <2> QED BY <1>2, <1>4, <2>1
  <1>7. p = q /\ s = r
    BY <1>2, <1>3, <1>5, <1>6
  <1> QED BY <1>7 DEF p, s, x

\* A number below the modulus is its own remainder.
LEMMA ModSmall ==
    ASSUME NEW b \in Nat \ {0}, NEW r \in 0 .. b - 1
    PROVE  r % b = r /\ r \div b = 0
  <1>1. (b * 0 + r) \div b = 0 /\ (b * 0 + r) % b = r
    BY DivModUnique
  <1>2. b * 0 + r = r
    OBVIOUS
  <1> QED BY <1>1, <1>2

\* Multiples of the modulus do not count.
LEMMA ModPlus ==
    ASSUME NEW b \in Nat \ {0}, NEW x \in Int, NEW m \in Int
    PROVE  (x + b * m) % b = x % b /\ (x + b * m) \div b = (x \div b) + m
  <1> DEFINE q == x \div b
             r == x % b
  <1>1. q \in Int /\ r \in 0 .. b - 1 /\ x = b * q + r
    BY DivMod
  <1> HIDE DEF q, r
  <1>2. x + b * m = b * (q + m) + r /\ q + m \in Int
    BY <1>1
  <1>3. (b * (q + m) + r) \div b = q + m /\ (b * (q + m) + r) % b = r
    BY <1>1, <1>2, DivModUnique
  <1> QED BY <1>2, <1>3 DEF q, r

\* Multiples of the modulus do not count: the case the subtractions need.
LEMMA ModMinus ==
    ASSUME NEW b \in Nat \ {0}, NEW x \in Int
    PROVE  (x - b) % b = x % b
  <1> DEFINE m == -1
  <1>1. m \in Int /\ x + b * m = x - b
    OBVIOUS
  <1> HIDE DEF m
  <1>2. (x + b * m) % b = x % b
    BY <1>1, ModPlus
  <1> QED BY <1>1, <1>2

\* Equal remainders: a congruence
Same(b, x, y) == x \in Int /\ y \in Int /\ x % b = y % b

\* Numbers with the same remainder differ by a multiple of the modulus.
LEMMA Congruent ==
    ASSUME NEW b \in Nat \ {0}, NEW x \in Int, NEW y \in Int, x % b = y % b
    PROVE  \E m \in Int : x = y + b * m
  <1> DEFINE m == (x \div b) - (y \div b)
  <1>1. m \in Int /\ x = y + b * m
    <2> DEFINE p == x \div b
               q == y \div b
               r == x % b
    <2>1. p \in Int /\ q \in Int /\ r \in 0 .. b - 1 /\ x = b * p + r /\ y = b * q + r
      BY DivMod
    <2> HIDE DEF p, q, r
    <2>2. p - q \in Int /\ x = y + b * (p - q)
      BY <2>1
    <2> QED BY <2>2 DEF p, q
  <1> QED BY <1>1

\* Sums, differences and products of equal residues have equal residues.
LEMMA ModSum ==
    ASSUME NEW b \in Nat \ {0}, NEW x, NEW u, NEW y, NEW v, Same(b, x, u), Same(b, y, v)
    PROVE  Same(b, x + y, u + v) /\ Same(b, x - y, u - v) /\ Same(b, x * y, u * v)
  <1> x \in Int /\ u \in Int /\ y \in Int /\ v \in Int /\ x % b = u % b /\ y % b = v % b
    BY DEF Same
  <1>1. PICK m \in Int : x = u + b * m
    BY Congruent
  <1>2. PICK n \in Int : y = v + b * n
    BY Congruent
  <1> DEFINE k == u * n + v * m + b * (m * n)
  <1>3. /\ k \in Int /\ m + n \in Int /\ m - n \in Int
        /\ u * v \in Int /\ u + v \in Int /\ u - v \in Int
    OBVIOUS
  <1>4. x + y = (u + v) + b * (m + n) /\ x - y = (u - v) + b * (m - n)
    BY <1>1, <1>2
  <1>5. x * y = (u * v) + b * k
    <2>1. (u + b * m) * (v + b * n) = u * v + b * (u * n + v * m + b * (m * n))
      OBVIOUS
    <2> QED BY <1>1, <1>2, <2>1
  <1> HIDE DEF k
  <1>6. ((u + v) + b * (m + n)) % b = (u + v) % b
    BY <1>3, ModPlus
  <1>7. ((u - v) + b * (m - n)) % b = (u - v) % b
    BY <1>3, ModPlus
  <1>8. ((u * v) + b * k) % b = (u * v) % b
    BY <1>3, ModPlus
  <1>9. x * y \in Int
    OBVIOUS
  <1> QED BY <1>3, <1>4, <1>5, <1>6, <1>7, <1>8, <1>9 DEF Same

\* A remainder is its own remainder.
LEMMA ModTwice ==
    ASSUME NEW b \in Nat \ {0}, NEW x \in Int
    PROVE  (x % b) % b = x % b
  <1>1. x % b \in 0 .. b - 1
    BY DivMod
  <1> QED BY <1>1, ModSmall

\* The remainder modulo a multiple of b
LEMMA ModCoarse ==
    ASSUME NEW b \in Nat \ {0}, NEW c \in Nat \ {0}, NEW x \in Int
    PROVE  (x % (b * c)) % b = x % b
  <1> DEFINE d == b * c
             q == x \div d
             r == x % d
  <1>1. d \in Nat \ {0}
    OBVIOUS
  <1>2. q \in Int /\ r \in 0 .. d - 1 /\ x = d * q + r
    <2> HIDE DEF d
    <2> QED BY <1>1, DivMod
  <1>3. x = r + b * (c * q) /\ c * q \in Int /\ r \in Int
    <2> HIDE DEF q, r
    <2> QED BY <1>1, <1>2
  <1>4. (r + b * (c * q)) % b = r % b
    <2> HIDE DEF q, r
    <2> QED BY <1>3, ModPlus
  <1> QED BY <1>3, <1>4

\* The upper half of a product, cut before or after the shift
LEMMA DivCut ==
    ASSUME NEW b \in Nat \ {0}, NEW x \in Int
    PROVE  (x % (b * b)) \div b = (x \div b) % b
  <1> DEFINE q == x \div b
             r == x % b
             p == q \div b
             s == q % b
  <1>1. q \in Int /\ r \in 0 .. b - 1 /\ x = b * q + r
    BY DivMod
  <1>2. p \in Int /\ s \in 0 .. b - 1 /\ q = b * p + s
    <2> HIDE DEF q
    <2> QED BY <1>1, DivMod
  <1> HIDE DEF q, r, p, s
  <1>3. x = (b * b) * p + (b * s + r) /\ b * b \in Nat \ {0} /\ b * s + r >= 0
    BY <1>1, <1>2
  <1>4. b * s + r <= b * b - 1
    <2>1. b * s <= b * (b - 1)
      BY <1>2
    <2> QED BY <1>1, <1>2, <2>1
  <1>5. x % (b * b) = b * s + r
    <2> DEFINE d == b * b
               t == b * s + r
    <2>1. d \in Nat \ {0} /\ t \in 0 .. d - 1 /\ x = d * p + t
      BY <1>1, <1>2, <1>3, <1>4
    <2> HIDE DEF d, t
    <2>2. (d * p + t) % d = t
      BY <1>2, <2>1, DivModUnique
    <2> QED BY <2>1, <2>2 DEF d, t
  <1>6. (b * s + r) \div b = s
    BY <1>1, <1>2, DivModUnique
  <1> QED BY <1>5, <1>6 DEF s, q

-----------------------------------------------------------------------------
(* Signed numbers, words and immediates *)

\* The top bit of a number, and its xor with it
LEMMA TopBit ==
    ASSUME NEW h \in Nat \ {0}, NEW x \in 0 .. 2 * h - 1
    PROVE  /\ x \div h = IF x >= h THEN 1 ELSE 0
           /\ (x \div h) % 2 = IF x >= h THEN 1 ELSE 0
           /\ Flip(x, h) - h = IF x >= h THEN x - 2 * h ELSE x
  <1>1. CASE x >= h
    <2>1. x = h * 1 + (x - h) /\ x - h \in 0 .. h - 1 /\ 1 \in Int
      BY <1>1
    <2>2. x \div h = 1
      BY <2>1, DivModUnique
    <2> QED BY <1>1, <2>2 DEF Flip
  <1>2. CASE x < h
    <2>1. x \in 0 .. h - 1
      BY <1>2
    <2>2. x \div h = 0
      BY <2>1, ModSmall
    <2> QED BY <1>2, <2>2 DEF Flip
  <1> QED BY <1>1, <1>2

\* Reading as a signed number keeps the residue.
LEMMA SignedResidue ==
    ASSUME NEW h \in Nat \ {0}, NEW x \in 0 .. 2 * h - 1
    PROVE  LET z == IF x >= h THEN x - 2 * h ELSE x
           IN  z \in -h .. h - 1 /\ z % (2 * h) = x
  <1> DEFINE b == 2 * h
  <1>1. b \in Nat \ {0} /\ x \in 0 .. b - 1 /\ x \in Int
    OBVIOUS
  <1> HIDE DEF b
  <1>2. x % b = x /\ (x - b) % b = x % b
    BY <1>1, ModSmall, ModMinus
  <1> QED BY <1>2 DEF b

\* signed_value reads a register as the signed number of the same residue.
LEMMA SignedIs ==
    ASSUME NEW x \in RegValues
    PROVE  /\ x \in Nat /\ S(x) \in -Top .. Top - 1 /\ S(x) \in Int
           /\ S(x) % Pow2[XLEN] = x /\ x % Pow2[XLEN] = x
           /\ signed_value(x) = S(x)
  <1> DEFINE P == Pow2[XLEN]
  <1>1. P \in Nat \ {0} /\ Top \in Nat \ {0} /\ P = 2 * Top
    BY Powers
  <1>2. x \in 0 .. 2 * Top - 1 /\ x \in 0 .. P - 1 /\ x \in Int
    BY <1>1 DEF RegValues
  <1>3. x \div Top = IF x >= Top THEN 1 ELSE 0
    BY <1>1, <1>2, TopBit
  <1>4. Flip(x, Top) - Top = IF x >= Top THEN x - P ELSE x
    BY <1>1, <1>2, TopBit
  <1>5. S(x) \in -Top .. Top - 1 /\ S(x) % P = x
    <2>1. S(x) = IF x >= Top THEN x - 2 * Top ELSE x
      BY <1>1 DEF S
    <2> QED BY <1>1, <1>2, <2>1, SignedResidue
  <1>6. x % P = x /\ (x - P) % P = x
    <2> HIDE DEF P
    <2> QED BY <1>1, <1>2, ModSmall, ModMinus
  <1>7. (IF x \div Top = 1 THEN Wrap(Flip(x, Top) - Top) ELSE x) = x
    BY <1>3, <1>4, <1>6 DEF Wrap
  <1>8. signed_value(x) = S(x)
    BY <1>7 DEF signed_value, ToSigned, S, Top
  <1> QED BY <1>1, <1>2, <1>5, <1>6, <1>8

\* signed_value32 reads the low half of a register the same way.
LEMMA WordIs ==
    ASSUME NEW x \in Int
    PROVE  /\ x % Pow2[WLEN] \in 0 .. Pow2[WLEN] - 1
           /\ SW(x) \in -WTop .. WTop - 1 /\ SW(x) \in Int
           /\ SW(x) % Pow2[WLEN] = x % Pow2[WLEN]
           /\ MASK32(x) = x % Pow2[WLEN] /\ MASK32(x) \in Nat
           /\ MASK32(x) % Pow2[WLEN] = x % Pow2[WLEN]
           /\ signed_value32(x) = SW(x)
  <1> DEFINE W == Pow2[WLEN]
             P == Pow2[XLEN]
             y == x % W
  <1>1. W \in Nat \ {0} /\ WTop \in Nat \ {0} /\ W = 2 * WTop /\ P \in Nat \ {0} /\ P = W * W
    BY Powers
  <1>2. y \in 0 .. W - 1 /\ y \in 0 .. 2 * WTop - 1 /\ y \in Int /\ y % W = y
    <2>1. x % W \in 0 .. W - 1
      BY <1>1, DivMod
    <2> HIDE DEF W
    <2>2. (x % W) % W = x % W
      BY <1>1, ModTwice
    <2> QED BY <1>1, <2>1, <2>2
  <1>3. SW(x) = IF y >= WTop THEN y - 2 * WTop ELSE y
    BY <1>1 DEF SW
  <1>m. MASK32(x) = y
    BY DEF MASK32
  <1> HIDE DEF y
  <1>4. SW(x) \in -WTop .. WTop - 1 /\ SW(x) % W = y
    BY <1>1, <1>2, <1>3, SignedResidue
  <1>5. y \div WTop = (IF y >= WTop THEN 1 ELSE 0)
        /\ Flip(y, WTop) - WTop = (IF y >= WTop THEN y - W ELSE y)
    BY <1>1, <1>2, TopBit
  <1>6. Wrap(y - W) % W = y
    <2> HIDE DEF W
    <2>1. ((y - W) % (W * W)) % W = (y - W) % W
      <3>1. y - W \in Int
        BY <1>1, <1>2
      <3> QED BY <1>1, <3>1, ModCoarse
    <2>2. (y - W) % W = y % W
      BY <1>1, <1>2, ModMinus
    <2> QED BY <1>1, <1>2, <2>1, <2>2 DEF Wrap
  <1>7. MASK32(IF y \div WTop = 1 THEN Wrap(Flip(y, WTop) - WTop) ELSE y) = y
    BY <1>2, <1>5, <1>6 DEF MASK32
  <1>8. signed_value32(x) = ToSigned(y, WLEN)
    BY <1>7, <1>m DEF signed_value32
  <1>9. ToSigned(y, WLEN) = IF y >= WTop THEN y - W ELSE y
    BY DEF ToSigned, WTop
  <1> QED BY <1>1, <1>2, <1>3, <1>4, <1>8, <1>9, <1>m DEF y

\* The register of a word depends on its residue only.
LEMMA SextSame ==
    ASSUME NEW x \in Int, NEW y \in Int, x % Pow2[WLEN] = y % Pow2[WLEN]
    PROVE  SextW(x) = SextW(y)
  BY DEF SextW, SW

\* Extension by xor and subtraction is sign extension of the word.
LEMMA SextIs ==
    ASSUME NEW x \in Int
    PROVE  /\ SextW(x) \in RegValues
           /\ sign_extend(MASK32(x), WLEN) = SextW(x)
           /\ x \in 0 .. Pow2[WLEN] - 1 => sign_extend(x, WLEN) = SextW(x)
  <1> DEFINE W == Pow2[WLEN]
             P == Pow2[XLEN]
  <1>1. W \in Nat \ {0} /\ WTop \in Nat \ {0} /\ W = 2 * WTop /\ P \in Nat \ {0}
    BY Powers
  <1>2. ASSUME NEW y \in 0 .. W - 1 PROVE sign_extend(y, WLEN) = SextW(y)
    <2>1. y \in 0 .. 2 * WTop - 1 /\ y % W = y
      <3> HIDE DEF W
      <3> QED BY <1>1, ModSmall
    <2>2. Flip(y, WTop) - WTop = IF y >= WTop THEN y - 2 * WTop ELSE y
      BY <1>1, <2>1, TopBit
    <2>3. SW(y) = Flip(y, WTop) - WTop
      BY <1>1, <2>1, <2>2 DEF SW
    <2> QED BY <2>3 DEF sign_extend, SextW, Wrap, WTop
  <1>3. MASK32(x) \in 0 .. W - 1 /\ MASK32(x) \in Int /\ MASK32(x) % W = x % W
    BY WordIs
  <1>4. SextW(MASK32(x)) = SextW(x)
    BY <1>3, SextSame
  <1>5. SextW(x) \in RegValues
    <2>1. SW(x) \in Int
      BY WordIs
    <2>2. SW(x) % P \in 0 .. P - 1
      <3> HIDE DEF P
      <3> QED BY <1>1, <2>1, DivMod
    <2> QED BY <2>2 DEF SextW, RegValues
  <1> QED BY <1>2, <1>3, <1>4, <1>5

\* An immediate becomes a register.
LEMMA ImmediateIs ==
    ASSUME NEW x \in Int, NEW n \in 1 .. XLEN
    PROVE  sign_extend(x, n) \in RegValues
  <1> DEFINE h == Pow2[n - 1]
             P == Pow2[XLEN]
  <1>1. h \in Nat \ {0}
    <2>1. n - 1 \in 0 .. 2 * XLEN
      BY WidthAssumption
    <2> QED BY <2>1, Pow2Is
  <1>2. Flip(x, h) - h \in Int
    <2> HIDE DEF h
    <2> QED BY <1>1 DEF Flip
  <1>3. P \in Nat \ {0}
    BY Powers
  <1>4. (Flip(x, h) - h) % P \in 0 .. P - 1
    <2> DEFINE z == Flip(x, h) - h
    <2>1. z \in Int
      BY <1>2
    <2> HIDE DEF z, P
    <2>2. z % P \in 0 .. P - 1
      BY <1>3, <2>1, DivMod
    <2> QED BY <2>2 DEF z
  <1> QED BY <1>4 DEF sign_extend, Wrap, RegValues

\* One turn of the loop of the arithmetic shifts halves the signed number.
LEMMA HalfSigned ==
    ASSUME NEW h \in Nat \ {0}, NEW z \in -h .. h - 1
    PROVE  LET v == z % (2 * h)
           IN  /\ z \div 2 \in -h .. h - 1
               /\ (IF (v \div h) % 2 = 1 THEN h ELSE 0) + (v \div 2) = (z \div 2) % (2 * h)
  <1> DEFINE b == 2 * h
             v == z % b
             q == z \div 2
  <1>1. b \in Nat \ {0} /\ z \in Int /\ h \in Int
    OBVIOUS
  <1>2. q \in -h .. h - 1
    OBVIOUS
  <1>3. CASE z >= 0
    <2>1. z \in 0 .. b - 1 /\ q \in 0 .. b - 1 /\ ~(z >= h)
      BY <1>3
    <2>2. v = z /\ q % b = q
      <3> HIDE DEF b, q
      <3> QED BY <1>1, <2>1, ModSmall
    <2>3. (z \div h) % 2 = 0
      BY <2>1, TopBit
    <2> HIDE DEF v, q
    <2> QED BY <2>2, <2>3 DEF v, q
  <1>4. CASE z < 0
    <2>1. z + b \in 0 .. b - 1 /\ q + b \in 0 .. b - 1 /\ z + b >= h
      BY <1>4, <1>2
    <2>2. v = z + b /\ q % b = q + b
      <3> HIDE DEF b, q
      <3>1. (z + b) - b = z /\ (q + b) - b = q /\ z + b \in Int /\ q + b \in Int
        BY <1>1, <1>2
      <3>2. ((z + b) - b) % b = (z + b) % b
        BY <1>1, <3>1, ModMinus
      <3>3. ((q + b) - b) % b = (q + b) % b
        BY <1>1, <3>1, ModMinus
      <3>4. (z + b) % b = z + b /\ (q + b) % b = q + b
        BY <1>1, <2>1, ModSmall
      <3> QED BY <3>1, <3>2, <3>3, <3>4
    <2>3. ((z + b) \div h) % 2 = 1
      <3> DEFINE y == z + b
      <3>1. y \in 0 .. 2 * h - 1 /\ y >= h
        BY <2>1
      <3> HIDE DEF y
      <3>2. (y \div h) % 2 = 1
        BY <3>1, TopBit
      <3> QED BY <3>2 DEF y
    <2>4. (z + b) \div 2 = q + h
      OBVIOUS
    <2>5. h + (q + h) = q + b
      OBVIOUS
    <2> HIDE DEF v, q
    <2> QED BY <2>2, <2>3, <2>4, <2>5 DEF v, q, b
  <1> QED BY <1>2, <1>3, <1>4

\* The loop of the arithmetic shifts divides the signed number by a power of two.
LEMMA ShiftLoopIs ==
    ASSUME NEW h \in Nat \ {0}, NEW z \in -h .. h - 1, NEW k \in 0 .. 2 * XLEN
    PROVE  ShiftLoop(z % (2 * h), h, k) = (z \div Pow2[k]) % (2 * h)
  <1> DEFINE b == 2 * h
             x == z % b
             Turn(v) == (IF (v \div h) % 2 = 1 THEN h ELSE 0) + (v \div 2)
             G == [v \in Nat |-> Turn(v)]
             Eq(f) == f = [i \in 0 .. k |-> IF i = 0 THEN x ELSE Turn(f[i - 1])]
             f0 == CHOOSE f : Eq(f)
  <1>1. b \in Nat \ {0} /\ x \in Nat /\ k \in Nat /\ z \in Int
    <2>1. b \in Nat \ {0} /\ z \in Int /\ 2 * XLEN \in Nat
      BY WidthAssumption
    <2> HIDE DEF b
    <2>2. z % b \in 0 .. b - 1
      BY <2>1, DivMod
    <2> QED BY <2>1, <2>2
  <1> HIDE DEF b, x
  <1>2. \A v \in Nat : Turn(v) \in Nat
    OBVIOUS
  <1> HIDE DEF Turn
  <1>3. G \in [Nat -> Nat]
    BY <1>2
  <1>4. PICK f \in [0 .. k -> Nat] : Iterate(f, G, x, k)
    <2> HIDE DEF G
    <2> QED BY <1>1, <1>3, Iterates
  <1>5. \A i \in 0 .. k : f[i] = IF i = 0 THEN x ELSE Turn(f[i - 1])
    <2> SUFFICES ASSUME NEW i \in 0 .. k, i # 0 PROVE f[i] = Turn(f[i - 1])
      BY <1>4 DEF Iterate
    <2>1. i \in 1 .. k /\ i - 1 \in 0 .. k
      BY <1>1
    <2>2. f[i - 1] \in Nat
      BY <2>1
    <2> QED BY <1>4, <2>1, <2>2 DEF Iterate
  <1>6. Eq(f)
    BY <1>5, Zenon
  <1>7. Eq(f0)
    BY <1>6
  <1>8. ShiftLoop(x, h, k) = f0[k]
    BY DEF ShiftLoop, Turn
  <1> HIDE DEF f0
  <1>9. f0[0] = x /\ \A i \in 1 .. k : f0[i] = Turn(f0[i - 1])
    <2> SUFFICES ASSUME f0 = [i \in 0 .. k |-> IF i = 0 THEN x ELSE Turn(f0[i - 1])]
                 PROVE  f0[0] = x /\ \A i \in 1 .. k : f0[i] = Turn(f0[i - 1])
      BY <1>7
    <2> QED BY <1>1
  <1> DEFINE d(i) == z \div Pow2[i]
             T == {i \in Nat : i <= k => d(i) \in -h .. h - 1 /\ f0[i] = d(i) % b}
  <1>10. 0 \in T
    <2>1. Pow2[0] = 1 /\ z \div 1 = z
      BY <1>1, Pow2Is
    <2> QED BY <1>9, <2>1 DEF x
  <1>11. ASSUME NEW i \in Nat, i \in T PROVE i + 1 \in T
    <2> SUFFICES ASSUME i + 1 <= k PROVE d(i + 1) \in -h .. h - 1 /\ f0[i + 1] = d(i + 1) % b
      OBVIOUS
    <2>1. /\ i + 1 \in 1 .. k /\ (i + 1) - 1 = i /\ i <= k
          /\ i + 1 \in 1 .. 2 * XLEN /\ i \in 0 .. 2 * XLEN
      BY <1>1, WidthAssumption
    <2>2. d(i) \in -h .. h - 1 /\ f0[i] = d(i) % b
      BY <1>11, <2>1
    <2>3. d(i + 1) = d(i) \div 2
      <3> DEFINE p == Pow2[i]
                 y == z \div p
                 r == z % p
                 c == y \div 2
                 s == y % 2
      <3>1. p \in Nat \ {0} /\ Pow2[i + 1] = 2 * p
        BY <2>1, Pow2Is
      <3>2. y \in Int /\ r \in 0 .. p - 1 /\ z = p * y + r
        <4> HIDE DEF p
        <4> QED BY <1>1, <3>1, DivMod
      <3>3. c \in Int /\ s \in 0 .. 1 /\ y = 2 * c + s
        <4> HIDE DEF y
        <4> QED BY <3>2
      <3> HIDE DEF p, y, r, c, s
      <3> DEFINE e == 2 * p
                 t == p * s + r
      <3>4. e \in Nat \ {0} /\ t \in 0 .. e - 1 /\ z = e * c + t
        <4>1. s = 0 \/ s = 1
          BY <3>3
        <4> QED BY <3>1, <3>2, <3>3, <4>1
      <3> HIDE DEF e, t
      <3>5. (e * c + t) \div e = c
        BY <3>3, <3>4, DivModUnique
      <3>6. z \div e = c
        BY <3>4, <3>5
      <3> QED BY <3>1, <3>6 DEF e, c, y, p
    <2>4. f0[i + 1] = Turn(d(i) % b)
      BY <1>9, <2>1, <2>2
    <2> HIDE DEF d
    <2>5. d(i) \div 2 \in -h .. h - 1 /\ Turn(d(i) % b) = (d(i) \div 2) % b
      BY <2>2, HalfSigned DEF Turn, b
    <2> QED BY <2>3, <2>4, <2>5
  <1>12. k \in T
    <2> HIDE DEF T
    <2> QED BY <1>1, <1>10, <1>11, NatSetInduction
  <1>13. f0[k] = d(k) % b
    <2>1. k <= k
      BY <1>1
    <2> QED BY <1>12, <2>1
  <1> QED BY <1>8, <1>13 DEF x, b

-----------------------------------------------------------------------------
(* Division *)

\* C's division of integers gives integers.
LEMMA QuotRem ==
    ASSUME NEW a \in Int, NEW b \in Int, b # 0
    PROVE  quot(a, b) \in Int /\ rem(a, b) \in Int
  <1> DEFINE m == Abs(a)
             n == Abs(b)
  <1>1. m \in Int /\ n \in Nat \ {0}
    BY DEF Abs
  <1>2. m \div n \in Int
    <2> HIDE DEF m, n
    <2> QED BY <1>1, DivMod
  <1>3. quot(a, b) \in Int
    <2> HIDE DEF m, n
    <2>1. quot(a, b) = IF (a < 0) = (b < 0) THEN m \div n ELSE -(m \div n)
      BY DEF quot, m, n
    <2> QED BY <1>2, <2>1
  <1> QED BY <1>3 DEF rem

\* Of naturals it is \div and %.
LEMMA QuotNat ==
    ASSUME NEW a \in Nat, NEW b \in Nat \ {0}
    PROVE  /\ quot(a, b) = a \div b /\ rem(a, b) = a % b
           /\ quot(a, b) \in 0 .. a /\ rem(a, b) \in 0 .. a
  <1> DEFINE q == a \div b
             r == a % b
  <1>1. q \in Int /\ r \in 0 .. b - 1 /\ a = b * q + r
    BY DivMod
  <1>2. quot(a, b) = q
    BY DEF quot, Abs
  <1> HIDE DEF q, r
  <1>3. rem(a, b) = r
    BY <1>1, <1>2 DEF rem
  <1>4. q >= 0
    <2> SUFFICES ASSUME q <= -1 PROVE FALSE
      BY <1>1
    <2>1. b * q <= -b
      BY <1>1
    <2> QED BY <1>1, <2>1
  <1>5. b * q >= q
    BY <1>1, <1>4
  <1>6. q \in 0 .. a /\ r \in 0 .. a
    BY <1>1, <1>4, <1>5
  <1> QED BY <1>2, <1>3, <1>6 DEF q, r

\* By -1 it negates.
LEMMA QuotMinusOne ==
    ASSUME NEW a \in Int, NEW b \in Int, b = -1
    PROVE  quot(a, b) = -a /\ rem(a, b) = 0
  <1>0. b < 0 /\ b + 1 = 0
    OBVIOUS
  <1>1. Abs(b) = 1 /\ Abs(a) \in Int /\ b < 0
    BY ONLY <1>0, a \in Int, b \in Int DEF Abs
  <1>2. Abs(a) \div 1 = Abs(a)
    BY <1>1
  <1>3. quot(a, b) = IF a < 0 THEN Abs(a) ELSE -Abs(a)
    BY <1>1, <1>2 DEF quot
  <1>4. quot(a, b) = -a
    BY ONLY <1>3, a \in Int DEF Abs
  <1> QED BY <1>0, <1>4 DEF rem

\* Powers of two grow.
LEMMA Pow2Le ==
    ASSUME NEW i \in 0 .. 2 * XLEN, NEW j \in i .. 2 * XLEN
    PROVE  Pow2[i] <= Pow2[j]
  <1> DEFINE d == j - i
  <1>1. d \in Nat /\ i \in Nat /\ i + d = j /\ i + d <= 2 * XLEN /\ d \in 0 .. 2 * XLEN
    BY WidthAssumption
  <1> HIDE DEF d
  <1>2. Pow2[i + d] = Pow2[i] * Pow2[d]
    BY <1>1, Pow2Sum
  <1>3. Pow2[i] \in Nat \ {0} /\ Pow2[d] \in Nat \ {0}
    BY <1>1, Pow2Is
  <1>4. Pow2[i] * Pow2[d] >= Pow2[i]
    BY <1>3
  <1> QED BY <1>1, <1>2, <1>3, <1>4

-----------------------------------------------------------------------------
(* Conversion to double *)

\* n to the nearest multiple of u, ties to the even multiple
Rounded(n, u) ==
    LET q == n \div u
        up == 2 * (n % u) > u \/ (2 * (n % u) = u /\ q % 2 = 1)
    IN  u * (IF up THEN q + 1 ELSE q)

\* The exponent of n
Exponent(n) == CHOOSE k \in 0 .. XLEN : n < Pow2[k] /\ (k = 0 \/ n >= Pow2[k - 1])

\* ToDouble rounds to multiples of the unit of the last place.
LEMMA ToDoubleIs ==
    ASSUME NEW x \in Int
    PROVE  ToDouble(x) = LET n == Abs(x)
                             e == Exponent(n)
                             r == Rounded(n, IF e > DPREC THEN Pow2[e - DPREC] ELSE 1)
                         IN  IF x < 0 THEN -r ELSE r
  BY DEF ToDouble, Exponent, Rounded

\* The exponent exists: the powers of two around a number up to Top
LEMMA ExponentIs ==
    ASSUME NEW n \in 0 .. Top
    PROVE  /\ Exponent(n) \in 0 .. XLEN /\ n < Pow2[Exponent(n)]
           /\ Exponent(n) = 0 \/ n >= Pow2[Exponent(n) - 1]
  <1> DEFINE T == {k \in Nat : k <= XLEN /\ n < Pow2[k]}
  <1>1. XLEN \in Nat /\ n \in Nat /\ n < Pow2[XLEN]
    BY Powers, WidthAssumption
  <1>2. T \in SUBSET Nat /\ XLEN \in T
    BY <1>1
  <1>3. PICK k \in T : \A y \in T : k <= y
    <2> HIDE DEF T
    <2> QED BY <1>2, LeastNat
  <1>4. k \in 0 .. XLEN /\ n < Pow2[k]
    BY <1>1
  <1>5. k = 0 \/ n >= Pow2[k - 1]
    <2> SUFFICES ASSUME k # 0 PROVE n >= Pow2[k - 1]
      OBVIOUS
    <2>1. k - 1 \in Nat /\ k - 1 <= XLEN /\ k - 1 \in 0 .. 2 * XLEN
      BY <1>1, <1>4
    <2>2. ~(n < Pow2[k - 1])
      BY <1>3, <1>4, <2>1
    <2>3. Pow2[k - 1] \in Nat
      BY <2>1, Pow2Is
    <2> QED BY <1>1, <2>2, <2>3
  <1> DEFINE Q(j) == n < Pow2[j] /\ (j = 0 \/ n >= Pow2[j - 1])
  <1>6. \E j \in 0 .. XLEN : Q(j)
    BY <1>4, <1>5
  <1>7. Exponent(n) = CHOOSE j \in 0 .. XLEN : Q(j)
    BY DEF Exponent
  <1> HIDE DEF Q
  <1>8. Exponent(n) \in 0 .. XLEN /\ Q(Exponent(n))
    BY <1>6, <1>7
  <1> QED BY <1>8 DEF Q

\* Numbers of u * d - 1 at most round up to u * d if they are half a unit or
\* less below it.
LEMMA RoundedTop ==
    ASSUME NEW w \in Nat \ {0}, NEW c \in Nat \ {0}, NEW n \in 0 .. (2 * w) * (2 * c) - 1
    PROVE  /\ Rounded(n, 2 * w) \in 0 .. (2 * w) * (2 * c)
           /\ Rounded(n, 2 * w) = (2 * w) * (2 * c) <=> n >= (2 * w) * (2 * c) - w
  <1> DEFINE u == 2 * w
             q == n \div u
             r == n % u
             up == 2 * r > u \/ (2 * r = u /\ q % 2 = 1)
  <1>1. u \in Nat \ {0} /\ n \in Int
    OBVIOUS
  <1>2. q \in Int /\ r \in 0 .. u - 1 /\ n = u * q + r
    <2> HIDE DEF u
    <2> QED BY <1>1, DivMod
  <1>3. Rounded(n, 2 * w) = u * (IF up THEN q + 1 ELSE q)
    BY DEF Rounded
  <1> HIDE DEF q, r
  <1>4. q >= 0
    <2> SUFFICES ASSUME q <= -1 PROVE FALSE
      BY <1>2
    <2>1. u * q <= -u
      BY <1>1, <1>2
    <2> HIDE DEF u
    <2> QED BY <1>1, <1>2, <2>1
  <1>5. q <= 2 * c - 1
    <2> SUFFICES ASSUME q >= 2 * c PROVE FALSE
      BY <1>2
    <2>1. u * q >= u * (2 * c)
      BY <1>1, <1>2
    <2> QED BY <1>1, <1>2, <2>1
  <1>6. CASE q = 2 * c - 1
    <2>1. q % 2 = 1
      BY <1>6
    <2>2. up <=> r >= w
      BY <1>2, <2>1
    <2>3. u * (q + 1) = u * (2 * c) /\ u * q = u * (2 * c) - u /\ u * q >= 0
      BY <1>1, <1>4, <1>6
    <2>4. n >= u * (2 * c) - w <=> r >= w
      BY <1>2, <2>3
    <2> HIDE DEF up
    <2>5. u * (2 * c) \in Nat
      OBVIOUS
    <2>6. CASE up
      BY <1>3, <2>2, <2>3, <2>4, <2>5, <2>6
    <2>7. CASE ~up
      BY <1>1, <1>3, <2>2, <2>3, <2>4, <2>5, <2>7
    <2> QED BY <2>6, <2>7
  <1>7. CASE q <= 2 * c - 2
    <2> DEFINE p == IF up THEN q + 1 ELSE q
    <2>1. p \in 0 .. 2 * c - 1
      BY <1>2, <1>4, <1>7
    <2> HIDE DEF p, up
    <2>2. u * p <= u * (2 * c - 1) /\ u * p >= 0
      BY <1>1, <2>1
    <2>3. u * (2 * c - 1) = u * (2 * c) - u
      OBVIOUS
    <2>4. Rounded(n, 2 * w) < u * (2 * c) /\ Rounded(n, 2 * w) \in 0 .. u * (2 * c)
      BY <1>1, <1>3, <2>1, <2>2, <2>3 DEF p
    <2>5. n < u * (2 * c) - u
      <3>1. u * q <= u * (2 * c - 2) /\ u * (2 * c - 2) = u * (2 * c) - 2 * u
        BY <1>1, <1>2, <1>7
      <3> HIDE DEF u
      <3> QED BY <1>1, <1>2, <3>1
    <2> QED BY <2>4, <2>5
  <1> QED BY <1>2, <1>5, <1>6, <1>7

\* Integers of no more bits than the precision are converted exactly.
LEMMA ToDoubleExact ==
    ASSUME NEW x \in Int, Abs(x) < Pow2[DPREC], Abs(x) <= Top
    PROVE  ToDouble(x) = x
  <1> DEFINE n == Abs(x)
             e == Exponent(n)
  <1>1. n \in Nat /\ Top \in Nat /\ (x < 0 => n = -x) /\ (x >= 0 => n = x)
    BY Powers DEF Abs
  <1>2. n \in 0 .. Top /\ n < Pow2[DPREC]
    BY <1>1
  <1>3. ToDouble(x) = LET r == Rounded(n, IF e > DPREC THEN Pow2[e - DPREC] ELSE 1)
                      IN  IF x < 0 THEN -r ELSE r
    BY ToDoubleIs
  <1> HIDE DEF n
  <1>4. e \in 0 .. XLEN /\ (e = 0 \/ n >= Pow2[e - 1])
    BY <1>2, ExponentIs
  <1> HIDE DEF e
  <1>5. ~(e > DPREC)
    <2> SUFFICES ASSUME e > DPREC PROVE FALSE
      OBVIOUS
    <2>1. /\ e # 0 /\ DPREC \in 0 .. 2 * XLEN
          /\ e - 1 \in DPREC .. 2 * XLEN /\ e - 1 \in 0 .. 2 * XLEN
      BY <1>4, WidthAssumption
    <2>2. Pow2[DPREC] <= Pow2[e - 1]
      BY <2>1, Pow2Le
    <2>3. Pow2[DPREC] \in Nat /\ Pow2[e - 1] \in Nat
      BY <2>1, Pow2Is
    <2> QED BY <1>1, <1>2, <1>4, <2>1, <2>2, <2>3
  <1>6. n \div 1 = n /\ n % 1 = 0
    BY <1>1
  <1>7. Rounded(n, 1) = n
    BY <1>1, <1>6 DEF Rounded
  <1> QED BY <1>1, <1>3, <1>5, <1>7

\* The dividends that divi takes for the smallest number
LEMMA ToDoubleSmallest ==
    ASSUME NEW x \in -Top .. Top - 1
    PROVE  ToDouble(x) = -Top <=> x <= Pow2[XLEN - 2 - DPREC] - Top
  <1> DEFINE n == Abs(x)
             e == Exponent(n)
             u == IF e > DPREC THEN Pow2[e - DPREC] ELSE 1
             r == Rounded(n, u)
             w == Pow2[XLEN - 2 - DPREC]
             M == Pow2[XLEN - 2]
             D == Pow2[DPREC]
  <1>0. /\ XLEN \in Nat /\ DPREC \in Nat /\ DPREC >= 2 /\ DPREC <= XLEN - 2 /\ XLEN >= 4
    BY WidthAssumption
  <1>p. \A i \in 0 .. 2 * XLEN : Pow2[i] \in Nat \ {0}
    BY Pow2Is
  <1>s. \A i \in 1 .. 2 * XLEN : Pow2[i] = 2 * Pow2[i - 1]
    BY Pow2Is
  <1>1. /\ w \in Nat \ {0} /\ M \in Nat \ {0} /\ D \in Nat \ {0} /\ Top \in Nat \ {0}
        /\ Top = 2 * M /\ w <= M
    <2>1. /\ XLEN - 2 - DPREC \in 0 .. 2 * XLEN /\ XLEN - 2 \in XLEN - 2 - DPREC .. 2 * XLEN
          /\ XLEN - 2 \in 0 .. 2 * XLEN /\ DPREC \in 0 .. 2 * XLEN /\ XLEN - 1 \in 1 .. 2 * XLEN
          /\ (XLEN - 1) - 1 = XLEN - 2
      BY <1>0
    <2>2. w <= M
      BY <2>1, Pow2Le
    <2> QED BY <1>p, <1>s, <2>1, <2>2 DEF Top
  <1>2. /\ x \in Int /\ n \in 0 .. Top /\ n \in Nat
        /\ (x < 0 => n = -x) /\ (x >= 0 => n = x /\ n < Top)
    BY <1>1 DEF Abs
  <1>3. ToDouble(x) = IF x < 0 THEN -r ELSE r
    BY <1>2, ToDoubleIs
  <1> HIDE DEF n, w, M
  <1>4. e \in 0 .. XLEN /\ n < Pow2[e] /\ (e = 0 \/ n >= Pow2[e - 1])
    BY <1>2, ExponentIs
  <1> HIDE DEF e
  \* Below the exponent of the smallest number
  <1>5. ASSUME e <= XLEN - 1 PROVE r \in 0 .. Pow2[e]
    <2>1. CASE e > DPREC
      <3>1. /\ e - DPREC \in 1 .. 2 * XLEN /\ e - DPREC - 1 \in 0 .. 2 * XLEN
            /\ DPREC \in 1 .. 2 * XLEN
            /\ DPREC - 1 \in 0 .. 2 * XLEN /\ e - DPREC \in Nat /\ (e - DPREC) + DPREC = e
            /\ (e - DPREC) + DPREC <= 2 * XLEN
        BY <1>0, <1>4, <2>1
      <3> DEFINE v == Pow2[e - DPREC - 1]
                 c == Pow2[DPREC - 1]
      <3>2. v \in Nat \ {0} /\ c \in Nat \ {0} /\ u = 2 * v /\ D = 2 * c
        BY <1>p, <1>s, <2>1, <3>1
      <3>3. Pow2[e] = (2 * v) * (2 * c)
        <4>1. Pow2[(e - DPREC) + DPREC] = Pow2[e - DPREC] * Pow2[DPREC]
          BY <1>0, <3>1, Pow2Sum
        <4> QED BY <2>1, <3>1, <3>2, <4>1
      <3> HIDE DEF v, c
      <3>4. n \in 0 .. (2 * v) * (2 * c) - 1
        BY <1>2, <1>4, <3>2, <3>3
      <3> QED BY <3>2, <3>3, <3>4, RoundedTop
    <2>2. CASE ~(e > DPREC)
      <3>1. n \div 1 = n /\ n % 1 = 0
        BY <1>2
      <3>2. r = n
        BY <1>2, <2>2, <3>1 DEF Rounded
      <3>3. Pow2[e] \in Nat
        BY <1>0, <1>4, <1>p
      <3> QED BY <1>2, <1>4, <3>2, <3>3
    <2> QED BY <2>1, <2>2
  \* The smallest number itself
  <1>6. CASE n = Top
    <2>1. e = XLEN
      <3> SUFFICES ASSUME e <= XLEN - 1 PROVE FALSE
        BY <1>0, <1>4
      <3>1. e \in 0 .. 2 * XLEN /\ XLEN - 1 \in e .. 2 * XLEN
        BY <1>0, <1>4
      <3>2. Pow2[e] <= Top /\ Pow2[e] \in Nat
        BY <1>p, <3>1, Pow2Le DEF Top
      <3> QED BY <1>1, <1>4, <1>6, <3>2
    <2>2. /\ XLEN - DPREC \in Nat /\ DPREC - 1 \in Nat /\ (XLEN - DPREC) + (DPREC - 1) = XLEN - 1
          /\ (XLEN - DPREC) + (DPREC - 1) <= 2 * XLEN /\ XLEN > DPREC
          /\ XLEN - DPREC \in 0 .. 2 * XLEN /\ DPREC - 1 \in 0 .. 2 * XLEN
      BY <1>0
    <2> DEFINE c == Pow2[DPREC - 1]
    <2>3. Pow2[(XLEN - DPREC) + (DPREC - 1)] = Pow2[XLEN - DPREC] * c
      BY <2>2, Pow2Sum
    <2>4. u = Pow2[XLEN - DPREC] /\ u \in Nat \ {0} /\ c \in Nat \ {0} /\ Top = u * c + 0
      BY <1>p, <2>1, <2>2, <2>3 DEF Top
    <2> HIDE DEF u, c
    <2>5. (u * c + 0) \div u = c /\ (u * c + 0) % u = 0
      <3>1. 0 \in 0 .. u - 1 /\ c \in Int
        BY <2>4
      <3> QED BY <2>4, <3>1, DivModUnique
    <2>6. n \div u = c /\ n % u = 0
      BY <1>6, <2>4, <2>5
    <2>7. r = u * c
      BY <2>4, <2>6 DEF Rounded
    <2>8. r = Top /\ x = -Top
      BY <1>1, <1>2, <1>6, <2>4, <2>7
    <2> HIDE DEF r
    <2> QED BY <1>1, <1>3, <2>8 DEF w
  <1>7. CASE n < Top /\ n >= M
    <2>1. e = XLEN - 1
      <3>1. e <= XLEN - 1
        <4> SUFFICES ASSUME e = XLEN PROVE FALSE
          BY <1>0, <1>4
        <4> QED BY <1>0, <1>1, <1>2, <1>4, <1>7 DEF Top
      <3>2. e > XLEN - 2
        <4> SUFFICES ASSUME e <= XLEN - 2 PROVE FALSE
          BY <1>0, <1>4
        <4>1. e \in 0 .. 2 * XLEN /\ XLEN - 2 \in e .. 2 * XLEN
          BY <1>0, <1>4
        <4>2. Pow2[e] <= M /\ Pow2[e] \in Nat
          BY <1>p, <4>1, Pow2Le DEF M
        <4> QED BY <1>1, <1>2, <1>4, <1>7, <4>2
      <3> QED BY <1>0, <1>4, <3>1, <3>2
    <2>2. /\ e > DPREC /\ e - DPREC \in 1 .. 2 * XLEN /\ (e - DPREC) - 1 = XLEN - 2 - DPREC
          /\ DPREC \in 1 .. 2 * XLEN /\ DPREC - 1 \in 0 .. 2 * XLEN /\ e - DPREC \in Nat
          /\ (e - DPREC) + DPREC = XLEN - 1 /\ (e - DPREC) + DPREC <= 2 * XLEN
      BY <1>0, <2>1
    <2> DEFINE c == Pow2[DPREC - 1]
    <2>3. Pow2[(e - DPREC) + DPREC] = Pow2[e - DPREC] * Pow2[DPREC]
      BY <1>0, <2>2, Pow2Sum
    <2>4. u = 2 * w /\ D = 2 * c /\ c \in Nat \ {0}
      BY <1>p, <1>s, <2>2 DEF w
    <2>5. Top = (2 * w) * (2 * c)
      BY <2>2, <2>3, <2>4 DEF Top
    <2> HIDE DEF c, D
    <2>6. n \in 0 .. (2 * w) * (2 * c) - 1
      BY <1>2, <1>7, <2>5, <1>1
    <2>7. r = Top <=> n >= Top - w
      <3> HIDE DEF u, w
      <3>1. Rounded(n, 2 * w) = (2 * w) * (2 * c) <=> n >= (2 * w) * (2 * c) - w
        BY <1>1, <2>4, <2>6, RoundedTop
      <3> QED BY <2>4, <2>5, <3>1 DEF r
    <2>8. r \in Nat
      <3>1. e <= XLEN - 1
        BY <1>0, <2>1
      <3>2. r \in 0 .. Pow2[e]
        BY <1>5, <3>1
      <3>3. Pow2[e] \in Nat
        BY <1>0, <1>4, <1>p
      <3> HIDE DEF r
      <3> QED BY <3>2, <3>3
    <2> HIDE DEF r
    <2>9. CASE x < 0
      BY <1>1, <1>2, <1>3, <2>7, <2>8, <2>9 DEF w
    <2>10. CASE x >= 0
      <3>1. ToDouble(x) = r /\ r # -Top
        BY <1>1, <1>2, <1>3, <2>8, <2>10
      <3>2. ~(x <= w - Top)
        BY <1>1, <1>2, <2>10
      <3> QED BY <3>1, <3>2 DEF w
    <2> QED BY <1>2, <2>9, <2>10
  <1>8. CASE n < M
    <2>1. e <= XLEN - 2
      <3> SUFFICES ASSUME e >= XLEN - 1 PROVE FALSE
        BY <1>0, <1>4
      <3>1. /\ e # 0 /\ e - 1 \in 0 .. 2 * XLEN
            /\ e - 1 \in XLEN - 2 .. 2 * XLEN /\ XLEN - 2 \in 0 .. 2 * XLEN
        BY <1>0, <1>4
      <3>2. M <= Pow2[e - 1] /\ Pow2[e - 1] \in Nat
        BY <1>p, <3>1, Pow2Le DEF M
      <3> QED BY <1>1, <1>2, <1>4, <1>8, <3>1, <3>2
    <2>2. e \in 0 .. 2 * XLEN /\ XLEN - 2 \in e .. 2 * XLEN /\ e <= XLEN - 1
      BY <1>0, <1>4, <2>1
    <2>3. Pow2[e] <= M /\ Pow2[e] \in Nat
      BY <1>p, <2>2, Pow2Le DEF M
    <2>4. r \in 0 .. Pow2[e]
      BY <1>5, <2>2
    <2> HIDE DEF r
    <2>5. r \in Nat /\ r < Top
      BY <1>1, <2>3, <2>4
    <2>6. ToDouble(x) # -Top
      BY <1>1, <1>2, <1>3, <2>5
    <2>7. ~(x <= w - Top)
      BY <1>1, <1>2, <1>8
    <2> QED BY <2>6, <2>7 DEF w
  <1> QED BY <1>1, <1>2, <1>6, <1>7, <1>8

-----------------------------------------------------------------------------
(* The instructions on whole registers *)

\* divi, the one special case apart, is the division of the ISA.
LEMMA DiviIs ==
    ASSUME NEW a \in Int, NEW b \in Int, NEW n \in 1 .. XLEN
    PROVE  /\ divi(a, b, 0, n) = IF b = 0 THEN -1
                                 ELSE IF ToDouble(a) = -(Pow2[n - 1]) /\ b = -1
                                      THEN -(Pow2[n - 1]) ELSE quot(a, b)
           /\ divi(a, b, 2, n) = RemRef(a, b)
           /\ b >= 0 => divi(a, b, 1, n) = IF b = 0 THEN Pow2[n] - 1 ELSE quot(a, b)
           /\ b >= 0 => divi(a, b, 3, n) = RemRef(a, b)
  <1> DEFINE t == ToDouble(a) = -(Pow2[n - 1])
  <1>1. b = -1 => rem(a, b) = 0
    BY QuotMinusOne
  <1> HIDE DEF t
  <1>2. divi(a, b, 0, n) = IF b = 0 THEN -1
                           ELSE IF t /\ b = -1 THEN -(Pow2[n - 1]) ELSE quot(a, b)
    BY DEF divi, t
  <1>3. divi(a, b, 2, n) = IF b = 0 THEN a ELSE IF t /\ b = -1 THEN 0 ELSE rem(a, b)
    BY DEF divi, t
  <1>4. b >= 0 => b # -1
    OBVIOUS
  <1>5. divi(a, b, 1, n) = IF b = 0 THEN Pow2[n] - 1
                           ELSE IF t /\ b = -1 THEN 0 ELSE quot(a, b)
    BY DEF divi, t
  <1>6. divi(a, b, 3, n) = IF b = 0 THEN a ELSE IF t /\ b = -1 THEN 0 ELSE rem(a, b)
    BY DEF divi, t
  <1> QED BY <1>1, <1>2, <1>3, <1>4, <1>5, <1>6 DEF RemRef, t

\* ADD, SUB and MUL: unsigned arithmetic with wrap-around is signed arithmetic
\* with wrap-around.
LEMMA WrapSigned ==
    ASSUME NEW a \in RegValues, NEW b \in RegValues
    PROVE  /\ Wrap(a + b) = (S(a) + S(b)) % Pow2[XLEN]
           /\ Wrap(a - b) = (S(a) - S(b)) % Pow2[XLEN]
           /\ Wrap(a * b) = (S(a) * S(b)) % Pow2[XLEN]
  <1> DEFINE P == Pow2[XLEN]
             s == S(a)
             t == S(b)
  <1>1. P \in Nat \ {0}
    BY Powers
  <1>2. a \in Int /\ b \in Int /\ s \in Int /\ t \in Int /\ a % P = s % P /\ b % P = t % P
    BY SignedIs
  <1>3. /\ (a + b) % P = (s + t) % P /\ (a - b) % P = (s - t) % P
        /\ (a * b) % P = (s * t) % P
    <2>1. Same(P, a, s) /\ Same(P, b, t)
      BY <1>2 DEF Same
    <2> HIDE DEF P, s, t
    <2>2. Same(P, a + b, s + t) /\ Same(P, a - b, s - t) /\ Same(P, a * b, s * t)
      BY <1>1, <2>1, ModSum, Zenon
    <2> QED BY <2>2 DEF Same
  <1> QED BY <1>3 DEF Wrap

\* MULH and MULHSU: cutting the product to 2 * XLEN bits loses nothing the upper
\* half shows.
LEMMA HighIs ==
    ASSUME NEW x \in Int, NEW y \in Int
    PROVE  High(x, y) = ((x * y) \div Pow2[XLEN]) % Pow2[XLEN]
  <1> DEFINE P == Pow2[XLEN]
             z == x * y
  <1>1. P \in Nat \ {0} /\ Pow2[2 * XLEN] = P * P /\ z \in Int
    BY Powers
  <1>2. (z % (P * P)) \div P = (z \div P) % P
    <2> HIDE DEF P, z
    <2> QED BY <1>1, DivCut
  <1> QED BY <1>1, <1>2 DEF High

\* MULHU: the product of two registers fits in 2 * XLEN bits.
LEMMA HighUnsigned ==
    ASSUME NEW a \in RegValues, NEW b \in RegValues
    PROVE  High(a, b) = (a * b) \div Pow2[XLEN]
  <1> DEFINE P == Pow2[XLEN]
             z == a * b
             R == P * P
  <1>1. P \in Nat \ {0} /\ Pow2[2 * XLEN] = R
    BY Powers
  <1>2. a \in 0 .. P - 1 /\ b \in 0 .. P - 1
    BY DEF RegValues
  <1> HIDE DEF P
  <1>3. z >= 0 /\ z <= a * P
    BY <1>1, <1>2
  <1>4. a * P <= (P - 1) * P /\ (P - 1) * P = P * P - P /\ R \in Nat \ {0}
    BY <1>1, <1>2
  <1>5. z \in 0 .. R - 1
    BY <1>1, <1>2, <1>3, <1>4
  <1> HIDE DEF z, R
  <1>6. z % R = z
    BY <1>4, <1>5, ModSmall
  <1> QED BY <1>1, <1>6 DEF High, z, P

\* The amount of a shift
LEMMA Amount ==
    ASSUME NEW b \in RegValues
    PROVE  /\ b % XLEN \in 0 .. 2 * XLEN /\ b % WLEN \in 0 .. 2 * XLEN
           /\ Pow2[b % XLEN] \in Nat \ {0} /\ Pow2[b % WLEN] \in Nat \ {0}
  <1>1. b \in Int /\ XLEN \in Nat \ {0} /\ WLEN \in Nat \ {0} /\ XLEN = 2 * WLEN
    BY SignedIs, WidthAssumption
  <1>2. b % XLEN \in 0 .. XLEN - 1 /\ b % WLEN \in 0 .. WLEN - 1
    BY <1>1, DivMod
  <1>3. b % XLEN \in 0 .. 2 * XLEN /\ b % WLEN \in 0 .. 2 * XLEN
    BY <1>1, <1>2
  <1> QED BY <1>3, Pow2Is

\* SRA divides the signed number by a power of two, rounding down.
LEMMA SraIs ==
    ASSUME NEW a \in RegValues, NEW k \in 0 .. 2 * XLEN
    PROVE  ShiftLoop(a, Top, k) = (S(a) \div Pow2[k]) % Pow2[XLEN]
  <1> DEFINE z == S(a)
  <1>1. Top \in Nat \ {0} /\ Pow2[XLEN] = 2 * Top /\ z \in -Top .. Top - 1 /\ z % Pow2[XLEN] = a
    BY Powers, SignedIs
  <1> HIDE DEF z
  <1>2. ShiftLoop(z % (2 * Top), Top, k) = (z \div Pow2[k]) % (2 * Top)
    BY <1>1, ShiftLoopIs
  <1> QED BY <1>1, <1>2 DEF z

\* SRAW does so with the word.
LEMMA SrawIs ==
    ASSUME NEW a \in Int, NEW k \in 0 .. 2 * XLEN
    PROVE  sign_extend(ShiftLoop(MASK32(a), WTop, k), WLEN) = SextW(SW(a) \div Pow2[k])
  <1> DEFINE z == SW(a)
             y == z \div Pow2[k]
  <1>1. /\ WTop \in Nat \ {0} /\ Pow2[WLEN] = 2 * WTop
        /\ z \in -WTop .. WTop - 1 /\ z \in Int /\ z % Pow2[WLEN] = MASK32(a)
    BY Powers, WordIs
  <1>2. y \in Int
    <2>1. Pow2[k] \in Nat \ {0}
      BY Pow2Is
    <2> HIDE DEF z
    <2> QED BY <1>1, <2>1, DivMod
  <1> HIDE DEF z
  <1>3. ShiftLoop(z % (2 * WTop), WTop, k) = y % (2 * WTop)
    BY <1>1, ShiftLoopIs
  <1> HIDE DEF y
  <1>4. ShiftLoop(MASK32(a), WTop, k) = MASK32(y)
    BY <1>1, <1>3 DEF MASK32
  <1>5. sign_extend(MASK32(y), WLEN) = SextW(y)
    BY <1>2, SextIs
  <1> QED BY <1>4, <1>5 DEF y, z

\* DIV: exact but for the dividends by -1 that round to the smallest number
LEMMA DivIs ==
    ASSUME NEW a \in RegValues, NEW b \in RegValues
    PROVE  Wrap(divi(S(a), S(b), 0, XLEN)) =
               IF S(b) = -1 /\ NearSmallest(a) THEN Top ELSE DivRef(S(a), S(b)) % Pow2[XLEN]
  <1> DEFINE P == Pow2[XLEN]
             s == S(a)
             t == S(b)
             v == Pow2[XLEN - 2 - DPREC]
             d == divi(s, t, 0, XLEN)
  <1>1. /\ P \in Nat \ {0} /\ Top \in Nat \ {0} /\ P = 2 * Top /\ Top = Pow2[XLEN - 1]
        /\ s \in Int /\ t \in Int /\ s \in -Top .. Top - 1
    BY Powers, SignedIs DEF Top
  <1>2. ToDouble(s) = -Top <=> s <= v - Top
    BY <1>1, ToDoubleSmallest
  <1>3. d = IF t = 0 THEN -1 ELSE IF ToDouble(s) = -Top /\ t = -1 THEN -Top ELSE quot(s, t)
    <2>1. XLEN \in 1 .. XLEN
      BY WidthAssumption
    <2> QED BY <1>1, <2>1, DiviIs
  <1>4. v \in Nat \ {0}
    <2>1. XLEN - 2 - DPREC \in 0 .. 2 * XLEN
      BY WidthAssumption
    <2> QED BY <2>1, Pow2Is
  <1>5. NearSmallest(a) <=> s # -Top /\ s <= v - Top
    BY DEF NearSmallest
  <1>6. (-Top) % P = Top /\ Top % P = Top
    <2> HIDE DEF P
    <2>1. Top \in 0 .. P - 1 /\ Top - P = -Top
      BY <1>1
    <2>2. Top % P = Top
      BY <1>1, <2>1, ModSmall
    <2>3. (Top - P) % P = Top % P
      BY <1>1, ModMinus
    <2> QED BY <2>1, <2>2, <2>3
  <1>7. t = -1 => quot(s, t) = -s
    BY <1>1, QuotMinusOne
  <1>8. DivRef(s, t) = IF t = 0 THEN -1 ELSE quot(s, t)
    BY DEF DivRef
  <1>w. Wrap(d) = d % P
    BY DEF Wrap
  <1> HIDE DEF P, s, t, v, d
  <1>9. CASE t = -1 /\ s <= v - Top
    <2>1. d = -Top
      BY <1>2, <1>3, <1>9
    <2>2. s = -Top => DivRef(s, t) = Top
      BY <1>1, <1>7, <1>8, <1>9
    <2>3. Wrap(d) = IF t = -1 /\ NearSmallest(a) THEN Top ELSE DivRef(s, t) % P
      BY <1>5, <1>6, <1>9, <1>w, <2>1, <2>2
    <2> QED BY <2>3 DEF s, t, d, P
  <1>10. CASE ~(t = -1 /\ s <= v - Top)
    <2>1. d = DivRef(s, t)
      BY <1>2, <1>3, <1>8, <1>10
    <2>2. ~(t = -1 /\ NearSmallest(a))
      BY <1>5, <1>10
    <2> QED BY <1>w, <2>1, <2>2 DEF s, t, d, P
  <1> QED BY <1>9, <1>10

\* DIVU, REMU and their word forms: no special case but the zero divisor
LEMMA DivUnsignedIs ==
    ASSUME NEW a \in Nat, NEW b \in Nat, NEW n \in 1 .. XLEN, a < Pow2[n]
    PROVE  /\ divi(a, b, 1, n) \in 0 .. Pow2[n] - 1
           /\ divi(a, b, 1, n) % Pow2[n] = DivRef(a, b) % Pow2[n]
           /\ divi(a, b, 3, n) \in 0 .. Pow2[n] - 1 /\ divi(a, b, 3, n) = RemRef(a, b)
           /\ DivRef(a, b) \in Int
  <1> DEFINE P == Pow2[n]
  <1>1. P \in Nat \ {0}
    <2>1. n \in 0 .. 2 * XLEN
      BY WidthAssumption
    <2> QED BY <2>1, Pow2Is
  <1>2. /\ divi(a, b, 1, n) = IF b = 0 THEN P - 1 ELSE quot(a, b)
        /\ divi(a, b, 3, n) = RemRef(a, b)
    <2>1. a \in Int /\ b \in Int /\ b >= 0
      OBVIOUS
    <2> QED BY <2>1, DiviIs
  <1> HIDE DEF P
  <1>3. CASE b = 0
    <2>1. P - 1 \in 0 .. P - 1 /\ P - 1 \in Int /\ (P - 1) - P = -1
      BY <1>1
    <2>2. ((P - 1) - P) % P = (P - 1) % P
      BY <1>1, <2>1, ModMinus
    <2>3. divi(a, b, 1, n) = P - 1 /\ DivRef(a, b) = -1 /\ RemRef(a, b) = a
      BY <1>2, <1>3 DEF DivRef, RemRef
    <2>4. a \in 0 .. P - 1
      BY <1>1 DEF P
    <2> QED BY <1>2, <2>1, <2>2, <2>3, <2>4 DEF P
  <1>4. CASE b # 0
    <2>1. quot(a, b) \in 0 .. a /\ rem(a, b) \in 0 .. a
      BY <1>4, QuotNat
    <2>2. quot(a, b) \in 0 .. P - 1 /\ rem(a, b) \in 0 .. P - 1
      BY <1>1, <2>1 DEF P
    <2> QED BY <1>1, <1>2, <1>4, <2>2 DEF P, DivRef, RemRef
  <1> QED BY <1>3, <1>4

-----------------------------------------------------------------------------
(* The instructions on words *)

\* What a word instruction does with a register
LEMMA WordSame ==
    ASSUME NEW a \in Int
    PROVE  /\ Same(Pow2[WLEN], MASK32(a), a) /\ Same(Pow2[WLEN], SW(a), a)
           /\ SW(MASK32(a)) = SW(a)
  <1>1. /\ MASK32(a) \in Int /\ SW(a) \in Int /\ SW(a) % Pow2[WLEN] = a % Pow2[WLEN]
        /\ MASK32(a) % Pow2[WLEN] = a % Pow2[WLEN]
    BY WordIs
  <1> QED BY <1>1 DEF Same, SW

\* A result with the right residue extends to the right register.
LEMMA SextOf ==
    ASSUME NEW x, NEW y, Same(Pow2[WLEN], x, y)
    PROVE  /\ sign_extend(MASK32(x), WLEN) = SextW(y)
           /\ x \in 0 .. Pow2[WLEN] - 1 => sign_extend(x, WLEN) = SextW(y)
  <1>1. x \in Int /\ y \in Int /\ x % Pow2[WLEN] = y % Pow2[WLEN]
    BY DEF Same
  <1>2. SextW(x) = SextW(y)
    BY <1>1, SextSame
  <1> QED BY <1>1, <1>2, SextIs

\* ADDW, SUBW, MULW and AMOADD.W depend on the words only.
LEMMA WordArithmetic ==
    ASSUME NEW a \in Int, NEW b \in Int
    PROVE  /\ sign_extend(MASK32(a + b), WLEN) = SextW(a + b)
           /\ sign_extend(MASK32(MASK32(a) - MASK32(b)), WLEN) = SextW(a - b)
           /\ sign_extend(MASK32(MASK32(a) * MASK32(b)), WLEN) = SextW(a * b)
           /\ MASK32(MASK32(a) + MASK32(b)) = (a + b) % Pow2[WLEN]
  <1> DEFINE W == Pow2[WLEN]
             m == MASK32(a)
             n == MASK32(b)
  <1>1. W \in Nat \ {0}
    BY Powers
  <1>2. Same(W, m, a) /\ Same(W, n, b)
    BY WordSame
  <1>3. Same(W, m + n, a + b) /\ Same(W, m - n, a - b) /\ Same(W, m * n, a * b)
    <2> HIDE DEF W, m, n
    <2> QED BY <1>1, <1>2, ModSum, Zenon
  <1>4. a + b \in Int
    OBVIOUS
  <1>5. sign_extend(MASK32(a + b), WLEN) = SextW(a + b)
    BY <1>4, SextIs
  <1> HIDE DEF m, n
  <1>6. sign_extend(MASK32(m - n), WLEN) = SextW(a - b)
    BY <1>3, SextOf, Zenon
  <1>7. sign_extend(MASK32(m * n), WLEN) = SextW(a * b)
    BY <1>3, SextOf, Zenon
  <1>8. MASK32(m + n) = (a + b) % W
    BY <1>3 DEF MASK32, Same
  <1> QED BY <1>5, <1>6, <1>7, <1>8 DEF m, n

\* Shifts of a word by k
LEMMA WordShifts ==
    ASSUME NEW a \in Int, NEW k \in 0 .. 2 * XLEN
    PROVE  /\ sign_extend(MASK32(a * Pow2[k]), WLEN) = SextW(a * Pow2[k])
           /\ sign_extend(MASK32(a) \div Pow2[k], WLEN) = SextW((a % Pow2[WLEN]) \div Pow2[k])
  <1> DEFINE p == Pow2[k]
             W == Pow2[WLEN]
             m == MASK32(a)
             q == m \div p
  <1>1. p \in Nat \ {0} /\ W \in Nat \ {0}
    BY Pow2Is, Powers
  <1>2. m \in 0 .. W - 1 /\ m = a % W
    BY WordIs
  <1>3. a * p \in Int
    <2> HIDE DEF p
    <2> QED BY <1>1
  <1>4. q \in 0 .. W - 1
    <2> HIDE DEF m, p, W
    <2>1. m \in Nat
      BY <1>1, <1>2
    <2>2. quot(m, p) = m \div p /\ quot(m, p) \in 0 .. m
      BY <1>1, <2>1, QuotNat
    <2> QED BY <1>1, <1>2, <2>1, <2>2
  <1>5. sign_extend(q, WLEN) = SextW(q)
    <2> HIDE DEF q
    <2>1. q \in Int
      BY <1>1, <1>4
    <2> QED BY <1>4, <2>1, SextIs
  <1> QED BY <1>2, <1>3, <1>5, SextIs

\* divi32 compares in double, which holds every word: the special case is the
\* overflow, and only it.
LEMMA DivwIs ==
    ASSUME NEW a \in Int, NEW b \in Int
    PROVE  /\ sign_extend(MASK32(divi(SW(a), SW(b), 0, WLEN)), WLEN) = SextW(DivRef(SW(a), SW(b)))
           /\ sign_extend(MASK32(divi(SW(a), SW(b), 2, WLEN)), WLEN) = SextW(RemRef(SW(a), SW(b)))
  <1> DEFINE W == Pow2[WLEN]
             s == SW(a)
             t == SW(b)
             d == divi(s, t, 0, WLEN)
  <1>1. /\ W \in Nat \ {0} /\ WTop \in Nat \ {0} /\ W = 2 * WTop /\ WTop = Pow2[WLEN - 1]
        /\ s \in Int /\ t \in Int /\ s \in -WTop .. WTop - 1
    BY Powers, WordIs DEF WTop
  <1>2. ToDouble(s) = s
    <2> HIDE DEF s
    <2>1. Abs(s) \in Int /\ Abs(s) <= WTop
      BY <1>1 DEF Abs
    <2>2. /\ WLEN - 1 \in 0 .. 2 * XLEN /\ XLEN - 1 \in (WLEN - 1) .. 2 * XLEN
          /\ WLEN \in 0 .. 2 * XLEN /\ DPREC \in WLEN .. 2 * XLEN
      BY WidthAssumption
    <2>3. Pow2[WLEN - 1] <= Pow2[XLEN - 1] /\ Pow2[WLEN] <= Pow2[DPREC]
      BY <2>2, Pow2Le
    <2>4. Top = Pow2[XLEN - 1] /\ Top \in Nat /\ Pow2[DPREC] \in Nat
      <3>1. DPREC \in 0 .. 2 * XLEN
        BY WidthAssumption
      <3> QED BY <3>1, Powers, Pow2Is DEF Top
    <2>5. Abs(s) < Pow2[DPREC] /\ Abs(s) <= Top
      BY <1>1, <2>1, <2>3, <2>4
    <2> QED BY <1>1, <2>5, ToDoubleExact
  <1>3. /\ d = IF t = 0 THEN -1 ELSE IF ToDouble(s) = -WTop /\ t = -1 THEN -WTop ELSE quot(s, t)
        /\ divi(s, t, 2, WLEN) = RemRef(s, t)
    <2>1. WLEN \in 1 .. XLEN
      BY WidthAssumption
    <2> QED BY <1>1, <2>1, DiviIs
  <1>4. t = -1 => quot(s, t) = -s
    BY <1>1, QuotMinusOne
  <1>5. t # 0 => quot(s, t) \in Int /\ rem(s, t) \in Int
    BY <1>1, QuotRem
  <1>6. DivRef(s, t) = (IF t = 0 THEN -1 ELSE quot(s, t)) /\ RemRef(s, t) \in Int
    BY <1>1, <1>5 DEF DivRef, RemRef
  <1> HIDE DEF W, s, t, d
  <1>7. Same(W, d, DivRef(s, t))
    <2>1. CASE t = -1 /\ s = -WTop
      <3>1. d = -WTop /\ DivRef(s, t) = WTop
        BY <1>1, <1>2, <1>3, <1>4, <1>6, <2>1
      <3>2. WTop - W = -WTop /\ WTop \in Int
        BY <1>1
      <3>3. (WTop - W) % W = WTop % W
        BY <1>1, <3>2, ModMinus
      <3> QED BY <3>1, <3>2, <3>3 DEF Same
    <2>2. CASE ~(t = -1 /\ s = -WTop)
      <3>1. d = DivRef(s, t)
        BY <1>2, <1>3, <1>6, <2>2
      <3>2. DivRef(s, t) \in Int
        BY <1>5, <1>6
      <3> QED BY <3>1, <3>2 DEF Same
    <2> QED BY <2>1, <2>2
  <1>8. sign_extend(MASK32(d), WLEN) = SextW(DivRef(s, t))
    BY <1>7, SextOf DEF W
  <1>9. sign_extend(MASK32(RemRef(s, t)), WLEN) = SextW(RemRef(s, t))
    BY <1>6, SextIs
  <1> QED BY <1>3, <1>8, <1>9 DEF s, t, d

\* DIVUW and REMUW
LEMMA DivuwIs ==
    ASSUME NEW a \in Int, NEW b \in Int
    PROVE  /\ sign_extend(divi(MASK32(a), MASK32(b), 1, WLEN), WLEN) =
                  SextW(DivRef(a % Pow2[WLEN], b % Pow2[WLEN]))
           /\ sign_extend(divi(MASK32(a), MASK32(b), 3, WLEN), WLEN) =
                  SextW(RemRef(a % Pow2[WLEN], b % Pow2[WLEN]))
  <1> DEFINE W == Pow2[WLEN]
             m == MASK32(a)
             n == MASK32(b)
             d == divi(m, n, 1, WLEN)
             r == divi(m, n, 3, WLEN)
  <1>1. /\ m \in Nat /\ n \in Nat /\ m \in 0 .. W - 1 /\ m = a % W /\ n = b % W
        /\ W \in Nat \ {0} /\ WLEN \in 1 .. XLEN
    BY WordIs, Powers, WidthAssumption
  <1>2. m < W
    BY <1>1
  <1>3. /\ d \in 0 .. W - 1 /\ d % W = DivRef(m, n) % W /\ DivRef(m, n) \in Int
        /\ r \in 0 .. W - 1 /\ r = RemRef(m, n)
    <2> HIDE DEF m, n
    <2> QED BY <1>1, <1>2, DivUnsignedIs
  <1> HIDE DEF d, r, m, n
  <1>4. Same(W, d, DivRef(m, n)) /\ Same(W, r, RemRef(m, n))
    <2>1. d \in Int /\ r \in Int
      BY <1>1, <1>3
    <2> QED BY <1>3, <2>1 DEF Same
  <1>5. sign_extend(d, WLEN) = SextW(DivRef(m, n)) /\ sign_extend(r, WLEN) = SextW(RemRef(m, n))
    BY <1>3, <1>4, SextOf, Zenon
  <1> QED BY <1>1, <1>5 DEF d, r, m, n

-----------------------------------------------------------------------------
(* Every instruction *)

\* What an instruction on a and b has to produce
Expected(op, a, b) ==
    IF op = "DIV" /\ S(b) = -1 /\ NearSmallest(a) THEN Top ELSE ISA(op, a, b)

\* Every instruction on whole registers computes what it has to.
LEMMA XOpExact ==
    ASSUME NEW a \in RegValues, NEW b \in RegValues, NEW op \in XOps
    PROVE  rops(op, a, b) = Expected(op, a, b)
  <1> DEFINE P == Pow2[XLEN]
             k == b % XLEN
  <1>1. /\ signed_value(a) = S(a) /\ signed_value(b) = S(b) /\ S(a) \in Int /\ S(b) \in Int
        /\ a \in Nat /\ b \in Nat
    BY SignedIs
  <1>2. k \in 0 .. 2 * XLEN
    BY Amount
  <1>3. XLEN \in 1 .. XLEN /\ P \in Nat \ {0} /\ a \in 0 .. P - 1
    BY WidthAssumption, Powers DEF RegValues
  <1>4. a < P
    BY <1>1, <1>3
  <1>5. /\ divi(a, b, 1, XLEN) % P = DivRef(a, b) % P
        /\ divi(a, b, 3, XLEN) \in 0 .. P - 1 /\ divi(a, b, 3, XLEN) = RemRef(a, b)
    BY <1>1, <1>3, <1>4, DivUnsignedIs
  <1>6. op # "DIV" => Expected(op, a, b) = ISA(op, a, b)
    BY DEF Expected
  <1> HIDE DEF P, k
  <1>7. CASE op = "ADD"
    <2>1. rops(op, a, b) = Wrap(a + b) /\ ISA(op, a, b) = (S(a) + S(b)) % P
      BY <1>7 DEF rops, ISA, P
    <2> QED BY <1>6, <1>7, <2>1, WrapSigned DEF P
  <1>8. CASE op = "SUB"
    <2>1. rops(op, a, b) = Wrap(a - b) /\ ISA(op, a, b) = (S(a) - S(b)) % P
      BY <1>8 DEF rops, ISA, P
    <2> QED BY <1>6, <1>8, <2>1, WrapSigned DEF P
  <1>9. CASE op = "SLT"
    <2>1. /\ rops(op, a, b) = Bool(signed_value(a) < signed_value(b))
          /\ ISA(op, a, b) = Bool(S(a) < S(b))
      BY <1>9 DEF rops, ISA
    <2> QED BY <1>1, <1>6, <1>9, <2>1
  <1>10. CASE op = "SLTU"
    BY <1>6, <1>10 DEF rops, ISA
  <1>11. CASE op = "SLL"
    <2>1. rops(op, a, b) = Wrap(a * Pow2[k]) /\ ISA(op, a, b) = (a * Pow2[k]) % P
      BY <1>11 DEF rops, ISA, P, k
    <2> QED BY <1>6, <1>11, <2>1 DEF Wrap, P
  <1>12. CASE op = "SRL"
    BY <1>6, <1>12 DEF rops, ISA
  <1>13. CASE op = "SRA"
    <2>1. rops(op, a, b) = ShiftLoop(a, Top, k) /\ ISA(op, a, b) = (S(a) \div Pow2[k]) % P
      BY <1>13 DEF rops, ISA, P, k
    <2> QED BY <1>2, <1>6, <1>13, <2>1, SraIs DEF P
  <1>14. CASE op = "MUL"
    <2>1. rops(op, a, b) = Wrap(a * b) /\ ISA(op, a, b) = (S(a) * S(b)) % P
      BY <1>14 DEF rops, ISA, P
    <2> QED BY <1>6, <1>14, <2>1, WrapSigned DEF P
  <1>15. CASE op = "MULH"
    <2>1. /\ rops(op, a, b) = High(signed_value(a), signed_value(b))
          /\ ISA(op, a, b) = ((S(a) * S(b)) \div P) % P
      BY <1>15 DEF rops, ISA, P
    <2>2. High(S(a), S(b)) = ((S(a) * S(b)) \div P) % P
      BY <1>1, HighIs DEF P
    <2> QED BY <1>1, <1>6, <1>15, <2>1, <2>2
  <1>16. CASE op = "MULHSU"
    <2>1. /\ rops(op, a, b) = High(signed_value(a), b)
          /\ ISA(op, a, b) = ((S(a) * b) \div P) % P
      BY <1>16 DEF rops, ISA, P
    <2>2. b \in Int
      BY <1>1
    <2>3. High(S(a), b) = ((S(a) * b) \div P) % P
      BY <1>1, <2>2, HighIs DEF P
    <2> QED BY <1>1, <1>6, <1>16, <2>1, <2>3
  <1>17. CASE op = "MULHU"
    <2>1. rops(op, a, b) = High(a, b) /\ ISA(op, a, b) = (a * b) \div P
      BY <1>17 DEF rops, ISA, P
    <2> QED BY <1>6, <1>17, <2>1, HighUnsigned DEF P
  <1>18. CASE op = "DIV"
    <2>1. /\ rops(op, a, b) = Wrap(divi(signed_value(a), signed_value(b), 0, XLEN))
          /\ ISA(op, a, b) = DivRef(S(a), S(b)) % P
      BY <1>18 DEF rops, ISA, P
    <2>2. Wrap(divi(S(a), S(b), 0, XLEN)) =
              IF S(b) = -1 /\ NearSmallest(a) THEN Top ELSE DivRef(S(a), S(b)) % P
      BY DivIs DEF P
    <2>3. Expected(op, a, b) = IF S(b) = -1 /\ NearSmallest(a) THEN Top ELSE ISA(op, a, b)
      BY <1>18 DEF Expected
    <2> QED BY <1>1, <2>1, <2>2, <2>3
  <1>19. CASE op = "DIVU"
    <2>1. /\ rops(op, a, b) = divi(a, b, 1, XLEN) % P /\ ISA(op, a, b) = DivRef(a, b) % P
      BY <1>19 DEF rops, ISA, P, Wrap
    <2> QED BY <1>5, <1>6, <1>19, <2>1 DEF P
  <1>20. CASE op = "REM"
    <2>1. /\ rops(op, a, b) = divi(signed_value(a), signed_value(b), 2, XLEN) % P
          /\ ISA(op, a, b) = RemRef(S(a), S(b)) % P
      BY <1>20 DEF rops, ISA, P, Wrap
    <2>2. divi(S(a), S(b), 2, XLEN) = RemRef(S(a), S(b))
      BY <1>1, <1>3, DiviIs
    <2> QED BY <1>1, <1>6, <1>20, <2>1, <2>2
  <1>21. CASE op = "REMU"
    <2> DEFINE r == divi(a, b, 3, XLEN)
    <2>1. rops(op, a, b) = r % P /\ ISA(op, a, b) = RemRef(a, b)
      BY <1>21 DEF rops, ISA, P, Wrap
    <2>2. r \in 0 .. P - 1 /\ r = RemRef(a, b)
      BY <1>5 DEF P
    <2> HIDE DEF r
    <2>3. r % P = r
      BY <1>3, <2>2, ModSmall
    <2> QED BY <1>6, <1>21, <2>1, <2>2, <2>3
  <1> QED BY <1>7, <1>8, <1>9, <1>10, <1>11, <1>12, <1>13, <1>14, <1>15, <1>16, <1>17,
            <1>18, <1>19, <1>20, <1>21 DEF XOps

\* Every instruction on words does.
LEMMA WOpExact ==
    ASSUME NEW a \in RegValues, NEW b \in RegValues, NEW op \in WOps
    PROVE  rops64(op, a, b) = Expected(op, a, b)
  <1> DEFINE W == Pow2[WLEN]
             k == b % WLEN
  <1>1. a \in Int /\ b \in Int
    BY SignedIs
  <1>2. k \in 0 .. 2 * XLEN
    BY Amount
  <1>3. signed_value32(a) = SW(a) /\ signed_value32(b) = SW(b)
    BY <1>1, WordIs
  <1>4. Expected(op, a, b) = ISA(op, a, b)
    BY DEF Expected, WOps
  <1> HIDE DEF W, k
  <1>5. CASE op = "ADDW"
    <2>1. rops64(op, a, b) = sign_extend(MASK32(a + b), WLEN) /\ ISA(op, a, b) = SextW(a + b)
      BY <1>5 DEF rops64, ISA
    <2> QED BY <1>1, <1>4, <2>1, WordArithmetic
  <1>6. CASE op = "SUBW"
    <2>1. /\ rops64(op, a, b) = sign_extend(MASK32(MASK32(a) - MASK32(b)), WLEN)
          /\ ISA(op, a, b) = SextW(a - b)
      BY <1>6 DEF rops64, ISA
    <2> QED BY <1>1, <1>4, <2>1, WordArithmetic
  <1>7. CASE op = "SLLW"
    <2>1. /\ rops64(op, a, b) = sign_extend(MASK32(a * Pow2[k]), WLEN)
          /\ ISA(op, a, b) = SextW(a * Pow2[k])
      BY <1>7 DEF rops64, ISA, k
    <2> QED BY <1>1, <1>2, <1>4, <2>1, WordShifts
  <1>8. CASE op = "SRLW"
    <2>1. /\ rops64(op, a, b) = sign_extend(MASK32(a) \div Pow2[k], WLEN)
          /\ ISA(op, a, b) = SextW((a % W) \div Pow2[k])
      BY <1>8 DEF rops64, ISA, k, W
    <2> QED BY <1>1, <1>2, <1>4, <2>1, WordShifts DEF W
  <1>9. CASE op = "SRAW"
    <2>1. /\ rops64(op, a, b) = sign_extend(ShiftLoop(MASK32(a), WTop, k), WLEN)
          /\ ISA(op, a, b) = SextW(SW(a) \div Pow2[k])
      BY <1>9 DEF rops64, ISA, k
    <2> QED BY <1>1, <1>2, <1>4, <2>1, SrawIs
  <1>10. CASE op = "MULW"
    <2>1. /\ rops64(op, a, b) = sign_extend(MASK32(MASK32(a) * MASK32(b)), WLEN)
          /\ ISA(op, a, b) = SextW(a * b)
      BY <1>10 DEF rops64, ISA
    <2> QED BY <1>1, <1>4, <2>1, WordArithmetic
  <1>11. CASE op = "DIVW"
    <2>1. /\ rops64(op, a, b) =
                 sign_extend(MASK32(divi(signed_value32(a), signed_value32(b), 0, WLEN)), WLEN)
          /\ ISA(op, a, b) = SextW(DivRef(SW(a), SW(b)))
      BY <1>11 DEF rops64, ISA
    <2> QED BY <1>1, <1>3, <1>4, <2>1, DivwIs
  <1>12. CASE op = "DIVUW"
    <2>1. /\ rops64(op, a, b) = sign_extend(divi(MASK32(a), MASK32(b), 1, WLEN), WLEN)
          /\ ISA(op, a, b) = SextW(DivRef(a % W, b % W))
      BY <1>12 DEF rops64, ISA, W
    <2> QED BY <1>1, <1>4, <2>1, DivuwIs DEF W
  <1>13. CASE op = "REMW"
    <2>1. /\ rops64(op, a, b) =
                 sign_extend(MASK32(divi(signed_value32(a), signed_value32(b), 2, WLEN)), WLEN)
          /\ ISA(op, a, b) = SextW(RemRef(SW(a), SW(b)))
      BY <1>13 DEF rops64, ISA
    <2> QED BY <1>1, <1>3, <1>4, <2>1, DivwIs
  <1>14. CASE op = "REMUW"
    <2>1. /\ rops64(op, a, b) = sign_extend(divi(MASK32(a), MASK32(b), 3, WLEN), WLEN)
          /\ ISA(op, a, b) = SextW(RemRef(a % W, b % W))
      BY <1>14 DEF rops64, ISA, W
    <2> QED BY <1>1, <1>4, <2>1, DivuwIs DEF W
  <1> QED BY <1>5, <1>6, <1>7, <1>8, <1>9, <1>10, <1>11, <1>12, <1>13, <1>14 DEF WOps

\* The AMOs of the two widths
AmoWords == {"AMOADD.W", "AMOMIN.W", "AMOMAX.W", "AMOMINU.W", "AMOMAXU.W"}
AmoDoubles == {"AMOADD.D", "AMOMIN.D", "AMOMAX.D", "AMOMINU.D", "AMOMAXU.D"}

\* Every AMO on a word stores what it has to.
LEMMA AmoWExact ==
    ASSUME NEW a \in RegValues, NEW b \in RegValues, NEW op \in AmoWords
    PROVE  amo_w(op, a, b) = Expected(op, a, b)
  <1> DEFINE W == Pow2[WLEN]
             m == MASK32(a)
             n == MASK32(b)
             s == SW(a)
             t == SW(b)
  <1>1. a \in Int /\ b \in Int
    BY SignedIs
  <1>2. m \in Int /\ n \in Int /\ m = a % W /\ n = b % W /\ m % W = a % W /\ n % W = b % W
    BY <1>1, WordIs
  <1>3. s \in Int /\ t \in Int /\ s % W = a % W /\ t % W = b % W
    BY <1>1, WordIs
  <1>4. signed_value32(m) = s /\ signed_value32(n) = t
    <2>1. signed_value32(m) = SW(m) /\ signed_value32(n) = SW(n)
      <3> HIDE DEF m, n
      <3> QED BY <1>2, WordIs
    <2> QED BY <1>1, <2>1, WordSame
  <1>5. Expected(op, a, b) = ISA(op, a, b)
    BY DEF Expected, AmoWords
  <1> HIDE DEF W
  <1>6. CASE op = "AMOADD.W"
    <2>1. amo_w(op, a, b) = MASK32(m + n) /\ ISA(op, a, b) = (a + b) % W
      BY <1>6 DEF amo_w, ISA, W
    <2> QED BY <1>1, <1>5, <2>1, WordArithmetic DEF W
  <1>7. CASE op = "AMOMIN.W"
    <2>1. /\ amo_w(op, a, b) = MASK32(Least(signed_value32(m), signed_value32(n)))
          /\ ISA(op, a, b) = (IF s < t THEN a ELSE b) % W
      BY <1>7 DEF amo_w, ISA, W
    <2> HIDE DEF m, n, s, t
    <2> QED BY <1>3, <1>4, <1>5, <2>1 DEF MASK32, Least, W
  <1>8. CASE op = "AMOMAX.W"
    <2>1. /\ amo_w(op, a, b) = MASK32(Most(signed_value32(m), signed_value32(n)))
          /\ ISA(op, a, b) = (IF s < t THEN b ELSE a) % W
      BY <1>8 DEF amo_w, ISA, W
    <2> HIDE DEF m, n, s, t
    <2> QED BY <1>3, <1>4, <1>5, <2>1 DEF MASK32, Most, W
  <1>9. CASE op = "AMOMINU.W"
    <2>1. amo_w(op, a, b) = MASK32(Least(m, n)) /\ ISA(op, a, b) = Least(a % W, b % W)
      BY <1>9 DEF amo_w, ISA, W
    <2> HIDE DEF m, n
    <2> QED BY <1>2, <1>5, <2>1 DEF MASK32, Least, W
  <1>10. CASE op = "AMOMAXU.W"
    <2>1. amo_w(op, a, b) = MASK32(Most(m, n)) /\ ISA(op, a, b) = Most(a % W, b % W)
      BY <1>10 DEF amo_w, ISA, W
    <2> HIDE DEF m, n
    <2> QED BY <1>2, <1>5, <2>1 DEF MASK32, Most, W
  <1> QED BY <1>6, <1>7, <1>8, <1>9, <1>10 DEF AmoWords

\* Every AMO on a double word does.
LEMMA AmoDExact ==
    ASSUME NEW a \in RegValues, NEW b \in RegValues, NEW op \in AmoDoubles
    PROVE  amo_d(op, a, b) = Expected(op, a, b)
  <1> DEFINE s == S(a)
             t == S(b)
  <1>1. /\ signed_value(a) = s /\ signed_value(b) = t
        /\ s % Pow2[XLEN] = a /\ t % Pow2[XLEN] = b
    BY SignedIs
  <1>2. Expected(op, a, b) = ISA(op, a, b)
    BY DEF Expected, AmoDoubles
  <1>3. CASE op = "AMOADD.D"
    BY <1>2, <1>3 DEF amo_d, ISA, Wrap
  <1>4. CASE op = "AMOMIN.D"
    <2>1. /\ amo_d(op, a, b) = Wrap(Least(signed_value(a), signed_value(b)))
          /\ ISA(op, a, b) = IF s < t THEN a ELSE b
      BY <1>4 DEF amo_d, ISA
    <2> HIDE DEF s, t
    <2> QED BY <1>1, <1>2, <2>1 DEF Wrap, Least
  <1>5. CASE op = "AMOMAX.D"
    <2>1. /\ amo_d(op, a, b) = Wrap(Most(signed_value(a), signed_value(b)))
          /\ ISA(op, a, b) = IF s < t THEN b ELSE a
      BY <1>5 DEF amo_d, ISA
    <2> HIDE DEF s, t
    <2> QED BY <1>1, <1>2, <2>1 DEF Wrap, Most
  <1>6. CASE op \in {"AMOMINU.D", "AMOMAXU.D"}
    BY <1>2, <1>6 DEF amo_d, ISA
  <1> QED BY <1>3, <1>4, <1>5, <1>6 DEF AmoDoubles

\* Every comparison of a branch is the one the ISA names.
LEMMA BranchExact ==
    ASSUME NEW a \in RegValues, NEW b \in RegValues, NEW op \in BranchOps
    PROVE  Bool(cjump(op, a, b)) = Expected(op, a, b)
  <1>1. signed_value(a) = S(a) /\ signed_value(b) = S(b)
    BY SignedIs
  <1>2. Expected(op, a, b) = ISA(op, a, b)
    BY DEF Expected, BranchOps
  <1>3. CASE op \in {"BEQ", "BNE", "BLTU", "BGEU"}
    <2>1. op = "BEQ" => Bool(cjump(op, a, b)) = Bool(a = b) /\ ISA(op, a, b) = Bool(a = b)
      BY DEF cjump, ISA
    <2>2. op = "BNE" => Bool(cjump(op, a, b)) = Bool(a # b) /\ ISA(op, a, b) = Bool(a # b)
      BY DEF cjump, ISA
    <2>3. op = "BLTU" => Bool(cjump(op, a, b)) = Bool(a < b) /\ ISA(op, a, b) = Bool(a < b)
      BY DEF cjump, ISA
    <2>4. op = "BGEU" => Bool(cjump(op, a, b)) = Bool(a >= b) /\ ISA(op, a, b) = Bool(a >= b)
      BY DEF cjump, ISA
    <2> QED BY <1>2, <1>3, <2>1, <2>2, <2>3, <2>4
  <1>4. CASE op = "BLT"
    <2>1. /\ cjump(op, a, b) = (signed_value(a) < signed_value(b))
          /\ ISA(op, a, b) = Bool(S(a) < S(b))
      BY <1>4 DEF cjump, ISA
    <2> QED BY <1>1, <1>2, <2>1
  <1>5. CASE op = "BGE"
    <2>1. /\ cjump(op, a, b) = (signed_value(a) >= signed_value(b))
          /\ ISA(op, a, b) = Bool(S(a) >= S(b))
      BY <1>5 DEF cjump, ISA
    <2> QED BY <1>1, <1>2, <2>1
  <1> QED BY <1>3, <1>4, <1>5 DEF BranchOps

\* Arithmetic on uint64_t stays in the register.
LEMMA WrapIn ==
    ASSUME NEW x \in Int
    PROVE  x % Pow2[XLEN] \in RegValues /\ Wrap(x) \in RegValues
  <1> DEFINE P == Pow2[XLEN]
  <1>1. P \in Nat \ {0}
    BY Powers
  <1>2. x % P \in 0 .. P - 1
    <2> HIDE DEF P
    <2> QED BY <1>1, DivMod
  <1> QED BY <1>2 DEF RegValues, Wrap

\* The result of an instruction fits in a register.
LEMMA XOpWord ==
    ASSUME NEW a \in RegValues, NEW b \in RegValues, NEW op \in XOps
    PROVE  rops(op, a, b) \in RegValues
  <1> DEFINE P == Pow2[XLEN]
             p == Pow2[b % XLEN]
             s == S(a)
             t == S(b)
  <1>1. /\ signed_value(a) = s /\ signed_value(b) = t /\ s \in Int /\ t \in Int
        /\ a \in Nat /\ b \in Nat /\ a \in Int /\ b \in Int
    BY SignedIs
  <1>2. b % XLEN \in 0 .. 2 * XLEN /\ p \in Nat \ {0}
    BY Amount
  <1>3. XLEN \in 1 .. XLEN /\ P \in Nat \ {0} /\ RegValues = 0 .. P - 1
    BY WidthAssumption, Powers DEF RegValues
  <1> HIDE DEF P, p, s, t
  <1>4. CASE op \in {"ADD", "SUB", "SLL", "MUL"}
    <2>1. a + b \in Int /\ a - b \in Int /\ a * p \in Int /\ a * b \in Int
      BY <1>1, <1>2
    <2>2. /\ op = "ADD" => rops(op, a, b) = Wrap(a + b)
          /\ op = "SUB" => rops(op, a, b) = Wrap(a - b)
          /\ op = "SLL" => rops(op, a, b) = Wrap(a * p)
          /\ op = "MUL" => rops(op, a, b) = Wrap(a * b)
      BY DEF rops, p
    <2> QED BY <1>4, <2>1, <2>2, WrapIn
  <1>5. CASE op \in {"SLT", "SLTU"}
    <2>1. rops(op, a, b) = 0 \/ rops(op, a, b) = 1
      BY <1>5 DEF rops, Bool
    <2>2. P > 1
      BY Powers DEF P
    <2> QED BY <1>3, <2>1, <2>2
  <1>6. CASE op \in {"SRL", "REMU"}
    <2>1. a < P
      BY <1>1, <1>3
    <2>2. op = "SRL" => rops(op, a, b) = a \div p
      BY DEF rops, p
    <2>3. op = "REMU" => rops(op, a, b) = Wrap(divi(a, b, 3, XLEN))
      BY DEF rops
    <2>4. a \div p \in 0 .. P - 1
      <3>1. quot(a, p) = a \div p /\ quot(a, p) \in 0 .. a
        BY <1>1, <1>2, QuotNat
      <3> QED BY <1>1, <1>3, <2>1, <3>1
    <2>5. divi(a, b, 3, XLEN) \in Int
      <3>1. divi(a, b, 3, XLEN) \in 0 .. P - 1
        BY <1>1, <1>3, <2>1, DivUnsignedIs DEF P
      <3> QED BY <1>3, <3>1
    <2> QED BY <1>3, <1>6, <2>2, <2>3, <2>4, <2>5, WrapIn
  <1>7. CASE op = "SRA"
    <2> DEFINE q == s \div p
    <2>1. rops(op, a, b) = q % P
      <3>1. rops(op, a, b) = ShiftLoop(a, Top, b % XLEN)
        BY <1>7 DEF rops
      <3> QED BY <1>2, <3>1, SraIs DEF s, p, P
    <2>2. q \in Int
      BY <1>1, <1>2, DivMod
    <2> HIDE DEF q
    <2> QED BY <2>1, <2>2, WrapIn DEF P
  <1>8. CASE op \in {"MULH", "MULHSU", "MULHU"}
    <2>1. ASSUME NEW x \in Int, NEW y \in Int PROVE High(x, y) \in RegValues
      <3> DEFINE z == x * y
                 q == z \div P
      <3>1. High(x, y) = q % P
        BY HighIs DEF P
      <3>2. z \in Int
        OBVIOUS
      <3> HIDE DEF z
      <3>3. q \in Int
        BY <1>3, <3>2, DivMod
      <3> HIDE DEF q
      <3> QED BY <3>1, <3>3, WrapIn DEF P
    <2>2. /\ op = "MULH" => rops(op, a, b) = High(s, t)
          /\ op = "MULHSU" => rops(op, a, b) = High(s, b)
          /\ op = "MULHU" => rops(op, a, b) = High(a, b)
      BY <1>1 DEF rops
    <2> QED BY <1>1, <1>8, <2>1, <2>2
  <1>9. CASE op \in {"DIV", "DIVU", "REM"}
    <2>1. ASSUME NEW x \in Int, NEW y \in Int
          PROVE  /\ divi(x, y, 0, XLEN) \in Int /\ divi(x, y, 2, XLEN) \in Int
                 /\ y >= 0 => divi(x, y, 1, XLEN) \in Int
      <3> DEFINE h == -(Pow2[XLEN - 1])
      <3>1. y # 0 => quot(x, y) \in Int /\ rem(x, y) \in Int
        BY QuotRem
      <3>2. h \in Int /\ Pow2[XLEN] - 1 \in Int /\ -1 \in Int
        BY Powers DEF Top
      <3>3. RemRef(x, y) \in Int
        BY <3>1 DEF RemRef
      <3>4. /\ divi(x, y, 0, XLEN) = IF y = 0 THEN -1
                                     ELSE IF ToDouble(x) = h /\ y = -1 THEN h ELSE quot(x, y)
            /\ divi(x, y, 2, XLEN) = RemRef(x, y)
            /\ y >= 0 => divi(x, y, 1, XLEN) = IF y = 0 THEN Pow2[XLEN] - 1 ELSE quot(x, y)
        BY <1>3, DiviIs
      <3> HIDE DEF h
      <3> QED BY <3>1, <3>2, <3>3, <3>4
    <2>2. /\ divi(s, t, 0, XLEN) \in Int /\ divi(s, t, 2, XLEN) \in Int
          /\ divi(a, b, 1, XLEN) \in Int
      BY <1>1, <2>1
    <2>3. /\ op = "DIV" => rops(op, a, b) = Wrap(divi(s, t, 0, XLEN))
          /\ op = "DIVU" => rops(op, a, b) = Wrap(divi(a, b, 1, XLEN))
          /\ op = "REM" => rops(op, a, b) = Wrap(divi(s, t, 2, XLEN))
      BY <1>1 DEF rops
    <2> QED BY <1>9, <2>2, <2>3, WrapIn
  <1> QED BY <1>4, <1>5, <1>6, <1>7, <1>8, <1>9 DEF XOps

\* So does the result of an instruction on words.
LEMMA WOpWord ==
    ASSUME NEW a \in RegValues, NEW b \in RegValues, NEW op \in WOps
    PROVE  rops64(op, a, b) \in RegValues
  <1> DEFINE W == Pow2[WLEN]
             p == Pow2[b % WLEN]
             m == a % W
             n == b % W
  <1>1. a \in Int /\ b \in Int /\ a + b \in Int /\ a - b \in Int /\ a * b \in Int
    <2>1. a \in Int /\ b \in Int
      BY SignedIs
    <2> QED BY <2>1
  <1>2. p \in Nat \ {0}
    BY Amount
  <1>3. m \in Int /\ n \in Int /\ SW(a) \in Int /\ SW(b) \in Int
    BY <1>1, WordIs
  <1>4. rops64(op, a, b) = ISA(op, a, b)
    <2>1. op # "DIV"
      BY DEF WOps
    <2> QED BY <2>1, WOpExact DEF Expected
  <1> HIDE DEF W, p, m, n
  <1>5. ASSUME NEW x \in Int, NEW y \in Int PROVE DivRef(x, y) \in Int /\ RemRef(x, y) \in Int
    <2>1. y # 0 => quot(x, y) \in Int /\ rem(x, y) \in Int
      BY QuotRem
    <2> QED BY <2>1 DEF DivRef, RemRef
  <1>6. a * p \in Int /\ m \div p \in Int /\ SW(a) \div p \in Int
    <2>1. m \div p \in Int
      BY <1>2, <1>3, DivMod
    <2>2. SW(a) \div p \in Int
      BY <1>2, <1>3, DivMod
    <2> QED BY <1>1, <1>2, <2>1, <2>2
  <1>7. PICK x \in Int : ISA(op, a, b) = SextW(x)
    <2>1. CASE op \in {"ADDW", "SUBW", "MULW"}
      BY <1>1, <2>1 DEF ISA
    <2>2. CASE op \in {"SLLW", "SRLW", "SRAW"}
      <3>1. /\ op = "SLLW" => ISA(op, a, b) = SextW(a * p)
            /\ op = "SRLW" => ISA(op, a, b) = SextW(m \div p)
            /\ op = "SRAW" => ISA(op, a, b) = SextW(SW(a) \div p)
        BY DEF ISA, p, m, W
      <3> QED BY <1>6, <2>2, <3>1
    <2>3. CASE op \in {"DIVW", "DIVUW", "REMW", "REMUW"}
      <3>1. /\ op = "DIVW" => ISA(op, a, b) = SextW(DivRef(SW(a), SW(b)))
            /\ op = "DIVUW" => ISA(op, a, b) = SextW(DivRef(m, n))
            /\ op = "REMW" => ISA(op, a, b) = SextW(RemRef(SW(a), SW(b)))
            /\ op = "REMUW" => ISA(op, a, b) = SextW(RemRef(m, n))
        BY DEF ISA, m, n, W
      <3>2. /\ DivRef(SW(a), SW(b)) \in Int /\ RemRef(SW(a), SW(b)) \in Int
            /\ DivRef(m, n) \in Int /\ RemRef(m, n) \in Int
        BY <1>3, <1>5
      <3> QED BY <2>3, <3>1, <3>2
    <2> QED BY <2>1, <2>2, <2>3 DEF WOps
  <1> QED BY <1>4, <1>7, SextIs

-----------------------------------------------------------------------------
(* The invariant *)

\* Every register, x0 included, holds a number of XLEN bits.
RegistersAreWords == reg_file \in [0 .. 2 -> RegValues]

\* Exactness needs the operands to be registers; the results then are as well.
AluInv == RegistersAreWords /\ AluExact

\* The invariant holds of any contents of the registers.
LEMMA AluInitInv == AluInit => AluInv
  <1> SUFFICES ASSUME AluInit PROVE AluInv
    OBVIOUS
  <1>1. PICK z \in Stale, x \in Lefts, y \in Rights :
            reg_file = [r \in 0 .. 2 |-> <<z, x, y>>[r + 1]]
    BY DEF AluInit
  <1>2. z \in RegValues /\ x \in RegValues /\ y \in RegValues
    BY WidthAssumption
  <1>3. reg_file \in [0 .. 2 -> RegValues]
    <2>1. ASSUME NEW r \in 0 .. 2 PROVE <<z, x, y>>[r + 1] \in RegValues
      <3>1. r = 0 \/ r = 1 \/ r = 2
        OBVIOUS
      <3> QED BY <1>2, <3>1
    <2> QED BY <1>1, <2>1
  <1>4. done = None
    BY DEF AluInit
  <1> QED BY <1>3, <1>4 DEF AluInv, RegistersAreWords, AluExact, None

\* The registers of a turn are those the ISA says an instruction reads.
LEMMA RegsRead ==
    ASSUME RegistersAreWords
    PROVE  /\ Regs \in [0 .. 2 -> RegValues]
           /\ \A s \in 0 .. 2 : Operand(s) = Regs[s]
  <1>1. 0 \in RegValues
    <2>1. Pow2[XLEN] \in Nat \ {0}
      BY Powers
    <2> QED BY <2>1 DEF RegValues
  <1> QED BY <1>1 DEF Regs, Operand, RegistersAreWords

\* One instruction that computes what it has to
LEMMA ExecuteKeeps ==
    ASSUME NEW op, op # "none", NEW a, NEW b, NEW res, Execute(op, a, b, res),
           op # "undefined" => res = Expected(op, a, b), RegistersAreWords'
    PROVE  AluInv'
  <1>1. done' = [op |-> op, a |-> a, b |-> b, res |-> res]
    BY DEF Execute
  <1>2. done'.op = op /\ done'.a = a /\ done'.b = b /\ done'.res = res
    BY <1>1
  <1>3. AluExact'
    BY <1>2 DEF AluExact, Expected
  <1> QED BY <1>3 DEF AluInv

\* Every instruction keeps it.
LEMMA AluStep == AluInv /\ [AluNext]_aluvars => AluInv'
  <1> SUFFICES ASSUME AluInv, [AluNext]_aluvars PROVE AluInv'
    OBVIOUS
  <1>1. Regs \in [0 .. 2 -> RegValues] /\ \A s \in 0 .. 2 : Operand(s) = Regs[s]
    BY RegsRead DEF AluInv
  <1>2. ASSUME NEW op \in XOps \cup WOps \cup IOps \cup AmoOps \cup BranchOps PROVE op # "none"
    BY DEF XOps, WOps, IOps, AmoOps, BranchOps
  <1>3. ASSUME NEW op \in XOps \cup WOps, NEW a \in RegValues, NEW b \in RegValues
        PROVE  LET res == IF op \in XOps THEN rops(op, a, b) ELSE rops64(op, a, b)
               IN  res = Expected(op, a, b) /\ res \in RegValues
    BY XOpExact, XOpWord, WOpExact, WOpWord
  <1>4. ASSUME NEW s1 \in {0, 1}, NEW s2 \in {0, 2}, NEW op \in XOps \cup WOps,
               RegisterOp(op, s1, s2, 1)
        PROVE  AluInv'
    <2> DEFINE a == Regs[s1]
               b == Regs[s2]
               res == IF op \in XOps THEN rops(op, a, b) ELSE rops64(op, a, b)
    <2>1. s1 \in 0 .. 2 /\ s2 \in 0 .. 2
      OBVIOUS
    <2>2. a \in RegValues /\ b \in RegValues
      BY <1>1, <2>1
    <2>e. Execute(op, a, b, res)
      BY <1>1, <1>4, <2>1 DEF RegisterOp
    <2>3. res = Expected(op, a, b) /\ res \in RegValues
      BY <1>3, <2>2
    <2>r. reg_file' = [Regs EXCEPT ![1] = res]
      BY <1>4 DEF RegisterOp
    <2>4. op # "none"
      BY <1>2
    <2> HIDE DEF res
    <2>w. RegistersAreWords'
      BY <1>1, <2>3, <2>r DEF RegistersAreWords
    <2> QED BY <2>e, <2>3, <2>4, <2>w, ExecuteKeeps
  <1>5. ASSUME NEW s1 \in {0, 1}, NEW s2 \in {0, 2}, NEW op \in AmoOps, AmoOp(op, s1, s2, 0)
        PROVE  AluInv'
    <2> DEFINE a == Regs[s1]
               b == Regs[s2]
               res == IF op \in AmoWords THEN amo_w(op, a, b) ELSE amo_d(op, a, b)
    <2>1. s1 \in 0 .. 2 /\ s2 \in 0 .. 2
      OBVIOUS
    <2>2. a \in RegValues /\ b \in RegValues
      BY <1>1, <2>1
    <2>e. Execute(op, a, b, res)
      BY <1>1, <1>5, <2>1 DEF AmoOp, AmoWords
    <2>3. res = Expected(op, a, b)
      <3>1. op \in AmoWords \/ op \in AmoDoubles
        BY DEF AmoOps, AmoWords, AmoDoubles
      <3>2. op \notin AmoWords => op \in AmoDoubles
        BY <3>1
      <3> QED BY <2>2, <3>2, AmoWExact, AmoDExact
    <2>4. op # "none"
      BY <1>2
    <2>w. RegistersAreWords'
      <3> DEFINE v == IF op \in AmoWords THEN sign_extend(MASK32(a), WLEN) ELSE a
      <3>1. reg_file' = [Regs EXCEPT ![0] = v]
        BY <1>5 DEF AmoOp, AmoWords
      <3>2. v \in RegValues
        <4>1. a \in Int
          BY <2>2, SignedIs
        <4>2. SextW(a) \in RegValues /\ sign_extend(MASK32(a), WLEN) = SextW(a)
          BY <4>1, SextIs
        <4> QED BY <2>2, <4>2
      <3> HIDE DEF v
      <3> QED BY <1>1, <3>1, <3>2 DEF RegistersAreWords
    <2> HIDE DEF res
    <2> QED BY <2>e, <2>3, <2>4, <2>w, ExecuteKeeps
  <1>6. ASSUME NEW s1 \in {0, 1}, NEW imm \in 0 .. Pow2[ILEN] - 1, NEW op \in IOps,
               ImmediateOp(op, s1, imm, 1)
        PROVE  AluInv'
    <2> DEFINE a == Regs[s1]
               b == sign_extend(imm, ILEN)
               res == IF op \in XOps THEN rops(op, a, b) ELSE rops64(op, a, b)
    <2>1. s1 \in 0 .. 2
      OBVIOUS
    <2>2. a \in RegValues
      BY <1>1, <2>1
    <2>e. Execute(op, a, b, res)
      BY <1>1, <1>6, <2>1 DEF ImmediateOp
    <2>3. b \in RegValues
      <3>1. ILEN \in 1 .. XLEN /\ ILEN \in 0 .. 2 * XLEN
        BY WidthAssumption
      <3>2. Pow2[ILEN] \in Nat \ {0}
        BY <3>1, Pow2Is
      <3>3. imm \in Int
        BY <3>2
      <3> QED BY <3>1, <3>3, ImmediateIs
    <2>4. op \in XOps \cup WOps
      BY DEF IOps, XOps, WOps
    <2> HIDE DEF b
    <2>5. res = Expected(op, a, b) /\ res \in RegValues
      BY <1>3, <2>2, <2>3, <2>4
    <2>r. reg_file' = [Regs EXCEPT ![1] = res]
      BY <1>6 DEF ImmediateOp, b
    <2>6. op # "none"
      BY <1>2
    <2> HIDE DEF res
    <2>w. RegistersAreWords'
      BY <1>1, <2>5, <2>r DEF RegistersAreWords
    <2> QED BY <2>e, <2>5, <2>6, <2>w, ExecuteKeeps
  <1>7. ASSUME NEW s1 \in {0, 1}, NEW s2 \in {0, 2}, NEW op \in BranchOps, Branch(op, s1, s2)
        PROVE  AluInv'
    <2> DEFINE a == Regs[s1]
               b == Regs[s2]
               res == Bool(cjump(op, a, b))
    <2>1. s1 \in 0 .. 2 /\ s2 \in 0 .. 2
      OBVIOUS
    <2>2. a \in RegValues /\ b \in RegValues
      BY <1>1, <2>1
    <2>e. Execute(op, a, b, res)
      BY <1>1, <1>7, <2>1 DEF Branch
    <2>3. res = Expected(op, a, b)
      BY <2>2, BranchExact
    <2>4. op # "none"
      BY <1>2
    <2>w. RegistersAreWords'
      BY <1>1, <1>7 DEF Branch, RegistersAreWords
    <2> HIDE DEF res
    <2> QED BY <2>e, <2>3, <2>4, <2>w, ExecuteKeeps
  <1>8. ASSUME NEW s1 \in {0, 1}, NEW s2 \in {0, 2}, BranchUndefined(s1, s2) \/ OpUndefined(1)
        PROVE  AluInv'
    <2>1. 0 \in RegValues
      <3>1. Pow2[XLEN] \in Nat \ {0}
        BY Powers
      <3> QED BY <3>1 DEF RegValues
    <2>2. RegistersAreWords'
      BY <1>1, <1>8, <2>1 DEF BranchUndefined, OpUndefined, RegistersAreWords
    <2>3. done'.op = "undefined"
      BY <1>8 DEF BranchUndefined, OpUndefined, Execute
    <2> QED BY <2>2, <2>3 DEF AluInv, AluExact
  <1>9. ASSUME AluEnd \/ UNCHANGED aluvars PROVE AluInv'
    <2>1. UNCHANGED aluvars
      BY <1>9 DEF AluEnd
    <2> QED BY <2>1 DEF aluvars, AluInv, RegistersAreWords, AluExact
  <1> QED BY <1>4, <1>5, <1>6, <1>7, <1>8, <1>9 DEF AluNext

\* For every width of registers, words, immediates and doubles and all contents of
\* the registers (what earlier instructions wrote to x0 included), every instruction of iops, iops64, rops, rops64, amo and cjump
\* computes what the ISA defines, but for DIV by -1 of the dividends that divi's
\* comparison in double takes for the smallest number.
THEOREM ArithmeticExact == AluSpec => []AluExact
  <1>1. AluInv => AluExact
    BY DEF AluInv
  <1> QED BY <1>1, AluInitInv, AluStep, PTL DEF AluSpec

\* An instruction leaves numbers of XLEN bits in the registers, so the theorem
\* above, which starts from any such contents, holds of the next instruction too.
THEOREM RegistersStay == AluSpec => []RegistersAreWords
  <1>1. AluInv => RegistersAreWords
    BY DEF AluInv
  <1> QED BY <1>1, AluInitInv, AluStep, PTL DEF AluSpec
=============================================================================
