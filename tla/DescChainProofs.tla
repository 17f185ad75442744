-------------------------- MODULE DescChainProofs --------------------------
(***************************************************************************)
(* Proofs about copies between buffers and descriptor chains, for chains   *)
(* of every length, descriptors of every size below IntLimit and copies of *)
(* every extent, with integers of every width.                             *)
(***************************************************************************)
EXTENDS DescChain, WellFoundedInduction, TLAPS

-----------------------------------------------------------------------------
(* Induction over the naturals *)

\* A set of naturals that is not empty has a least element.
LEMMA LeastElement ==
    ASSUME NEW T \in SUBSET Nat, T # {}
    PROVE  \E x \in T : \A y \in T : x <= y
<1> DEFINE R == OpToRel(<, Nat)
<1>1. IsWellFoundedOn(R, Nat)
  BY NatLessThanWellFounded
<1>2. R = {ss \in Nat \X Nat : ss[1] < ss[2]}
  BY DEF OpToRel
<1> HIDE DEF R
<1>3. PICK x \in T : \A y \in T : ~(<<y, x>> \in R)
  BY <1>1, WFMin
<1>4. \A y \in T : ~(y < x)
  BY <1>2, <1>3
<1> QED  BY <1>3, <1>4

\* Induction, with the property given as the set of numbers that have it
LEMMA SetInduction ==
    ASSUME NEW T, 0 \in T, \A n \in Nat : n \in T => n + 1 \in T
    PROVE  Nat \subseteq T
<1> DEFINE U == Nat \ T
<1>1. ASSUME U # {} PROVE FALSE
  <2>1. PICK x \in U : \A y \in U : x <= y
    BY <1>1, LeastElement
  <2>2. x # 0 /\ x - 1 \in Nat
    OBVIOUS
  <2>3. x - 1 \in T
    BY <2>1, <2>2
  <2> QED  BY <2>2, <2>3
<1> QED  BY <1>1

-----------------------------------------------------------------------------
(* Conversions: a number below IntLimit stays what it is. *)

LEMMA SmallStays ==
    ASSUME NEW x \in Nat, x < IntLimit
    PROVE  ToUint(x) = x /\ ToInt(x) = x
<1> DEFINE m == UintMod
<1>1. m \in Nat /\ m > 0 /\ x < m
  BY ChainAssumption DEF UintMod
<1>2. x % m = x
  <2> HIDE DEF m
  <2> QED  BY <1>1
<1> QED  BY <1>2 DEF ToUint, ToInt

\* A sum that has wrapped is smaller than it should be.
LEMMA ToIntBelow ==
    ASSUME NEW x \in Nat
    PROVE  ToInt(x) \in Int /\ ToInt(x) <= x
<1> DEFINE m == UintMod
           r == x % m
<1>1. m \in Nat /\ m > 0
  BY ChainAssumption DEF UintMod
<1>2. r \in Nat /\ r <= x
  <2> HIDE DEF m
  <2> QED  BY <1>1
<1>3. ToInt(x) = IF r < IntLimit THEN r ELSE r - m
  BY DEF ToInt
<1> HIDE DEF m, r
<1> QED  BY <1>1, <1>2, <1>3

-----------------------------------------------------------------------------
(* The bytes of a chain *)

LEMMA ChainType ==
    ASSUME NEW c \in Chains
    PROVE  /\ Len(c) \in Nat \ {0} /\ DOMAIN c = 1 .. Len(c)
           /\ \A j \in 1 .. Len(c) : c[j].len \in Nat /\ c[j].write \in BOOLEAN
<1>1. PICK n \in 1 .. MaxDescs : c \in [1 .. n -> Desc]
  BY DEF Chains
<1>2. n \in Nat \ {0}
  BY ChainAssumption
<1>3. c \in Seq(Desc) /\ Len(c) = n
  BY <1>1, <1>2
<1> QED  BY <1>1, <1>2, <1>3, ChainAssumption DEF Desc, UintMod

\* The recursion that adds up the lengths has a solution.
LEMMA SumsExist ==
    ASSUME NEW c \in Chains
    PROVE  /\ Sums(c)[0] = 0
           /\ \A n \in 1 .. Len(c) : Sums(c)[n] = Sums(c)[n - 1] + c[n].len
<1> DEFINE F(s, k) == s = [n \in 0 .. k |-> IF n = 0 THEN 0 ELSE s[n - 1] + c[n].len]
           T == {k \in Nat : \E s : F(s, k)}
<1>1. 0 \in T
  <2>1. F([n \in 0 .. 0 |-> 0], 0)
    OBVIOUS
  <2> QED  BY <2>1
<1>2. ASSUME NEW k \in Nat, k \in T PROVE k + 1 \in T
  <2>1. PICK s : F(s, k)
    BY <1>2
  <2> DEFINE t == [n \in 0 .. k + 1 |-> IF n = 0 THEN 0 ELSE s[n - 1] + c[n].len]
  <2>2. \A n \in 0 .. k : t[n] = s[n]
    <3>1. \A n \in 0 .. k : s[n] = IF n = 0 THEN 0 ELSE s[n - 1] + c[n].len
      BY <2>1
    <3> QED  BY <3>1
  <2>3. \A n \in 0 .. k + 1 : s[n - 1] = t[n - 1] \/ n = 0
    <3> HIDE DEF t
    <3>1. \A n \in 0 .. k + 1 : n = 0 \/ n - 1 \in 0 .. k
      OBVIOUS
    <3> QED  BY <2>2, <3>1
  <2>4. F(t, k + 1)
    BY <2>3, Zenon
  <2>5. \E r : F(r, k + 1)
    BY <2>4
  <2> QED  BY <2>5
<1>3. Len(c) \in T
  <2>1. Len(c) \in Nat
    BY ChainType
  <2> HIDE DEF T
  <2> QED  BY <1>1, <1>2, <2>1, SetInduction
<1>4. PICK s : F(s, Len(c))
  BY <1>3
<1> DEFINE G(t) == t = [n \in 0 .. Len(c) |-> IF n = 0 THEN 0 ELSE t[n - 1] + c[n].len]
<1>5. Sums(c) = CHOOSE t : G(t)
  BY DEF Sums
<1>6. G(Sums(c))
  BY <1>4, <1>5
<1>7. Len(c) \in Nat
  BY ChainType
<1> QED  BY <1>6, <1>7

LEMMA SumsType ==
    ASSUME NEW c \in Chains
    PROVE  \A n \in 0 .. Len(c) : Sums(c)[n] \in Nat
<1> DEFINE T == {n \in Nat : n <= Len(c) => Sums(c)[n] \in Nat}
<1>1. 0 \in T
  BY SumsExist
<1>2. ASSUME NEW n \in Nat, n \in T PROVE n + 1 \in T
  <2>1. CASE n + 1 <= Len(c)
    <3>1. Sums(c)[n + 1] = Sums(c)[n] + c[n + 1].len
      BY <2>1, SumsExist, ChainType
    <3> QED  BY <1>2, <2>1, <3>1, ChainType
  <2> QED  BY <2>1, ChainType
<1>3. Nat \subseteq T
  <2> HIDE DEF T
  <2> QED  BY <1>1, <1>2, SetInduction
<1> QED  BY <1>3, ChainType

\* The first loop of get_desc_rw_size stops at the first writable descriptor.
LEMMA FirstWriteIs ==
    ASSUME NEW c \in Chains
    PROVE  /\ FirstWrite(c) \in 1 .. Len(c) + 1
           /\ \A k \in 1 .. FirstWrite(c) - 1 : ~c[k].write
           /\ FirstWrite(c) <= Len(c) => c[FirstWrite(c)].write
<1>1. Len(c) \in Nat
  BY ChainType
<1>2. CASE \E j \in 1 .. Len(c) : c[j].write
  <2> DEFINE T == {j \in 1 .. Len(c) : c[j].write}
  <2>1. T \in SUBSET Nat /\ T # {}
    BY <1>1, <1>2
  <2>2. PICK x \in T : \A y \in T : x <= y
    BY <2>1, LeastElement
  <2>3. x \in 1 .. Len(c) /\ c[x].write /\ \A k \in 1 .. x - 1 : ~c[k].write
    BY <1>1, <2>2
  <2>4. LET f == FirstWrite(c)
        IN  f \in 1 .. Len(c) /\ c[f].write /\ \A k \in 1 .. f - 1 : ~c[k].write
    BY <1>2, <2>3 DEF FirstWrite
  <2> QED  BY <1>1, <2>4
<1>3. CASE ~\E j \in 1 .. Len(c) : c[j].write
  BY <1>1, <1>3 DEF FirstWrite
<1> QED  BY <1>2, <1>3

LEMMA FirstWriteUnique ==
    ASSUME NEW c \in Chains, NEW j \in 1 .. Len(c) + 1,
           \A k \in 1 .. j - 1 : ~c[k].write, j <= Len(c) => c[j].write
    PROVE  FirstWrite(c) = j
BY FirstWriteIs, ChainType

LEMMA BytesAre ==
    ASSUME NEW c \in Chains
    PROVE  /\ \A k \in 0 .. Len(c) : Bytes(c, 1, k) = Sums(c)[k]
           /\ \A j \in 1 .. Len(c) + 1 :
                 Bytes(c, j, Len(c)) = Sums(c)[Len(c)] - Sums(c)[j - 1]
<1>1. Len(c) \in Nat
  BY ChainType
<1>2. \A k \in 0 .. Len(c) : Bytes(c, 1, k) = Sums(c)[k]
  BY <1>1, SumsExist, SumsType DEF Bytes
<1>3. \A j \in 1 .. Len(c) + 1 : Bytes(c, j, Len(c)) = Sums(c)[Len(c)] - Sums(c)[j - 1]
  BY <1>1, SumsType DEF Bytes
<1> QED  BY <1>2, <1>3

-----------------------------------------------------------------------------
(* The invariant of a copy *)

\* Where the part begins
First == IF to THEN FirstWrite(chain) ELSE 1

\* Bytes before descriptor j, from the start of the part
Before(j) == Sums(chain)[j - 1] - Sums(chain)[First - 1]

CTypeOK ==
    /\ chain \in Chains /\ InRam /\ to \in BOOLEAN
    /\ start \in Nat /\ start < IntLimit /\ total \in Nat /\ total < IntLimit
    /\ pc \in {"entry", "find", "seek", "copy", "done"}
    /\ i \in 1 .. Len(chain) /\ offset \in Nat /\ offset < IntLimit /\ count \in Nat
    /\ moved \in Seq(Nat \X Nat) /\ ret \in {0, -1}

\* How far each loop has come: the first one before the part, the others in it,
\* at the byte that is copied next.
Progress ==
    /\ Len(moved) + count = total
    /\ pc \in {"entry", "find", "seek"} => count = total
    /\ pc \in {"entry", "find"} => offset = start
    /\ pc \in {"find", "seek", "copy"} => count > 0
    /\ pc = "entry" => i = 1
    /\ pc = "find" => to /\ \A k \in 1 .. i - 1 : ~chain[k].write
    /\ pc \in {"seek", "copy"} =>
          /\ First <= i /\ \A k \in First .. i - 1 : chain[k].write = to
          /\ offset + Before(i) = start + Len(moved)
    /\ pc = "copy" => chain[i].write = to /\ offset <= chain[i].len
    /\ pc = "done" => (ret = 0) = (count = 0)

CopyInv == CTypeOK /\ Progress /\ CopyExact /\ SizesSuffice

\* The numbers the invariant is about
LEMMA ChainFacts ==
    ASSUME CTypeOK
    PROVE  /\ Len(chain) \in Nat \ {0} /\ First \in 1 .. Len(chain) + 1
           /\ \A n \in 0 .. Len(chain) : Sums(chain)[n] \in Nat
           /\ \A j \in 1 .. Len(chain) :
                 /\ chain[j].len \in Nat /\ chain[j].write \in BOOLEAN
                 /\ Sums(chain)[j] = Sums(chain)[j - 1] + chain[j].len
           /\ \A k \in 1 .. First - 1 : ~chain[k].write
           /\ \A j \in 1 .. Len(chain) : \A b \in Nat : Place(j, b) = b + Before(j)
<1>1. chain \in Chains
  BY DEF CTypeOK
<1>2. /\ Len(chain) \in Nat \ {0} /\ First \in 1 .. Len(chain) + 1
      /\ \A k \in 1 .. First - 1 : ~chain[k].write
  BY <1>1, ChainType, FirstWriteIs DEF First
<1>3. \A n \in 0 .. Len(chain) : Sums(chain)[n] \in Nat
  BY <1>1, SumsType
<1>4. \A j \in 1 .. Len(chain) :
         /\ chain[j].len \in Nat /\ chain[j].write \in BOOLEAN
         /\ Sums(chain)[j] = Sums(chain)[j - 1] + chain[j].len
  BY <1>1, ChainType, SumsExist
<1>5. ASSUME NEW j \in 1 .. Len(chain), NEW b \in Nat
      PROVE  Place(j, b) = b + Before(j)
  <2>1. Bytes(chain, 1, j - 1) = Sums(chain)[j - 1]
    BY <1>1, <1>2, BytesAre
  <2>2. Bytes(chain, 1, First - 1) = Sums(chain)[First - 1]
    BY <1>1, <1>2, BytesAre
  <2>3. Sums(chain)[0] = 0
    BY <1>1, SumsExist
  <2>4. Sums(chain)[j - 1] \in Nat /\ Sums(chain)[First - 1] \in Nat
    BY <1>2, <1>3
  <2> QED  BY <2>1, <2>2, <2>3, <2>4 DEF Place, Before, First
<1> QED  BY <1>2, <1>3, <1>4, <1>5

\* Lengths add up.
LEMMA SumsGrow ==
    ASSUME NEW c \in Chains, NEW j \in 0 .. Len(c)
    PROVE  Sums(c)[j] <= Sums(c)[Len(c)]
<1>0. Len(c) \in Nat /\ j \in Nat
  BY ChainType
<1> DEFINE T == {n \in Nat : j + n <= Len(c) => Sums(c)[j] <= Sums(c)[j + n]}
<1>1. 0 \in T
  BY <1>0, SumsType
<1>2. ASSUME NEW n \in Nat, n \in T PROVE n + 1 \in T
  <2>1. CASE j + (n + 1) <= Len(c)
    <3>1. Sums(c)[j + n + 1] = Sums(c)[j + n] + c[j + n + 1].len /\ c[j + n + 1].len \in Nat
      <4>1. j + n + 1 \in 1 .. Len(c) /\ (j + n + 1) - 1 = j + n
        BY <1>0, <2>1
      <4> QED  BY <4>1, SumsExist, ChainType
    <3>2. Sums(c)[j] \in Nat /\ Sums(c)[j + n] \in Nat /\ Sums(c)[j] <= Sums(c)[j + n]
      BY <1>0, <1>2, <2>1, SumsType
    <3> QED  BY <1>0, <3>1, <3>2
  <2> QED  BY <1>0, <2>1
<1>3. Nat \subseteq T
  <2> HIDE DEF T
  <2> QED  BY <1>1, <1>2, SetInduction
<1>4. Len(c) - j \in T /\ j + (Len(c) - j) = Len(c)
  <2>1. Len(c) - j \in Nat /\ j + (Len(c) - j) = Len(c)
    BY <1>0
  <2> HIDE DEF T
  <2> QED  BY <1>3, <2>1
<1> QED  BY <1>0, <1>4

\* The size that get_desc_rw_size returns is at most that of the part.
LEMMA SizesAre ==
    ASSUME CTypeOK
    PROVE  /\ Size \in Int
           /\ to => Size <= Sums(chain)[Len(chain)] - Sums(chain)[FirstWrite(chain) - 1]
           /\ ~to => Size <= Sums(chain)[FirstWrite(chain) - 1]
<1>1. chain \in Chains /\ Len(chain) \in Nat
  BY ChainType DEF CTypeOK
<1>2. FirstWrite(chain) \in 1 .. Len(chain) + 1
  BY <1>1, FirstWriteIs
<1> DEFINE f == FirstWrite(chain)
           r == Sums(chain)[f - 1]
           w == Sums(chain)[Len(chain)] - Sums(chain)[f - 1]
<1>3. r \in Nat /\ w \in Nat
  BY <1>1, <1>2, SumsType, SumsGrow
<1>4. Bytes(chain, 1, f - 1) = r /\ Bytes(chain, f, Len(chain)) = w
  BY <1>1, <1>2, BytesAre
<1>5. get_desc_rw_size(chain).read = ToInt(r) /\ get_desc_rw_size(chain).write = ToInt(w)
  BY <1>4 DEF get_desc_rw_size
<1> HIDE DEF r, w
<1>6. /\ ToInt(r) \in Int /\ ToInt(r) <= r /\ ToInt(w) \in Int /\ ToInt(w) <= w
  BY <1>3, ToIntBelow
<1> QED  BY <1>5, <1>6 DEF r, w, Size

\* A call with these arguments may fail: it asks for more than the chain has.
Short == WellFormed(chain) => start + total > Size

\* A copy that has come to descriptor i and finds the other direction there, or
\* that has come to the end of the chain, has passed all of the part.
LEMMA PartEnds ==
    ASSUME CTypeOK, NEW j \in 1 .. Len(chain) + 1, First <= j,
           \A k \in First .. j - 1 : chain[k].write = to,
           j <= Len(chain) => chain[j].write # to,
           NEW n \in Nat, n < total, Before(j) <= start + n
    PROVE  Short
<1> DEFINE f == FirstWrite(chain)
           L == Len(chain)
<1>a. /\ chain \in Chains /\ to \in BOOLEAN /\ start \in Nat /\ total \in Nat
      /\ L \in Nat /\ First \in 1 .. L + 1 /\ f \in 1 .. L + 1
  BY ChainFacts, FirstWriteIs DEF CTypeOK
<1>b. /\ Sums(chain)[L] \in Nat /\ Sums(chain)[f - 1] \in Nat /\ Sums(chain)[j - 1] \in Nat
      /\ Sums(chain)[0] = 0
  BY <1>a, SumsType, SumsExist
<1>c. \A k \in 1 .. L : chain[k].write \in BOOLEAN
  BY <1>a, ChainType
<1>1. CASE to
  <2>1. First = f
    BY <1>1 DEF First
  <2>2. ASSUME WellFormed(chain) PROVE j = L + 1
    <3>1. ASSUME j <= L PROVE FALSE
      <4>1. j \in f .. L
        BY <1>a, <2>1, <3>1
      <4>2. chain[j].write
        BY <2>2, <4>1 DEF WellFormed
      <4>3. chain[j].write = TRUE /\ to = TRUE
        BY <1>1, <1>a, <1>c, <3>1, <4>2
      <4> QED  BY <3>1, <4>3
    <3> QED  BY <1>a, <3>1
  <2>3. ASSUME WellFormed(chain) PROVE start + total > Sums(chain)[L] - Sums(chain)[f - 1]
    <3>1. Before(j) = Sums(chain)[L] - Sums(chain)[f - 1]
      <4>1. j - 1 = L
        BY <1>a, <2>2, <2>3
      <4> QED  BY <2>1, <4>1, Zenon DEF Before
    <3> DEFINE x == Sums(chain)[L] - Sums(chain)[f - 1]
    <3>2. x \in Int /\ x <= start + n
      BY <1>b, <3>1
    <3> HIDE DEF x
    <3>3. start + total > x
      BY ONLY <1>a, <3>2, n \in Nat, n < total
    <3> QED  BY <3>3 DEF x
  <2>4. Size \in Int /\ Size <= Sums(chain)[L] - Sums(chain)[f - 1]
    BY <1>1, SizesAre
  <2> QED  BY <1>a, <1>b, <2>3, <2>4 DEF Short
<1>2. CASE ~to
  <2>1. First = 1 /\ to = FALSE
    BY <1>2, <1>a DEF First
  <2>2. \A k \in 1 .. j - 1 : ~chain[k].write
    BY <2>1, Zenon
  <2>3. j <= L => chain[j].write
    <3>1. ASSUME j <= L PROVE chain[j].write
      <4>1. chain[j].write \in BOOLEAN
        BY <1>a, <1>c, <3>1
      <4> QED  BY <2>1, <3>1, <4>1, Zenon
    <3> QED  BY <3>1
  <2>4. f = j
    BY <1>a, <2>2, <2>3, FirstWriteUnique
  <2>5. Before(j) = Sums(chain)[f - 1]
    BY <1>b, <2>1, <2>4 DEF Before
  <2>6. start + total > Sums(chain)[f - 1]
    BY <1>a, <1>b, <2>5
  <2>7. Size \in Int /\ Size <= Sums(chain)[f - 1]
    BY <1>2, SizesAre
  <2> QED  BY <1>a, <1>b, <2>6, <2>7 DEF Short
<1> QED  BY <1>1, <1>2

LEMMA SizesAreShort == CTypeOK => (SizesSuffice <=> (pc = "done" /\ ret # 0 => Short))
<1> SUFFICES ASSUME CTypeOK PROVE SizesSuffice <=> (pc = "done" /\ ret # 0 => Short)
  OBVIOUS
<1>1. Size \in Int /\ InRam /\ start + total \in Nat
  BY SizesAre DEF CTypeOK
<1> QED  BY <1>1 DEF Short, SizesSuffice

LEMMA InitCopy == CopyInit /\ InRam => CopyInv
<1> SUFFICES ASSUME CopyInit, InRam PROVE CopyInv
  OBVIOUS
<1>1. CTypeOK
  BY ChainAssumption, ChainType DEF CopyInit, CTypeOK
<1>2. Progress
  BY <1>1 DEF CopyInit, Progress, CTypeOK
<1>3. CopyExact /\ SizesSuffice
  BY DEF CopyInit, CopyExact, SizesSuffice
<1> QED  BY <1>1, <1>2, <1>3 DEF CopyInv

\* What depends on the arguments of the call only
LEMMA SameCall ==
    ASSUME UNCHANGED call
    PROVE  /\ chain' = chain /\ to' = to /\ start' = start /\ total' = total
           /\ First' = First /\ Part' = Part /\ (Short' <=> Short) /\ (InRam' <=> InRam)
           /\ \A j : Before(j)' = Before(j)
           /\ \A j, b : Place(j, b)' = Place(j, b)
BY DEF call, First, Part, Short, Size, InRam, Before, Place

\* A step that copies nothing keeps what has been copied exact.
LEMMA ExactStays ==
    ASSUME CopyExact, UNCHANGED <<call, moved>>, (pc = "done")' => (ret' = 0) = (Len(moved) = total)
    PROVE  CopyExact'
<1>1. /\ chain' = chain /\ total' = total /\ start' = start /\ moved' = moved /\ Part' = Part
      /\ \A j, b : Place(j, b)' = Place(j, b)
  BY SameCall
<1>2. InRam' <=> InRam
  BY SameCall
<1> QED  BY <1>1, <1>2 DEF CopyExact

LEMMA EntryStep == CopyInv /\ Entry => CopyInv'
<1> SUFFICES ASSUME CopyInv, Entry PROVE CopyInv'
  OBVIOUS
<1>0. CTypeOK /\ Progress /\ CopyExact /\ pc = "entry" /\ UNCHANGED <<call, i, offset, count, moved>>
  BY DEF CopyInv, Entry
<1>1. \/ count = 0 /\ pc' = "done" /\ ret' = 0
      \/ count # 0 /\ to /\ pc' = "find" /\ ret' = ret
      \/ count # 0 /\ ~to /\ pc' = "seek" /\ ret' = ret
  BY <1>0 DEF Entry, Return, CTypeOK
<1>2. CTypeOK'
  BY <1>0, <1>1, SameCall DEF CTypeOK
<1>3. Progress'
  <2>1. ~to => Before(1) = 0 /\ First = 1
    BY <1>0, ChainFacts DEF Before, First
  <2> QED  BY <1>0, <1>1, <2>1, SameCall DEF Progress, CTypeOK
<1>4. CopyExact'
  BY <1>0, <1>1, ExactStays DEF Progress, CTypeOK
<1>5. SizesSuffice'
  BY <1>1 DEF SizesSuffice
<1> QED  BY <1>2, <1>3, <1>4, <1>5 DEF CopyInv

LEMMA FindWriteStep == CopyInv /\ FindWrite => CopyInv'
<1> SUFFICES ASSUME CopyInv, FindWrite PROVE CopyInv'
  OBVIOUS
<1>0. /\ CTypeOK /\ Progress /\ CopyExact /\ pc = "find" /\ UNCHANGED <<call, offset, count, moved>>
      /\ to = TRUE /\ count = total /\ count > 0 /\ offset = start /\ Len(moved) + count = total
      /\ \A k \in 1 .. i - 1 : ~chain[k].write
  BY DEF CopyInv, FindWrite, Progress, CTypeOK
<1>a. /\ i \in 1 .. Len(chain) /\ count \in Nat /\ Len(chain) \in Nat
      /\ chain \in Chains /\ start \in Nat /\ total \in Nat /\ Len(moved) \in Nat
  BY <1>0, ChainFacts DEF CTypeOK
<1>s. /\ chain' = chain /\ to' = to /\ start' = start /\ total' = total /\ moved' = moved
      /\ offset' = offset /\ count' = count /\ First' = First /\ (Short' <=> Short) /\ (InRam' <=> InRam)
      /\ \A j : Before(j)' = Before(j)
  BY <1>0, SameCall
<1>b. Len(moved) = 0
  BY <1>0, <1>a
<1>1. CASE chain[i].write /\ pc' = "seek" /\ UNCHANGED <<i, ret>>
  <2>1. First = i
    BY <1>0, <1>1, <1>a, FirstWriteUnique DEF First
  <2>2. Before(i) = 0
    BY <1>0, <1>a, <2>1, ChainFacts DEF Before
  <2>3. CTypeOK'
    BY <1>0, <1>1, <1>s DEF CTypeOK
  <2>4. Progress'
    <3>1. /\ i' = i /\ First' = i /\ Before(i)' = 0 /\ i \in Nat /\ Len(moved') = 0
          /\ pc' = "seek" /\ count' = total' /\ count' > 0 /\ offset' = start'
      BY <1>0, <1>1, <1>s, <1>a, <1>b, <2>1, <2>2 DEF Before
    <3> QED  BY <3>1, <1>s, <1>a DEF Progress
  <2>5. CopyExact'
    BY <1>0, <1>1, ExactStays
  <2>6. SizesSuffice'
    BY <1>1 DEF SizesSuffice
  <2> QED  BY <2>3, <2>4, <2>5, <2>6 DEF CopyInv
<1>2. CASE ~chain[i].write /\ ~HasNext /\ Return(-1) /\ UNCHANGED i
  <2>1. i = Len(chain) /\ pc' = "done" /\ ret' = -1 /\ i' = i
    BY <1>2, <1>a DEF HasNext, Return
  <2>2. \A k \in 1 .. Len(chain) : ~chain[k].write
    BY <1>0, <1>2, <1>a, <2>1
  <2>3. First = Len(chain) + 1
    BY <1>0, <1>a, <2>2, FirstWriteUnique DEF First
  <2>4. Short
    <3>1. Before(Len(chain) + 1) = 0
      BY <1>0, <1>a, <2>3, ChainFacts DEF Before
    <3>2. \A k \in First .. (Len(chain) + 1) - 1 : chain[k].write = to
      BY <1>a, <2>3
    <3>3. /\ Len(chain) + 1 \in 1 .. Len(chain) + 1 /\ First <= Len(chain) + 1
          /\ ~(Len(chain) + 1 <= Len(chain)) /\ 0 \in Nat /\ 0 < total
          /\ Before(Len(chain) + 1) <= start + 0
      BY <1>0, <1>a, <2>3, <3>1
    <3> QED  BY ONLY <1>0, <3>2, <3>3, PartEnds
  <2>5. CTypeOK'
    BY <1>0, <2>1, <1>s DEF CTypeOK
  <2>6. Progress'
    BY <1>0, <2>1, <1>s, <1>a DEF Progress
  <2>7. CopyExact'
    BY <1>0, <2>1, <1>a, ExactStays
  <2>8. SizesSuffice'
    BY <1>s, <2>4, <2>5, SizesAreShort, PTL
  <2> QED  BY <2>5, <2>6, <2>7, <2>8 DEF CopyInv
<1>3. CASE ~chain[i].write /\ HasNext /\ i' = i + 1 /\ UNCHANGED <<pc, ret>>
  <2>1. i + 1 \in 1 .. Len(chain)
    BY <1>3, <1>a DEF HasNext
  <2>2. CTypeOK'
    BY <1>0, <1>3, <1>s, <2>1 DEF CTypeOK
  <2>3. \A k \in 1 .. (i + 1) - 1 : ~chain[k].write
    BY <1>0, <1>3, <1>a
  <2>4. Progress'
    BY <1>0, <1>3, <1>s, <1>a, <2>3 DEF Progress
  <2>5. CopyExact'
    BY <1>0, <1>3, ExactStays
  <2>6. SizesSuffice'
    BY <1>0, <1>3 DEF SizesSuffice
  <2> QED  BY <2>2, <2>4, <2>5, <2>6 DEF CopyInv
<1> QED  BY <1>1, <1>2, <1>3 DEF FindWrite

LEMMA BeforeNext ==
    ASSUME CTypeOK
    PROVE  Before(i) \in Int /\ Before(i + 1) = Before(i) + chain[i].len
<1>a. i \in 1 .. Len(chain) /\ Len(chain) \in Nat /\ chain[i].len \in Nat
  BY ChainFacts DEF CTypeOK
<1>1. /\ Sums(chain)[i] \in Nat /\ Sums(chain)[i - 1] \in Nat /\ Sums(chain)[First - 1] \in Nat
      /\ Sums(chain)[i] = Sums(chain)[i - 1] + chain[i].len
  BY <1>a, ChainFacts
<1>2. (i + 1) - 1 = i
  BY <1>a
<1>3. Before(i + 1) = Sums(chain)[i] - Sums(chain)[First - 1]
  BY <1>2, Zenon DEF Before
<1> QED  BY <1>a, <1>1, <1>3 DEF Before

\* Below IntLimit the comparisons and differences are those of numbers.
LEMMA NoWrap ==
    ASSUME CTypeOK
    PROVE  /\ ToUint(offset) = offset /\ chain[i].len < IntLimit
           /\ offset >= chain[i].len => ToInt(offset - chain[i].len) = offset - chain[i].len
           /\ offset <= chain[i].len => ToInt(chain[i].len - offset) = chain[i].len - offset
           /\ \A n \in Nat : n <= total => ToInt(n) = n
<1>1. /\ i \in 1 .. Len(chain) /\ offset \in Nat /\ offset < IntLimit
      /\ total \in Nat /\ total < IntLimit /\ IntLimit \in Nat
  BY ChainAssumption DEF CTypeOK
<1>2. chain[i].len \in Nat /\ chain[i].len < IntLimit
  BY <1>1, ChainFacts DEF CTypeOK, InRam
<1> DEFINE l == chain[i].len
<1> HIDE DEF l
<1>3. l \in Nat /\ l < IntLimit
  BY <1>2 DEF l
<1>4. ASSUME offset >= l PROVE ToInt(offset - l) = offset - l
  <2>1. offset - l \in Nat /\ offset - l < IntLimit
    BY <1>1, <1>3, <1>4
  <2> QED  BY <2>1, SmallStays
<1>5. ASSUME offset <= l PROVE ToInt(l - offset) = l - offset
  <2>1. l - offset \in Nat /\ l - offset < IntLimit
    BY <1>1, <1>3, <1>5
  <2> QED  BY <2>1, SmallStays
<1>6. \A n \in Nat : n <= total => ToInt(n) = n
  BY <1>1, SmallStays
<1> QED  BY <1>1, <1>2, <1>4, <1>5, <1>6, SmallStays DEF l

LEMMA SeekStep == CopyInv /\ Seek => CopyInv'
<1> SUFFICES ASSUME CopyInv, Seek PROVE CopyInv'
  OBVIOUS
<1>0. /\ CTypeOK /\ Progress /\ CopyExact /\ pc = "seek" /\ UNCHANGED <<call, count, moved>>
      /\ count = total /\ count > 0 /\ Len(moved) + count = total
      /\ First <= i /\ \A k \in First .. i - 1 : chain[k].write = to
      /\ offset + Before(i) = start + Len(moved)
  BY DEF CopyInv, Seek, Progress, CTypeOK
<1>a. /\ i \in 1 .. Len(chain) /\ count \in Nat /\ Len(chain) \in Nat /\ offset \in Nat
      /\ chain \in Chains /\ start \in Nat /\ total \in Nat /\ Len(moved) \in Nat
      /\ chain[i].len \in Nat /\ First \in Nat
  BY <1>0, ChainFacts DEF CTypeOK
<1>s. /\ chain' = chain /\ to' = to /\ start' = start /\ total' = total /\ moved' = moved
      /\ count' = count /\ First' = First /\ (Short' <=> Short) /\ (InRam' <=> InRam)
      /\ \A j : Before(j)' = Before(j)
  BY <1>0, SameCall
<1>b. Len(moved) = 0
  BY <1>0, <1>a
<1>c. Before(i) \in Int /\ Before(i + 1) = Before(i) + chain[i].len
  BY <1>0, BeforeNext
<1>n. /\ ToUint(offset) = offset
      /\ offset >= chain[i].len => ToInt(offset - chain[i].len) = offset - chain[i].len
  BY <1>0, NoWrap
<1>1. CASE chain[i].write # to /\ Return(-1) /\ UNCHANGED <<i, offset>>
  <2>1. pc' = "done" /\ ret' = -1 /\ i' = i /\ offset' = offset
    BY <1>1 DEF Return
  <2>2. Short
    <3>1. /\ i \in 1 .. Len(chain) + 1 /\ 0 \in Nat /\ 0 < total
          /\ Before(i) <= start + 0
      BY <1>0, <1>a, <1>b, <1>c
    <3> QED  BY ONLY <1>0, <1>1, <3>1, PartEnds
  <2>3. CTypeOK'
    BY <1>0, <2>1, <1>s DEF CTypeOK
  <2>4. Progress'
    BY <1>0, <2>1, <1>s, <1>a DEF Progress
  <2>5. CopyExact'
    BY <1>0, <2>1, <1>a, ExactStays
  <2>6. SizesSuffice'
    BY <1>s, <2>2, <2>3, SizesAreShort, PTL
  <2> QED  BY <2>3, <2>4, <2>5, <2>6 DEF CopyInv
<1>2. CASE /\ chain[i].write = to /\ offset < chain[i].len
           /\ pc' = "copy" /\ UNCHANGED <<i, offset, ret>>
  <2>1. CTypeOK'
    BY <1>0, <1>2, <1>s DEF CTypeOK
  <2>2. /\ Before(i)' = Before(i) /\ offset <= chain[i].len
        /\ (offset + Before(i) = start + Len(moved))'
    BY <1>0, <1>2, <1>s, <1>a DEF Before
  <2>3. Progress'
    BY <1>0, <1>2, <1>s, <1>a, <2>2 DEF Progress
  <2>4. CopyExact'
    BY <1>0, <1>2, ExactStays
  <2>5. SizesSuffice'
    BY <1>2 DEF SizesSuffice
  <2> QED  BY <2>1, <2>3, <2>4, <2>5 DEF CopyInv
<1>3. CASE /\ chain[i].write = to /\ offset >= chain[i].len /\ ~HasNext
           /\ Return(-1) /\ UNCHANGED <<i, offset>>
  <2>1. pc' = "done" /\ ret' = -1 /\ i' = i /\ offset' = offset /\ i = Len(chain)
    BY <1>3, <1>a DEF Return, HasNext
  <2>2. Short
    <3>1. /\ i + 1 \in 1 .. Len(chain) + 1 /\ 0 \in Nat /\ 0 < total /\ First <= i + 1
          /\ ~(i + 1 <= Len(chain)) /\ Before(i + 1) <= start + 0
      BY <1>0, <1>3, <1>a, <1>b, <1>c, <2>1
    <3>2. \A k \in First .. (i + 1) - 1 : chain[k].write = to
      BY <1>0, <1>3, <1>a
    <3> QED  BY ONLY <1>0, <3>1, <3>2, PartEnds
  <2>3. CTypeOK'
    BY <1>0, <2>1, <1>s DEF CTypeOK
  <2>4. Progress'
    BY <1>0, <2>1, <1>s, <1>a DEF Progress
  <2>5. CopyExact'
    BY <1>0, <2>1, <1>a, ExactStays
  <2>6. SizesSuffice'
    BY <1>s, <2>2, <2>3, SizesAreShort, PTL
  <2> QED  BY <2>3, <2>4, <2>5, <2>6 DEF CopyInv
<1>4. CASE /\ chain[i].write = to /\ offset >= chain[i].len /\ HasNext
           /\ i' = i + 1 /\ offset' = offset - chain[i].len /\ UNCHANGED <<pc, ret>>
  <2>1. /\ i + 1 \in 1 .. Len(chain) /\ offset - chain[i].len \in Nat
        /\ offset - chain[i].len < IntLimit
    <3>1. i + 1 \in 1 .. Len(chain)
      BY <1>4, <1>a DEF HasNext
    <3>2. offset < IntLimit /\ IntLimit \in Nat
      BY <1>0, ChainAssumption DEF CTypeOK
    <3> QED  BY <1>4, <1>a, <3>1, <3>2
  <2>2. CTypeOK'
    BY <1>0, <1>4, <1>s, <2>1 DEF CTypeOK
  <2>3. First <= i + 1 /\ \A k \in First .. (i + 1) - 1 : chain[k].write = to
    BY <1>0, <1>4, <1>a, SMTT(30)
  <2>4. Before(i)' = Before(i + 1)
    BY <1>4, <1>s DEF Before
  <2>5. (offset + Before(i) = start + Len(moved))'
    BY <1>0, <1>4, <1>s, <1>a, <1>c, <2>4
  <2>6. Progress'
    BY <1>0, <1>4, <1>s, <1>a, <2>3, <2>5 DEF Progress
  <2>7. CopyExact'
    BY <1>0, <1>4, ExactStays
  <2>8. SizesSuffice'
    BY <1>0, <1>4 DEF SizesSuffice
  <2> QED  BY <2>2, <2>6, <2>7, <2>8 DEF CopyInv
<1>5. \/ chain[i].write # to /\ Return(-1) /\ UNCHANGED <<i, offset>>
      \/ /\ chain[i].write = to /\ offset < chain[i].len
         /\ pc' = "copy" /\ UNCHANGED <<i, offset, ret>>
      \/ /\ chain[i].write = to /\ offset >= chain[i].len /\ ~HasNext
         /\ Return(-1) /\ UNCHANGED <<i, offset>>
      \/ /\ chain[i].write = to /\ offset >= chain[i].len /\ HasNext
         /\ i' = i + 1 /\ offset' = offset - chain[i].len /\ UNCHANGED <<pc, ret>>
  BY <1>n DEF Seek
<1> QED  BY ONLY <1>1, <1>2, <1>3, <1>4, <1>5

\* A turn of the copy loop adds the bytes from the place it has come to, and
\* none of another descriptor.
LEMMA PieceExact ==
    ASSUME CopyInv, pc = "copy", UNCHANGED call,
           moved' = moved \o [k \in 1 .. Piece |-> <<i, offset + k - 1>>]
    PROVE  /\ Piece \in Nat /\ Piece <= count /\ offset + Piece <= chain[i].len
           /\ Piece = count \/ offset + Piece = chain[i].len
           /\ moved' \in Seq(Nat \X Nat) /\ Len(moved') = Len(moved) + Piece
           /\ \A k \in 1 .. Len(moved') :
                 /\ moved'[k][1] \in Part /\ moved'[k][2] \in 0 .. chain[moved'[k][1]].len - 1
                 /\ Place(moved'[k][1], moved'[k][2]) = start + k - 1
<1>0. /\ CTypeOK /\ InRam /\ CopyExact /\ First <= i
      /\ \A k \in First .. i - 1 : chain[k].write = to
      /\ offset + Before(i) = start + Len(moved)
      /\ chain[i].write = to /\ offset <= chain[i].len
  BY DEF CopyInv, Progress, CTypeOK
<1>a. /\ i \in 1 .. Len(chain) /\ count \in Nat /\ Len(chain) \in Nat /\ offset \in Nat
      /\ start \in Nat /\ Len(moved) \in Nat /\ chain[i].len \in Nat /\ First \in 1 .. Len(chain) + 1
      /\ Before(i) \in Int /\ moved \in Seq(Nat \X Nat)
  BY <1>0, ChainFacts, BeforeNext DEF CTypeOK
<1>1. /\ Piece \in Nat /\ Piece <= count /\ offset + Piece <= chain[i].len
      /\ Piece = count \/ offset + Piece = chain[i].len
  <2> DEFINE l == chain[i].len
  <2>1. Piece = IF count < l - offset THEN count ELSE l - offset
    BY <1>0, NoWrap DEF Piece
  <2>2. l \in Nat /\ count \in Nat /\ offset \in Nat /\ offset <= l
    BY <1>0, <1>a
  <2> HIDE DEF l
  <2>3. /\ Piece \in Nat /\ Piece <= count /\ offset + Piece <= l
        /\ Piece = count \/ offset + Piece = l
    BY ONLY <2>1, <2>2
  <2> QED  BY <2>3 DEF l
<1> DEFINE new == [k \in 1 .. Piece |-> <<i, offset + k - 1>>]
<1>2. new \in Seq(Nat \X Nat) /\ Len(new) = Piece
  BY <1>1, <1>a
<1>3. moved' \in Seq(Nat \X Nat) /\ Len(moved') = Len(moved) + Piece
  BY <1>1, <1>2, <1>a
<1>4. i \in Part
  <2>1. i \in First .. Len(chain) /\ \A k \in First .. i : chain[k].write = to
    BY <1>0, <1>a
  <2> QED  BY <2>1 DEF Part, First
<1>5. ASSUME NEW k \in 1 .. Len(moved')
      PROVE  /\ moved'[k][1] \in Part /\ moved'[k][2] \in 0 .. chain[moved'[k][1]].len - 1
             /\ Place(moved'[k][1], moved'[k][2]) = start + k - 1
  <2>1. CASE k <= Len(moved)
    <3>1. k \in 1 .. Len(moved) /\ moved'[k] = moved[k]
      BY <1>a, <1>2, <2>1
    <3> QED  BY <1>0, <3>1 DEF CopyExact
  <2>2. CASE k > Len(moved)
    <3> DEFINE b == offset + (k - Len(moved)) - 1
    <3>1. moved'[k] = <<i, b>>
      <4> DEFINE m == Len(moved)
      <4>1. moved' = moved \o new /\ moved \in Seq(Nat \X Nat) /\ m \in Nat
        BY <1>a
      <4>2. k - m \in 1 .. Piece /\ k \in m + 1 .. m + Piece
        BY <1>1, <1>3, <2>2, <4>1
      <4>3. new[k - m] = <<i, offset + (k - m) - 1>>
        BY <4>2
      <4> HIDE DEF new
      <4>4. moved'[k] = new[k - m]
        BY ONLY <1>1, <1>2, <4>1, <4>2 DEF m
      <4> QED  BY <4>3, <4>4
    <3>2. b \in 0 .. chain[i].len - 1 /\ b \in Nat
      <4> DEFINE l == chain[i].len
                 p == Piece
                 m == Len(moved)
      <4>1. l \in Nat /\ p \in Nat /\ m \in Nat /\ offset \in Nat /\ offset + p <= l
        BY <1>a, <1>1
      <4>2. k \in Nat /\ k > m /\ k <= m + p
        BY <1>a, <1>1, <1>3, <2>2
      <4> HIDE DEF l, p, m
      <4>3. offset + (k - m) - 1 \in 0 .. l - 1 /\ offset + (k - m) - 1 \in Nat
        BY ONLY <4>1, <4>2
      <4> QED  BY <4>3 DEF l, m
    <3>3. Place(i, b) = b + Before(i)
      BY <1>0, <1>a, <3>2, ChainFacts
    <3>4. b + Before(i) = start + k - 1
      <4> DEFINE m == Len(moved)
                 e == Before(i)
      <4>1. /\ k \in Nat /\ m \in Nat /\ offset \in Nat /\ start \in Nat /\ e \in Int
            /\ offset + e = start + m
        BY <1>0, <1>a, <1>1, <1>3
      <4> HIDE DEF m, e
      <4>2. (offset + (k - m) - 1) + e = start + k - 1
        BY ONLY <4>1
      <4> QED  BY <4>2 DEF m, e
    <3> HIDE DEF b
    <3>5. moved'[k][1] = i /\ moved'[k][2] = b
      BY ONLY <3>1
    <3> QED  BY ONLY <1>4, <3>2, <3>3, <3>4, <3>5
  <2>3. k \in Int /\ Len(moved) \in Int
    BY <1>a, <1>1, <1>3
  <2> QED  BY ONLY <2>1, <2>2, <2>3
<1> QED  BY <1>1, <1>3, <1>5

LEMMA CopyStep == CopyInv /\ Copy => CopyInv'
<1> SUFFICES ASSUME CopyInv, Copy PROVE CopyInv'
  OBVIOUS
<1>0. /\ CTypeOK /\ Progress /\ pc = "copy" /\ UNCHANGED call
      /\ count' = ToInt(count - Piece)
      /\ Len(moved) + count = total /\ First <= i
      /\ \A k \in First .. i - 1 : chain[k].write = to
      /\ offset + Before(i) = start + Len(moved)
      /\ chain[i].write = to /\ offset <= chain[i].len
  BY DEF CopyInv, Copy, Progress
<1>a. /\ i \in 1 .. Len(chain) /\ count \in Nat /\ Len(chain) \in Nat /\ offset \in Nat
      /\ start \in Nat /\ total \in Nat /\ Len(moved) \in Nat /\ chain[i].len \in Nat
      /\ First \in Nat /\ ret \in {0, -1}
  <2>1. /\ i \in 1 .. Len(chain) /\ count \in Nat /\ offset \in Nat /\ start \in Nat
        /\ total \in Nat /\ Len(moved) \in Nat /\ ret \in {0, -1}
    BY <1>0 DEF CTypeOK
  <2> QED  BY <1>0, <2>1, ChainFacts
<1>b. Before(i) \in Int /\ Before(i + 1) = Before(i) + chain[i].len
  BY <1>0, BeforeNext
<1>s. /\ chain' = chain /\ to' = to /\ start' = start /\ total' = total
      /\ First' = First /\ (Short' <=> Short) /\ (InRam' <=> InRam) /\ Part' = Part
      /\ \A j : Before(j)' = Before(j)
      /\ \A j, b : Place(j, b)' = Place(j, b)
  BY <1>0, SameCall
<1>p. /\ Piece \in Nat /\ Piece <= count /\ offset + Piece <= chain[i].len
      /\ Piece = count \/ offset + Piece = chain[i].len
      /\ moved' \in Seq(Nat \X Nat) /\ Len(moved') = Len(moved) + Piece
      /\ \A k \in 1 .. Len(moved') :
            /\ moved'[k][1] \in Part /\ moved'[k][2] \in 0 .. chain[moved'[k][1]].len - 1
            /\ Place(moved'[k][1], moved'[k][2]) = start + k - 1
  <2>1. moved' = moved \o [k \in 1 .. Piece |-> <<i, offset + k - 1>>]
    BY DEF Copy
  <2> QED  BY <1>0, <2>1, PieceExact
<1>c. /\ count' = count - Piece /\ count' \in Nat
      /\ Len(moved') + count' = total /\ Len(moved') \in Nat
  <2>1. count - Piece \in Nat /\ count - Piece <= total
    BY <1>0, <1>a, <1>p
  <2>2. count' = count - Piece
    BY <1>0, <2>1, NoWrap
  <2> QED  BY <1>0, <1>a, <1>p, <2>2, SMTT(30)
<1>m. ASSUME count' # 0
      PROVE  /\ Before(i + 1) = start + Len(moved') /\ Len(moved') < total
             /\ First <= i + 1 /\ \A k \in First .. (i + 1) - 1 : chain[k].write = to
  <2>1. offset + Piece = chain[i].len
    <3>1. Piece # count
      BY <1>m, <1>c, <1>a
    <3> QED  BY <1>p, <3>1
  <2>2. Before(i + 1) = start + Len(moved')
    <3> DEFINE m == Len(moved)
               n == Len(moved')
               e == Before(i)
               f == Before(i + 1)
               l == chain[i].len
               p == Piece
    <3>1. /\ offset + e = start + m /\ n = m + p /\ offset + p = l /\ f = e + l
          /\ m \in Nat /\ p \in Nat /\ e \in Int /\ l \in Nat
          /\ offset \in Nat /\ start \in Nat
      BY <1>0, <1>a, <1>b, <1>p, <2>1
    <3> HIDE DEF m, n, e, f, l, p
    <3>2. f = start + n
      BY ONLY <3>1
    <3> QED  BY <3>2 DEF f, n
  <2>3. \A k \in First .. (i + 1) - 1 : chain[k].write = to
    BY <1>0, <1>a
  <2> QED  BY <1>m, <1>0, <1>a, <1>c, <2>2, <2>3, SMTT(30)
<1>e. ASSUME pc' = "done" => (ret' = 0) = (count' = 0) PROVE CopyExact'
  <2>1. pc' = "done" => (ret' = 0) = (Len(moved') = total')
    BY <1>e, <1>c, <1>s, <1>a
  <2> QED  BY <1>p, <1>s, <2>1 DEF CopyExact
<1>f. ASSUME CTypeOK', Short PROVE SizesSuffice'
  BY <1>s, <1>f, SizesAreShort, PTL
<1>1. CASE count' = 0 /\ Return(0) /\ UNCHANGED <<i, offset>>
  <2>1. pc' = "done" /\ ret' = 0 /\ i' = i /\ offset' = offset
    BY <1>1 DEF Return
  <2>2. CTypeOK'
    BY <1>0, <2>1, <1>s, <1>p, <1>c DEF CTypeOK
  <2>3. Progress'
    BY <2>1, <1>1, <1>s, <1>c DEF Progress
  <2>4. CopyExact' /\ SizesSuffice'
    BY <1>e, <1>1, <2>1 DEF SizesSuffice
  <2> QED  BY <2>2, <2>3, <2>4 DEF CopyInv
<1>2. CASE count' # 0 /\ ~HasNext /\ Return(-1) /\ UNCHANGED <<i, offset>>
  <2>1. pc' = "done" /\ ret' = -1 /\ i' = i /\ offset' = offset /\ i = Len(chain)
    BY <1>2, <1>a DEF Return, HasNext
  <2>2. CTypeOK'
    BY <1>0, <2>1, <1>s, <1>p, <1>c DEF CTypeOK
  <2>3. Progress'
    BY <2>1, <1>2, <1>s, <1>c DEF Progress
  <2>4. Short
    <3>0. Before(i + 1) = start + Len(moved') /\ start + Len(moved') \in Int
      BY ONLY <1>m, <1>2, <1>a, <1>c
    <3>1. /\ i + 1 \in 1 .. Len(chain) + 1 /\ ~(i + 1 <= Len(chain))
          /\ Before(i + 1) <= start + Len(moved')
      BY ONLY <1>2, <1>a, <2>1, <3>0
    <3> QED  BY ONLY <1>0, <1>2, <1>c, <1>m, <3>1, PartEnds
  <2>5. CopyExact' /\ SizesSuffice'
    BY <1>e, <1>f, <1>2, <2>1, <2>2, <2>4
  <2> QED  BY <2>2, <2>3, <2>5 DEF CopyInv
<1>3. CASE /\ count' # 0 /\ HasNext /\ i' = i + 1
           /\ chain[i'].write # to /\ Return(-1) /\ UNCHANGED offset
  <2>1. pc' = "done" /\ ret' = -1 /\ offset' = offset /\ i' = i + 1 /\ i + 1 \in 1 .. Len(chain)
    BY <1>3, <1>a DEF Return, HasNext
  <2>2. CTypeOK'
    BY <1>0, <2>1, <1>s, <1>p, <1>c DEF CTypeOK
  <2>3. Progress'
    BY <2>1, <1>3, <1>s, <1>c DEF Progress
  <2>4. Short
    <3>0. Before(i + 1) = start + Len(moved') /\ start + Len(moved') \in Int
      BY ONLY <1>m, <1>3, <1>a, <1>c
    <3>1. /\ i + 1 \in 1 .. Len(chain) + 1 /\ chain[i + 1].write # to
          /\ Before(i + 1) <= start + Len(moved')
      BY ONLY <1>3, <1>a, <2>1, <3>0
    <3> QED  BY ONLY <1>0, <1>3, <1>c, <1>m, <3>1, PartEnds
  <2>5. CopyExact' /\ SizesSuffice'
    BY <1>e, <1>f, <1>3, <2>1, <2>2, <2>4
  <2> QED  BY <2>2, <2>3, <2>5 DEF CopyInv
<1>4. CASE /\ count' # 0 /\ HasNext /\ i' = i + 1
           /\ chain[i'].write = to /\ offset' = 0 /\ UNCHANGED <<pc, ret>>
  <2>1. pc' = "copy" /\ ret' = ret /\ i' = i + 1 /\ i + 1 \in 1 .. Len(chain)
    BY <1>0, <1>4, <1>a DEF HasNext
  <2>2. CTypeOK'
    BY <1>0, <1>4, <2>1, <1>s, <1>p, <1>c, ChainAssumption DEF CTypeOK
  <2>3. Before(i)' = Before(i + 1) /\ chain'[i'].write = to' /\ 0 <= chain'[i'].len
    <3>1. Before(i)' = Before(i + 1)
      BY <2>1, <1>s DEF Before
    <3>2. chain[i + 1].len \in Nat
      BY <1>0, <2>1, ChainFacts
    <3> QED  BY <1>4, <1>s, <2>1, <3>1, <3>2
  <2>4. First <= i + 1 /\ (\A k \in First .. (i + 1) - 1 : chain[k].write = to)
        /\ (offset + Before(i) = start + Len(moved))'
    BY <1>4, <1>m, <1>s, <1>c, <1>a, <2>3
  <2>5. Progress'
    BY <1>4, <2>1, <2>3, <2>4, <1>s, <1>c DEF Progress
  <2>6. CopyExact' /\ SizesSuffice'
    BY <1>e, <2>1 DEF SizesSuffice
  <2> QED  BY <2>2, <2>5, <2>6 DEF CopyInv
<1> QED  BY <1>1, <1>2, <1>3, <1>4, <1>0 DEF Copy

LEMMA CopyInvStep == CopyInv /\ [CopyNext]_cvars => CopyInv'
<1> SUFFICES ASSUME CopyInv, [CopyNext]_cvars PROVE CopyInv'
  OBVIOUS
<1>1. CASE UNCHANGED cvars
  BY <1>1 DEF cvars, CopyInv, CTypeOK, Progress, CopyExact, SizesSuffice, First, Before,
              Part, Place, InRam, Size
<1>2. CASE Returned
  BY <1>1, <1>2 DEF Returned
<1> QED  BY <1>1, <1>2, EntryStep, FindWriteStep, SeekStep, CopyStep DEF CopyNext

-----------------------------------------------------------------------------
(* Theorems *)

LEMMA ChainStays == [CopyNext]_cvars => (InRam' <=> InRam)
<1> SUFFICES ASSUME [CopyNext]_cvars PROVE InRam' <=> InRam
  OBVIOUS
<1>1. chain' = chain
  BY DEF CopyNext, Entry, FindWrite, Seek, Copy, Returned, call, cvars
<1> QED  BY <1>1 DEF InRam

LEMMA CopyInvariant == CopySpec => [](InRam => CopyInv)
<1>1. CopyInit => (InRam => CopyInv)
  BY InitCopy
<1>2. (InRam => CopyInv) /\ [CopyNext]_cvars => (InRam => CopyInv)'
  <2> SUFFICES ASSUME InRam => CopyInv, [CopyNext]_cvars, InRam' PROVE CopyInv'
    OBVIOUS
  <2> QED  BY CopyInvStep, ChainStays
<1> QED  BY <1>1, <1>2, PTL DEF CopySpec

\* memcpy_to_from_queue copies exactly the bytes start .. start + total - 1 of
\* the descriptors of its direction, in order, in a chain of any length with
\* descriptors of any size below IntLimit, and tells by its result whether it
\* has.
THEOREM CopiesExactly == CopySpec => []CopyExact
<1>1. (InRam => CopyInv) => CopyExact
  BY DEF CopyInv, CopyExact
<1> QED  BY <1>1, CopyInvariant, PTL

\* get_desc_rw_size promises no more than the chain has, also where its int
\* sums wrap: with descriptors below IntLimit a copy inside its size never
\* fails, although the callers of memcpy_to_from_queue do not look.
THEOREM SizesHold == CopySpec => []SizesSuffice
<1>1. (InRam => CopyInv) => SizesSuffice
  BY DEF CopyInv, SizesSuffice
<1> QED  BY <1>1, CopyInvariant, PTL
=============================================================================
