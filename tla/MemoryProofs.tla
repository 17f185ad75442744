---------------------------- MODULE MemoryProofs ----------------------------
(***************************************************************************)
(* Proofs about the memory: the array of double-words implements a memory  *)
(* of bytes, for every size of RAM, image, clock and register contents,    *)
(* and every number of turns.                                              *)
(***************************************************************************)
EXTENDS Memory, TLAPS

-----------------------------------------------------------------------------
(* Addresses and lanes *)

\* A byte address is a cell and a lane.
LEMMA CellOf ==
    ASSUME NEW a \in Nat
    PROVE  /\ a \div 8 \in Nat /\ a % 8 \in Lanes /\ a = 8 * (a \div 8) + (a % 8)
           /\ a < RamSize <=> a \div 8 \in Cells
BY SizesAssumption DEF Lanes, RamSize, Cells

\* The bytes of an access that fits are lanes of one cell.
LEMMA SpanOf ==
    ASSUME NEW o \in Nat, NEW w \in Widths, Fits(o, w), NEW x \in Nat
    PROVE  /\ (x \in o .. o + w - 1) <=> (x \div 8 = o \div 8 /\ x % 8 \in (o % 8) .. (o % 8) + w - 1)
           /\ x \in o .. o + w - 1 => x - o = (x % 8) - (o % 8)
<1>1. /\ x = 8 * (x \div 8) + (x % 8) /\ x % 8 \in 0 .. 7 /\ x \div 8 \in Nat
      /\ o = 8 * (o \div 8) + (o % 8) /\ o % 8 \in 0 .. 7 /\ o \div 8 \in Nat
  OBVIOUS
<1>2. w \in 1 .. 8 /\ (o % 8) + w <= 8
  BY <1>1 DEF Fits, Widths
<1> DEFINE q == x \div 8
           p == o \div 8
           l == x % 8
           k == o % 8
<1> HIDE DEF q, p, l, k
<1>3. /\ x = 8 * q + l /\ l \in 0 .. 7 /\ q \in Nat
      /\ o = 8 * p + k /\ k \in 0 .. 7 /\ p \in Nat /\ w \in 1 .. 8 /\ k + w <= 8
  BY <1>1, <1>2 DEF q, p, l, k
<1>4. /\ (x \in o .. o + w - 1) <=> (q = p /\ l \in k .. k + w - 1)
      /\ x \in o .. o + w - 1 => x - o = l - k
  BY ONLY <1>3
<1> QED  BY <1>4 DEF q, p, l, k

\* The test of store_* and load_* refuses only misaligned accesses.
LEMMA AlignedFits ==
    ASSUME NEW o \in Nat, NEW w \in Widths, o % w = 0
    PROVE  Fits(o, w)
<1>1. CASE w = 1
  BY <1>1 DEF Fits
<1>2. CASE w = 2
  BY <1>2 DEF Fits
<1>3. CASE w = 4
  BY <1>3 DEF Fits
<1>4. CASE w = 8
  BY <1>4 DEF Fits
<1> QED  BY <1>1, <1>2, <1>3, <1>4 DEF Widths

\* Masking, shifting and adding replaces the lanes of the access and keeps the
\* others.
LEMMA StoredLanes ==
    ASSUME NEW o \in Nat, NEW w \in Widths, Fits(o, w), NEW d \in Dword, NEW v \in Dword
    PROVE  stored(o, w, d, v) =
              [l \in Lanes |-> IF l \in (o % 8) .. (o % 8) + w - 1 THEN v[l - (o % 8)] ELSE d[l]]
<1> DEFINE k == o % 8
<1>1. k \in 0 .. 7 /\ w \in 1 .. 8 /\ k + w <= 8
  BY DEF Fits, Widths
<1>2. stored(o, w, d, v) = Plus(Mask(d, Lanes \ (k .. k + w - 1)), Shl(Low(v, w), k))
  BY DEF stored
<1> HIDE DEF k
<1>3. ASSUME NEW l \in Lanes
      PROVE  Mask(d, Lanes \ (k .. k + w - 1))[l] = IF l \in k .. k + w - 1 THEN 0 ELSE d[l]
  BY <1>1, <1>3 DEF Mask, Lanes
<1>4. ASSUME NEW l \in Lanes
      PROVE  Shl(Low(v, w), k)[l] = IF l \in k .. k + w - 1 THEN v[l - k] ELSE 0
  <2>1. l \in 0 .. 7
    BY DEF Lanes
  <2>2. CASE l >= k
    <3>1. l - k \in Lanes /\ (l - k \in 0 .. w - 1 <=> l \in k .. k + w - 1)
      BY <1>1, <2>1, <2>2 DEF Lanes
    <3>2. Low(v, w)[l - k] = IF l - k \in 0 .. w - 1 THEN v[l - k] ELSE 0
      BY <3>1 DEF Low, Mask
    <3> QED  BY <2>1, <2>2, <3>1, <3>2 DEF Shl
  <2>3. CASE l < k
    BY <1>1, <2>1, <2>3 DEF Shl
  <2> QED  BY <1>1, <2>1, <2>2, <2>3
<1>5. ASSUME NEW l \in Lanes
      PROVE  Mask(d, Lanes \ (k .. k + w - 1))[l] + Shl(Low(v, w), k)[l]
                = IF l \in k .. k + w - 1 THEN v[l - k] ELSE d[l]
  <2>1. CASE l \in k .. k + w - 1
    <3>1. v[l - k] \in Int
      <4>1. l - k \in Lanes
        BY <1>1, <2>1 DEF Lanes
      <4> QED  BY <4>1, SizesAssumption DEF Dword, Byte
    <3> QED  BY <1>3, <1>4, <2>1, <3>1
  <2>2. CASE l \notin k .. k + w - 1
    <3>1. d[l] \in Int
      BY SizesAssumption DEF Dword, Byte
    <3> QED  BY <1>3, <1>4, <2>2, <3>1
  <2> QED  BY <2>1, <2>2
<1>6. Plus(Mask(d, Lanes \ (k .. k + w - 1)), Shl(Low(v, w), k))
        = [l \in Lanes |-> IF l \in k .. k + w - 1 THEN v[l - k] ELSE d[l]]
  BY <1>5 DEF Plus
<1> QED  BY <1>2, <1>6 DEF k

LEMMA StoredType ==
    ASSUME NEW o \in Nat, NEW w \in Widths, Fits(o, w), NEW d \in Dword, NEW v \in Dword
    PROVE  stored(o, w, d, v) \in Dword
<1>1. o % 8 \in 0 .. 7 /\ w \in 1 .. 8
  BY DEF Widths
<1>2. ASSUME NEW l \in Lanes
      PROVE  (IF l \in (o % 8) .. (o % 8) + w - 1 THEN v[l - (o % 8)] ELSE d[l]) \in Byte
  <2>1. l \in (o % 8) .. (o % 8) + w - 1 => l - (o % 8) \in Lanes
    BY <1>1 DEF Lanes
  <2> QED  BY <2>1 DEF Dword
<1> QED  BY <1>2, StoredLanes DEF Dword

\* Shifting and masking takes the lanes of the access, and sign_extend fills
\* what is above them with its top bit.
LEMMA LoadedLanes ==
    ASSUME NEW o \in Nat, NEW w \in Widths, Fits(o, w), NEW d \in Dword
    PROVE  /\ \A l \in Lanes : loaded(o, w, d)[l] = IF l < w THEN d[(o % 8) + l] ELSE 0
           /\ w - 1 \in Lanes
<1> DEFINE k == o % 8
<1>1. k \in 0 .. 7 /\ w \in 1 .. 8 /\ k + w <= 8
  BY DEF Fits, Widths
<1> HIDE DEF k
<1>2. ASSUME NEW l \in Lanes
      PROVE  Low(Shr(d, k), w)[l] = IF l < w THEN d[k + l] ELSE 0
  <2>1. l \in 0 .. 7 /\ (l \in 0 .. w - 1 <=> l < w) /\ (l < w => l + k <= 7) /\ l + k = k + l
    BY <1>1 DEF Lanes
  <2> QED  BY <2>1 DEF Low, Mask, Shr
<1> QED  BY <1>1, <1>2 DEF loaded, k, Lanes

-----------------------------------------------------------------------------
(* The invariant *)

\* What the loader has not reached is clear, so that the first line of a
\* double-word, which replaces all of it, and the "or" of the second one write
\* four bytes each.
MInv ==
    /\ memory \in [Cells -> Dword] /\ line \in 0 .. Len(Image)
    /\ state = "load" =>
          \A c \in Cells, l \in Lanes : 8 * c + l >= 4 * line => memory[c][l] = 0

\* The array after the clock has been written, and the cells that may differ
LEMMA TickedIs ==
    ASSUME MInv, NEW now \in Clock
    PROVE  /\ Ticked(now) \in [Cells -> Dword]
           /\ \A c \in Cells \ {TimeCell} : Ticked(now)[c] = memory[c]
BY SizesAssumption, ValuesAssumption DEF MInv, Ticked

LEMMA ZeroType == Zero \in Dword /\ AllOnes \in Dword
BY SizesAssumption DEF Zero, AllOnes, Dword, Byte

LEMMA ImageType ==
    ASSUME NEW n \in Nat, n < Len(Image)
    PROVE  /\ Image[n + 1] \in Dword /\ \A l \in 4 .. 7 : Image[n + 1][l] = 0
           /\ n \div 2 \in Cells /\ 4 * n \in Offsets /\ 4 * n < RamSize /\ n + 1 \in 1 .. Len(Image)
<1>1. Len(Image) \in Nat /\ Len(Image) <= 2 * NCells /\ NCells \in Nat
  BY SizesAssumption, ValuesAssumption
<1>2. n + 1 \in 1 .. Len(Image)
  BY <1>1
<1>3. Image[n + 1] \in {d \in Dword : \A l \in 4 .. 7 : d[l] = 0}
  BY <1>2, ValuesAssumption
<1>4. n \div 2 \in Cells /\ 4 * n \in Offsets /\ 4 * n < RamSize
  BY <1>1 DEF Cells, Offsets, RamSize
<1> QED  BY <1>2, <1>3, <1>4

\* A line of the image is written to its half of the double-word.
LEMMA LineIs ==
    ASSUME MInv, LoadLine
    PROVE  /\ memory' \in [Cells -> Dword]
           /\ \A c \in Cells, l \in Lanes :
                 memory'[c][l] = IF c = line \div 2 /\ l \in 4 * (line % 2) .. 4 * (line % 2) + 3
                                 THEN Image[line + 1][l - 4 * (line % 2)]
                                 ELSE memory[c][l]
<1> DEFINE im == Image[line + 1]
           q == line \div 2
<1>0. line \in Nat /\ line < Len(Image) /\ state = "load" /\ memory \in [Cells -> Dword]
  BY ValuesAssumption DEF MInv, LoadLine
<1>1. im \in Dword /\ (\A l \in 4 .. 7 : im[l] = 0) /\ q \in Cells
  BY <1>0, ImageType
<1>2. memory' = [memory EXCEPT ![q] = IF line % 2 = 0 THEN im ELSE Or(@, Shl(im, 4))]
  BY DEF LoadLine
<1>3. line % 2 \in {0, 1}
  BY <1>0
<1>4. \A l \in 4 .. 7 : memory[q][l] = 0
  <2>1. q \in Nat /\ 8 * q + 4 >= 4 * line
    BY <1>0
  <2>2. \A l \in 4 .. 7 : l \in Lanes /\ 8 * q + l >= 4 * line
    BY <1>0, <2>1 DEF Lanes
  <2> QED  BY <1>0, <1>1, <2>2 DEF MInv
<1> HIDE DEF im, q
<1>5. CASE line % 2 = 0
  <2>1. \A l \in Lanes : l \in 4 * 0 .. 4 * 0 + 3 \/ l \in 4 .. 7
    BY DEF Lanes
  <2>2. \A l \in Lanes : im[l - 4 * 0] = im[l]
    BY DEF Lanes
  <2>3. memory' = [memory EXCEPT ![q] = im]
    BY <1>2, <1>5
  <2> QED  BY <1>0, <1>1, <1>4, <2>1, <2>2, <2>3, <1>5 DEF im, q
<1>6. CASE line % 2 = 1
  <2> DEFINE d == memory[q]
  <2>1. d \in Dword /\ \A l \in 4 .. 7 : d[l] = 0
    BY <1>0, <1>1, <1>4, <1>6
  <2>2. memory' = [memory EXCEPT ![q] = Or(d, Shl(im, 4))]
    <3>1. line % 2 # 0
      BY <1>6
    <3> QED  BY <1>0, <1>2, <3>1, Zenon
  <2> HIDE DEF d
  <2>3. ASSUME NEW l \in Lanes
        PROVE  /\ Or(d, Shl(im, 4))[l] = IF l \in 4 .. 7 THEN im[l - 4] ELSE d[l]
               /\ Or(d, Shl(im, 4))[l] \in Byte
    <3>1. l \in 0 .. 7 /\ (l \in 4 .. 7 <=> l >= 4) /\ (l >= 4 => l - 4 \in Lanes)
      BY DEF Lanes
    <3>2. Shl(im, 4)[l] = IF l >= 4 THEN im[l - 4] ELSE 0
      BY DEF Shl
    <3>3. Or(d, Shl(im, 4))[l] = IF Shl(im, 4)[l] = 0 THEN d[l] ELSE Shl(im, 4)[l]
      BY DEF Or
    <3>4. d[l] \in Byte /\ (l >= 4 => im[l - 4] \in Byte)
      BY <1>1, <2>1, <3>1 DEF Dword
    <3> QED  BY <2>1, <3>1, <3>2, <3>3, <3>4
  <2>4. Or(d, Shl(im, 4)) \in Dword
    <3>1. Or(d, Shl(im, 4)) = [l \in Lanes |-> Or(d, Shl(im, 4))[l]]
      BY DEF Or
    <3> QED  BY <2>3, <3>1 DEF Dword
  <2>5. \A l \in Lanes : (l \in 4 * 1 .. 4 * 1 + 3 <=> l \in 4 .. 7) /\ l - 4 * 1 = l - 4
    BY DEF Lanes
  <2>6. \A c \in Cells : memory'[c] = IF c = q THEN Or(d, Shl(im, 4)) ELSE memory[c]
    BY <1>0, <2>2
  <2> QED  BY <1>0, <1>1, <1>6, <2>2, <2>3, <2>4, <2>5, <2>6, SMTT(30) DEF im, q, d
<1> QED  BY <1>3, <1>5, <1>6

\* What the byte memory calls stopped
Stopped == state \in {"exit", "abort"}

LEMMA LimitIs ==
    ASSUME NEW o \in Nat, o < StoreLimit
    PROVE  o < RamSize
BY SizesAssumption DEF RamSize

LEMMA StoreIs ==
    ASSUME NEW r \in [Cells -> Dword], NEW o \in Offsets, NEW w \in Widths, NEW v \in Values,
           Store(r, o, w, v)
    PROVE  /\ o \in Nat /\ v \in Dword /\ line' = line /\ state' # "load"
           /\ memory' \in [Cells -> Dword] /\ wb' = wb
           /\ last' = Access("put", o, w, FALSE, v)
           /\ ~Stopped /\ (Stopped' <=> ~(o < StoreLimit))
           /\ IF o < StoreLimit /\ Fits(o, w)
              THEN memory' = [r EXCEPT ![o \div 8] = stored(o, w, r[o \div 8], v)]
              ELSE memory' = r
<1>1. o \in Nat /\ v \in Dword /\ StoreLimit \in Nat
  BY ValuesAssumption, SizesAssumption DEF Offsets
<1>2. line' = line /\ state' # "load" /\ wb' = wb /\ last' = Access("put", o, w, FALSE, v)
  BY DEF Store, Turn, Exit
<1>3. IF o < StoreLimit /\ Fits(o, w)
      THEN memory' = [r EXCEPT ![o \div 8] = stored(o, w, r[o \div 8], v)]
      ELSE memory' = r
  <2>1. (o >= StoreLimit) <=> ~(o < StoreLimit)
    BY <1>1
  <2> QED  BY <2>1, Zenon DEF Store, Exit
<1>5. ~Stopped /\ (Stopped' <=> ~(o < StoreLimit))
  BY <1>1 DEF Store, Exit, Turn, Stopped
<1>4. memory' \in [Cells -> Dword]
  <2>1. CASE o < StoreLimit /\ Fits(o, w)
    <3>1. r[o \div 8] \in Dword
      BY <1>1, <2>1, CellOf, LimitIs
    <3>2. stored(o, w, r[o \div 8], v) \in Dword
      BY <1>1, <2>1, <3>1, StoredType
    <3> QED  BY <1>3, <2>1, <3>2
  <2> QED  BY <1>3, <2>1
<1> QED  BY <1>1, <1>2, <1>3, <1>4, <1>5

LEMMA AmoIs ==
    ASSUME NEW r \in [Cells -> Dword], NEW o \in Offsets, NEW w \in Widths, NEW v \in Values,
           Amo(r, o, w, v)
    PROVE  /\ o \in Nat /\ v \in Dword /\ line' = line /\ state' # "load"
           /\ memory' \in [Cells -> Dword] /\ wb' = wb
           /\ last' = Access("amo", o, w, FALSE, v)
           /\ ~Stopped /\ (Stopped' <=> ~(o > 0 /\ o < RamSize))
           /\ IF o > 0 /\ o < RamSize /\ Fits(o, w)
              THEN memory' = [r EXCEPT ![o \div 8] = stored(o, w, r[o \div 8], v)]
              ELSE memory' = r
<1>1. o \in Nat /\ v \in Dword /\ RamSize \in Nat
  BY ValuesAssumption, SizesAssumption DEF Offsets, RamSize
<1>2. line' = line /\ state' # "load" /\ wb' = wb /\ last' = Access("amo", o, w, FALSE, v)
  BY DEF Amo, AmoEnds, Turn, Exit
<1>3. IF o > 0 /\ o < RamSize /\ Fits(o, w)
      THEN memory' = [r EXCEPT ![o \div 8] = stored(o, w, r[o \div 8], v)]
      ELSE memory' = r
  <2>1. (o = 0 \/ o >= RamSize) => ~(o > 0 /\ o < RamSize)
    BY <1>1
  <2> QED  BY <2>1, Zenon DEF Amo, AmoEnds, Exit
<1>4. ~Stopped /\ (Stopped' <=> ~(o > 0 /\ o < RamSize))
  BY <1>1 DEF Amo, AmoEnds, Exit, Turn, Stopped
<1>5. memory' \in [Cells -> Dword]
  <2>1. CASE o > 0 /\ o < RamSize /\ Fits(o, w)
    <3>1. r[o \div 8] \in Dword
      BY <1>1, <2>1, CellOf
    <3>2. stored(o, w, r[o \div 8], v) \in Dword
      BY <1>1, <2>1, <3>1, StoredType
    <3> QED  BY <1>3, <2>1, <3>2
  <2> QED  BY <1>3, <2>1
<1> QED  BY <1>1, <1>2, <1>3, <1>4, <1>5

LEMMA InstructionType ==
    ASSUME MInv, NEW now \in Clock, Instruction(Ticked(now))
    PROVE  memory' \in [Cells -> Dword] /\ line' = line /\ state' # "load"
<1> DEFINE r == Ticked(now)
<1>0. r \in [Cells -> Dword]
  BY TickedIs
<1> HIDE DEF r
<1>1. ASSUME NEW o \in Offsets, NEW w \in Widths, NEW s \in BOOLEAN, Load(r, o, w, s)
      PROVE  memory' = r /\ line' = line /\ state' # "load"
  BY <1>1 DEF Load, Turn, Exit
<1>2. ASSUME NEW o \in Offsets, NEW w \in Widths, NEW v \in Values, Store(r, o, w, v)
      PROVE  memory' \in [Cells -> Dword] /\ line' = line /\ state' # "load"
  BY <1>0, <1>2, StoreIs
<1>3. ASSUME NEW o \in Offsets, StoreUndefined(r, o)
      PROVE  memory' \in [Cells -> Dword] /\ line' = line /\ state' # "load"
  BY <1>0, <1>3, ZeroType DEF StoreUndefined, Turn, Exit
<1>4. ASSUME NEW reg \in ClintRegs, NEW o \in Lanes, NEW w \in Widths, NEW s \in BOOLEAN,
             ClintLoad(r, reg, o, w, s)
      PROVE  memory' = r /\ line' = line /\ state' # "load"
  BY <1>4 DEF ClintLoad, Turn
<1>5. ASSUME NEW reg \in ClintRegs, NEW v \in Values, clint_write(r, reg, v)
      PROVE  memory' \in [Cells -> Dword] /\ line' = line /\ state' # "load"
  BY <1>0, <1>5, ValuesAssumption DEF clint_write, Turn
<1>6. ASSUME PollRx(r) \/ ReadTx(r)
      PROVE  memory' = r /\ line' = line /\ state' # "load"
  BY <1>6 DEF PollRx, ReadTx, Turn
<1>7. ASSUME NEW o \in Offsets, NEW w \in Widths, Lr(r, o, w)
      PROVE  memory' = r /\ line' = line /\ state' # "load"
  BY <1>7 DEF Lr, AmoEnds, Turn, Exit
<1>8. ASSUME NEW o \in Offsets, NEW w \in Widths, NEW v \in Values, Amo(r, o, w, v)
      PROVE  memory' \in [Cells -> Dword] /\ line' = line /\ state' # "load"
  BY <1>0, <1>8, AmoIs
<1> QED  BY <1>0, <1>1, <1>2, <1>3, <1>4, <1>5, <1>6, <1>7, <1>8 DEF Instruction, r

LEMMA DmaIs ==
    ASSUME MInv, NEW o \in Offsets, NEW w \in Widths, NEW v \in Values, DmaWrite(o, w, v)
    PROVE  /\ o \in Nat /\ v \in Dword /\ Fits(o, w) /\ line' = line /\ state' # "load"
           /\ memory' \in [Cells -> Dword] /\ wb' = wb
           /\ last' = Access("dma", o, w, FALSE, v)
           /\ ~Stopped /\ (Stopped' <=> ~(o < RamSize))
           /\ IF o < RamSize
              THEN memory' = [memory EXCEPT ![o \div 8] = stored(o, w, memory[o \div 8], v)]
              ELSE memory' = memory
<1>1. o \in Nat /\ v \in Dword /\ RamSize \in Nat
  BY ValuesAssumption, SizesAssumption DEF Offsets, RamSize
<1>2. Fits(o, w)
  BY <1>1, AlignedFits DEF DmaWrite
<1>3. line' = line /\ state' # "load" /\ wb' = wb /\ last' = Access("dma", o, w, FALSE, v)
  BY DEF DmaWrite, Turn, Exit
<1>4. IF o < RamSize
      THEN memory' = [memory EXCEPT ![o \div 8] = stored(o, w, memory[o \div 8], v)]
      ELSE memory' = memory
  BY <1>1 DEF DmaWrite, Exit
<1>7. ~Stopped /\ (Stopped' <=> ~(o < RamSize))
  BY <1>1 DEF DmaWrite, Exit, Turn, Stopped
<1>5. memory \in [Cells -> Dword]
  BY DEF MInv
<1>6. memory' \in [Cells -> Dword]
  <2>1. CASE o < RamSize
    <3>1. memory[o \div 8] \in Dword
      BY <1>1, <1>5, <2>1, CellOf
    <3>2. stored(o, w, memory[o \div 8], v) \in Dword
      BY <1>1, <1>2, <3>1, StoredType
    <3> QED  BY <1>4, <1>5, <2>1, <3>2
  <2> QED  BY <1>4, <1>5, <2>1
<1> QED  BY <1>1, <1>2, <1>3, <1>4, <1>6, <1>7

LEMMA MInvInit == MInit => MInv
BY ZeroType, ValuesAssumption DEF MInit, MInv, Zero

LEMMA MInvStep == MInv /\ [MNext]_mvars => MInv'
<1> SUFFICES ASSUME MInv, [MNext]_mvars PROVE MInv'
  OBVIOUS
<1>1. CASE LoadLine
  <2>0. line \in Nat /\ line' = line + 1 /\ line + 1 \in 0 .. Len(Image)
    BY <1>1, ValuesAssumption DEF LoadLine, MInv
  <2>1. ASSUME NEW c \in Cells, NEW l \in Lanes, 8 * c + l >= 4 * (line + 1)
        PROVE  memory'[c][l] = 0
    <3>1. c \in Nat /\ l \in 0 .. 7
      BY SizesAssumption DEF Cells, Lanes
    <3>2. ~(c = line \div 2 /\ l \in 4 * (line % 2) .. 4 * (line % 2) + 3)
      BY <2>0, <2>1, <3>1
    <3>3. memory'[c][l] = memory[c][l]
      BY <1>1, <3>2, LineIs
    <3>4. 8 * c + l >= 4 * line /\ state = "load"
      BY <1>1, <2>0, <2>1, <3>1 DEF LoadLine
    <3> QED  BY <3>3, <3>4 DEF MInv
  <2> QED  BY <1>1, <2>0, <2>1, LineIs DEF MInv
<1>2. CASE Start
  BY <1>2, ZeroType DEF Start, MInv
<1>3. ASSUME NEW now \in Clock, Instruction(Ticked(now)) PROVE MInv'
  BY <1>3, InstructionType DEF MInv
<1>4. ASSUME NEW o \in Offsets, NEW w \in Widths, NEW v \in Values, DmaWrite(o, w, v)
      PROVE  MInv'
  BY <1>4, DmaIs DEF MInv
<1>5. CASE UNCHANGED mvars
  BY <1>5 DEF mvars, MInv
<1>6. CASE Ended
  BY <1>5, <1>6 DEF Ended
<1> QED  BY <1>1, <1>2, <1>3, <1>4, <1>5, <1>6 DEF MNext

-----------------------------------------------------------------------------
(* mtimecmp *)

LEMMA TimerStep ==
    ASSUME MInv, MNext, state = "run", memory'[CmpCell] # memory[CmpCell]
    PROVE  \/ /\ last'.op = "clint" /\ last'.reg = "mtimecmp"
              /\ memory'[CmpCell] = last'.data
           \/ /\ last'.op \in {"put", "dma", "amo", "undefined"}
              /\ last'.off \div 8 = CmpCell
<1> DEFINE G == \/ /\ last'.op = "clint" /\ last'.reg = "mtimecmp"
                   /\ memory'[CmpCell] = last'.data
                \/ /\ last'.op \in {"put", "dma", "amo", "undefined"}
                   /\ last'.off \div 8 = CmpCell
<1>1. ASSUME NEW now \in Clock, Instruction(Ticked(now)) PROVE G
  <2> DEFINE r == Ticked(now)
  <2>0. r \in [Cells -> Dword] /\ r[CmpCell] = memory[CmpCell] /\ memory' # r
    BY TickedIs, SizesAssumption
  <2> HIDE DEF r
  <2>1. ASSUME NEW o \in Offsets, NEW w \in Widths, NEW v \in Values, Store(r, o, w, v)
        PROVE  G
    <3>1. /\ last' = Access("put", o, w, FALSE, v)
          /\ memory' = [r EXCEPT ![o \div 8] = stored(o, w, r[o \div 8], v)]
      BY <2>0, <2>1 DEF Store, Exit
    <3>2. o \div 8 = CmpCell
      BY <2>0, <3>1, SizesAssumption
    <3> QED  BY <3>1, <3>2 DEF Access
  <2>2. ASSUME NEW o \in Offsets, StoreUndefined(r, o) PROVE G
    <3>1. last' = Access("undefined", o, 1, FALSE, Zero) /\ memory' = [r EXCEPT ![o \div 8] = Zero]
      BY <2>0, <2>2 DEF StoreUndefined, Exit
    <3>2. o \div 8 = CmpCell
      BY <2>0, <3>1, SizesAssumption
    <3> QED  BY <3>1, <3>2 DEF Access
  <2>3. ASSUME NEW reg \in ClintRegs, NEW v \in Values, clint_write(r, reg, v) PROVE G
    <3>1. last' = ClintAccess(reg, v) /\ reg = "mtimecmp" /\ memory' = [r EXCEPT ![CmpCell] = v]
      BY <2>0, <2>3 DEF clint_write
    <3>2. memory'[CmpCell] = v
      BY <2>0, <3>1, SizesAssumption
    <3> QED  BY <3>1, <3>2 DEF ClintAccess
  <2>4. ASSUME NEW o \in Offsets, NEW w \in Widths, NEW s \in BOOLEAN, Load(r, o, w, s)
        PROVE  memory' = r
    BY <2>4 DEF Load, Exit
  <2>5. ASSUME NEW reg \in ClintRegs, NEW o \in Lanes, NEW w \in Widths, NEW s \in BOOLEAN,
               ClintLoad(r, reg, o, w, s)
        PROVE  memory' = r
    BY <2>5 DEF ClintLoad
  <2>6. ASSUME PollRx(r) \/ ReadTx(r) PROVE memory' = r
    BY <2>6 DEF PollRx, ReadTx
  <2>7. ASSUME NEW o \in Offsets, NEW w \in Widths, Lr(r, o, w) PROVE memory' = r
    BY <2>7 DEF Lr, AmoEnds, Exit
  <2>8. ASSUME NEW o \in Offsets, NEW w \in Widths, NEW v \in Values, Amo(r, o, w, v)
        PROVE  G
    <3>1. /\ last' = Access("amo", o, w, FALSE, v)
          /\ memory' = [r EXCEPT ![o \div 8] = stored(o, w, r[o \div 8], v)]
      BY <2>0, <2>8, AmoIs
    <3>2. o \div 8 = CmpCell
      BY <2>0, <3>1, SizesAssumption
    <3> QED  BY <3>1, <3>2 DEF Access
  <2> HIDE DEF G
  <2> QED  BY <1>1, <2>0, <2>1, <2>2, <2>3, <2>4, <2>5, <2>6, <2>7, <2>8 DEF Instruction, r
<1>2. ASSUME NEW o \in Offsets, NEW w \in Widths, NEW v \in Values, DmaWrite(o, w, v)
      PROVE  G
  <2>1. /\ last' = Access("dma", o, w, FALSE, v)
        /\ memory' = [memory EXCEPT ![o \div 8] = stored(o, w, memory[o \div 8], v)]
    BY <1>2, DmaIs
  <2>2. o \div 8 = CmpCell
    BY <2>1, SizesAssumption DEF MInv
  <2> QED  BY <2>1, <2>2 DEF Access
<1> QED  BY <1>1, <1>2 DEF MNext, LoadLine, Start, Ended, mvars

LEMMA MInvariant == MSpec => []MInv
BY MInvInit, MInvStep, PTL DEF MSpec

\* mtimecmp changes only by an access that names it: a write to that register of
\* the CLINT, which leaves exactly its value there, or a store, an AMO or a
\* device's write to the RAM address of its cell, whatever is done elsewhere, at
\* other registers of the CLINT included, and whatever the clock.
THEOREM CmpMovesByAccess == MSpec => TimerMoves
<1>1. MInv /\ [MNext]_mvars =>
         [state = "run" /\ memory'[CmpCell] # memory[CmpCell] =>
             \/ /\ last'.op = "clint" /\ last'.reg = "mtimecmp"
                /\ memory'[CmpCell] = last'.data
             \/ /\ last'.op \in {"put", "dma", "amo", "undefined"}
                /\ last'.off \div 8 = CmpCell]_mvars
  BY TimerStep
<1> QED  BY <1>1, MInvariant, PTL DEF MSpec, TimerMoves

-----------------------------------------------------------------------------
(* The refinement *)

\* The bytes of an array
BytesOf(m) == [a \in 0 .. RamSize - 1 |-> m[a \div 8][a % 8]]

PlainCells == Cells \ {TimeCell, CmpCell}

LEMMA ByteOf ==
    ASSUME NEW m, NEW x \in (0 .. RamSize - 1) \ TimerBytes
    PROVE  /\ x \in Nat /\ x \div 8 \in PlainCells /\ x % 8 \in Lanes
           /\ BytesOf(m)[x] = m[x \div 8][x % 8]
<1>1. x \in Nat /\ x < RamSize
  BY SizesAssumption DEF RamSize
<1>2. x \div 8 \in Cells /\ x % 8 \in Lanes
  BY <1>1, CellOf
<1> QED  BY <1>1, <1>2 DEF PlainCells, TimerBytes, BytesOf

\* The bytes outside the timer cells
Plain == (0 .. RamSize - 1) \ TimerBytes

\* Cells other than the timer's that stay as they are
LEMMA StableSame ==
    ASSUME \A c \in PlainCells : memory'[c] = memory[c]
    PROVE  \A x \in Plain : BytesOf(memory')[x] = BytesOf(memory)[x]
BY ByteOf DEF Plain

\* A double-word that stored computes is the bytes of the access written.
LEMMA StableStored ==
    ASSUME NEW o \in Nat, NEW w \in Widths, Fits(o, w), NEW v \in Dword,
           memory \in [Cells -> Dword],
           \A c \in PlainCells :
              memory'[c] = IF c = o \div 8 THEN stored(o, w, memory[c], v) ELSE memory[c]
    PROVE  \A x \in Plain :
              BytesOf(memory')[x] = IF x \in o .. o + w - 1 THEN v[x - o] ELSE BytesOf(memory)[x]
<1> SUFFICES ASSUME NEW x \in Plain
             PROVE  BytesOf(memory')[x] =
                       IF x \in o .. o + w - 1 THEN v[x - o] ELSE BytesOf(memory)[x]
  OBVIOUS
<1>1. x \in Nat /\ x \div 8 \in PlainCells /\ x % 8 \in Lanes
  BY ByteOf DEF Plain
<1>2. BytesOf(memory')[x] = memory'[x \div 8][x % 8] /\ BytesOf(memory)[x] = memory[x \div 8][x % 8]
  BY ByteOf DEF Plain
<1>3. CASE x \div 8 = o \div 8
  <2>1. memory[x \div 8] \in Dword
    BY <1>1 DEF PlainCells
  <2>2. memory'[x \div 8] = stored(o, w, memory[x \div 8], v)
    BY <1>1, <1>3
  <2>3. memory'[x \div 8][x % 8] = IF x % 8 \in (o % 8) .. (o % 8) + w - 1
                                   THEN v[(x % 8) - (o % 8)] ELSE memory[x \div 8][x % 8]
    BY <1>1, <2>1, <2>2, StoredLanes
  <2> QED  BY <1>1, <1>2, <1>3, <2>3, SpanOf
<1>4. CASE x \div 8 # o \div 8
  BY <1>1, <1>2, <1>4, SpanOf
<1> QED  BY <1>3, <1>4

\* The accesses of the steps are accesses of the specification.
LEMMA AccessIs ==
    ASSUME NEW op \in RamOps, NEW o \in Offsets, NEW w \in Widths, NEW sg \in BOOLEAN,
           NEW v \in {Zero} \cup Values \cup {Image[i] : i \in 1 .. Len(Image)},
           NEW a, a = Access(op, o, w, sg, v)
    PROVE  a \in Accesses /\ a.op = op /\ a.off = o /\ a.width = w /\ a.signed = sg /\ a.data = v
BY DEF Access, Accesses, ClintRegs

LEMMA NoAccessIs == NoAccess \in Accesses /\ NoAccess.op = "other"
BY SizesAssumption DEF NoAccess, Access, Accesses, Offsets, RamSize, Widths, ClintRegs

LEMMA ClintAccessIs ==
    ASSUME NEW reg \in ClintRegs, NEW v \in Values
    PROVE  ClintAccess(reg, v) \in Accesses /\ ClintAccess(reg, v).op = "clint"
BY SizesAssumption DEF ClintAccess, Accesses, Offsets, RamSize, Widths

\* Where an access that fits ends
LEMMA SpanInside ==
    ASSUME NEW o \in Nat, NEW w \in Widths, NEW n \in Nat, n % 8 = 0
    PROVE  /\ Fits(o, w) /\ o < n => o .. o + w - 1 \subseteq 0 .. n - 1
           /\ o >= n => ~(o .. o + w - 1 \subseteq 0 .. n - 1)
<1>1. w \in 1 .. 8
  BY DEF Widths
<1>2. ASSUME Fits(o, w), o < n PROVE o + w - 1 < n
  <2>1. (o % 8) + w <= 8
    BY <1>2 DEF Fits, Widths
  <2> QED  BY <1>1, <1>2, <2>1
<1>3. o >= n => o \in o .. o + w - 1 /\ o \notin 0 .. n - 1
  BY <1>1
<1> QED  BY <1>1, <1>2, <1>3

LEMMA SizesAre == RamSize \in Nat /\ RamSize % 8 = 0 /\ StoreLimit \in Nat /\ StoreLimit % 8 = 0
BY SizesAssumption DEF RamSize

\* The machine goes on: stopped stays FALSE.
LEMMA GoesOn ==
    ASSUME ~Stopped, ~Stopped'
    PROVE  (state \in {"exit", "abort"})' = (state \in {"exit", "abort"})
BY DEF Stopped

\* The bytes a write may reach, and where it ends
LEMMA ReachIs ==
    ASSUME NEW op \in {"put", "dma", "amo"}, NEW o \in Offsets, NEW w \in Widths, NEW v,
           last' = Access(op, o, w, FALSE, v), NEW R, R = Bytes!Reach(last')
    PROVE  /\ op = "put" => (o \in R <=> o < StoreLimit)
           /\ op = "dma" => (o \in R <=> o < RamSize)
           /\ op = "amo" => (o \in R <=> o > 0 /\ o < RamSize)
           /\ Fits(o, w) /\ o \in R => o .. o + w - 1 \subseteq R
<1>1. o \in Nat /\ last'.op = op
  BY SizesAre DEF Access, Offsets
<1>2. /\ op = "put" => R = 0 .. StoreLimit - 1
      /\ op = "dma" => R = 0 .. RamSize - 1
      /\ op = "amo" => R = 1 .. RamSize - 1
  BY <1>1 DEF Bytes!Reach
<1>3. /\ op = "put" => (o \in R <=> o < StoreLimit)
      /\ op = "dma" => (o \in R <=> o < RamSize)
      /\ op = "amo" => (o \in R <=> o > 0 /\ o < RamSize)
  <2>1. \A n \in Nat : /\ o \in 0 .. n - 1 <=> o < n
                       /\ o \in 1 .. n - 1 <=> o > 0 /\ o < n
    BY <1>1
  <2>2. CASE op = "put"
    BY <1>2, <2>1, <2>2, SizesAre
  <2>3. CASE op = "dma"
    BY <1>2, <2>1, <2>3, SizesAre
  <2>4. CASE op = "amo"
    BY <1>2, <2>1, <2>4, SizesAre
  <2> QED  BY <2>2, <2>3, <2>4
<1>4. ASSUME Fits(o, w), o \in R PROVE o .. o + w - 1 \subseteq R
  <2>1. CASE op = "put"
    BY <1>1, <1>2, <1>3, <1>4, <2>1, SizesAre, SpanInside
  <2>2. CASE op = "dma"
    BY <1>1, <1>2, <1>3, <1>4, <2>2, SizesAre, SpanInside
  <2>3. CASE op = "amo"
    <3>1. o .. o + w - 1 \subseteq 0 .. RamSize - 1 /\ o > 0
      BY <1>1, <1>3, <1>4, <2>3, SizesAre, SpanInside
    <3>2. ASSUME NEW x \in o .. o + w - 1 PROVE x \in 1 .. RamSize - 1
      <4>1. x \in 0 .. RamSize - 1 /\ x \in Int /\ x >= o
        BY <1>1, <3>1 DEF Widths
      <4> QED  BY <1>1, <3>1, <4>1, SizesAre
    <3> QED  BY <1>2, <2>3, <3>2
  <2> QED  BY <2>1, <2>2, <2>3
<1> QED  BY <1>3, <1>4

\* A step that writes, as a store, an AMO, a device or the loader does
Writes(op, o, w, v, R) ==
    /\ op \in {"put", "dma", "amo"} /\ o \in Offsets /\ o \in Nat /\ w \in Widths
    /\ v \in Values \cup {Image[i] : i \in 1 .. Len(Image)} /\ v \in Dword
    /\ memory \in [Cells -> Dword] /\ wb' = wb
    /\ last' = Access(op, o, w, FALSE, v)
    /\ R = Bytes!Reach(last') /\ ~Stopped /\ (Stopped' <=> o \notin R)
    /\ \A c \in PlainCells :
          memory'[c] = IF o \in R /\ Fits(o, w) /\ c = o \div 8
                       THEN stored(o, w, memory[c], v) ELSE memory[c]

\* It fits and is inside, or it is dropped, or it stops the machine.
LEMMA WriteRefines ==
    ASSUME NEW op, NEW o, NEW w, NEW v, NEW R, Writes(op, o, w, v, R)
    PROVE  Bytes!BNext
<1>0. /\ op \in {"put", "dma", "amo"} /\ o \in Offsets /\ o \in Nat /\ w \in Widths
      /\ v \in Values \cup {Image[i] : i \in 1 .. Len(Image)} /\ v \in Dword
      /\ memory \in [Cells -> Dword] /\ wb' = wb
      /\ last' = Access(op, o, w, FALSE, v)
      /\ R = Bytes!Reach(last') /\ ~Stopped /\ (Stopped' <=> o \notin R)
      /\ \A c \in PlainCells :
            memory'[c] = IF o \in R /\ Fits(o, w) /\ c = o \div 8
                         THEN stored(o, w, memory[c], v) ELSE memory[c]
  BY DEF Writes
<1>1. /\ last' \in Accesses /\ last'.op = op /\ last'.off = o /\ last'.width = w
      /\ last'.data = v
  BY <1>0 DEF Access, Accesses, RamOps, ClintRegs
<1>2. CASE o \in R /\ Fits(o, w)
  <2>1. \A c \in PlainCells :
           memory'[c] = IF c = o \div 8 THEN stored(o, w, memory[c], v) ELSE memory[c]
    BY <1>0, <1>2
  <2>2. \A x \in Plain :
           BytesOf(memory')[x] = IF x \in o .. o + w - 1 THEN v[x - o] ELSE BytesOf(memory)[x]
    BY <1>0, <1>2, <2>1, StableStored
  <2>3. o .. o + w - 1 \subseteq R
    BY <1>0, <1>2, ReachIs
  <2>4. Bytes!Stable(Bytes!Written(last'))
    BY <1>1, <2>2 DEF Bytes!Stable, Bytes!Written, Bytes!Span, BytesOf, Plain
  <2>5. Bytes!Span(last') \subseteq Bytes!Reach(last')
    BY <1>0, <1>1, <2>3 DEF Bytes!Span
  <2>6. Bytes!Put(last')
    BY <1>0, <1>1, <2>4, <2>5 DEF Bytes!Put
  <2>7. Bytes!Inside(last')
    BY <1>0, <1>1, <1>2, <2>6, GoesOn DEF Bytes!Inside
  <2> QED  BY <1>1, <2>7 DEF Bytes!BNext
<1>3. CASE ~(o \in R /\ Fits(o, w))
  <2>1. Bytes!Stable(BytesOf(memory))
    <3>1. \A c \in PlainCells : memory'[c] = memory[c]
      BY <1>0, <1>3
    <3>2. \A x \in Plain : BytesOf(memory')[x] = BytesOf(memory)[x]
      BY <3>1, StableSame
    <3> QED  BY <3>2 DEF Bytes!Stable, BytesOf, Plain
  <2>2. CASE o \notin R
    <3>1. Bytes!Outside(last')
      BY <1>0, <1>1, <2>1, <2>2 DEF Bytes!Outside, BytesOf, Stopped
    <3> QED  BY <1>1, <3>1 DEF Bytes!BNext
  <2>3. CASE o \in R
    <3>1. o % w # 0
      BY <1>0, <1>3, <2>3, AlignedFits
    <3>2. Bytes!Put(last')
      BY <1>0, <1>1, <2>1, <3>1 DEF Bytes!Put, Bytes!IsAligned, BytesOf
    <3>3. Bytes!Inside(last')
      BY <1>0, <1>1, <2>3, <3>2, GoesOn DEF Bytes!Inside
    <3> QED  BY <1>1, <3>3 DEF Bytes!BNext
  <2> QED  BY <2>2, <2>3
<1> QED  BY <1>2, <1>3

\* A step that is no access to plain memory
LEMMA OtherRefines ==
    ASSUME last' \in Accesses, last'.op \in {"clint", "other"}, ~Stopped, ~Stopped',
           \A c \in PlainCells : memory'[c] = memory[c]
    PROVE  Bytes!BNext
<1>1. \A x \in Plain : BytesOf(memory')[x] = BytesOf(memory)[x]
  BY StableSame
<1>2. Bytes!Other(last')
  BY <1>1, GoesOn DEF Bytes!Other, Bytes!Stable, BytesOf, Plain
<1> QED  BY <1>2 DEF Bytes!BNext

LEMMA LineRefines == MInv /\ LoadLine => Bytes!BNext
<1> SUFFICES ASSUME MInv, LoadLine PROVE Bytes!BNext
  OBVIOUS
<1> DEFINE v == Image[line + 1]
           o == 4 * line
<1>0. line \in Nat /\ line < Len(Image) /\ memory \in [Cells -> Dword]
  BY ValuesAssumption DEF MInv, LoadLine
<1>1. v \in Dword /\ o \in Offsets /\ o \in Nat /\ o < RamSize /\ line + 1 \in 1 .. Len(Image)
  BY <1>0, ImageType
<1>2. Fits(o, 4) /\ o \div 8 = line \div 2 /\ o % 8 = 4 * (line % 2)
  BY <1>0 DEF Fits
<1>3. last' = Access("dma", o, 4, FALSE, v) /\ wb' = wb
  BY DEF LoadLine
<1>4. ASSUME NEW c \in PlainCells
      PROVE  memory'[c] = IF c = o \div 8 THEN stored(o, 4, memory[c], v) ELSE memory[c]
  <2>0. c \in Cells /\ memory[c] \in Dword /\ memory'[c] \in Dword
    BY <1>0, LineIs DEF PlainCells
  <2>1. \A l \in Lanes : memory'[c][l] =
            IF c = line \div 2 /\ l \in 4 * (line % 2) .. 4 * (line % 2) + 3
            THEN v[l - 4 * (line % 2)] ELSE memory[c][l]
    BY <2>0, LineIs
  <2> HIDE DEF v
  <2>2. CASE c = o \div 8
    <3>1. stored(o, 4, memory[c], v) =
            [l \in Lanes |-> IF l \in (o % 8) .. (o % 8) + 4 - 1 THEN v[l - (o % 8)] ELSE memory[c][l]]
      BY <1>1, <1>2, <2>0, StoredLanes DEF Widths
    <3>2. (o % 8) + 4 - 1 = 4 * (line % 2) + 3
      BY <1>0, <1>2
    <3>3. memory'[c] = [l \in Lanes |-> memory'[c][l]]
      BY <2>0 DEF Dword
    <3> HIDE DEF o
    <3>4. \A l \in Lanes : memory'[c][l] = stored(o, 4, memory[c], v)[l]
      BY <1>2, <2>1, <2>2, <3>1, <3>2
    <3> QED  BY <2>2, <3>1, <3>3, <3>4
  <2>3. CASE c # o \div 8
    <3>1. \A l \in Lanes : memory'[c][l] = memory[c][l]
      BY <1>2, <2>1, <2>3
    <3> QED  BY <2>0, <2>3, <3>1 DEF Dword
  <2> QED  BY <2>2, <2>3
<1>5. v \in Values \cup {Image[i] : i \in 1 .. Len(Image)} /\ 4 \in Widths
  BY <1>1 DEF Widths
<1> HIDE DEF v, o
<1> DEFINE R == Bytes!Reach(last')
<1>7. "dma" \in {"put", "dma", "amo"}
  OBVIOUS
<1>8. o \in R
  BY <1>1, <1>3, <1>5, <1>7, ReachIs
<1>6. \A c \in PlainCells : memory'[c] = IF o \in R /\ Fits(o, 4) /\ c = o \div 8
                                         THEN stored(o, 4, memory[c], v) ELSE memory[c]
  BY <1>2, <1>4, <1>8
<1>9. ~Stopped /\ (Stopped' <=> o \notin R)
  BY <1>8 DEF LoadLine, Stopped
<1> DEFINE op == "dma"
           w == 4
<1>w. Writes(op, o, w, v, R)
  BY <1>0, <1>1, <1>3, <1>5, <1>6, <1>7, <1>9 DEF Writes
<1> HIDE DEF op, w, R
<1> QED  BY <1>w, WriteRefines

LEMMA DmaRefines ==
    ASSUME MInv, NEW o \in Offsets, NEW w \in Widths, NEW v \in Values, DmaWrite(o, w, v)
    PROVE  Bytes!BNext
<1> DEFINE op == "dma"
           R == Bytes!Reach(last')
<1>1. /\ o \in Nat /\ v \in Dword /\ wb' = wb /\ memory \in [Cells -> Dword]
      /\ last' = Access(op, o, w, FALSE, v)
      /\ op \in {"put", "dma", "amo"} /\ v \in Values \cup {Image[i] : i \in 1 .. Len(Image)}
  BY DmaIs DEF MInv
<1>2. o \in R <=> o < RamSize
  BY <1>1, ReachIs
<1>3. ~Stopped /\ (Stopped' <=> o \notin R)
  BY <1>2, DmaIs
<1> HIDE DEF R
<1>4. \A c \in PlainCells : memory'[c] = IF o \in R /\ Fits(o, w) /\ c = o \div 8
                                         THEN stored(o, w, memory[c], v) ELSE memory[c]
  <2>1. Fits(o, w) /\ IF o < RamSize
        THEN memory' = [memory EXCEPT ![o \div 8] = stored(o, w, memory[o \div 8], v)]
        ELSE memory' = memory
    BY DmaIs
  <2> QED  BY <1>1, <1>2, <2>1 DEF PlainCells
<1>5. R = Bytes!Reach(last')
  BY DEF R
<1> HIDE DEF op
<1>w. Writes(op, o, w, v, R)
  BY <1>1, <1>3, <1>4, <1>5 DEF Writes
<1> QED  BY <1>w, WriteRefines

LEMMA StoreRefines ==
    ASSUME MInv, NEW now \in Clock, NEW o \in Offsets, NEW w \in Widths, NEW v \in Values,
           Store(Ticked(now), o, w, v)
    PROVE  Bytes!BNext
<1> DEFINE r == Ticked(now)
           op == "put"
           R == Bytes!Reach(last')
<1>0. r \in [Cells -> Dword] /\ \A c \in PlainCells : r[c] = memory[c]
  BY TickedIs DEF PlainCells
<1> HIDE DEF r
<1>1. /\ o \in Nat /\ v \in Dword /\ wb' = wb /\ memory \in [Cells -> Dword]
      /\ last' = Access(op, o, w, FALSE, v)
      /\ op \in {"put", "dma", "amo"} /\ v \in Values \cup {Image[i] : i \in 1 .. Len(Image)}
  BY <1>0, StoreIs DEF MInv, r
<1>2. o \in R <=> o < StoreLimit
  BY <1>1, ReachIs
<1>3. ~Stopped /\ (Stopped' <=> o \notin R)
  BY <1>0, <1>2, StoreIs DEF r
<1> HIDE DEF R
<1>4. \A c \in PlainCells : memory'[c] = IF o \in R /\ Fits(o, w) /\ c = o \div 8
                                         THEN stored(o, w, memory[c], v) ELSE memory[c]
  <2>1. IF o < StoreLimit /\ Fits(o, w)
        THEN memory' = [r EXCEPT ![o \div 8] = stored(o, w, r[o \div 8], v)]
        ELSE memory' = r
    BY <1>0, StoreIs DEF r
  <2> QED  BY <1>0, <1>1, <1>2, <2>1 DEF PlainCells
<1>5. R = Bytes!Reach(last')
  BY DEF R
<1> HIDE DEF op
<1>w. Writes(op, o, w, v, R)
  BY <1>1, <1>3, <1>4, <1>5 DEF Writes
<1> QED  BY <1>w, WriteRefines

LEMMA AmoRefines ==
    ASSUME MInv, NEW now \in Clock, NEW o \in Offsets, NEW w \in Widths, NEW v \in Values,
           Amo(Ticked(now), o, w, v)
    PROVE  Bytes!BNext
<1> DEFINE r == Ticked(now)
           op == "amo"
           R == Bytes!Reach(last')
<1>0. r \in [Cells -> Dword] /\ \A c \in PlainCells : r[c] = memory[c]
  BY TickedIs DEF PlainCells
<1> HIDE DEF r
<1>1. /\ o \in Nat /\ v \in Dword /\ wb' = wb /\ memory \in [Cells -> Dword]
      /\ last' = Access(op, o, w, FALSE, v)
      /\ op \in {"put", "dma", "amo"} /\ v \in Values \cup {Image[i] : i \in 1 .. Len(Image)}
  BY <1>0, AmoIs DEF MInv, r
<1>2. o \in R <=> o > 0 /\ o < RamSize
  BY <1>1, ReachIs
<1>3. ~Stopped /\ (Stopped' <=> o \notin R)
  BY <1>0, <1>2, AmoIs DEF r
<1> HIDE DEF R
<1>4. \A c \in PlainCells : memory'[c] = IF o \in R /\ Fits(o, w) /\ c = o \div 8
                                         THEN stored(o, w, memory[c], v) ELSE memory[c]
  <2>1. IF o > 0 /\ o < RamSize /\ Fits(o, w)
        THEN memory' = [r EXCEPT ![o \div 8] = stored(o, w, r[o \div 8], v)]
        ELSE memory' = r
    BY <1>0, AmoIs DEF r
  <2> QED  BY <1>0, <1>1, <1>2, <2>1 DEF PlainCells
<1>5. R = Bytes!Reach(last')
  BY DEF R
<1> HIDE DEF op
<1>w. Writes(op, o, w, v, R)
  BY <1>1, <1>3, <1>4, <1>5 DEF Writes
<1> QED  BY <1>w, WriteRefines

LEMMA LrRefines ==
    ASSUME MInv, NEW now \in Clock, NEW o \in Offsets, NEW w \in Widths, Lr(Ticked(now), o, w)
    PROVE  Bytes!BNext
<1>0. o \in Nat /\ RamSize \in Nat
  BY SizesAre DEF Offsets
<1>1. /\ last' = Access("lr", o, w, FALSE, Zero) /\ wb' = wb /\ memory' = Ticked(now)
      /\ ~Stopped /\ (Stopped' <=> ~(o > 0 /\ o < RamSize))
  BY <1>0 DEF Lr, AmoEnds, Turn, Exit, Stopped
<1>2. last' \in Accesses /\ last'.op = "lr" /\ last'.off = o
  BY <1>1 DEF Access, Accesses, RamOps, ClintRegs
<1>3. o \in Bytes!Reach(last') <=> o > 0 /\ o < RamSize
  BY <1>0, <1>2 DEF Bytes!Reach
<1>4. Bytes!Stable(BytesOf(memory))
  <2>1. \A c \in PlainCells : memory'[c] = memory[c]
    BY <1>1, TickedIs DEF PlainCells
  <2>2. \A x \in Plain : BytesOf(memory')[x] = BytesOf(memory)[x]
    BY <2>1, StableSame
  <2> QED  BY <2>2 DEF Bytes!Stable, BytesOf, Plain
<1>5. CASE o > 0 /\ o < RamSize
  <2>1. Bytes!Reserve(last')
    BY <1>1, <1>2, <1>4 DEF Bytes!Reserve, BytesOf
  <2>2. Bytes!Inside(last')
    BY <1>1, <1>2, <1>3, <1>5, <2>1, GoesOn DEF Bytes!Inside
  <2> QED  BY <1>2, <2>2 DEF Bytes!BNext
<1>6. CASE ~(o > 0 /\ o < RamSize)
  <2>1. Bytes!Outside(last')
    BY <1>1, <1>2, <1>3, <1>4, <1>6 DEF Bytes!Outside, BytesOf, Stopped
  <2> QED  BY <1>2, <2>1 DEF Bytes!BNext
<1> QED  BY <1>5, <1>6

\* What a load of plain memory writes to the register
LEMMA LoadedBytes ==
    ASSUME NEW o \in Nat, NEW w \in Widths, Fits(o, w), NEW s \in BOOLEAN, o < RamSize,
           memory \in [Cells -> Dword],
           NEW d, d = memory[o \div 8], NEW res,
           res = IF s THEN sign_extend(loaded(o, w, d), w) ELSE loaded(o, w, d)
    PROVE  LET f == IF s /\ BytesOf(memory)[o + w - 1] >= ByteMod \div 2 THEN ByteMod - 1 ELSE 0
           IN  res = [l \in 0 .. 7 |-> IF l < w THEN BytesOf(memory)[o + l] ELSE f]
<1> DEFINE B == BytesOf(memory)
           f == IF s /\ B[o + w - 1] >= ByteMod \div 2 THEN ByteMod - 1 ELSE 0
           ld == loaded(o, w, d)
<1>0. o \div 8 \in Cells /\ d \in Dword /\ w \in 1 .. 8
  BY CellOf DEF Widths
<1>1. /\ \A l \in Lanes : ld[l] = IF l < w THEN d[(o % 8) + l] ELSE 0
      /\ w - 1 \in Lanes
  BY <1>0, LoadedLanes
<1>2. ASSUME NEW l \in Lanes, l < w PROVE ld[l] = B[o + l]
  <2>1. l \in Nat /\ o + l \in Nat /\ o + l \in o .. o + w - 1
    BY <1>0, <1>2 DEF Lanes
  <2>2. (o + l) \div 8 = o \div 8 /\ (o + l) - o = ((o + l) % 8) - (o % 8)
    BY <2>1, SpanOf
  <2>3. (o % 8) + l = (o + l) % 8
    BY <2>1, <2>2
  <2>4. o + l < RamSize
    <3>1. o .. o + w - 1 \subseteq 0 .. RamSize - 1
      BY SizesAre, SpanInside
    <3> QED  BY <2>1, <3>1, SizesAre
  <2>5. B[o + l] = memory[(o + l) \div 8][(o + l) % 8]
    BY <2>1, <2>4, SizesAre DEF BytesOf
  <2> HIDE DEF B
  <2> QED  BY <1>1, <1>2, <2>2, <2>3, <2>5
<1>3. ld[w - 1] = B[o + w - 1]
  <2>1. w - 1 < w /\ o + (w - 1) = o + w - 1
    BY <1>0
  <2> HIDE DEF B, ld
  <2> QED  BY <1>1, <1>2, <2>1
<1>4. ld = [l \in Lanes |-> ld[l]] /\ Lanes = 0 .. 7
  BY DEF loaded, Low, Mask, Lanes
<1>5. sign_extend(ld, w) = [l \in Lanes |-> IF l < w THEN ld[l]
                              ELSE IF ld[w - 1] >= ByteMod \div 2 THEN ByteMod - 1 ELSE 0]
  BY DEF sign_extend
<1>6. res = IF s THEN sign_extend(ld, w) ELSE ld
  OBVIOUS
<1> HIDE DEF ld, B
<1>7. ASSUME NEW l \in Lanes PROVE res[l] = IF l < w THEN B[o + l] ELSE f
  BY <1>1, <1>2, <1>3, <1>5, <1>6
<1>8. res = [l \in Lanes |-> res[l]]
  BY <1>4, <1>5, <1>6
<1>9. res = [l \in 0 .. 7 |-> IF l < w THEN B[o + l] ELSE f]
  BY <1>4, <1>7, <1>8
<1> QED  BY <1>9 DEF B

LEMMA LoadRefines ==
    ASSUME MInv, NEW now \in Clock, NEW o \in Offsets, NEW w \in Widths, NEW s \in BOOLEAN,
           Load(Ticked(now), o, w, s)
    PROVE  Bytes!BNext
<1> DEFINE r == Ticked(now)
<1>0. /\ r \in [Cells -> Dword] /\ memory \in [Cells -> Dword]
      /\ \A c \in Cells \ {TimeCell} : r[c] = memory[c]
  BY TickedIs DEF MInv
<1>a. o \in Nat /\ RamSize \in Nat /\ RamSize % 8 = 0
  BY SizesAre DEF Offsets
<1>1. /\ last' = Access("get", o, w, s, Zero) /\ memory' = r
      /\ \/ o < RamSize /\ Fits(o, w)
            /\ wb' = IF s THEN sign_extend(loaded(o, w, r[o \div 8]), w)
                          ELSE loaded(o, w, r[o \div 8])
         \/ ~(o < RamSize /\ Fits(o, w)) /\ wb' = wb
  <2>1. (o > RamSize \/ o = RamSize) => ~(o < RamSize)
    BY <1>a
  <2> QED  BY <2>1, Zenon DEF Load, Exit
<1>s. ~Stopped /\ (Stopped' <=> ~(o < RamSize))
  BY <1>a DEF Load, Exit, Turn, Stopped
<1> HIDE DEF r
<1>2. /\ last' \in Accesses /\ last'.op = "get" /\ last'.off = o /\ last'.width = w
      /\ last'.signed = s
  <2>1. /\ "get" \in RamOps
        /\ Zero \in {Zero} \cup Values \cup {Image[i] : i \in 1 .. Len(Image)}
    BY DEF RamOps
  <2> QED  BY ONLY <1>1, <2>1, AccessIs, o \in Offsets, w \in Widths, s \in BOOLEAN
<1>r. /\ Bytes!Reach(last') = 0 .. RamSize - 1
      /\ o \in 0 .. RamSize - 1 <=> o < RamSize
  BY <1>a, <1>2 DEF Bytes!Reach
<1>3. Bytes!Stable(BytesOf(memory))
  <2>1. \A c \in PlainCells : memory'[c] = memory[c]
    BY <1>0, <1>1 DEF PlainCells
  <2>2. \A x \in Plain : BytesOf(memory')[x] = BytesOf(memory)[x]
    BY <2>1, StableSame
  <2> QED  BY <2>2 DEF Bytes!Stable, BytesOf, Plain
<1>4. CASE /\ o < RamSize /\ Fits(o, w)
           /\ wb' = IF s THEN sign_extend(loaded(o, w, r[o \div 8]), w)
                         ELSE loaded(o, w, r[o \div 8])
  <2>1. o .. o + w - 1 \subseteq 0 .. RamSize - 1
    BY <1>a, <1>4, SpanInside
  <2>2. ASSUME (o .. o + w - 1) \cap TimerBytes = {}
        PROVE  wb' = [l \in 0 .. 7 |-> IF l < w THEN BytesOf(memory)[o + l]
                        ELSE IF s /\ BytesOf(memory)[o + w - 1] >= ByteMod \div 2
                             THEN ByteMod - 1 ELSE 0]
    <3>1. o \in o .. o + w - 1
      BY <1>a DEF Widths
    <3>2. o \div 8 \in Cells /\ o \div 8 # TimeCell
      BY <1>a, <1>4, <2>1, <2>2, <3>1, CellOf DEF TimerBytes
    <3>3. r[o \div 8] = memory[o \div 8]
      BY <1>0, <3>2
    <3> QED  BY <1>0, <1>a, <1>4, <3>3, LoadedBytes
  <2>3. Bytes!Span(last') = o .. o + w - 1
    BY <1>2 DEF Bytes!Span
  <2>4. Bytes!Fill(last') = IF s /\ BytesOf(memory)[o + w - 1] >= ByteMod \div 2
                            THEN ByteMod - 1 ELSE 0
    BY <1>2 DEF Bytes!Fill, BytesOf
  <2>5. Bytes!Get(last')
    BY <1>2, <1>3, <1>r, <2>1, <2>2, <2>3, <2>4 DEF Bytes!Get, BytesOf
  <2>6. Bytes!Inside(last')
    BY <1>2, <1>4, <1>r, <1>s, <2>5, GoesOn DEF Bytes!Inside
  <2> QED  BY <1>2, <2>6 DEF Bytes!BNext
<1>5. CASE ~(o < RamSize) /\ wb' = wb
  <2>1. Bytes!Outside(last')
    BY <1>2, <1>3, <1>5, <1>r, <1>s DEF Bytes!Outside, BytesOf, Stopped
  <2> QED  BY <1>2, <2>1 DEF Bytes!BNext
<1>6. CASE o < RamSize /\ ~Fits(o, w) /\ wb' = wb
  <2>1. o % w # 0
    BY <1>a, <1>6, AlignedFits
  <2>2. Bytes!Get(last')
    BY <1>2, <1>3, <1>6, <2>1 DEF Bytes!Get, Bytes!IsAligned, BytesOf
  <2>3. Bytes!Inside(last')
    BY <1>2, <1>6, <1>r, <1>s, <2>2, GoesOn DEF Bytes!Inside
  <2> QED  BY <1>2, <2>3 DEF Bytes!BNext
<1> QED  BY <1>1, <1>4, <1>5, <1>6

LEMMA UndefinedRefines ==
    ASSUME MInv, NEW now \in Clock, NEW o \in Offsets, StoreUndefined(Ticked(now), o)
    PROVE  Bytes!BNext
<1> DEFINE r == Ticked(now)
<1>0. r \in [Cells -> Dword] /\ \A c \in PlainCells : r[c] = memory[c]
  BY TickedIs DEF PlainCells
<1> HIDE DEF r
<1>1. /\ last' = Access("undefined", o, 1, FALSE, Zero) /\ wb' = wb
      /\ memory' = r \/ memory' = [r EXCEPT ![o \div 8] = Zero]
  BY DEF StoreUndefined, Exit, r
<1>s. /\ ~Stopped /\ (Stopped' <=> ~(o < StoreLimit))
      /\ ~(o < StoreLimit) => memory' = r
  <2>1. o \in Nat /\ StoreLimit \in Nat
    BY SizesAre DEF Offsets
  <2> QED  BY <2>1 DEF StoreUndefined, Exit, Turn, Stopped, r
<1>2. last' \in Accesses /\ last'.op = "undefined" /\ last'.off = o
  BY <1>1 DEF Access, Accesses, Widths, RamOps, ClintRegs
<1>r. o \in Bytes!Reach(last') <=> o < StoreLimit
  <2>1. o \in Nat /\ StoreLimit \in Nat
    BY SizesAre DEF Offsets
  <2> QED  BY <1>2, <2>1 DEF Bytes!Reach
<1>3. CASE memory' = r
  <2>1. Bytes!Stable(BytesOf(memory))
    <3>1. \A x \in Plain : BytesOf(memory')[x] = BytesOf(memory)[x]
      BY <1>0, <1>3, StableSame
    <3> QED  BY <3>1 DEF Bytes!Stable, BytesOf, Plain
  <2>2. CASE o < StoreLimit
    <3>1. Bytes!Undefined(last')
      BY <1>1, <1>2, <2>1 DEF Bytes!Undefined, BytesOf
    <3>2. Bytes!Inside(last')
      BY <1>2, <1>r, <1>s, <2>2, <3>1, GoesOn DEF Bytes!Inside
    <3> QED  BY <1>2, <3>2 DEF Bytes!BNext
  <2>3. CASE ~(o < StoreLimit)
    <3>1. Bytes!Outside(last')
      BY <1>1, <1>2, <1>r, <1>s, <2>1, <2>3 DEF Bytes!Outside, BytesOf, Stopped
    <3> QED  BY <1>2, <3>1 DEF Bytes!BNext
  <2> QED  BY <2>2, <2>3
<1>4. CASE o < StoreLimit /\ memory' = [r EXCEPT ![o \div 8] = Zero]
  <2>1. ASSUME NEW x \in Plain
        PROVE  BytesOf(memory')[x] = IF x \div 8 = o \div 8 THEN 0 ELSE BytesOf(memory)[x]
    <3>1. x \div 8 \in PlainCells /\ x % 8 \in Lanes
      BY ByteOf DEF Plain
    <3>2. /\ BytesOf(memory')[x] = memory'[x \div 8][x % 8]
          /\ BytesOf(memory)[x] = memory[x \div 8][x % 8]
      BY ByteOf DEF Plain
    <3>3. memory'[x \div 8] = IF x \div 8 = o \div 8 THEN Zero ELSE memory[x \div 8]
      BY <1>0, <1>4, <3>1 DEF PlainCells
    <3>4. Zero[x % 8] = 0
      BY <3>1 DEF Zero
    <3> QED  BY <3>2, <3>3, <3>4
  <2>2. Bytes!Undefined(last')
    BY <1>1, <1>2, <2>1 DEF Bytes!Undefined, Bytes!Stable, BytesOf, Plain
  <2>3. Bytes!Inside(last')
    BY <1>2, <1>4, <1>r, <1>s, <2>2, GoesOn DEF Bytes!Inside
  <2> QED  BY <1>2, <2>3 DEF Bytes!BNext
<1> QED  BY <1>1, <1>3, <1>4, <1>s

LEMMA StepRefines == MInv /\ [MNext]_mvars => [Bytes!BNext]_(Bytes!bvars)
<1> SUFFICES ASSUME MInv, [MNext]_mvars PROVE Bytes!BNext \/ UNCHANGED Bytes!bvars
  OBVIOUS
<1>1. CASE UNCHANGED mvars \/ Ended
  BY <1>1 DEF mvars, Ended, Bytes!bvars
<1>2. CASE Start
  <2>1. \A c \in PlainCells : memory'[c] = memory[c]
    BY <1>2 DEF Start, PlainCells, MInv
  <2>2. ~Stopped /\ ~Stopped' /\ last' = NoAccess
    BY <1>2 DEF Start, Stopped
  <2> QED  BY <2>1, <2>2, NoAccessIs, OtherRefines
<1>3. ASSUME NEW now \in Clock, Instruction(Ticked(now)) PROVE Bytes!BNext
  <2>0. \A c \in PlainCells : Ticked(now)[c] = memory[c]
    BY TickedIs DEF PlainCells
  <2>1. ASSUME NEW reg \in ClintRegs, NEW o \in Lanes, NEW w \in Widths, NEW s \in BOOLEAN,
               ClintLoad(Ticked(now), reg, o, w, s)
        PROVE  Bytes!BNext
    <3>1. last' = NoAccess /\ memory' = Ticked(now) /\ ~Stopped /\ ~Stopped'
      BY <2>1 DEF ClintLoad, Turn, Stopped
    <3> QED  BY <2>0, <3>1, NoAccessIs, OtherRefines
  <2>2. ASSUME NEW reg \in ClintRegs, NEW v \in Values, clint_write(Ticked(now), reg, v)
        PROVE  Bytes!BNext
    <3>1. \A c \in PlainCells : memory'[c] = memory[c]
      BY <2>0, <2>2, TickedIs DEF clint_write, PlainCells
    <3>2. last' = ClintAccess(reg, v) /\ ~Stopped /\ ~Stopped'
      BY <2>2 DEF clint_write, Turn, Stopped
    <3> QED  BY <3>1, <3>2, ClintAccessIs, OtherRefines
  <2>3. ASSUME PollRx(Ticked(now)) \/ ReadTx(Ticked(now)) PROVE Bytes!BNext
    <3>1. last' = NoAccess /\ memory' = Ticked(now) /\ ~Stopped /\ ~Stopped'
      BY <2>3 DEF PollRx, ReadTx, Turn, Stopped
    <3> QED  BY <2>0, <3>1, NoAccessIs, OtherRefines
  <2> QED  BY <1>3, <2>1, <2>2, <2>3, LoadRefines, StoreRefines, AmoRefines, LrRefines,
              UndefinedRefines DEF Instruction
<1> QED  BY <1>1, <1>2, <1>3, LineRefines, DmaRefines DEF MNext

\* The double-words, masks and shifts of load_* and store_*, AMOs, the loader and
\* the accesses of the devices implement a memory of bytes outside the timer
\* cells, in RAM of any size and for whatever is loaded, stored or transferred,
\* and the emulator stops at exactly the accesses that begin outside it.
THEOREM MemoryIsBytes == MSpec => ImplementsBytes
<1>1. MInit => Bytes!BInit
  <2>1. ASSUME MInit PROVE [a \in 0 .. RamSize - 1 |-> memory[a \div 8][a % 8]]
                               \in [0 .. RamSize - 1 -> 0 .. ByteMod - 1]
    <3>1. MInv
      BY <2>1, MInvInit
    <3>2. ASSUME NEW x \in 0 .. RamSize - 1 PROVE memory[x \div 8][x % 8] \in 0 .. ByteMod - 1
      <4>1. x \in Nat /\ x < RamSize
        BY SizesAre
      <4>2. x \div 8 \in Cells /\ x % 8 \in Lanes
        BY <4>1, CellOf
      <4> QED  BY <3>1, <4>2 DEF MInv, Dword, Byte
    <3> QED  BY <3>2
  <2>2. MInit => ~(state \in {"exit", "abort"})
    BY DEF MInit
  <2> QED  BY <2>1, <2>2 DEF Bytes!BInit
<1> QED  BY <1>1, StepRefines, MInvariant, PTL DEF MSpec, ImplementsBytes, Bytes!BSpec
=============================================================================
