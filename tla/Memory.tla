------------------------------- MODULE Memory -------------------------------
(***************************************************************************)
(* The memory of the emulator: the loader, loads and stores of the hart,   *)
(* the CLINT, the console and the accesses of the virtio devices.          *)
(*                                                                         *)
(* RAM is an array of double-words.  A double-word is a function from its  *)
(* eight byte lanes, and the masks, shifts and sums of store_* and load_*  *)
(* work on lanes.  Offsets in RAM are what the code has after subtracting  *)
(* DRAM_BASE.  mtime and mtimecmp are two cells of the same array.         *)
(*                                                                         *)
(* One step is one instruction, with the clock written to mtime before it, *)
(* one access of a device, or one line of the loader.                      *)
(***************************************************************************)
EXTENDS Integers, Sequences

CONSTANTS
    NCells,       \* double-words of RAM: 2^MEM_SIZE
    StoreLimit,   \* bytes that stores may reach: 2^MEM_SIZE in the code
    ByteMod,      \* 256
    TimeCell,     \* MTIME_ADDR / 8
    CmpCell,      \* MTIMECMP_ADDR / 8
    Clock,        \* double-words that mtime may be set to
    Values,       \* registers that are stored
    Image,        \* lines of the image file: their 32-bit words as double-words
    Chars,        \* characters of the console, as double-words
    MaxTurns      \* bound on the steps after loading

Lanes == 0 .. 7
Byte == 0 .. ByteMod - 1
Dword == [Lanes -> Byte]
Cells == 0 .. NCells - 1
RamSize == 8 * NCells

ASSUME SizesAssumption ==
    /\ NCells \in Nat \ {0} /\ ByteMod \in Nat \ {0, 1} /\ ByteMod % 2 = 0
    /\ StoreLimit \in Nat /\ StoreLimit % 8 = 0 /\ StoreLimit <= RamSize
    /\ TimeCell \in Cells /\ CmpCell \in Cells /\ TimeCell # CmpCell
    /\ MaxTurns \in Nat

ASSUME ValuesAssumption ==
    /\ Clock \subseteq Dword /\ Values \subseteq Dword /\ Chars \subseteq Dword
    /\ Image \in Seq({d \in Dword : \A i \in 4 .. 7 : d[i] = 0})
    /\ Len(Image) <= 2 * NCells

Widths == {1, 2, 4, 8}
Zero == [i \in Lanes |-> 0]
AllOnes == [i \in Lanes |-> ByteMod - 1]

\* Offsets of RAM accesses: one double-word beyond the array as well
Offsets == 0 .. RamSize + 7

\* The registers of the CLINT
ClintRegs == {"mtime", "mtimecmp", "other"}

\* What an instruction or a device asks for: at an offset in RAM, or of a
\* register of the CLINT
Access(op, o, w, s, v) ==
    [op |-> op, off |-> o, width |-> w, signed |-> s, data |-> v, reg |-> "other"]
ClintAccess(reg, v) ==
    [op |-> "clint", off |-> 0, width |-> 8, signed |-> FALSE, data |-> v, reg |-> reg]
NoAccess == Access("other", 0, 1, FALSE, Zero)

RamOps == {"put", "dma", "amo", "lr", "get", "undefined"}

Accesses == [op : RamOps \cup {"clint", "other"}, off : Offsets, width : Widths,
             signed : BOOLEAN, data : {Zero} \cup Values \cup {Image[i] : i \in 1 .. Len(Image)},
             reg : ClintRegs]

VARIABLES
    memory,      \* the array
    wb,          \* the register that the last load wrote
    ls_success,  \* whether the last store, or LR or AMO of a word, fitted
    fifo,        \* fifo_queue: characters polled and not yet read
    line,        \* lines of the image that have been loaded
    state,       \* "load", "run", "exit" or "abort"
    turns,       \* steps since loading
    last         \* history: the access of the last step

mvars == <<memory, wb, ls_success, fifo, line, state, turns, last>>

-----------------------------------------------------------------------------
(* Lanes *)

\* d & mask, the mask given by the lanes it keeps
Mask(d, keep) == [i \in Lanes |-> IF i \in keep THEN d[i] ELSE 0]

\* d << 8n and d >> 8n
Shl(d, n) == [i \in Lanes |-> IF i >= n THEN d[i - n] ELSE 0]
Shr(d, n) == [i \in Lanes |-> IF i + n <= 7 THEN d[i + n] ELSE 0]

\* d + e, as long as no lane carries into the next
Plus(d, e) == [i \in Lanes |-> d[i] + e[i]]

\* d | e, where in each lane one of the two is 0
Or(d, e) == [i \in Lanes |-> IF e[i] = 0 THEN d[i] ELSE e[i]]

Low(d, w) == Mask(d, 0 .. w - 1)

\* store_byte, store_halfw, store_word and the test of SD, as for load_*
Fits(o, w) == IF w = 8 THEN o % 8 = 0 ELSE (o % 8) + w <= 8

\* The double-word that store_* writes back: -1 if the access does not fit
stored(o, w, d, v) ==
    IF Fits(o, w)
    THEN Plus(Mask(d, Lanes \ ((o % 8) .. (o % 8) + w - 1)), Shl(Low(v, w), o % 8))
    ELSE AllOnes

loaded(o, w, d) == Low(Shr(d, o % 8), w)

\* sign_extend of the low w lanes
sign_extend(d, w) ==
    [i \in Lanes |-> IF i < w THEN d[i]
                     ELSE IF d[w - 1] >= ByteMod \div 2 THEN ByteMod - 1 ELSE 0]

-----------------------------------------------------------------------------
(* The loader *)

\* A line of the image: the low half replaces the cell, the high half is added.
LoadLine ==
    /\ state = "load" /\ line < Len(Image)
    /\ memory' = [memory EXCEPT ![line \div 2] =
                     IF line % 2 = 0 THEN Image[line + 1]
                                     ELSE Or(@, Shl(Image[line + 1], 4))]
    /\ line' = line + 1
    /\ last' = Access("dma", 4 * line, 4, FALSE, Image[line + 1])
    /\ UNCHANGED <<wb, ls_success, fifo, state, turns>>

\* The timer cells are set after the image has been loaded.
Start ==
    /\ state = "load" /\ line = Len(Image)
    /\ memory' = [memory EXCEPT ![TimeCell] = Zero, ![CmpCell] = AllOnes]
    /\ state' = "run" /\ last' = NoAccess
    /\ UNCHANGED <<wb, ls_success, fifo, line, turns>>

-----------------------------------------------------------------------------
(* Instructions.  r is the array with the clock in it. *)

Turn == state = "run" /\ turns < MaxTurns /\ turns' = turns + 1 /\ UNCHANGED line

Exit(s, r) == state' = s /\ memory' = r /\ UNCHANGED <<wb, ls_success, fifo>>

\* A load of w bytes from RAM
Load(r, o, w, s) ==
    /\ Turn /\ last' = Access("get", o, w, s, Zero)
    /\ \/ o > RamSize /\ Exit("exit", r)
       \/ o = RamSize /\ Exit("abort", r)
       \/ /\ o < RamSize /\ Fits(o, w)
          /\ wb' = IF s THEN sign_extend(loaded(o, w, r[o \div 8]), w)
                        ELSE loaded(o, w, r[o \div 8])
          /\ memory' = r
          /\ UNCHANGED <<ls_success, fifo, state>>
       \/ /\ o < RamSize /\ ~Fits(o, w)      \* LD_ADDR_MISSALIG
          /\ memory' = r
          /\ UNCHANGED <<wb, ls_success, fifo, state>>

\* Mutant: the outcome of store_* is not looked at.
Store_Unchecked(r, o, w, v) ==
    /\ Turn /\ last' = Access("put", o, w, FALSE, v)
    /\ \/ o >= StoreLimit /\ Exit("exit", r)
       \/ /\ o < StoreLimit
          /\ ls_success' = Fits(o, w)
          /\ memory' = [r EXCEPT ![o \div 8] = stored(o, w, @, v)]
          /\ UNCHANGED <<wb, fifo, state>>

\* A store of the low w bytes of v to RAM; one that does not fit is dropped.
Store(r, o, w, v) ==
    /\ Turn /\ last' = Access("put", o, w, FALSE, v)
    /\ \/ o >= StoreLimit /\ Exit("exit", r)
       \/ /\ o < StoreLimit
          /\ ls_success' = Fits(o, w)
          /\ memory' = IF Fits(o, w) THEN [r EXCEPT ![o \div 8] = stored(o, w, @, v)] ELSE r
          /\ UNCHANGED <<wb, fifo, state>>

\* What LR, SC and the AMOs share: address DRAM_BASE itself is "illegal access",
\* memory.at throws beyond the array, and only the word forms set ls_success.
\* The value of rd and the reservations are the subject of Atomics.
AmoEnds(r, o) ==
    \/ o = 0 /\ Exit("exit", r)
    \/ o >= RamSize /\ Exit("abort", r)

AmoFits(o, w) == ls_success' = IF w = 4 THEN Fits(o, w) ELSE ls_success

\* LR.  An SC without a reservation does here what LR.D does.
Lr(r, o, w) ==
    /\ Turn /\ w \in {4, 8} /\ last' = Access("lr", o, w, FALSE, Zero)
    /\ \/ AmoEnds(r, o)
       \/ /\ o > 0 /\ o < RamSize /\ AmoFits(o, w)
          /\ memory' = r
          /\ UNCHANGED <<wb, fifo, state>>

\* An AMO, or an SC that stores: v is what it writes.
Amo(r, o, w, v) ==
    /\ Turn /\ w \in {4, 8} /\ last' = Access("amo", o, w, FALSE, v)
    /\ \/ AmoEnds(r, o)
       \/ /\ o > 0 /\ o < RamSize /\ AmoFits(o, w)
          /\ memory' = IF Fits(o, w) THEN [r EXCEPT ![o \div 8] = stored(o, w, @, v)] ELSE r
          /\ UNCHANGED <<wb, fifo, state>>

\* A store with func3 above 3: ls_success is the one of an earlier instruction
\* and wb_data is 0 since the start of the turn.
StoreUndefined(r, o) ==
    /\ Turn /\ last' = Access("undefined", o, 1, FALSE, Zero)
    /\ \/ o >= StoreLimit /\ Exit("exit", r)
       \/ /\ o < StoreLimit
          /\ memory' = IF ls_success THEN [r EXCEPT ![o \div 8] = Zero] ELSE r
          /\ UNCHANGED <<wb, ls_success, fifo, state>>

\* The CLINT: reads of other offsets give 0, writes to them are ignored.
clint_read(r, reg) == CASE reg = "mtime" -> r[TimeCell]
                        [] reg = "mtimecmp" -> r[CmpCell]
                        [] OTHER -> Zero

\* o is the address modulo 8, which is 0 for mtime and mtimecmp.
ClintLoad(r, reg, o, w, s) ==
    /\ Turn /\ (reg # "other" => o = 0) /\ last' = NoAccess
    /\ LET d == loaded(o, w, clint_read(r, reg))
       IN  wb' = IF ~Fits(o, w) THEN wb ELSE IF s THEN sign_extend(d, w) ELSE d
    /\ memory' = r
    /\ UNCHANGED <<ls_success, fifo, state>>

\* Mutant: the offset is not looked at.
clint_write_AnyOffset(r, reg, v) ==
    /\ Turn /\ last' = ClintAccess(reg, v)
    /\ memory' = [r EXCEPT ![CmpCell] = v]
    /\ UNCHANGED <<wb, ls_success, fifo, state>>

\* A write stores the whole register whatever its width.
clint_write(r, reg, v) ==
    /\ Turn /\ last' = ClintAccess(reg, v)
    /\ memory' = IF reg = "mtimecmp" THEN [r EXCEPT ![CmpCell] = v] ELSE r
    /\ UNCHANGED <<wb, ls_success, fifo, state>>

\* The console.  A load from FIFO_ADDR_RX reads a character of the host and
\* returns 0, or 2 at the end of input.
PollRx(r) ==
    /\ Turn /\ last' = NoAccess
    /\ \/ \E c \in Chars : fifo' = Append(fifo, c) /\ wb' = Zero
       \/ wb' = [Zero EXCEPT ![0] = 2 % ByteMod] /\ UNCHANGED fifo
    /\ memory' = r /\ UNCHANGED <<ls_success, state>>

\* A load from FIFO_ADDR_TX returns a character, or -1.
ReadTx(r) ==
    /\ Turn /\ last' = NoAccess
    /\ IF fifo = <<>> THEN wb' = AllOnes /\ UNCHANGED fifo
                      ELSE wb' = Head(fifo) /\ fifo' = Tail(fifo)
    /\ memory' = r /\ UNCHANGED <<ls_success, state>>

\* The top of the loop: mtime is the host's clock, which may go back.
Ticked(now) == [memory EXCEPT ![TimeCell] = now]

Instruction(r) ==
    \/ \E o \in Offsets, w \in Widths, s \in BOOLEAN : Load(r, o, w, s)
    \/ \E o \in Offsets, w \in Widths, v \in Values : Store(r, o, w, v)
    \/ \E o \in Offsets : StoreUndefined(r, o)
    \/ \E o \in Offsets, w \in Widths : Lr(r, o, w)
    \/ \E o \in Offsets, w \in Widths, v \in Values : Amo(r, o, w, v)
    \/ \E reg \in ClintRegs, o \in Lanes, w \in Widths, s \in BOOLEAN :
          ClintLoad(r, reg, o, w, s)
    \/ \E reg \in ClintRegs, v \in Values : clint_write(r, reg, v)
    \/ PollRx(r) \/ ReadTx(r)

-----------------------------------------------------------------------------
(* Devices: virtio_read16, virtio_write16 and virtio_write32 refuse misaligned *)
(* addresses, mem_read* and mem_write* look at nothing.                        *)

DmaWrite(o, w, v) ==
    /\ Turn /\ w \in {1, 2, 4} /\ o % w = 0
    /\ last' = Access("dma", o, w, FALSE, v)
    /\ \/ o >= RamSize /\ Exit("abort", memory)
       \/ /\ o < RamSize
          /\ memory' = [memory EXCEPT ![o \div 8] = stored(o, w, @, v)]
          /\ UNCHANGED <<wb, ls_success, fifo, state>>

-----------------------------------------------------------------------------
Ended == (state \in {"exit", "abort"} \/ turns = MaxTurns) /\ UNCHANGED mvars

MInit ==
    /\ memory = [c \in Cells |-> Zero] /\ wb = Zero /\ ls_success = FALSE
    /\ fifo = <<>> /\ line = 0 /\ state = "load" /\ turns = 0 /\ last = NoAccess

MNext ==
    \/ LoadLine \/ Start
    \/ \E now \in Clock : Instruction(Ticked(now))
    \/ \E o \in Offsets, w \in Widths, v \in Values : DmaWrite(o, w, v)
    \/ Ended

MSpec == MInit /\ [][MNext]_mvars

-----------------------------------------------------------------------------
(* Properties *)

TimerBytes == {a \in 0 .. RamSize - 1 : a \div 8 \in {TimeCell, CmpCell}}

Bytes == INSTANCE ByteMemory WITH
    Size <- StoreLimit, Readable <- RamSize, Volatile <- TimerBytes,
    bytes <- [a \in 0 .. RamSize - 1 |-> memory[a \div 8][a % 8]], got <- wb,
    stopped <- state \in {"exit", "abort"}

\* The array of double-words, with its masks and shifts, is a memory of bytes
\* outside the two timer cells: what the loader, a store, an AMO or a device
\* writes is written to exactly the bytes it names or, misaligned, not at all,
\* and loads read it.  The emulator stops at an access outside the bytes its
\* kind may reach, and at no other.
ImplementsBytes == Bytes!BSpec

\* mtimecmp moves only when an access names it: a write to that register of the
\* CLINT, which leaves its value there, or a write to the RAM address that the
\* same cell has.
TimerMoves ==
    [][state = "run" /\ memory'[CmpCell] # memory[CmpCell] =>
          \/ /\ last'.op = "clint" /\ last'.reg = "mtimecmp"
             /\ memory'[CmpCell] = last'.data
          \/ /\ last'.op \in {"put", "dma", "amo", "undefined"}
             /\ last'.off \div 8 = CmpCell]_mvars
=============================================================================
