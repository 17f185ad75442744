----------------------------- MODULE ByteMemory -----------------------------
(***************************************************************************)
(* What loads, stores and device accesses promise: a memory of bytes,      *)
(* little-endian.  An access naturally aligned for its width is carried    *)
(* out; one that is not is carried out or has no effect; one that begins   *)
(* outside what its kind may reach stops the machine.  The bytes of        *)
(* Volatile may change by themselves.                                      *)
(***************************************************************************)
EXTENDS Integers

CONSTANTS
    Size,       \* bytes that stores can write
    Readable,   \* bytes that can be read
    ByteMod,    \* values of a byte
    Volatile,   \* addresses that others may change
    Accesses    \* the accesses that are made

VARIABLES
    bytes,    \* contents of the memory: address -> byte
    got,      \* the register loaded last, as eight bytes
    stopped,  \* the machine has stopped
    last      \* the access made last

bvars == <<bytes, got, stopped, last>>

IsAligned(a) == a.off % a.width = 0

\* Addresses of access a
Span(a) == a.off .. a.off + a.width - 1

\* Stores have a limit of their own, LR, SC and AMOs do not reach the first
\* byte, loads, devices and the loader reach everything.
Reach(a) == CASE a.op \in {"put", "undefined"} -> 0 .. Size - 1
              [] a.op \in {"amo", "lr"} -> 1 .. Readable - 1
              [] OTHER -> 0 .. Readable - 1

\* The bytes outside Volatile are those of f.
Stable(f) == \A x \in (0 .. Readable - 1) \ Volatile : bytes'[x] = f[x]

Written(a) == [x \in 0 .. Readable - 1 |->
                  IF x \in Span(a) THEN a.data[x - a.off] ELSE bytes[x]]

Put(a) ==
    /\ a.op \in {"put", "dma", "amo"} /\ UNCHANGED got
    /\ \/ Span(a) \subseteq Reach(a) /\ Stable(Written(a))
       \/ ~IsAligned(a) /\ Stable(bytes)

\* The top byte of access a decides what fills the register above it.
Fill(a) == IF a.signed /\ bytes[a.off + a.width - 1] >= ByteMod \div 2
           THEN ByteMod - 1 ELSE 0

Get(a) ==
    /\ a.op = "get" /\ Stable(bytes)
    /\ \/ /\ Span(a) \subseteq Reach(a)
          /\ Span(a) \cap Volatile = {} =>
                got' = [i \in 0 .. 7 |-> IF i < a.width THEN bytes[a.off + i] ELSE Fill(a)]
       \/ ~IsAligned(a) /\ UNCHANGED got

\* LR changes nothing.
Reserve(a) == a.op = "lr" /\ Stable(bytes) /\ UNCHANGED got

\* A store whose width the ISA does not define may clear the double-word.
Undefined(a) ==
    /\ a.op = "undefined" /\ UNCHANGED got
    /\ \/ Stable(bytes)
       \/ Stable([x \in 0 .. Readable - 1 |-> IF x \div 8 = a.off \div 8 THEN 0 ELSE bytes[x]])

\* An access to this memory that begins where it may
Inside(a) ==
    /\ a.off \in Reach(a) /\ UNCHANGED stopped
    /\ Put(a) \/ Get(a) \/ Reserve(a) \/ Undefined(a)

\* One that does not
Outside(a) == a.off \notin Reach(a) /\ stopped' /\ Stable(bytes) /\ UNCHANGED got

\* An access to anything but this memory
Other(a) == a.op \in {"clint", "other"} /\ Stable(bytes) /\ UNCHANGED stopped

BInit == bytes \in [0 .. Readable - 1 -> 0 .. ByteMod - 1] /\ ~stopped

BNext == /\ last' \in Accesses
         /\ Inside(last') \/ Outside(last') \/ Other(last')

BSpec == BInit /\ [][BNext]_bvars
=============================================================================
