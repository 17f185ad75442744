----------------------------- MODULE DescChain -----------------------------
(***************************************************************************)
(* Copies between a buffer of the device and a chain of descriptors in     *)
(* guest memory (temu/virtio.c, memcpy_to_from_queue), and the sizes of a  *)
(* chain (get_desc_rw_size).                                               *)
(*                                                                         *)
(* A chain is the sequence of the descriptors that the next fields lead    *)
(* through: a length and whether the device writes it.  A byte of guest    *)
(* memory is named by its descriptor and its place in it.  One step is one *)
(* turn of one of the loops.                                               *)
(***************************************************************************)
EXTENDS Integers, Sequences

CONSTANTS
    MaxDescs,   \* descriptors of a chain
    IntLimit    \* 2^31: an int lies between -IntLimit and IntLimit - 1

ASSUME ChainAssumption == MaxDescs \in Nat \ {0} /\ IntLimit \in Nat \ {0}

\* Values of a uint32_t, and the conversions between it and int
UintMod == 2 * IntLimit
ToUint(x) == x % UintMod
ToInt(x) == IF x % UintMod < IntLimit THEN x % UintMod ELSE (x % UintMod) - UintMod

Desc == [len : 0 .. UintMod - 1, write : BOOLEAN]
Chains == UNION {[1 .. n -> Desc] : n \in 1 .. MaxDescs}

VARIABLES
    chain,   \* the chain
    to,      \* TRUE: to the queue, FALSE: from it
    start,   \* offset and
    total,   \* count of the call
    pc,      \* the loop the call is in; "done" after it
    i,       \* desc_idx: place in the chain
    offset,  \* bytes still to skip, then the place in the descriptor
    count,   \* bytes still to copy
    moved,   \* history: the bytes of guest memory that were copied, in order
    ret      \* 0 or -1, the value returned

cvars == <<chain, to, start, total, pc, i, offset, count, moved, ret>>

call == <<chain, to, start, total>>

HasNext == i < Len(chain)

Return(r) == pc' = "done" /\ ret' = r

-----------------------------------------------------------------------------

CopyInit ==
    /\ chain \in Chains /\ to \in BOOLEAN
    /\ start \in 0 .. IntLimit - 1 /\ total \in 0 .. IntLimit - 1
    /\ pc = "entry" /\ i = 1 /\ offset = start /\ count = total
    /\ moved = <<>> /\ ret = 0

\* Nothing to copy; or the first descriptor is read.
Entry ==
    /\ pc = "entry"
    /\ IF count = 0 THEN Return(0)
       ELSE pc' = (IF to THEN "find" ELSE "seek") /\ UNCHANGED ret
    /\ UNCHANGED <<call, i, offset, count, moved>>

\* "find the first write descriptor"
FindWrite ==
    /\ pc = "find"
    /\ \/ chain[i].write /\ pc' = "seek" /\ UNCHANGED <<i, ret>>
       \/ ~chain[i].write /\ ~HasNext /\ Return(-1) /\ UNCHANGED i
       \/ ~chain[i].write /\ HasNext /\ i' = i + 1 /\ UNCHANGED <<pc, ret>>
    /\ UNCHANGED <<call, offset, count, moved>>

\* "find the descriptor at offset": offset is an int, desc.len a uint32_t, so
\* they are compared and subtracted as uint32_t.
Seek ==
    /\ pc = "seek"
    /\ \/ chain[i].write # to /\ Return(-1) /\ UNCHANGED <<i, offset>>
       \/ /\ chain[i].write = to /\ ToUint(offset) < chain[i].len
          /\ pc' = "copy" /\ UNCHANGED <<i, offset, ret>>
       \/ /\ chain[i].write = to /\ ToUint(offset) >= chain[i].len /\ ~HasNext
          /\ Return(-1) /\ UNCHANGED <<i, offset>>
       \/ /\ chain[i].write = to /\ ToUint(offset) >= chain[i].len /\ HasNext
          /\ i' = i + 1 /\ offset' = ToInt(offset - chain[i].len)
          /\ UNCHANGED <<pc, ret>>
    /\ UNCHANGED <<call, count, moved>>

\* l, the bytes of this turn: min_int takes desc.len - offset as an int.  It is
\* negative where more than IntLimit bytes are left; such a piece copies nothing.
Piece == LET rest == ToInt(chain[i].len - offset)
         IN  IF count < rest THEN count ELSE rest

\* Mutant: a turn that has copied nothing stays at its descriptor.
Copy_Spins ==
    /\ pc = "copy"
    /\ count' = ToInt(count - Piece)
    /\ moved' = moved \o [k \in 1 .. Piece |-> <<i, offset + k - 1>>]
    /\ \/ count' = 0 /\ Return(0) /\ UNCHANGED <<i, offset>>
       \/ Piece = 0 /\ count' # 0 /\ UNCHANGED <<i, offset, pc, ret>>
       \/ Piece # 0 /\ count' # 0 /\ ~HasNext /\ Return(-1) /\ UNCHANGED <<i, offset>>
       \/ /\ Piece # 0 /\ count' # 0 /\ HasNext
          /\ i' = i + 1
          /\ IF chain[i'].write # to
             THEN Return(-1) /\ UNCHANGED offset
             ELSE offset' = 0 /\ UNCHANGED <<pc, ret>>
    /\ UNCHANGED call

\* Mutant: the direction of the next descriptor is not looked at.
Copy_AnyDirection ==
    /\ pc = "copy"
    /\ count' = ToInt(count - Piece)
    /\ moved' = moved \o [k \in 1 .. Piece |-> <<i, offset + k - 1>>]
    /\ \/ count' = 0 /\ Return(0) /\ UNCHANGED <<i, offset>>
       \/ count' # 0 /\ ~HasNext /\ Return(-1) /\ UNCHANGED <<i, offset>>
       \/ count' # 0 /\ HasNext /\ i' = i + 1 /\ offset' = 0 /\ UNCHANGED <<pc, ret>>
    /\ UNCHANGED call

\* The copy of one piece.  While bytes are left the piece was rest, after which
\* offset == desc.len as uint32_t: the next descriptor follows, and has to have
\* the same direction.
Copy ==
    /\ pc = "copy"
    /\ count' = ToInt(count - Piece)
    /\ moved' = moved \o [k \in 1 .. Piece |-> <<i, offset + k - 1>>]
    /\ \/ count' = 0 /\ Return(0) /\ UNCHANGED <<i, offset>>
       \/ count' # 0 /\ ~HasNext /\ Return(-1) /\ UNCHANGED <<i, offset>>
       \/ /\ count' # 0 /\ HasNext
          /\ i' = i + 1
          /\ IF chain[i'].write # to
             THEN Return(-1) /\ UNCHANGED offset
             ELSE offset' = 0 /\ UNCHANGED <<pc, ret>>
    /\ UNCHANGED call

Returned == pc = "done" /\ UNCHANGED cvars

CopyNext == Entry \/ FindWrite \/ Seek \/ Copy \/ Returned

\* The call runs in one thread.
CopySpec == CopyInit /\ [][CopyNext]_cvars /\ WF_cvars(CopyNext)

-----------------------------------------------------------------------------
(* get_desc_rw_size *)

\* The writable part begins at the first descriptor the device writes.
FirstWrite(c) ==
    IF \E j \in 1 .. Len(c) : c[j].write
    THEN CHOOSE j \in 1 .. Len(c) : c[j].write /\ \A k \in 1 .. j - 1 : ~c[k].write
    ELSE Len(c) + 1

\* Bytes of the first n descriptors
Sums(c) ==
    LET sum[n \in 0 .. Len(c)] == IF n = 0 THEN 0 ELSE sum[n - 1] + c[n].len
    IN  sum

\* Bytes of descriptors j .. k
Bytes(c, j, k) == IF k < j THEN 0 ELSE Sums(c)[k] - Sums(c)[j - 1]

\* -1 if a readable descriptor follows a writable one
WellFormed(c) == \A j \in FirstWrite(c) .. Len(c) : c[j].write

\* Mutant: the first loop does not stop at a writable descriptor.
get_desc_rw_size_NoBreak(c) ==
    [read |-> ToInt(Bytes(c, 1, Len(c))), write |-> ToInt(Bytes(c, FirstWrite(c), Len(c)))]

\* The sums are ints.
get_desc_rw_size(c) ==
    [read |-> ToInt(Bytes(c, 1, FirstWrite(c) - 1)),
     write |-> ToInt(Bytes(c, FirstWrite(c), Len(c)))]

-----------------------------------------------------------------------------
(* Properties *)

\* The descriptors a copy runs over: from the first one of its direction on,
\* as long as the direction stays the same
Part == LET first == IF to THEN FirstWrite(chain) ELSE 1
        IN  {j \in first .. Len(chain) : \A k \in first .. j : chain[k].write = to}

\* Place of byte b of descriptor j, counted from the start of the part
Place(j, b) == b + Bytes(chain, 1, j - 1)
                 - (IF to THEN Bytes(chain, 1, FirstWrite(chain) - 1) ELSE 0)

\* The buffers of a driver lie in RAM, which has 2^31 bytes, and do not fill it.
InRam == \A j \in 1 .. Len(chain) : chain[j].len < IntLimit

\* For descriptors in RAM, the bytes copied are the bytes start, start + 1, ...
\* of the part, taken as one sequence, none twice and none left out, zero-length
\* descriptors and pieces that end at a border included; never a byte of the
\* other direction.  A call that returns 0 has copied all of them, one that
\* fails fewer.
CopyExact ==
    InRam =>
       /\ \A k \in 1 .. Len(moved) :
             /\ moved[k][1] \in Part /\ moved[k][2] \in 0 .. chain[moved[k][1]].len - 1
             /\ Place(moved[k][1], moved[k][2]) = start + k - 1
       /\ pc = "done" => (ret = 0) = (Len(moved) = total)

\* The size of the part that the copy is about
Size == IF to THEN get_desc_rw_size(chain).write ELSE get_desc_rw_size(chain).read

\* The callers take the sizes of get_desc_rw_size for a promise and do not
\* look at the result: in a well-formed chain of descriptors in RAM a copy
\* inside the size succeeds, also when the sum of the lengths has wrapped.
SizesSuffice ==
    pc = "done" /\ InRam /\ WellFormed(chain) /\ start + total <= Size => ret = 0

\* The call returns, whatever the lengths in the chain: a piece that is empty,
\* or negative, still goes on to the next descriptor.
CopyReturns == <>(pc = "done")
=============================================================================
