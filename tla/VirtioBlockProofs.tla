------------------------- MODULE VirtioBlockProofs -------------------------
(***************************************************************************)
(* What the block device and the PLIC guarantee for rings of every size,   *)
(* every set of sectors and values and every mode of the image.            *)
(***************************************************************************)
EXTENDS VirtioBlock, FiniteSetTheorems, TLAPS

-----------------------------------------------------------------------------
(* The helpers *)

\* Ring indices stay in range: index + 1 as a 16-bit value, index & (num - 1).
LEMMA IndexArith ==
    /\ N \in Nat /\ N > 0 /\ IdxMod \in Nat /\ IdxMod > 0
    /\ 0 \in Indices /\ 0 \in Heads
    /\ \A i \in Indices : Inc(i) \in Indices /\ Slot(i) \in Heads
  <1>1. N \in Nat /\ N > 0 /\ IdxMod \in Nat /\ IdxMod > 0
    BY RingAssumption
  <1>2. 0 \in Indices /\ 0 \in Heads
    BY <1>1 DEF Indices, Heads
  <1>3. ASSUME NEW a \in Nat, NEW b \in Nat, b > 0 PROVE a % b \in 0 .. b - 1
    BY <1>3
  <1>4. ASSUME NEW i \in Indices PROVE Inc(i) \in Indices /\ Slot(i) \in Heads
    BY <1>1, <1>3, <1>4 DEF Inc, Slot, Indices, Heads
  <1> QED BY <1>1, <1>2, <1>4

\* The PLIC's entry points keep the shape of its state and set these fields.
LEMMA PlicFields ==
    ASSUME NEW p \in PlicType, NEW b \in Bit
    PROVE  /\ plic_set_irq_emu(p, b) \in PlicType
           /\ plic_set_irq_emu(p, b).pending = b
           /\ plic_set_irq_emu(p, b).seip = b
           /\ plic_set_irq_emu(p, b).served = p.served
           /\ plic_read(p) \in PlicType
           /\ plic_read(p).pending = p.pending
           /\ plic_read(p).seip = 0
           /\ p.seip = 1 => plic_read(p).served = 1
           /\ p.seip = 0 => plic_read(p).served = p.served
           /\ plic_write(p) \in PlicType
           /\ plic_write(p).pending = p.pending
           /\ plic_write(p).seip = p.pending
           /\ plic_write(p).served = 0
  <1>1. /\ plic_set_irq_emu(p, b) \in PlicType
        /\ plic_set_irq_emu(p, b).pending = b
        /\ plic_set_irq_emu(p, b).seip = b
        /\ plic_set_irq_emu(p, b).served = p.served
    BY DEF plic_set_irq_emu, PlicType, Bit
  <1>2. /\ plic_write(p) \in PlicType
        /\ plic_write(p).pending = p.pending
        /\ plic_write(p).seip = p.pending
        /\ plic_write(p).served = 0
    BY DEF plic_write, PlicType, Bit
  <1>3. /\ plic_read(p) \in PlicType
        /\ plic_read(p).pending = p.pending
        /\ plic_read(p).seip = 0
        /\ p.seip = 1 => plic_read(p).served = 1
        /\ p.seip = 0 => plic_read(p).served = p.served
    BY DEF plic_read, PlicType, Bit
  <1> QED BY <1>1, <1>2, <1>3

\* What the device writes to guest memory for a request it has served
LEMMA ConsumeType ==
    ASSUME NEW m \in MemType, NEW h \in Heads
    PROVE  /\ virtio_consume_desc(m, h) \in MemType
           /\ virtio_consume_desc(m, h).used_idx = Inc(m.used_idx)
  BY IndexArith DEF virtio_consume_desc, MemType

\* The image keeps its shape whatever is written to it.
LEMMA StoreKeepsType ==
    ASSUME NEW s \in StoreType, NEW x \in Sectors, NEW v \in Vals
    PROVE  /\ bf_read_async(s, x) \in Vals
           /\ bf_write_async(s, x, v).store \in StoreType
           /\ bf_write_async(s, x, v).ret \in Statuses
  <1>1. bf_read_async(s, x) \in Vals
    <2>1. s.file[x] \in Vals /\ s.table[x] \in Vals \cup {Untouched}
      BY DEF StoreType
    <2> QED BY <2>1 DEF bf_read_async
  <1>2. CASE s.mode = "ro"
    BY <1>1, <1>2 DEF bf_write_async, Statuses
  <1>3. CASE s.mode = "rw"
    BY <1>1, <1>3 DEF bf_write_async, Statuses, StoreType
  <1>4. CASE s.mode = "snapshot"
    BY <1>1, <1>4 DEF bf_write_async, Statuses, StoreType
  <1>5. s.mode \in Modes
    BY DEF StoreType
  <1> QED BY <1>2, <1>3, <1>4, <1>5, ModeAssumption

-----------------------------------------------------------------------------
(* Type correctness *)

LEMMA InitType == VBInit => VBTypeOK
  <1> SUFFICES ASSUME VBInit PROVE VBTypeOK
    OBVIOUS
  <1>1. dev \in DevType
    BY IndexArith DEF VBInit, ResetDev, DevType, Bit
  <1>2. mem \in MemType
    BY IndexArith DEF VBInit, MemType, NewChains
  <1>3. store \in StoreType
    BY DEF VBInit, StoreType
  <1>4. plic \in PlicType
    BY DEF VBInit, PlicReset, PlicType, Bit
  <1>5. drv \in DrvType
    BY IndexArith DEF VBInit, DrvType
  <1> QED BY <1>1, <1>2, <1>3, <1>4, <1>5 DEF VBTypeOK

LEMMA TypeStep == VBTypeOK /\ [VBNext]_vbvars => VBTypeOK'
  <1> SUFFICES ASSUME VBTypeOK, [VBNext]_vbvars PROVE VBTypeOK'
    OBVIOUS
  <1>1. /\ dev \in DevType /\ mem \in MemType /\ store \in StoreType
        /\ plic \in PlicType /\ drv \in DrvType
    BY DEF VBTypeOK
  <1>2. NextHead \in Heads
    BY <1>1, IndexArith DEF NextHead, MemType, DevType
  <1>3. RaiseIrq.int_status \in Bit /\ RaiseIrq.plic \in PlicType
    BY <1>1, PlicFields DEF RaiseIrq, Bit
  <1>4. CASE ServeNext
    <2>1. drv' \in DrvType
      BY <1>1, <1>4 DEF ServeNext
    <2>2. CASE ServeIn(NextHead)
      <3> DEFINE h == NextHead
                 c == mem.chain[h]
                 m == [mem EXCEPT !.chain[h].data = bf_read_async(store, c.sector),
                                  !.chain[h].status = "ok"]
      <3>1. c \in Chains
        BY <1>1, <1>2 DEF MemType
      <3>2. bf_read_async(store, c.sector) \in Vals
        BY <1>1, <3>1, StoreKeepsType DEF Chains
      <3>3. m \in MemType
        BY <1>1, <1>2, <3>1, <3>2 DEF MemType, Chains, Statuses
      <3>4. mem' \in MemType
        BY <1>2, <2>2, <3>3, ConsumeType DEF ServeIn
      <3>5. dev' \in DevType
        BY <1>1, <1>3, <2>2, IndexArith DEF ServeIn, DevType
      <3>6. plic' \in PlicType /\ store' \in StoreType
        BY <1>1, <1>3, <2>2 DEF ServeIn
      <3> QED BY <2>1, <3>4, <3>5, <3>6 DEF VBTypeOK
    <2>3. CASE ServeOut(NextHead)
      <3> DEFINE h == NextHead
                 c == mem.chain[h]
                 w == bf_write_async(store, c.sector, c.data)
                 m == [mem EXCEPT !.chain[h].status = w.ret]
      <3>1. c \in Chains
        BY <1>1, <1>2 DEF MemType
      <3>2. w.store \in StoreType /\ w.ret \in Statuses
        BY <1>1, <3>1, StoreKeepsType DEF Chains
      <3>3. m \in MemType
        <4> HIDE DEF w
        <4> QED BY <1>1, <1>2, <3>1, <3>2 DEF MemType, Chains
      <3>4. mem' = virtio_consume_desc(m, h) /\ store' = w.store
        BY <2>3 DEF ServeOut
      <3>5. mem' \in MemType
        <4> HIDE DEF m, h
        <4> QED BY <1>2, <3>3, <3>4, ConsumeType DEF h
      <3>6. dev' \in DevType
        BY <1>1, <1>3, <2>3, IndexArith DEF ServeOut, DevType
      <3>7. plic' \in PlicType /\ store' \in StoreType
        BY <1>3, <2>3, <3>2, <3>4 DEF ServeOut
      <3> QED BY <2>1, <3>5, <3>6, <3>7 DEF VBTypeOK
    <2>4. CASE DropRequest(NextHead)
      BY <1>1, <2>1, <2>4, IndexArith DEF DropRequest, DevType, VBTypeOK
    <2> QED BY <1>4, <2>2, <2>3, <2>4 DEF ServeNext
  <1>5. CASE NotifyDone
    BY <1>1, <1>5 DEF NotifyDone, DevType, VBTypeOK
  <1>6. ASSUME NEW h \in Heads, NEW c \in NewChains PROVE AddTo(h, c) \in MemType
    BY <1>1, <1>6, IndexArith DEF AddTo, MemType, NewChains
  <1>7. [mem EXCEPT !.avail_idx = Inc(@)] \in MemType
    BY <1>1, IndexArith DEF MemType
  <1>8. [dev EXCEPT !.loop = mem.avail_idx] \in DevType
    BY <1>1 DEF DevType, MemType
  <1>9. CASE Add
    <2> PICK h \in drv.free, c \in NewChains :
               /\ mem' = AddTo(h, c)
               /\ drv' = [drv EXCEPT !.proc = "added", !.free = @ \ {h}]
      BY <1>9 DEF Add
    <2>1. h \in Heads
      BY <1>1 DEF DrvType
    <2> QED BY <1>1, <1>6, <1>9, <2>1 DEF Add, DrvType, VBTypeOK
  <1>10. CASE Publish
    BY <1>1, <1>7, <1>10 DEF Publish, DrvType, VBTypeOK
  <1>11. CASE Notify
    BY <1>1, <1>8, <1>11 DEF Notify, EnterNotify, DrvType, VBTypeOK
  <1>12. CASE ResetDevice
    <2>1. dev' \in DevType
      BY <1>12, IndexArith DEF ResetDevice, ResetDev, DevType, Bit
    <2>2. mem' \in MemType
      BY <1>1, <1>12, IndexArith DEF ResetDevice, MemType
    <2>3. drv' \in DrvType
      BY <1>1, <1>12, IndexArith DEF ResetDevice, DrvType
    <2>4. plic' \in PlicType
      BY <1>1, <1>12, PlicFields DEF ResetDevice, Bit
    <2> QED BY <1>1, <1>12, <2>1, <2>2, <2>3, <2>4 DEF ResetDevice, VBTypeOK
  <1>13. CASE TakeIrq
    BY <1>1, <1>13 DEF TakeIrq, IrqStep, DrvType, VBTypeOK
  <1>14. CASE Claim
    BY <1>1, <1>14, PlicFields DEF Claim, IrqStep, DrvType, VBTypeOK, Bit
  <1>15. CASE Ack
    BY <1>1, <1>15, PlicFields DEF Ack, IrqStep, DrvType, DevType, VBTypeOK, Bit
  <1>16. CASE CollectUsed
    <2>1. mem.used_ring[Slot(drv.seen)] \in Heads
      BY <1>1, IndexArith DEF MemType, DrvType
    <2> QED BY <1>1, <1>16, <2>1, IndexArith DEF CollectUsed, DrvType, VBTypeOK
  <1>17. CASE AddInIrq
    <2> PICK h \in drv.free, c \in NewChains :
               /\ mem' = AddTo(h, c)
               /\ drv' = [drv EXCEPT !.irq = "added", !.free = @ \ {h}]
      BY <1>17 DEF AddInIrq
    <2>1. h \in Heads
      BY <1>1 DEF DrvType
    <2> QED BY <1>1, <1>6, <1>17, <2>1 DEF AddInIrq, DrvType, VBTypeOK
  <1>18. CASE PublishInIrq
    BY <1>1, <1>7, <1>18 DEF PublishInIrq, IrqStep, DrvType, VBTypeOK
  <1>19. CASE NotifyInIrq
    BY <1>1, <1>8, <1>19 DEF NotifyInIrq, EnterNotify, IrqStep, DrvType, VBTypeOK
  <1>20. CASE Drained
    BY <1>1, <1>20 DEF Drained, IrqStep, DrvType, VBTypeOK
  <1>21. CASE Complete
    BY <1>1, <1>21, PlicFields DEF Complete, IrqStep, DrvType, VBTypeOK, Bit
  <1>22. CASE UNCHANGED vbvars
    BY <1>1, <1>22 DEF vbvars, VBTypeOK
  <1> QED
    BY <1>4, <1>5, <1>9, <1>10, <1>11, <1>12, <1>13, <1>14, <1>15, <1>16, <1>17,
       <1>18, <1>19, <1>20, <1>21, <1>22 DEF VBNext, Device, Process, Handler

\* The registers, the rings, the image, the PLIC and the driver keep their
\* types through every store to the device and every step of queue_notify.
THEOREM BlockTypeCorrect == VBSpec => []VBTypeOK
  BY InitType, TypeStep, PTL DEF VBSpec

-----------------------------------------------------------------------------
(* Interrupts *)

\* The three interrupt invariants together are inductive.
Delivery == LineFollowsStatus /\ NoLostInterrupt /\ UsedHasInterrupt

LEMMA InitDelivery == VBInit => Delivery
  <1> SUFFICES ASSUME VBInit PROVE Delivery
    OBVIOUS
  <1>1. mem.used_idx = 0 /\ drv.seen = 0
    BY DEF VBInit
  <1> QED BY <1>1 DEF VBInit, ResetDev, PlicReset, Delivery, LineFollowsStatus,
                      NoLostInterrupt, UsedHasInterrupt

LEMMA DeliveryStep == VBTypeOK /\ Delivery /\ [VBNext]_vbvars => Delivery'
  <1> SUFFICES ASSUME VBTypeOK, Delivery, [VBNext]_vbvars PROVE Delivery'
    OBVIOUS
  <1> USE DEF Delivery, LineFollowsStatus, NoLostInterrupt, UsedHasInterrupt
  <1>1. /\ dev \in DevType /\ mem \in MemType /\ plic \in PlicType /\ drv \in DrvType
    BY DEF VBTypeOK
  <1>2. RaiseIrq.int_status = 1 /\ RaiseIrq.plic.pending = 1 /\ RaiseIrq.plic.seip = 1
    BY <1>1, PlicFields DEF RaiseIrq, Bit
  <1>3. CASE ServeNext
    <2>1. CASE ServeIn(NextHead) \/ ServeOut(NextHead)
      <3>1. dev'.int_status = 1 /\ plic'.pending = 1 /\ plic'.seip = 1
        BY <1>1, <1>2, <2>1 DEF ServeIn, ServeOut, DevType
      <3> QED BY <3>1
    <2>2. CASE DropRequest(NextHead)
      BY <1>1, <1>3, <2>2 DEF ServeNext, DropRequest, DevType
    <2> QED BY <1>3, <2>1, <2>2 DEF ServeNext
  <1>4. CASE NotifyDone
    BY <1>1, <1>4 DEF NotifyDone, DevType
  <1>5. CASE Add \/ AddInIrq
    <2>1. /\ dev' = dev /\ plic' = plic /\ mem'.used_idx = mem.used_idx
          /\ drv'.seen = drv.seen
      BY <1>1, <1>5 DEF Add, AddInIrq, AddTo, MemType, DrvType
    <2>2. CASE Add
      BY <1>1, <2>1, <2>2 DEF Add, DrvType
    <2>3. CASE AddInIrq
      BY <2>1, <2>3 DEF AddInIrq
    <2> QED BY <1>5, <2>2, <2>3
  <1>6. CASE Publish \/ PublishInIrq
    BY <1>1, <1>6 DEF Publish, PublishInIrq, IrqStep, MemType, DrvType
  <1>7. CASE Notify \/ NotifyInIrq
    BY <1>1, <1>7 DEF Notify, NotifyInIrq, EnterNotify, IrqStep, DevType, DrvType
  <1>8. CASE ResetDevice
    <2>1. mem'.used_idx = 0 /\ drv'.seen = 0 /\ dev'.int_status = 0
      BY <1>1, <1>8 DEF ResetDevice, ResetDev, MemType, DrvType
    <2>2. plic'.pending = 0 /\ plic'.seip = 0
      BY <1>1, <1>8, PlicFields DEF ResetDevice, Bit
    <2> QED BY <2>1, <2>2
  <1>9. CASE TakeIrq
    BY <1>1, <1>9 DEF TakeIrq, IrqStep, DrvType
  <1>10. CASE Claim
    <2>1. /\ plic'.pending = plic.pending /\ plic'.seip = 0
          /\ plic.seip = 1 => plic'.served = 1
          /\ plic.seip = 0 => plic'.served = plic.served
      BY <1>1, <1>10, PlicFields DEF Claim, Bit
    <2> QED BY <1>1, <1>10, <2>1 DEF Claim, IrqStep, DrvType, PlicType, Bit
  <1>11. CASE Ack
    <2>1. plic'.pending = 0 /\ plic'.seip = 0 /\ dev'.int_status = 0 /\ drv'.irq = "drain"
      BY <1>1, <1>11, PlicFields DEF Ack, IrqStep, DevType, DrvType, Bit
    <2> QED BY <2>1
  <1>12. CASE CollectUsed
    BY <1>1, <1>12 DEF CollectUsed, DrvType
  <1>13. CASE Drained
    BY <1>1, <1>13 DEF Drained, IrqStep, DrvType
  <1>14. CASE Complete
    <2>1. plic'.pending = plic.pending /\ plic'.seip = plic.pending
      BY <1>1, <1>14, PlicFields DEF Complete, Bit
    <2> QED BY <1>1, <1>14, <2>1 DEF Complete, IrqStep, DrvType, PlicType, Bit
  <1>15. CASE UNCHANGED vbvars
    BY <1>15 DEF vbvars
  <1> QED
    BY <1>3, <1>4, <1>5, <1>6, <1>7, <1>8, <1>9, <1>10, <1>11, <1>12, <1>13, <1>14,
       <1>15 DEF VBNext, Device, Process, Handler

\* virtio.c and the PLIC agree on the line at every step.
THEOREM LineConsistent == VBSpec => []LineFollowsStatus
  <1>1. VBTypeOK /\ Delivery /\ [VBNext]_vbvars => VBTypeOK' /\ Delivery'
    BY TypeStep, DeliveryStep
  <1>2. Delivery => LineFollowsStatus
    BY DEF Delivery
  <1> QED BY InitType, InitDelivery, <1>1, <1>2, PTL DEF VBSpec

\* plic_set_irq_emu, plic_read and plic_write never lose a raised line.
THEOREM InterruptNotLost == VBSpec => []NoLostInterrupt
  <1>1. VBTypeOK /\ Delivery /\ [VBNext]_vbvars => VBTypeOK' /\ Delivery'
    BY TypeStep, DeliveryStep
  <1>2. Delivery => NoLostInterrupt
    BY DEF Delivery
  <1> QED BY InitType, InitDelivery, <1>1, <1>2, PTL DEF VBSpec

\* A finished request never sits in the used ring unannounced.
THEOREM UsedAnnounced == VBSpec => []UsedHasInterrupt
  <1>1. VBTypeOK /\ Delivery /\ [VBNext]_vbvars => VBTypeOK' /\ Delivery'
    BY TypeStep, DeliveryStep
  <1>2. Delivery => UsedHasInterrupt
    BY DEF Delivery
  <1> QED BY InitType, InitDelivery, <1>1, <1>2, PTL DEF VBSpec

-----------------------------------------------------------------------------
(* The rings *)

\* Distances between ring indices
LEMMA DistanceArith ==
    ASSUME NEW i \in Indices, NEW j \in Indices
    PROVE  /\ Distance(i, j) \in 0 .. IdxMod - 1
           /\ Distance(i, j) = 0 <=> i = j
           /\ Distance(i, j) < IdxMod - 1 => Distance(i, Inc(j)) = Distance(i, j) + 1
           /\ i # j => Distance(Inc(i), j) = Distance(i, j) - 1
  <1> DEFINE M == IdxMod
  <1>1. M \in Nat /\ M > 0 /\ i \in 0 .. M - 1 /\ j \in 0 .. M - 1
    BY IndexArith DEF Indices
  <1>2. \A a \in 0 .. M - 1 : a % M = a /\ (a + M) % M = a
    BY <1>1
  <1>3. ASSUME NEW k \in 0 .. M - 1
        PROVE  Inc(k) = IF k = M - 1 THEN 0 ELSE k + 1
    BY <1>1 DEF Inc
  <1>4. ASSUME NEW k \in 0 .. M - 1, NEW l \in 0 .. M - 1
        PROVE  Distance(k, l) = IF k <= l THEN l - k ELSE l + M - k
    <2>1. CASE k <= l
      <3>1. l - k \in 0 .. M - 1 /\ l + M - k = (l - k) + M
        BY <1>1, <2>1
      <3> QED BY <1>2, <2>1, <3>1 DEF Distance
    <2>2. CASE k > l
      <3>1. l + M - k \in 0 .. M - 1
        BY <1>1, <2>2
      <3> QED BY <1>2, <2>2, <3>1 DEF Distance
    <2> QED BY <1>1, <2>1, <2>2
  <1>5. Inc(i) \in 0 .. M - 1 /\ Inc(j) \in 0 .. M - 1
    BY <1>1, <1>3
  <1>6. Distance(i, j) \in 0 .. M - 1 /\ (Distance(i, j) = 0 <=> i = j)
    BY <1>1, <1>4
  <1>7. Distance(i, j) < M - 1 => Distance(i, Inc(j)) = Distance(i, j) + 1
    <2>1. Distance(i, Inc(j)) = IF i <= Inc(j) THEN Inc(j) - i ELSE Inc(j) + M - i
      BY <1>1, <1>4, <1>5
    <2>2. Distance(i, j) = IF i <= j THEN j - i ELSE j + M - i
      BY <1>1, <1>4
    <2>3. Inc(j) = IF j = M - 1 THEN 0 ELSE j + 1
      BY <1>1, <1>3
    <2> QED BY <1>1, <2>1, <2>2, <2>3
  <1>8. i # j => Distance(Inc(i), j) = Distance(i, j) - 1
    <2>1. Distance(Inc(i), j) = IF Inc(i) <= j THEN j - Inc(i) ELSE j + M - Inc(i)
      BY <1>1, <1>4, <1>5
    <2>2. Distance(i, j) = IF i <= j THEN j - i ELSE j + M - i
      BY <1>1, <1>4
    <2>3. Inc(i) = IF i = M - 1 THEN 0 ELSE i + 1
      BY <1>1, <1>3
    <2> QED BY <1>1, <2>1, <2>2, <2>3
  <1> QED BY <1>6, <1>7, <1>8

\* The free chains are a finite set that steps of the driver change by one.
LEMMA FreeCount ==
    ASSUME NEW F \in SUBSET Heads, NEW h
    PROVE  /\ IsFiniteSet(F) /\ Cardinality(F) \in Nat
           /\ h \in F => Cardinality(F \ {h}) = Cardinality(F) - 1
           /\ Cardinality(F \cup {h}) <= Cardinality(F) + 1
           /\ Cardinality(Heads) = N
  <1>1. IsFiniteSet(Heads) /\ Cardinality(Heads) = N
    <2>1. 0 \in Int /\ N - 1 \in Int /\ N > 0
      BY IndexArith
    <2> QED BY <2>1, IndexArith, FS_Interval DEF Heads
  <1>2. IsFiniteSet(F)
    BY <1>1, FS_Subset
  <1>3. Cardinality(F) \in Nat
    BY <1>2, FS_CardinalityType
  <1>4. h \in F => Cardinality(F \ {h}) = Cardinality(F) - 1
    BY <1>2, FS_RemoveElement
  <1>5. Cardinality(F \cup {h}) <= Cardinality(F) + 1
    <2>1. Cardinality(F \cup {h}) = IF h \in F THEN Cardinality(F) ELSE Cardinality(F) + 1
      BY <1>2, FS_AddElement
    <2> QED BY <1>3, <2>1
  <1> QED BY <1>1, <1>2, <1>3, <1>4, <1>5

LEMMA InitBudget == VBInit => ChainBudget
  <1> SUFFICES ASSUME VBInit PROVE ChainBudget
    OBVIOUS
  <1>1. /\ mem.avail_idx = 0 /\ mem.used_idx = 0 /\ drv.seen = 0 /\ drv.free = Heads
        /\ dev.last_avail_idx = 0 /\ dev.loop = NoLoop
        /\ drv.proc = "idle" /\ drv.irq = "off"
    BY DEF VBInit, ResetDev
  <1>2. InFlight = 0 /\ Uncollected = 0
    BY <1>1, IndexArith, DistanceArith DEF InFlight, Uncollected
  <1>3. Cardinality(drv.free) = N
    BY <1>1, FreeCount
  <1> QED BY <1>1, <1>2, <1>3, IndexArith DEF ChainBudget, Unpublished, QueueBusy

LEMMA BudgetStep == VBTypeOK /\ ChainBudget /\ [VBNext]_vbvars => ChainBudget'
  <1> SUFFICES ASSUME VBTypeOK, ChainBudget, [VBNext]_vbvars PROVE ChainBudget'
    OBVIOUS
  <1>1. /\ dev \in DevType /\ mem \in MemType /\ drv \in DrvType
        /\ dev.last_avail_idx \in Indices /\ mem.avail_idx \in Indices
        /\ mem.used_idx \in Indices /\ drv.seen \in Indices
        /\ drv.free \in SUBSET Heads
    BY DEF VBTypeOK, DevType, MemType, DrvType
  <1>2. /\ InFlight \in Nat /\ Uncollected \in Nat /\ Unpublished \in {0, 1}
        /\ Cardinality(drv.free) \in Nat
    <2>1. InFlight \in Nat /\ Uncollected \in Nat
      BY <1>1, DistanceArith, IndexArith DEF InFlight, Uncollected
    <2>2. Cardinality(drv.free) \in Nat
      BY <1>1, FreeCount
    <2> QED BY <2>1, <2>2 DEF Unpublished
  <1>3. /\ N \in Nat /\ IdxMod \in Nat /\ N < IdxMod
        /\ InFlight + Uncollected + Cardinality(drv.free) + Unpublished <= N
    BY RingAssumption DEF ChainBudget
  \* Steps that leave the rings and the free chains alone
  <1>4. ASSUME dev' = dev, mem'.avail_idx = mem.avail_idx, mem'.used_idx = mem.used_idx,
               drv'.seen = drv.seen, drv'.free = drv.free, Unpublished' = Unpublished,
               drv'.proc = "added" => drv'.irq = "off"
        PROVE  ChainBudget'
    BY <1>4 DEF ChainBudget, InFlight, Uncollected, QueueBusy
  <1>5. CASE ServeNext
    <2>1. /\ dev.last_avail_idx # dev.loop /\ dev.loop \in Indices /\ drv' = drv
          /\ Distance(dev.last_avail_idx, dev.loop) <= InFlight
      BY <1>1, <1>5 DEF ServeNext, QueueBusy, ChainBudget, DevType
    <2>2. dev.last_avail_idx # mem.avail_idx /\ InFlight > 0
      BY <1>1, <2>1, DistanceArith DEF InFlight
    <2>3. /\ dev'.last_avail_idx = Inc(dev.last_avail_idx) /\ dev'.loop = dev.loop
          /\ mem'.avail_idx = mem.avail_idx
          /\ mem'.used_idx \in {mem.used_idx, Inc(mem.used_idx)}
      <3>1. CASE ServeIn(NextHead)
        BY <1>1, <3>1 DEF ServeIn, virtio_consume_desc, DevType, MemType
      <3>2. CASE ServeOut(NextHead)
        BY <1>1, <3>2 DEF ServeOut, virtio_consume_desc, DevType, MemType
      <3>3. CASE DropRequest(NextHead)
        BY <1>1, <3>3 DEF DropRequest, DevType
      <3> QED BY <1>5, <3>1, <3>2, <3>3 DEF ServeNext
    <2>4. InFlight' = InFlight - 1
      BY <1>1, <2>2, <2>3, DistanceArith DEF InFlight
    <2>5. Uncollected' \in {Uncollected, Uncollected + 1}
      <3>1. Uncollected < IdxMod - 1
        BY <1>2, <1>3, <2>2
      <3> QED BY <1>1, <2>1, <2>3, <3>1, DistanceArith DEF Uncollected
    <2>6. Distance(dev.last_avail_idx, dev.loop)' = Distance(dev.last_avail_idx, dev.loop) - 1
      BY <1>1, <2>1, <2>3, DistanceArith
    <2>7. Distance(dev.last_avail_idx, dev.loop) \in Nat
      BY <1>1, <2>1, DistanceArith, IndexArith
    <2>8. Unpublished' = Unpublished /\ drv'.free = drv.free
      BY <2>1 DEF Unpublished
    <2> QED BY <1>2, <1>3, <2>1, <2>4, <2>5, <2>6, <2>7, <2>8 DEF ChainBudget
  <1>6. CASE NotifyDone
    <2>1. /\ dev'.last_avail_idx = dev.last_avail_idx /\ dev'.loop = NoLoop
          /\ mem' = mem /\ drv' = drv
      BY <1>1, <1>6 DEF NotifyDone, DevType
    <2> QED BY <2>1 DEF ChainBudget, InFlight, Uncollected, Unpublished, QueueBusy
  <1>7. CASE Add \/ AddInIrq
    <2>1. PICK h \in drv.free : drv'.free = drv.free \ {h}
      BY <1>1, <1>7 DEF Add, AddInIrq, DrvType
    <2>2. Cardinality(drv'.free) = Cardinality(drv.free) - 1
      BY <1>1, <2>1, FreeCount
    <2>3. /\ dev' = dev /\ mem'.avail_idx = mem.avail_idx /\ mem'.used_idx = mem.used_idx
          /\ drv'.seen = drv.seen /\ "added" \in {drv'.proc, drv'.irq}
          /\ drv'.proc = "added" => drv'.irq = "off"
      BY <1>1, <1>7 DEF Add, AddInIrq, AddTo, MemType, DrvType, ChainBudget
    <2>4. Unpublished = 0 /\ Unpublished' = 1
      BY <1>7, <2>3 DEF Add, AddInIrq, Unpublished, ChainBudget
    <2> QED BY <1>2, <1>3, <2>2, <2>3, <2>4 DEF ChainBudget, InFlight, Uncollected, QueueBusy
  <1>8. CASE Publish \/ PublishInIrq
    <2>1. /\ dev' = dev /\ mem'.avail_idx = Inc(mem.avail_idx)
          /\ mem'.used_idx = mem.used_idx /\ drv'.seen = drv.seen /\ drv'.free = drv.free
          /\ ~QueueBusy /\ drv'.proc # "added" /\ drv'.irq # "added"
          /\ "added" \in {drv.proc, drv.irq}
      BY <1>1, <1>8 DEF Publish, PublishInIrq, IrqStep, MemType, DrvType, ChainBudget
    <2>2. Unpublished = 1 /\ Unpublished' = 0
      BY <2>1 DEF Unpublished
    <2>3. InFlight' = InFlight + 1
      <3>1. InFlight < IdxMod - 1
        BY <1>2, <1>3, <2>2
      <3> QED BY <1>1, <2>1, <3>1, DistanceArith DEF InFlight
    <2> QED BY <1>2, <1>3, <2>1, <2>2, <2>3 DEF ChainBudget, Uncollected, QueueBusy
  <1>9. CASE Notify \/ NotifyInIrq
    <2>1. /\ dev'.last_avail_idx = dev.last_avail_idx /\ dev'.loop = mem.avail_idx
          /\ mem' = mem /\ drv'.seen = drv.seen /\ drv'.free = drv.free
          /\ Unpublished' = Unpublished /\ (drv'.proc = "added" => drv'.irq = "off")
      BY <1>1, <1>9 DEF Notify, NotifyInIrq, EnterNotify, IrqStep, DevType, DrvType,
                        Unpublished, ChainBudget
    <2> QED BY <1>1, <1>2, <1>3, <2>1 DEF ChainBudget, InFlight, Uncollected, QueueBusy
  <1>10. CASE ResetDevice
    <2>1. /\ mem'.avail_idx = 0 /\ mem'.used_idx = 0 /\ drv'.seen = 0 /\ drv'.free = Heads
          /\ dev'.last_avail_idx = 0 /\ dev'.loop = NoLoop
          /\ drv'.proc = "idle" /\ drv'.irq = "off"
      BY <1>1, <1>10 DEF ResetDevice, ResetDev, MemType, DrvType
    <2>2. InFlight' = 0 /\ Uncollected' = 0
      BY <2>1, IndexArith, DistanceArith DEF InFlight, Uncollected
    <2>3. Cardinality(drv'.free) = N
      BY <2>1, FreeCount
    <2> QED BY <2>1, <2>2, <2>3, IndexArith DEF ChainBudget, Unpublished, QueueBusy
  <1>11. CASE CollectUsed
    <2>1. /\ drv.seen # mem.used_idx /\ drv'.seen = Inc(drv.seen)
          /\ drv'.free = drv.free \cup {mem.used_ring[Slot(drv.seen)]}
          /\ drv'.proc = drv.proc /\ drv'.irq = drv.irq /\ dev' = dev /\ mem' = mem
      BY <1>1, <1>11 DEF CollectUsed, DrvType
    <2>2. Uncollected' = Uncollected - 1
      BY <1>1, <2>1, DistanceArith DEF Uncollected
    <2>3. drv'.free \in SUBSET Heads
      <3>1. mem.used_ring[Slot(drv.seen)] \in Heads
        BY <1>1, IndexArith DEF MemType
      <3> QED BY <1>1, <2>1, <3>1
    <2>4. /\ Cardinality(drv'.free) \in Nat
          /\ Cardinality(drv'.free) <= Cardinality(drv.free) + 1
      BY <1>1, <2>1, <2>3, FreeCount
    <2>5. Unpublished' = Unpublished /\ InFlight' = InFlight
      BY <2>1 DEF Unpublished, InFlight
    <2> QED BY <1>2, <1>3, <2>1, <2>2, <2>4, <2>5 DEF ChainBudget, QueueBusy
  <1>12. CASE TakeIrq \/ Claim \/ Drained \/ Complete
    <2>1. /\ dev' = dev /\ mem' = mem /\ drv'.seen = drv.seen /\ drv'.free = drv.free
          /\ drv'.proc = drv.proc /\ drv'.irq # "added" /\ drv.irq # "added"
          /\ drv.proc # "added" \/ drv'.irq = "off"
      BY <1>1, <1>12 DEF TakeIrq, Claim, Drained, Complete, IrqStep, DrvType, ChainBudget
    <2> QED BY <1>4, <2>1 DEF Unpublished
  <1>13. CASE Ack
    <2>1. /\ dev'.last_avail_idx = dev.last_avail_idx /\ dev'.loop = dev.loop
          /\ mem' = mem /\ drv'.seen = drv.seen /\ drv'.free = drv.free
          /\ drv'.proc = drv.proc /\ drv.irq = "ack" /\ drv'.irq = "drain"
      BY <1>1, <1>13 DEF Ack, IrqStep, DevType, DrvType
    <2>2. Unpublished' = Unpublished /\ drv'.proc # "added"
      BY <2>1 DEF Unpublished, ChainBudget
    <2> QED BY <2>1, <2>2 DEF ChainBudget, InFlight, Uncollected, QueueBusy
  <1>14. CASE UNCHANGED vbvars
    BY <1>4, <1>14 DEF vbvars, Unpublished, ChainBudget
  <1> QED
    BY <1>5, <1>6, <1>7, <1>8, <1>9, <1>10, <1>11, <1>12, <1>13, <1>14
    DEF VBNext, Device, Process, Handler

\* queue_notify and virtio_consume_desc never run over a ring, whatever its
\* size: what is in flight and what is not collected fit the ring together.
THEOREM RingsSafe == VBSpec => []RingsNotOverrun
  <1>1. VBTypeOK /\ ChainBudget /\ [VBNext]_vbvars => VBTypeOK' /\ ChainBudget'
    BY TypeStep, BudgetStep
  <1>2. VBTypeOK /\ ChainBudget => RingsNotOverrun
    <2> SUFFICES ASSUME VBTypeOK, ChainBudget PROVE RingsNotOverrun
      OBVIOUS
    <2>1. /\ dev.last_avail_idx \in Indices /\ mem.avail_idx \in Indices
          /\ mem.used_idx \in Indices /\ drv.seen \in Indices
          /\ drv.free \in SUBSET Heads
      BY DEF VBTypeOK, DevType, MemType, DrvType
    <2>2. /\ InFlight \in Nat /\ Uncollected \in Nat /\ Unpublished \in {0, 1}
          /\ Cardinality(drv.free) \in Nat
      <3>1. InFlight \in Nat /\ Uncollected \in Nat
        BY <2>1, DistanceArith, IndexArith DEF InFlight, Uncollected
      <3>2. Cardinality(drv.free) \in Nat
        BY <2>1, FreeCount
      <3> QED BY <3>1, <3>2 DEF Unpublished
    <2> QED BY <2>2, IndexArith DEF ChainBudget, RingsNotOverrun
  <1> QED BY InitType, InitBudget, <1>1, <1>2, PTL DEF VBSpec

-----------------------------------------------------------------------------
(* Windows of the rings: 16-bit indices over slots modulo the queue size *)

\* A quotient and a remainder below b determine the residue modulo b.
LEMMA ModUnique ==
    ASSUME NEW b \in Nat, b > 0, NEW q \in Int, NEW r \in 0 .. b - 1
    PROVE  (b * q + r) % b = r
  OBVIOUS

\* Every integer has a quotient and a remainder.
LEMMA ModSplit ==
    ASSUME NEW b \in Nat, b > 0, NEW x \in Int
    PROVE  \E q \in Int : x = b * q + (x % b) /\ x % b \in 0 .. b - 1
  <1>1. x \div b \in Int /\ x = b * (x \div b) + (x % b) /\ x % b \in 0 .. b - 1
    OBVIOUS
  <1> QED BY <1>1

\* Adding a multiple of b leaves the residue modulo b as it is.
LEMMA ModShift ==
    ASSUME NEW b \in Nat, b > 0, NEW x \in Int, NEW m \in Int, m % b = 0
    PROVE  (x + m) % b = x % b
  <1>1. PICK q \in Int : x = b * q + (x % b) /\ x % b \in 0 .. b - 1
    BY ModSplit
  <1>2. PICK p \in Int : m = b * p
    <2>1. PICK p \in Int : m = b * p + (m % b)
      BY ModSplit
    <2>2. b * p \in Int /\ b * p + 0 = b * p
      OBVIOUS
    <2> QED BY <2>1, <2>2
  <1> DEFINE r == x % b
  <1>3. r \in 0 .. b - 1 /\ x = b * q + r
    BY <1>1
  <1> HIDE DEF r
  <1>4. x + m = b * (q + p) + r
    BY <1>2, <1>3
  <1>5. (b * (q + p) + r) % b = r
    BY <1>3, ModUnique
  <1> QED BY <1>4, <1>5 DEF r

\* Two numbers less than b apart have different residues modulo b.
LEMMA ModApart ==
    ASSUME NEW b \in Nat, b > 0, NEW x \in Nat, NEW d \in 1 .. b - 1
    PROVE  (x + d) % b # x % b
  <1>0. PICK q \in Int : x = b * q + (x % b) /\ x % b \in 0 .. b - 1
    <2>1. x \in Int
      OBVIOUS
    <2> QED BY <2>1, ModSplit
  <1> DEFINE r == x % b
  <1>1. x = b * q + r /\ r \in 0 .. b - 1
    BY <1>0
  <1> HIDE DEF r
  <1>2. CASE r + d < b
    <2>1. (b * q + (r + d)) % b = r + d
      BY <1>1, <1>2, ModUnique
    <2>2. x + d = b * q + (r + d)
      BY <1>1
    <2> QED BY <1>1, <2>1, <2>2 DEF r
  <1>3. CASE r + d >= b
    <2>0. q + 1 \in Int /\ r + d - b \in 0 .. b - 1
      BY <1>1, <1>3
    <2>1. (b * (q + 1) + (r + d - b)) % b = r + d - b
      BY <2>0, ModUnique
    <2>2. x + d = b * (q + 1) + (r + d - b)
      BY <1>1
    <2> QED BY <1>1, <2>1, <2>2 DEF r
  <1> QED BY <1>1, <1>2, <1>3

\* The queue size divides the range of the 16-bit indices, so the slot of an
\* index survives its wrap-around.
LEMMA SlotWrap ==
    ASSUME NEW i \in Indices, NEW k \in Nat, k >= 1
    PROVE  Slot(Inc(i) + k - 1) = Slot(i + (k + 1) - 1)
  <1>1. N \in Nat /\ N > 0 /\ IdxMod \in Nat /\ IdxMod % N = 0 /\ IdxMod > 0
    BY RingAssumption, IndexArith
  <1>2. Inc(i) = IF i = IdxMod - 1 THEN 0 ELSE i + 1
    BY <1>1 DEF Inc, Indices
  <1>3. i \in 0 .. IdxMod - 1
    BY DEF Indices
  <1>4. CASE i = IdxMod - 1
    <2>1. Inc(i) + k - 1 = k - 1 /\ i + (k + 1) - 1 = (k - 1) + IdxMod /\ k - 1 \in Int /\ IdxMod \in Int
      BY <1>1, <1>2, <1>4
    <2>2. ((k - 1) + IdxMod) % N = (k - 1) % N
      BY <1>1, <2>1, ModShift
    <2> QED BY <2>1, <2>2 DEF Slot
  <1>5. CASE i # IdxMod - 1
    <2>1. Inc(i) + k - 1 = i + (k + 1) - 1
      BY <1>1, <1>2, <1>3, <1>5
    <2> QED BY <2>1
  <1> QED BY <1>4, <1>5

\* The slot at the end of a window follows from its start and its length.
LEMMA SlotEnd ==
    ASSUME NEW i \in Indices, NEW j \in Indices
    PROVE  Slot(j) = Slot(i + Distance(i, j))
  <1>1. N \in Nat /\ N > 0 /\ IdxMod \in Nat /\ IdxMod % N = 0 /\ IdxMod > 0
    BY RingAssumption, IndexArith
  <1>2. i \in 0 .. IdxMod - 1 /\ j \in 0 .. IdxMod - 1
    BY DEF Indices
  <1>3. \A a \in 0 .. IdxMod - 1 : a % IdxMod = a /\ (a + IdxMod) % IdxMod = a
    BY <1>1
  <1>4. CASE i <= j
    <2>1. j - i \in 0 .. IdxMod - 1 /\ j + IdxMod - i = (j - i) + IdxMod
      BY <1>1, <1>2, <1>4
    <2>2. Distance(i, j) = j - i
      BY <1>3, <2>1 DEF Distance
    <2>3. i + (j - i) = j
      BY <1>2
    <2> QED BY <2>2, <2>3
  <1>5. CASE i > j
    <2>1. j + IdxMod - i \in 0 .. IdxMod - 1
      BY <1>1, <1>2, <1>5
    <2>2. Distance(i, j) = j + IdxMod - i
      BY <1>3, <2>1 DEF Distance
    <2>3. i + (j + IdxMod - i) = j + IdxMod /\ j \in Int /\ IdxMod \in Int
      BY <1>1, <1>2
    <2>4. (j + IdxMod) % N = j % N
      BY <1>1, <2>3, ModShift
    <2> QED BY <2>2, <2>3, <2>4 DEF Slot
  <1> QED BY <1>2, <1>4, <1>5

\* Indices less than a queue apart use different slots.
LEMMA SlotApart ==
    ASSUME NEW i \in Indices, NEW j \in Indices, Distance(i, j) < N,
           NEW k \in 1 .. Distance(i, j)
    PROVE  Slot(i + k - 1) # Slot(j)
  <1>1. N \in Nat /\ N > 0 /\ IdxMod \in Nat /\ IdxMod > 0
    BY IndexArith
  <1>2. Distance(i, j) \in 0 .. IdxMod - 1 /\ i \in 0 .. IdxMod - 1
    BY DistanceArith DEF Indices
  <1> DEFINE x == i + k - 1
             d == Distance(i, j) - k + 1
  <1>3. x \in Nat /\ d \in 1 .. N - 1 /\ x + d = i + Distance(i, j)
    BY <1>1, <1>2
  <1> HIDE DEF x, d
  <1>4. (x + d) % N # x % N
    BY <1>1, <1>3, ModApart
  <1> QED BY <1>3, <1>4, SlotEnd DEF Slot, x

\* The distance of two indices is a 16-bit number.
LEMMA DistanceNat ==
    ASSUME NEW i \in Indices, NEW j \in Indices
    PROVE  /\ Distance(i, j) \in Nat /\ i \in Nat
           /\ i # j => Distance(i, j) > 0
           /\ \A k \in 1 .. Distance(i, j) : i + k - 1 \in Nat /\ Slot(i + k - 1) \in Heads
  <1>1. i \in Nat
    BY IndexArith DEF Indices
  <1>2. Distance(i, j) \in Nat /\ (i # j => Distance(i, j) > 0)
    BY DistanceArith, IndexArith
  <1>3. ASSUME NEW k \in 1 .. Distance(i, j) PROVE i + k - 1 \in Nat /\ Slot(i + k - 1) \in Heads
    <2> DEFINE x == i + k - 1
    <2>1. x \in Nat /\ N \in Nat /\ N > 0
      BY <1>1, <1>2, <1>3, IndexArith
    <2> HIDE DEF x
    <2>2. x % N \in 0 .. N - 1
      BY <2>1
    <2> QED BY <2>1, <2>2 DEF x, Slot, Heads
  <1> QED BY <1>1, <1>2, <1>3

\* A window is a sequence of heads as long as the distance of its ends.
LEMMA WindowType ==
    ASSUME NEW ring \in [Heads -> Heads], NEW i \in Indices, NEW j \in Indices
    PROVE  /\ Window(ring, i, j) \in Seq(Heads)
           /\ Len(Window(ring, i, j)) = Distance(i, j)
           /\ \A k \in 1 .. Distance(i, j) : Window(ring, i, j)[k] = ring[Slot(i + k - 1)]
  <1>1. Distance(i, j) \in Nat
    BY DistanceNat
  <1>2. ASSUME NEW k \in 1 .. Distance(i, j) PROVE ring[Slot(i + k - 1)] \in Heads
    BY <1>2, DistanceNat
  <1>3. Window(ring, i, j) \in [1 .. Distance(i, j) -> Heads]
    BY <1>2 DEF Window
  <1>4. Window(ring, i, j) \in Seq(Heads) /\ Len(Window(ring, i, j)) = Distance(i, j)
    BY <1>1, <1>3
  <1> QED BY <1>4 DEF Window

\* Equal up to length and entries
LEMMA SameSeq ==
    ASSUME NEW S, NEW s \in Seq(S), NEW t \in Seq(S), Len(s) = Len(t),
           \A k \in 1 .. Len(s) : s[k] = t[k]
    PROVE  s = t
  OBVIOUS

\* Equal indices bound an empty window.
LEMMA WindowEmpty ==
    ASSUME NEW ring \in [Heads -> Heads], NEW i \in Indices
    PROVE  Window(ring, i, i) = << >>
  <1>1. Distance(i, i) = 0
    BY DistanceArith
  <1>2. Window(ring, i, i) \in Seq(Heads) /\ Len(Window(ring, i, i)) = 0
    BY <1>1, WindowType
  <1> QED BY <1>2

\* Storing at the end of a window and advancing its end index appends the entry.
LEMMA WindowAppend ==
    ASSUME NEW ring \in [Heads -> Heads], NEW i \in Indices, NEW j \in Indices,
           Distance(i, j) < N
    PROVE  Window(ring, i, Inc(j)) = Append(Window(ring, i, j), ring[Slot(j)])
  <1> DEFINE d == Distance(i, j)
             w == Window(ring, i, j)
             v == Window(ring, i, Inc(j))
             x == ring[Slot(j)]
  <1>1. Inc(j) \in Indices /\ x \in Heads
    BY IndexArith
  <1>2. d \in Nat /\ Distance(i, Inc(j)) = d + 1 /\ i \in Nat
    BY DistanceNat, DistanceArith, RingAssumption
  <1>3. /\ w \in Seq(Heads) /\ Len(w) = d
        /\ \A k \in 1 .. d : w[k] = ring[Slot(i + k - 1)]
    BY WindowType
  <1>4. /\ v \in Seq(Heads) /\ Len(v) = d + 1
        /\ \A k \in 1 .. d + 1 : v[k] = ring[Slot(i + k - 1)]
    BY <1>1, <1>2, WindowType, ZenonT(60)
  <1>5. v[d + 1] = x
    <2>1. v[d + 1] = ring[Slot(i + (d + 1) - 1)]
      BY <1>2, <1>4
    <2>2. i + (d + 1) - 1 = i + d
      BY <1>2
    <2> QED BY <2>1, <2>2, SlotEnd
  <1> HIDE DEF d, w, v, x
  <1>6. Append(w, x) \in Seq(Heads) /\ Len(Append(w, x)) = d + 1
    BY <1>1, <1>3
  <1>7. ASSUME NEW k \in 1 .. d + 1 PROVE v[k] = Append(w, x)[k]
    <2>1. CASE k = d + 1
      BY <1>1, <1>3, <1>5, <2>1
    <2>2. CASE k \in 1 .. d
      <3>1. Append(w, x)[k] = w[k]
        BY <1>1, <1>3, <2>2
      <3> QED BY <1>3, <1>4, <1>7, <2>2, <3>1
    <2>3. k = d + 1 \/ k \in 1 .. d
      BY <1>2, <1>7
    <2> QED BY <2>1, <2>2, <2>3
  <1>8. v = Append(w, x)
    BY <1>4, <1>6, <1>7, SameSeq
  <1> QED BY <1>8 DEF v, w, x

\* Advancing the start index of a window drops its oldest entry.
LEMMA WindowTail ==
    ASSUME NEW ring \in [Heads -> Heads], NEW i \in Indices, NEW j \in Indices, i # j
    PROVE  LET w == Window(ring, i, j)
           IN  /\ w # << >> /\ Head(w) = ring[Slot(i)] /\ w[1] = ring[Slot(i)]
               /\ Tail(w) = Window(ring, Inc(i), j)
               /\ Distance(i, j) > 0
  <1> DEFINE d == Distance(i, j)
             w == Window(ring, i, j)
             v == Window(ring, Inc(i), j)
  <1>1. Inc(i) \in Indices
    BY IndexArith
  <1>2. d \in Nat /\ d > 0 /\ Distance(Inc(i), j) = d - 1 /\ i \in Nat
    BY DistanceNat, DistanceArith
  <1>3. /\ w \in Seq(Heads) /\ Len(w) = d
        /\ \A k \in 1 .. d : w[k] = ring[Slot(i + k - 1)]
    BY WindowType
  <1>a. /\ v \in Seq(Heads) /\ Len(v) = Distance(Inc(i), j)
        /\ \A k \in 1 .. Distance(Inc(i), j) : v[k] = ring[Slot(Inc(i) + k - 1)]
    BY <1>1, WindowType
  <1>4. /\ v \in Seq(Heads) /\ Len(v) = d - 1
        /\ \A k \in 1 .. d - 1 : v[k] = ring[Slot(Inc(i) + k - 1)]
    BY ONLY <1>2, <1>a
  <1>5. w[1] = ring[Slot(i)]
    <2>1. w[1] = ring[Slot(i + 1 - 1)]
      BY <1>2, <1>3
    <2>2. i + 1 - 1 = i
      BY <1>2
    <2> QED BY <2>1, <2>2
  <1>6. ASSUME NEW k \in 1 .. d - 1 PROVE v[k] = w[k + 1]
    <2>1. Slot(Inc(i) + k - 1) = Slot(i + (k + 1) - 1)
      BY <1>2, <1>6, SlotWrap
    <2>2. w[k + 1] = ring[Slot(i + (k + 1) - 1)]
      BY <1>2, <1>3, <1>6
    <2> QED BY <1>4, <1>6, <2>1, <2>2
  <1> HIDE DEF d, w, v
  <1>7. w # << >> /\ Head(w) = w[1]
    BY <1>2, <1>3
  <1>8. /\ Tail(w) \in Seq(Heads) /\ Len(Tail(w)) = d - 1
        /\ \A k \in 1 .. d - 1 : Tail(w)[k] = w[k + 1]
    BY <1>2, <1>3, <1>7
  <1>9. Tail(w) = v
    BY <1>4, <1>6, <1>8, SameSeq
  <1> QED BY <1>2, <1>5, <1>7, <1>9 DEF d, w, v

\* A store outside a window leaves the window as it is.
LEMMA WindowFrame ==
    ASSUME NEW ring \in [Heads -> Heads], NEW i \in Indices, NEW j \in Indices,
           Distance(i, j) < N, NEW h \in Heads
    PROVE  Window([ring EXCEPT ![Slot(j)] = h], i, j) = Window(ring, i, j)
  <1> DEFINE r == [ring EXCEPT ![Slot(j)] = h]
  <1>1. r \in [Heads -> Heads]
    OBVIOUS
  <1>2. ASSUME NEW k \in 1 .. Distance(i, j)
        PROVE  r[Slot(i + k - 1)] = ring[Slot(i + k - 1)]
    <2>1. Slot(i + k - 1) # Slot(j)
      BY <1>2, SlotApart
    <2>2. Slot(i + k - 1) \in Heads
      BY <1>2, DistanceNat
    <2> QED BY <2>1, <2>2
  <1> HIDE DEF r
  <1>3. Window(r, i, j) = Window(ring, i, j)
    BY <1>2 DEF Window
  <1> QED BY <1>3 DEF r

-----------------------------------------------------------------------------
(* Every chain is in one place *)

Has(s, h) == \E k \in 1 .. Len(s) : s[k] = h

Once(s) == \A k, l \in 1 .. Len(s) : s[k] = s[l] => k = l

\* Published and not consumed; consumed and not collected; filled, unpublished
AvailWindow == Window(mem.avail_ring, dev.last_avail_idx, mem.avail_idx)
UsedWindow == Window(mem.used_ring, drv.seen, mem.used_idx)
Adding == "added" \in {drv.proc, drv.irq}
Added == mem.avail_ring[Slot(mem.avail_idx)]

ChainsApart ==
    /\ Once(AvailWindow) /\ Once(UsedWindow)
    /\ \A h \in Heads :
          /\ h \in drv.free => ~Has(AvailWindow, h) /\ ~Has(UsedWindow, h)
          /\ Has(AvailWindow, h) => ~Has(UsedWindow, h)
          /\ Adding /\ h = Added =>
                h \notin drv.free /\ ~Has(AvailWindow, h) /\ ~Has(UsedWindow, h)

\* Only a snapshot has entries in the sector table.
TableUnused ==
    store.mode # "snapshot" => \A s \in Sectors : store.table[s] = Untouched

\* Appending a new entry keeps the entries of a sequence different.
LEMMA AppendOnce ==
    ASSUME NEW S, NEW s \in Seq(S), NEW x \in S
    PROVE  /\ \A h : Has(Append(s, x), h) <=> Has(s, h) \/ h = x
           /\ Once(s) /\ ~Has(s, x) => Once(Append(s, x))
  <1> DEFINE t == Append(s, x)
             n == Len(s)
  <1>1. /\ n \in Nat /\ Len(t) = n + 1 /\ t[n + 1] = x
        /\ \A k \in 1 .. n : t[k] = s[k]
    OBVIOUS
  <1> HIDE DEF t, n
  <1>2. \A k : k \in 1 .. n + 1 <=> k \in 1 .. n \/ k = n + 1
    BY <1>1
  <1>3. ASSUME NEW h PROVE Has(t, h) <=> Has(s, h) \/ h = x
    BY <1>1, <1>2 DEF Has, n
  <1>4. ASSUME Once(s), ~Has(s, x), NEW k \in 1 .. n + 1, NEW l \in 1 .. n + 1, t[k] = t[l]
        PROVE  k = l
    BY <1>1, <1>2, <1>4 DEF Has, Once, n
  <1> QED BY <1>1, <1>3, <1>4 DEF Once, t

\* Dropping the oldest entry removes exactly that entry.
LEMMA TailOnce ==
    ASSUME NEW S, NEW s \in Seq(S), s # << >>, Once(s)
    PROVE  /\ Has(s, Head(s)) /\ Once(Tail(s)) /\ Head(s) \in S
           /\ \A h : Has(Tail(s), h) <=> Has(s, h) /\ h # Head(s)
  <1> DEFINE t == Tail(s)
             n == Len(s)
  <1>1. /\ n \in Nat /\ n > 0 /\ Len(t) = n - 1 /\ Head(s) = s[1] /\ s[1] \in S
        /\ \A k \in 1 .. n - 1 : t[k] = s[k + 1]
    OBVIOUS
  <1> HIDE DEF t, n
  <1>2. Has(s, Head(s))
    BY <1>1 DEF Has, n
  <1>3. ASSUME NEW k \in 1 .. n - 1, NEW l \in 1 .. n - 1, t[k] = t[l] PROVE k = l
    <2>1. k + 1 \in 1 .. n /\ l + 1 \in 1 .. n /\ s[k + 1] = s[l + 1]
      BY <1>1, <1>3
    <2>2. k + 1 = l + 1
      BY <2>1 DEF Once, n
    <2> QED BY <1>1, <2>2
  <1>4. ASSUME NEW h, Has(t, h) PROVE Has(s, h) /\ h # Head(s)
    <2>1. PICK k \in 1 .. n - 1 : t[k] = h
      BY <1>1, <1>4 DEF Has
    <2>2. k + 1 \in 1 .. n /\ s[k + 1] = h /\ k + 1 # 1 /\ 1 \in 1 .. n
      BY <1>1, <2>1
    <2> QED BY <1>1, <2>2 DEF Has, Once, n
  <1>5. ASSUME NEW h, Has(s, h), h # Head(s) PROVE Has(t, h)
    <2>1. PICK k \in 1 .. n : s[k] = h
      BY <1>5 DEF Has, n
    <2>2. k # 1
      BY <1>1, <1>5, <2>1
    <2>3. k - 1 \in 1 .. n - 1 /\ (k - 1) + 1 = k
      BY <1>1, <2>1, <2>2
    <2>4. t[k - 1] = h
      BY <1>1, <2>1, <2>3
    <2> QED BY <1>1, <2>3, <2>4 DEF Has
  <1> QED BY <1>1, <1>2, <1>3, <1>4, <1>5 DEF Once, t

\* The empty sequence has no entries.
LEMMA EmptyOnce == Once(<< >>) /\ \A h : ~Has(<< >>, h)
  BY DEF Once, Has

\* The types of the fields that the windows are read from.
LEMMA Typed ==
    ASSUME VBTypeOK
    PROVE  /\ dev \in DevType /\ mem \in MemType /\ drv \in DrvType /\ store \in StoreType
           /\ dev.last_avail_idx \in Indices /\ mem.avail_idx \in Indices
           /\ mem.used_idx \in Indices /\ drv.seen \in Indices
           /\ mem.avail_ring \in [Heads -> Heads] /\ mem.used_ring \in [Heads -> Heads]
           /\ drv.free \in SUBSET Heads /\ mem.chain \in [Heads -> Chains]
           /\ AvailWindow \in Seq(Heads) /\ Len(AvailWindow) = InFlight
           /\ UsedWindow \in Seq(Heads) /\ Len(UsedWindow) = Uncollected
           /\ Added \in Heads /\ InFlight \in Nat /\ Uncollected \in Nat
  <1>1. dev \in DevType /\ mem \in MemType /\ drv \in DrvType /\ store \in StoreType
    BY DEF VBTypeOK
  <1>2. /\ dev.last_avail_idx \in Indices /\ mem.avail_idx \in Indices
        /\ mem.used_idx \in Indices /\ drv.seen \in Indices
        /\ mem.avail_ring \in [Heads -> Heads] /\ mem.used_ring \in [Heads -> Heads]
        /\ drv.free \in SUBSET Heads /\ mem.chain \in [Heads -> Chains]
    BY <1>1 DEF DevType, MemType, DrvType
  <1>3. /\ AvailWindow \in Seq(Heads) /\ Len(AvailWindow) = InFlight /\ InFlight \in Nat
    BY <1>2, WindowType, DistanceNat DEF AvailWindow, InFlight
  <1>4. /\ UsedWindow \in Seq(Heads) /\ Len(UsedWindow) = Uncollected /\ Uncollected \in Nat
    BY <1>2, WindowType, DistanceNat DEF UsedWindow, Uncollected
  <1>5. Added \in Heads
    BY <1>2, IndexArith DEF Added
  <1> QED BY <1>1, <1>2, <1>3, <1>4, <1>5

\* There is room: what the budget says of one step
LEMMA Room ==
    ASSUME VBTypeOK, ChainBudget
    PROVE  /\ drv.free # {} => InFlight < N
           /\ Adding => InFlight < N
           /\ InFlight > 0 => Uncollected < N
  <1>1. InFlight \in Nat /\ Uncollected \in Nat /\ drv.free \in SUBSET Heads /\ N \in Nat
    BY Typed, IndexArith
  <1>2. Cardinality(drv.free) \in Nat /\ IsFiniteSet(drv.free)
    BY <1>1, FreeCount
  <1>3. InFlight + Uncollected + Cardinality(drv.free) + Unpublished <= N
    BY DEF ChainBudget
  <1>4. Unpublished = IF Adding THEN 1 ELSE 0
    BY DEF Unpublished, Adding
  <1>5. drv.free # {} => Cardinality(drv.free) # 0
    BY <1>2, FS_EmptySet
  <1> QED BY <1>1, <1>2, <1>3, <1>4, <1>5

\* What consuming a descriptor writes to guest memory
LEMMA ConsumeFields ==
    ASSUME NEW m \in MemType, NEW h \in Heads
    PROVE  LET v == virtio_consume_desc(m, h)
           IN  /\ v.avail_ring = m.avail_ring /\ v.avail_idx = m.avail_idx
               /\ v.used_ring = [m.used_ring EXCEPT ![Slot(m.used_idx)] = h]
               /\ v.used_idx = Inc(m.used_idx) /\ v.chain = m.chain
  BY DEF virtio_consume_desc, MemType

\* Serving a read: the data and the status go to the chain, the head to the
\* used ring.
LEMMA ServedIn ==
    ASSUME VBTypeOK, NEW h \in Heads, ServeIn(h)
    PROVE  /\ mem'.avail_ring = mem.avail_ring /\ mem'.avail_idx = mem.avail_idx
           /\ mem'.used_ring = [mem.used_ring EXCEPT ![Slot(mem.used_idx)] = h]
           /\ mem'.used_idx = Inc(mem.used_idx)
           /\ dev'.last_avail_idx = Inc(dev.last_avail_idx)
           /\ mem'.chain = [mem.chain EXCEPT
                 ![h] = [mem.chain[h] EXCEPT !.data = bf_read_async(store, mem.chain[h].sector),
                                             !.status = "ok"]]
           /\ store' = store
  <1> DEFINE c == mem.chain[h]
             v == bf_read_async(store, c.sector)
             m == [mem EXCEPT !.chain[h].data = v, !.chain[h].status = "ok"]
  <1>1. c \in Chains /\ mem \in MemType /\ mem.chain \in [Heads -> Chains] /\ dev \in DevType
    BY Typed
  <1>2. v \in Vals
    BY <1>1, Typed, StoreKeepsType DEF Chains
  <1>3. mem' = virtio_consume_desc(m, h) /\ store' = store
        /\ dev'.last_avail_idx = Inc(dev.last_avail_idx)
    BY <1>1 DEF ServeIn, DevType
  <1> HIDE DEF v
  <1>4. m \in MemType
    BY <1>1, <1>2 DEF MemType, Chains, Statuses
  <1>5. /\ m.avail_ring = mem.avail_ring /\ m.avail_idx = mem.avail_idx
        /\ m.used_ring = mem.used_ring /\ m.used_idx = mem.used_idx
    BY <1>1 DEF MemType
  <1>6. m.chain = [mem.chain EXCEPT ![h] = [c EXCEPT !.data = v, !.status = "ok"]]
    BY <1>1 DEF MemType
  <1> HIDE DEF m
  <1> QED BY <1>3, <1>4, <1>5, <1>6, ConsumeFields DEF v

\* Serving a write: the status goes to the chain, the head to the used ring.
LEMMA ServedOut ==
    ASSUME VBTypeOK, NEW h \in Heads, ServeOut(h)
    PROVE  LET w == bf_write_async(store, mem.chain[h].sector, mem.chain[h].data)
           IN  /\ mem'.avail_ring = mem.avail_ring /\ mem'.avail_idx = mem.avail_idx
               /\ mem'.used_ring = [mem.used_ring EXCEPT ![Slot(mem.used_idx)] = h]
               /\ mem'.used_idx = Inc(mem.used_idx)
               /\ dev'.last_avail_idx = Inc(dev.last_avail_idx)
               /\ mem'.chain = [mem.chain EXCEPT ![h] = [mem.chain[h] EXCEPT !.status = w.ret]]
               /\ store' = w.store
  <1> DEFINE c == mem.chain[h]
             w == bf_write_async(store, c.sector, c.data)
             m == [mem EXCEPT !.chain[h].status = w.ret]
  <1>1. c \in Chains /\ mem \in MemType /\ mem.chain \in [Heads -> Chains] /\ dev \in DevType
    BY Typed
  <1>2. w.ret \in Statuses
    BY <1>1, Typed, StoreKeepsType DEF Chains
  <1>3. mem' = virtio_consume_desc(m, h) /\ store' = w.store
        /\ dev'.last_avail_idx = Inc(dev.last_avail_idx)
    BY <1>1 DEF ServeOut, DevType
  <1> HIDE DEF w
  <1>4. m \in MemType
    BY <1>1, <1>2 DEF MemType, Chains
  <1>5. /\ m.avail_ring = mem.avail_ring /\ m.avail_idx = mem.avail_idx
        /\ m.used_ring = mem.used_ring /\ m.used_idx = mem.used_idx
    BY <1>1 DEF MemType
  <1>6. m.chain = [mem.chain EXCEPT ![h] = [c EXCEPT !.status = w.ret]]
    BY <1>1 DEF MemType
  <1> HIDE DEF m
  <1> QED BY <1>3, <1>4, <1>5, <1>6, ConsumeFields DEF w

\* A turn of queue_notify moves the oldest published chain to the used ring, or
\* drops it.
LEMMA ServeWindows ==
    ASSUME VBTypeOK, VBTypeOK', ChainBudget, ServeNext
    PROVE  /\ NextHead \in Heads /\ drv' = drv /\ Added' = Added
           /\ AvailWindow # << >> /\ Head(AvailWindow) = NextHead
           /\ AvailWindow' = Tail(AvailWindow)
           /\ DropRequest(NextHead) => UsedWindow' = UsedWindow
           /\ ServeIn(NextHead) \/ ServeOut(NextHead)
                 => UsedWindow' = Append(UsedWindow, NextHead)
  <1>1. /\ dev.last_avail_idx # dev.loop /\ dev.loop \in Indices /\ drv' = drv
        /\ Distance(dev.last_avail_idx, dev.loop) <= InFlight
    BY Typed DEF ServeNext, QueueBusy, ChainBudget, DevType
  <1>2. dev.last_avail_idx # mem.avail_idx /\ InFlight > 0
    <2>1. Distance(dev.last_avail_idx, dev.loop) > 0 /\ Distance(dev.last_avail_idx, dev.loop) \in Nat
      BY Typed, <1>1, DistanceNat
    <2>2. InFlight > 0
      BY Typed, <1>1, <2>1
    <2>3. dev.last_avail_idx = mem.avail_idx => InFlight = 0
      BY Typed, DistanceArith DEF InFlight
    <2> QED BY <2>2, <2>3
  <1>3. NextHead \in Heads
    BY Typed, IndexArith DEF NextHead
  <1>4. /\ mem'.avail_ring = mem.avail_ring /\ mem'.avail_idx = mem.avail_idx
        /\ dev'.last_avail_idx = Inc(dev.last_avail_idx)
    <2>1. CASE ServeIn(NextHead)
      BY <1>3, <2>1, ServedIn
    <2>2. CASE ServeOut(NextHead)
      BY <1>3, <2>2, ServedOut
    <2>3. CASE DropRequest(NextHead)
      BY Typed, <2>3 DEF DropRequest, DevType
    <2> QED BY <2>1, <2>2, <2>3 DEF ServeNext
  <1>5. /\ AvailWindow # << >> /\ Head(AvailWindow) = NextHead
        /\ AvailWindow' = Tail(AvailWindow)
    BY Typed, <1>2, <1>4, WindowTail, SMTT(30) DEF AvailWindow, NextHead
  <1>6. Added' = Added
    BY <1>4 DEF Added
  <1>7. ASSUME DropRequest(NextHead) PROVE UsedWindow' = UsedWindow
    BY <1>1, <1>7 DEF DropRequest, UsedWindow
  <1>8. ASSUME ServeIn(NextHead) \/ ServeOut(NextHead)
        PROVE  UsedWindow' = Append(UsedWindow, NextHead)
    <2> DEFINE r == [mem.used_ring EXCEPT ![Slot(mem.used_idx)] = NextHead]
    <2>1. mem'.used_ring = r /\ mem'.used_idx = Inc(mem.used_idx)
      BY <1>3, <1>8, ServedIn, ServedOut
    <2>2. r \in [Heads -> Heads] /\ r[Slot(mem.used_idx)] = NextHead
      BY Typed, <1>3, IndexArith
    <2>3. Distance(drv.seen, mem.used_idx) < N
      BY <1>2, Room DEF Uncollected
    <2>4. Window(r, drv.seen, mem.used_idx) = UsedWindow
      BY Typed, <1>3, <2>3, WindowFrame DEF UsedWindow
    <2>5. Window(r, drv.seen, Inc(mem.used_idx)) = Append(UsedWindow, NextHead)
      <3> HIDE DEF r
      <3> QED BY Typed, <2>2, <2>3, <2>4, WindowAppend
    <2> QED BY <1>1, <2>1, <2>5 DEF UsedWindow
  <1> QED BY <1>1, <1>3, <1>5, <1>6, <1>7, <1>8

\* Filling a chain: the entry written is outside the window of published ones.
LEMMA AddWindows ==
    ASSUME VBTypeOK, ChainBudget, Add \/ AddInIrq
    PROVE  \E h \in drv.free, c \in NewChains :
              /\ h \in Heads /\ ~Adding /\ Adding' /\ Added' = h
              /\ drv'.free = drv.free \ {h}
              /\ AvailWindow' = AvailWindow /\ UsedWindow' = UsedWindow
              /\ mem'.chain = [mem.chain EXCEPT ![h] = c]
              /\ dev' = dev /\ store' = store
  <1>1. PICK h \in drv.free, c \in NewChains :
              /\ mem' = AddTo(h, c) /\ drv'.free = drv.free \ {h}
              /\ drv'.seen = drv.seen /\ "added" \in {drv'.proc, drv'.irq}
              /\ dev' = dev /\ store' = store
    BY Typed DEF Add, AddInIrq, DrvType
  <1>2. h \in Heads /\ ~Adding
    BY Typed DEF Add, AddInIrq, ChainBudget, Adding
  <1>3. /\ mem'.avail_ring = [mem.avail_ring EXCEPT ![Slot(mem.avail_idx)] = h]
        /\ mem'.avail_idx = mem.avail_idx /\ mem'.used_ring = mem.used_ring
        /\ mem'.used_idx = mem.used_idx /\ mem'.chain = [mem.chain EXCEPT ![h] = c]
    BY Typed, <1>1 DEF AddTo, MemType
  <1>4. Distance(dev.last_avail_idx, mem.avail_idx) < N
    BY Room DEF InFlight
  <1>5. AvailWindow' = AvailWindow
    BY Typed, <1>1, <1>2, <1>3, <1>4, WindowFrame DEF AvailWindow
  <1>6. Added' = h
    BY Typed, <1>2, <1>3, IndexArith DEF Added
  <1>7. UsedWindow' = UsedWindow
    BY <1>1, <1>3 DEF UsedWindow
  <1> QED BY <1>1, <1>2, <1>3, <1>5, <1>6, <1>7 DEF Adding

\* Publication appends the chain that was filled.
LEMMA PublishWindows ==
    ASSUME VBTypeOK, ChainBudget, Publish \/ PublishInIrq
    PROVE  /\ Adding /\ ~Adding' /\ drv'.free = drv.free
           /\ AvailWindow' = Append(AvailWindow, Added) /\ UsedWindow' = UsedWindow
           /\ mem'.chain = mem.chain /\ dev' = dev /\ store' = store
  <1>1. /\ Adding /\ ~Adding' /\ drv'.free = drv.free /\ drv'.seen = drv.seen
        /\ mem'.avail_idx = Inc(mem.avail_idx) /\ mem'.avail_ring = mem.avail_ring
        /\ mem'.used_ring = mem.used_ring /\ mem'.used_idx = mem.used_idx
        /\ mem'.chain = mem.chain /\ dev' = dev /\ store' = store
    BY Typed DEF Publish, PublishInIrq, IrqStep, MemType, DrvType, ChainBudget, Adding
  <1>2. Distance(dev.last_avail_idx, mem.avail_idx) < N
    BY <1>1, Room DEF InFlight
  <1>3. AvailWindow' = Append(AvailWindow, Added)
    BY Typed, <1>1, <1>2, WindowAppend DEF AvailWindow, Added
  <1>4. UsedWindow' = UsedWindow
    BY <1>1 DEF UsedWindow
  <1> QED BY <1>1, <1>3, <1>4

\* The handler takes the oldest used entry.
LEMMA CollectWindows ==
    ASSUME VBTypeOK, CollectUsed
    PROVE  /\ UsedWindow # << >> /\ UsedWindow' = Tail(UsedWindow)
           /\ drv'.free = drv.free \cup {Head(UsedWindow)}
           /\ AvailWindow' = AvailWindow /\ Adding' = Adding /\ Added' = Added
           /\ mem' = mem /\ dev' = dev /\ store' = store
  <1>1. /\ drv.seen # mem.used_idx /\ drv'.seen = Inc(drv.seen)
        /\ drv'.free = drv.free \cup {mem.used_ring[Slot(drv.seen)]}
        /\ drv'.proc = drv.proc /\ drv'.irq = drv.irq
        /\ dev' = dev /\ mem' = mem /\ store' = store
    BY Typed DEF CollectUsed, DrvType
  <1>2. /\ UsedWindow # << >> /\ Head(UsedWindow) = mem.used_ring[Slot(drv.seen)]
        /\ UsedWindow' = Tail(UsedWindow)
    BY Typed, <1>1, WindowTail DEF UsedWindow
  <1>3. AvailWindow' = AvailWindow /\ Adding' = Adding /\ Added' = Added
    BY <1>1 DEF AvailWindow, Adding, Added
  <1> QED BY <1>1, <1>2, <1>3

\* A reset empties both windows.
LEMMA ResetWindows ==
    ASSUME VBTypeOK, ResetDevice
    PROVE  /\ AvailWindow' = << >> /\ UsedWindow' = << >> /\ drv'.free = Heads
           /\ ~Adding' /\ store' = store
  <1>1. /\ mem'.avail_idx = 0 /\ mem'.used_idx = 0 /\ drv'.seen = 0 /\ drv'.free = Heads
        /\ dev'.last_avail_idx = 0 /\ drv'.proc = "idle" /\ drv'.irq = "off"
        /\ mem'.avail_ring = mem.avail_ring /\ mem'.used_ring = mem.used_ring
        /\ store' = store
    BY Typed DEF ResetDevice, ResetDev, MemType, DrvType
  <1>2. AvailWindow' = << >> /\ UsedWindow' = << >>
    BY Typed, <1>1, IndexArith, WindowEmpty DEF AvailWindow, UsedWindow
  <1> QED BY <1>1, <1>2 DEF Adding

\* The other steps leave the chains and the disk alone.
OtherStep ==
    \/ NotifyDone \/ Notify \/ NotifyInIrq \/ TakeIrq \/ Claim \/ Ack \/ Drained
    \/ Complete \/ UNCHANGED vbvars

LEMMA OtherWindows ==
    ASSUME VBTypeOK, OtherStep
    PROVE  /\ AvailWindow' = AvailWindow /\ UsedWindow' = UsedWindow
           /\ drv'.free = drv.free /\ Adding' = Adding /\ Added' = Added
           /\ mem' = mem /\ store' = store
  <1>1. /\ dev'.last_avail_idx = dev.last_avail_idx /\ mem' = mem /\ store' = store
        /\ drv'.seen = drv.seen /\ drv'.free = drv.free
    BY Typed DEF OtherStep, NotifyDone, Notify, NotifyInIrq, EnterNotify, TakeIrq, Claim, Ack,
                 Drained, Complete, IrqStep, vbvars, DevType, DrvType
  <1>2. Adding' = Adding
    BY Typed DEF OtherStep, NotifyDone, Notify, NotifyInIrq, EnterNotify, TakeIrq, Claim, Ack,
                 Drained, Complete, IrqStep, vbvars, DrvType, Adding
  <1> QED BY <1>1, <1>2 DEF AvailWindow, UsedWindow, Added

\* No chain is in a ring at start-up.
LEMMA InitApart == VBInit => ChainsApart /\ TableUnused
  <1> SUFFICES ASSUME VBInit PROVE ChainsApart /\ TableUnused
    OBVIOUS
  <1>1. VBTypeOK
    BY InitType
  <1>2. /\ mem.avail_idx = 0 /\ mem.used_idx = 0 /\ drv.seen = 0
        /\ dev.last_avail_idx = 0 /\ ~Adding
    BY DEF VBInit, ResetDev, Adding
  <1>3. AvailWindow = << >> /\ UsedWindow = << >>
    BY <1>1, <1>2, Typed, IndexArith, WindowEmpty DEF AvailWindow, UsedWindow
  <1>4. TableUnused
    BY DEF VBInit, TableUnused
  <1> QED BY <1>2, <1>3, <1>4, EmptyOnce DEF ChainsApart

\* Every step keeps every chain in one place.
LEMMA ApartStep ==
    ASSUME VBTypeOK, VBTypeOK', ChainBudget, ChainsApart, [VBNext]_vbvars
    PROVE  ChainsApart'
  <1>1. CASE ServeNext
    <2>1. /\ Once(AvailWindow') /\ NextHead \in Heads
          /\ \A h : Has(AvailWindow', h) <=> Has(AvailWindow, h) /\ h # NextHead
          /\ Has(AvailWindow, NextHead)
      <3>1. /\ AvailWindow \in Seq(Heads) /\ AvailWindow # << >> /\ Once(AvailWindow)
            /\ Head(AvailWindow) = NextHead /\ AvailWindow' = Tail(AvailWindow)
        BY <1>1, Typed, ServeWindows DEF ChainsApart
      <3>2. /\ Has(AvailWindow, Head(AvailWindow)) /\ Once(Tail(AvailWindow))
            /\ Head(AvailWindow) \in Heads
            /\ \A h : Has(Tail(AvailWindow), h) <=> Has(AvailWindow, h) /\ h # Head(AvailWindow)
        BY <3>1, TailOnce
      <3> QED BY <3>1, <3>2
    <2>2. ~Has(UsedWindow, NextHead) /\ NextHead \notin drv.free /\ ~(Adding /\ NextHead = Added)
      BY <2>1 DEF ChainsApart
    <2>3. /\ Once(UsedWindow')
          /\ \A h : Has(UsedWindow', h) => Has(UsedWindow, h) \/ h = NextHead
      <3>1. CASE DropRequest(NextHead)
        BY <1>1, <3>1, ServeWindows DEF ChainsApart
      <3>2. CASE ServeIn(NextHead) \/ ServeOut(NextHead)
        <4>1. /\ UsedWindow \in Seq(Heads) /\ Once(UsedWindow)
              /\ UsedWindow' = Append(UsedWindow, NextHead)
          BY <1>1, <3>2, Typed, ServeWindows DEF ChainsApart
        <4>2. /\ Once(Append(UsedWindow, NextHead))
              /\ \A h : Has(Append(UsedWindow, NextHead), h) <=> Has(UsedWindow, h) \/ h = NextHead
          BY <2>1, <2>2, <4>1, AppendOnce
        <4> QED BY <4>1, <4>2
      <3> QED BY <1>1, <3>1, <3>2 DEF ServeNext
    <2>4. drv'.free = drv.free /\ Adding' = Adding /\ Added' = Added
      BY <1>1, ServeWindows DEF Adding
    <2> QED BY <2>1, <2>2, <2>3, <2>4 DEF ChainsApart
  <1>2. CASE Add \/ AddInIrq
    <2>1. PICK h \in drv.free :
              /\ h \in Heads /\ Added' = h /\ drv'.free = drv.free \ {h}
              /\ AvailWindow' = AvailWindow /\ UsedWindow' = UsedWindow
      BY <1>2, AddWindows
    <2> QED BY <2>1 DEF ChainsApart
  <1>3. CASE Publish \/ PublishInIrq
    <2>1. /\ Adding /\ ~Adding' /\ drv'.free = drv.free /\ Added \in Heads
          /\ AvailWindow' = Append(AvailWindow, Added) /\ UsedWindow' = UsedWindow
      BY <1>3, PublishWindows, Typed
    <2>2. ~Has(AvailWindow, Added) /\ ~Has(UsedWindow, Added) /\ Added \notin drv.free
      BY <2>1 DEF ChainsApart
    <2>3. /\ Once(AvailWindow')
          /\ \A h : Has(AvailWindow', h) <=> Has(AvailWindow, h) \/ h = Added
      BY <2>1, <2>2, Typed, AppendOnce DEF ChainsApart
    <2> QED BY <2>1, <2>2, <2>3 DEF ChainsApart
  <1>4. CASE CollectUsed
    <2>1. /\ Once(UsedWindow') /\ Has(UsedWindow, Head(UsedWindow))
          /\ \A h : Has(UsedWindow', h) <=> Has(UsedWindow, h) /\ h # Head(UsedWindow)
          /\ Head(UsedWindow) \in Heads
      <3>1. /\ UsedWindow \in Seq(Heads) /\ UsedWindow # << >> /\ Once(UsedWindow)
            /\ UsedWindow' = Tail(UsedWindow)
        BY <1>4, Typed, CollectWindows DEF ChainsApart
      <3>2. /\ Has(UsedWindow, Head(UsedWindow)) /\ Once(Tail(UsedWindow))
            /\ Head(UsedWindow) \in Heads
            /\ \A h : Has(Tail(UsedWindow), h) <=> Has(UsedWindow, h) /\ h # Head(UsedWindow)
        BY <3>1, TailOnce
      <3> QED BY <3>1, <3>2
    <2>2. ~Has(AvailWindow, Head(UsedWindow)) /\ ~(Adding /\ Head(UsedWindow) = Added)
      BY <2>1 DEF ChainsApart
    <2>3. /\ drv'.free = drv.free \cup {Head(UsedWindow)}
          /\ AvailWindow' = AvailWindow /\ Adding' = Adding /\ Added' = Added
      BY <1>4, CollectWindows
    <2> QED BY <2>1, <2>2, <2>3 DEF ChainsApart
  <1>5. CASE ResetDevice
    BY <1>5, ResetWindows, EmptyOnce DEF ChainsApart
  <1>6. CASE OtherStep
    BY <1>6, OtherWindows DEF ChainsApart
  <1> QED BY <1>1, <1>2, <1>3, <1>4, <1>5, <1>6
          DEF VBNext, Device, Process, Handler, OtherStep

\* Every step keeps the sector table of a plain image unused.
LEMMA TableStep ==
    ASSUME VBTypeOK, TableUnused, [VBNext]_vbvars
    PROVE  TableUnused'
  <1>1. CASE \E h \in Heads : ServeOut(h)
    <2>1. PICK h \in Heads : ServeOut(h)
      BY <1>1
    <2> DEFINE c == mem.chain[h]
    <2>2. store' = bf_write_async(store, c.sector, c.data).store
      BY <2>1 DEF ServeOut
    <2>3. store \in StoreType /\ store.mode \in {"rw", "ro", "snapshot"}
      BY Typed, ModeAssumption DEF StoreType
    <2> HIDE DEF c
    <2>4. CASE store.mode = "ro"
      BY <2>2, <2>4 DEF bf_write_async, TableUnused
    <2>5. CASE store.mode = "rw"
      BY <2>2, <2>3, <2>5 DEF bf_write_async, TableUnused, StoreType
    <2>6. CASE store.mode = "snapshot"
      BY <2>2, <2>3, <2>6 DEF bf_write_async, TableUnused, StoreType
    <2> QED BY <2>3, <2>4, <2>5, <2>6
  <1>2. CASE store' = store
    BY <1>2 DEF TableUnused
  <1>3. ServeNext => store' = store \/ \E h \in Heads : ServeOut(h)
    <2>1. NextHead \in Heads
      BY Typed, IndexArith DEF NextHead
    <2> QED BY <2>1 DEF ServeNext, ServeIn, DropRequest
  <1>4. VBNext => ServeNext \/ store' = store
    BY DEF VBNext, Device, Process, Handler, NotifyDone, Add, Publish, Notify, ResetDevice,
           TakeIrq, Claim, Ack, CollectUsed, AddInIrq, PublishInIrq, NotifyInIrq, Drained, Complete
  <1> QED BY <1>1, <1>2, <1>3, <1>4 DEF vbvars

-----------------------------------------------------------------------------
(* The refinement *)

\* The stage of a chain, by the place it is in
JobAt(h, free, added, avail, used, c) ==
    IF h \in free \/ added THEN [stage |-> "free"]
    ELSE LET r == [type |-> c.type, sector |-> c.sector, data |-> c.data]
         IN  IF Has(avail, h) THEN [stage |-> "queued", req |-> r]
             ELSE IF Has(used, h)
                  THEN [stage |-> "served", req |-> r, ok |-> c.status = "ok"]
             ELSE [stage |-> "lost"]

\* Under ChainsApart the stage of a chain is read off the windows.
LEMMA JobIs ==
    VBTypeOK => \A h \in Heads :
        JobOf(h) = JobAt(h, drv.free, Adding /\ Added = h, AvailWindow, UsedWindow, mem.chain[h])
  <1> SUFFICES ASSUME VBTypeOK, NEW h \in Heads
               PROVE  JobOf(h) = JobAt(h, drv.free, Adding /\ Added = h, AvailWindow,
                                       UsedWindow, mem.chain[h])
    OBVIOUS
  <1>1. AddedNotPublished(h) <=> Adding /\ Added = h
    BY DEF AddedNotPublished, Adding, Added
  <1>2. InRing(h, mem.avail_ring, dev.last_avail_idx, mem.avail_idx) <=> Has(AvailWindow, h)
    <2>1. Len(AvailWindow) = Distance(dev.last_avail_idx, mem.avail_idx)
      BY Typed DEF InFlight
    <2> QED BY <2>1 DEF InRing, Has, AvailWindow
  <1>3. InRing(h, mem.used_ring, drv.seen, mem.used_idx) <=> Has(UsedWindow, h)
    <2>1. Len(UsedWindow) = Distance(drv.seen, mem.used_idx)
      BY Typed DEF Uncollected
    <2> QED BY <2>1 DEF InRing, Has, UsedWindow
  <1> QED BY <1>1, <1>2, <1>3 DEF JobOf, JobAt, Request

\* The same in the next state.
LEMMA JobNext ==
    (VBTypeOK => \A h \in Heads :
        JobOf(h) = JobAt(h, drv.free, Adding /\ Added = h, AvailWindow, UsedWindow, mem.chain[h]))'
  BY JobIs, PTL

Disk == [s \in Sectors |-> Contents(s)]
Jobs == [h \in Heads |-> JobOf(h)]
Writable == store.mode # "ro"

\* What the device reads is what the disk holds.
LEMMA ReadContents ==
    ASSUME VBTypeOK, TableUnused, NEW s \in Sectors
    PROVE  bf_read_async(store, s) = Contents(s)
  BY DEF bf_read_async, Contents, TableUnused

\* A write changes the one sector, unless the image is read only.
LEMMA WriteContents ==
    ASSUME VBTypeOK, TableUnused, NEW x \in Sectors, NEW v \in Vals,
           store' = bf_write_async(store, x, v).store
    PROVE  /\ Disk' = IF Writable THEN [Disk EXCEPT ![x] = v] ELSE Disk
           /\ Writable' = Writable
           /\ bf_write_async(store, x, v).ret = "ok" <=> Writable
  <1>1. store \in StoreType /\ store.mode \in {"rw", "ro", "snapshot"}
    BY Typed, ModeAssumption DEF StoreType
  <1>2. CASE store.mode = "ro"
    BY <1>2 DEF bf_write_async, Disk, Contents, Writable
  <1>3. CASE store.mode = "rw"
    <2>1. store' = [store EXCEPT !.file[x] = v]
      BY <1>3 DEF bf_write_async
    <2>2. /\ store'.mode = store.mode /\ store'.table = store.table
          /\ store'.file = [store.file EXCEPT ![x] = v]
          /\ store.file \in [Sectors -> Vals]
      BY <1>1, <2>1 DEF StoreType
    <2>3. \A s \in Sectors : store.table[s] = Untouched
      BY <1>3 DEF TableUnused
    <2>4. ASSUME NEW s \in Sectors
          PROVE  Contents(s) = store.file[s] /\ Contents(s)' = store'.file[s]
      BY <2>2, <2>3 DEF Contents
    <2>5. Disk' = [Disk EXCEPT ![x] = v]
      BY <2>2, <2>4 DEF Disk
    <2>6. Writable /\ Writable' /\ bf_write_async(store, x, v).ret = "ok"
      BY <1>3, <2>2 DEF Writable, bf_write_async
    <2> QED BY <2>5, <2>6
  <1>4. CASE store.mode = "snapshot"
    <2>1. store' = [store EXCEPT !.table[x] = v]
      BY <1>4 DEF bf_write_async
    <2>2. /\ store'.mode = store.mode /\ store'.file = store.file
          /\ store'.table = [store.table EXCEPT ![x] = v]
          /\ store.table \in [Sectors -> Vals \cup {Untouched}]
      BY <1>1, <2>1 DEF StoreType
    <2>3. v # Untouched
      BY TableAssumption
    <2>4. ASSUME NEW s \in Sectors
          PROVE  Contents(s)' = IF s = x THEN v ELSE Contents(s)
      BY <2>2, <2>3 DEF Contents
    <2>5. Disk' = [Disk EXCEPT ![x] = v]
      BY <2>4 DEF Disk
    <2>6. Writable /\ Writable' /\ bf_write_async(store, x, v).ret = "ok"
      BY <1>4, <2>2 DEF Writable, bf_write_async
    <2> QED BY <2>5, <2>6
  <1> QED BY <1>1, <1>2, <1>3, <1>4

StoreInv == VBTypeOK /\ ChainBudget /\ ChainsApart /\ TableUnused

\* One job changes.
LEMMA OneJob ==
    ASSUME NEW x \in Heads, NEW v, JobOf(x)' = v,
           \A g \in Heads : g # x => JobOf(g)' = JobOf(g)
    PROVE  Jobs' = [Jobs EXCEPT ![x] = v]
  BY DEF Jobs

\* queue_notify serves the oldest request of the abstract queue.
LEMMA ServeRefines ==
    ASSUME StoreInv, StoreInv', ServeNext, NEW h, h = NextHead
    PROVE  Abstract!Serve
  <1> DEFINE c == mem.chain[h]
             r == [type |-> c.type, sector |-> c.sector, data |-> c.data]
  <1>0. VBTypeOK /\ ChainBudget /\ ChainsApart /\ TableUnused /\ VBTypeOK'
    BY DEF StoreInv
  <1>1. /\ h \in Heads /\ drv' = drv /\ Added' = Added /\ Adding' = Adding
        /\ AvailWindow # << >> /\ Head(AvailWindow) = h /\ AvailWindow' = Tail(AvailWindow)
        /\ AvailWindow \in Seq(Heads) /\ UsedWindow \in Seq(Heads)
    BY <1>0, ServeWindows, Typed DEF Adding
  <1>2. c \in Chains
    BY <1>0, <1>1, Typed
  <1>3. /\ Has(AvailWindow, h) /\ ~Has(AvailWindow', h)
        /\ \A g : g # h => (Has(AvailWindow', g) <=> Has(AvailWindow, g))
    <2>1. /\ Has(AvailWindow, h)
          /\ \A g : Has(Tail(AvailWindow), g) <=> Has(AvailWindow, g) /\ g # h
      BY <1>0, <1>1, TailOnce DEF ChainsApart
    <2> QED BY <1>1, <2>1
  <1>4. h \notin drv.free /\ ~(Adding /\ Added = h) /\ ~Has(UsedWindow, h)
    BY <1>0, <1>1, <1>3 DEF ChainsApart
  <1>5. JobOf(h) = [stage |-> "queued", req |-> r]
    BY <1>0, <1>1, <1>3, <1>4, JobIs DEF JobAt
  <1>6. ASSUME \A g \in Heads : g # h => (Has(UsedWindow', g) <=> Has(UsedWindow, g)),
               \A g \in Heads : g # h => mem'.chain[g] = mem.chain[g],
               NEW g \in Heads, g # h
        PROVE  JobOf(g)' = JobOf(g)
    <2>1. JobOf(g) = JobAt(g, drv.free, Adding /\ Added = g, AvailWindow, UsedWindow, mem.chain[g])
      BY <1>0, JobIs
    <2>2. JobOf(g)' = JobAt(g, drv'.free, Adding' /\ Added' = g, AvailWindow', UsedWindow', mem'.chain[g])
      BY <1>0, JobNext
    <2> QED BY <1>1, <1>3, <1>6, <2>1, <2>2 DEF JobAt
  <1>7. JobOf(h)' = JobAt(h, drv.free, Adding /\ Added = h, AvailWindow', UsedWindow', mem'.chain[h])
    <2>1. JobOf(h)' = JobAt(h, drv'.free, Adding' /\ Added' = h, AvailWindow', UsedWindow', mem'.chain[h])
      BY <1>0, <1>1, JobNext
    <2> QED BY <1>1, <2>1
  <1>8. ASSUME NEW a, JobOf(h)' = a, a = Abstract!Answer(r, Disk), Writable' = Writable,
               \A g \in Heads : g # h => JobOf(g)' = JobOf(g),
               Disk' = IF r.type = "out" /\ Writable
                       THEN [Disk EXCEPT ![r.sector] = r.data] ELSE Disk
        PROVE  Abstract!Serve
    <2>1. Jobs' = [Jobs EXCEPT ![h] = a]
      BY <1>1, <1>8, OneJob
    <2>2. Jobs[h].req = r
      BY <1>1, <1>5 DEF Jobs
    <2> HIDE DEF r
    <2> QED BY <1>1, <1>8, <2>1, <2>2 DEF Abstract!Serve, Jobs, Disk, Writable, AvailWindow
  <1>9. CASE ServeIn(h)
    <2>1. /\ mem'.chain = [mem.chain EXCEPT
                 ![h] = [c EXCEPT !.data = bf_read_async(store, c.sector), !.status = "ok"]]
          /\ store' = store /\ c.type = "in"
      BY <1>0, <1>1, <1>9, ServedIn DEF ServeIn
    <2>2. UsedWindow' = Append(UsedWindow, h)
      BY <1>0, <1>9, ServeWindows
    <2>3. \A g : Has(UsedWindow', g) <=> Has(UsedWindow, g) \/ g = h
      BY <1>1, <2>2, AppendOnce
    <2>4. c.sector \in Sectors /\ bf_read_async(store, c.sector) = Disk[c.sector]
      BY <1>0, <1>2, ReadContents DEF Disk, Chains
    <2>5. mem'.chain[h] = [c EXCEPT !.data = Disk[c.sector], !.status = "ok"]
      BY <1>0, <1>1, <2>1, <2>4, Typed
    <2> DEFINE a == [stage |-> "served", req |-> [r EXCEPT !.data = Disk[c.sector]], ok |-> TRUE]
    <2> DEFINE d == Disk[c.sector]
    <2>6. JobOf(h)' = [stage |-> "served",
                       req |-> [type |-> c.type, sector |-> c.sector, data |-> d],
                       ok |-> TRUE]
      <3> HIDE DEF d
      <3>1. /\ mem'.chain[h].type = c.type /\ mem'.chain[h].sector = c.sector
            /\ mem'.chain[h].data = d /\ mem'.chain[h].status = "ok"
        BY <1>2, <2>5 DEF Chains, d
      <3> QED BY <1>3, <1>4, <1>7, <2>3, <3>1 DEF JobAt
    <2>7. a = [stage |-> "served", req |-> [type |-> c.type, sector |-> c.sector, data |-> d],
               ok |-> TRUE]
      <3> HIDE DEF c
      <3>1. [r EXCEPT !.data = d] = [type |-> c.type, sector |-> c.sector, data |-> d]
        <4> HIDE DEF d
        <4> QED OBVIOUS
      <3> QED BY <3>1
    <2>8. a = Abstract!Answer(r, Disk)
      BY <2>1 DEF Abstract!Answer
    <2>9. ASSUME NEW g \in Heads, g # h PROVE JobOf(g)' = JobOf(g)
      BY <1>0, <1>6, <2>1, <2>3, <2>9, Typed
    <2>10. Disk' = Disk /\ Writable' = Writable /\ r.type # "out"
      BY <2>1 DEF Disk, Contents, Writable
    <2> HIDE DEF a, r
    <2> QED BY <1>8, <2>6, <2>7, <2>8, <2>9, <2>10
  <1>10. CASE ServeOut(h)
    <2> DEFINE w == bf_write_async(store, c.sector, c.data)
    <2>1. /\ mem'.chain = [mem.chain EXCEPT ![h] = [c EXCEPT !.status = w.ret]]
          /\ store' = w.store /\ c.type = "out"
      BY <1>0, <1>1, <1>10, ServedOut DEF ServeOut
    <2>2. UsedWindow' = Append(UsedWindow, h)
      BY <1>0, <1>10, ServeWindows
    <2>3. \A g : Has(UsedWindow', g) <=> Has(UsedWindow, g) \/ g = h
      BY <1>1, <2>2, AppendOnce
    <2>4. /\ Disk' = IF Writable THEN [Disk EXCEPT ![c.sector] = c.data] ELSE Disk
          /\ Writable' = Writable /\ (w.ret = "ok" <=> Writable)
      BY <1>0, <1>2, <2>1, WriteContents DEF Chains
    <2> HIDE DEF w
    <2>5. /\ mem'.chain[h].type = c.type /\ mem'.chain[h].sector = c.sector
          /\ mem'.chain[h].data = c.data /\ mem'.chain[h].status = w.ret
      <3>1. mem'.chain[h] = [c EXCEPT !.status = w.ret]
        BY <1>0, <1>1, <2>1, Typed
      <3> QED BY <1>2, <3>1 DEF Chains
    <2> DEFINE a == [stage |-> "served", req |-> r, ok |-> Writable]
    <2>6. JobOf(h)' = a
      BY <1>3, <1>4, <1>7, <2>3, <2>4, <2>5 DEF JobAt
    <2>8. a = Abstract!Answer(r, Disk)
      BY <2>1 DEF Abstract!Answer, Writable
    <2>9. ASSUME NEW g \in Heads, g # h PROVE JobOf(g)' = JobOf(g)
      BY <1>0, <1>6, <2>1, <2>3, <2>9, Typed
    <2>10. r.type = "out" /\ r.sector = c.sector /\ r.data = c.data
      BY <2>1
    <2> HIDE DEF a, r, c
    <2> QED BY <1>8, <2>4, <2>6, <2>8, <2>9, <2>10
  <1>11. CASE DropRequest(h)
    <2>1. mem' = mem /\ store' = store /\ c.type = "other" /\ UsedWindow' = UsedWindow
      BY <1>0, <1>11, ServeWindows DEF DropRequest
    <2> DEFINE a == [stage |-> "lost"]
    <2>2. JobOf(h)' = a
      BY <1>3, <1>4, <1>7, <2>1 DEF JobAt
    <2>3. a = Abstract!Answer(r, Disk)
      BY <2>1 DEF Abstract!Answer
    <2>4. ASSUME NEW g \in Heads, g # h PROVE JobOf(g)' = JobOf(g)
      BY <1>6, <2>1, <2>4
    <2>5. Disk' = Disk /\ Writable' = Writable /\ r.type # "out"
      BY <2>1 DEF Disk, Contents, Writable
    <2> HIDE DEF a, r
    <2> QED BY <1>8, <2>2, <2>3, <2>4, <2>5
  <1> QED BY <1>9, <1>10, <1>11 DEF ServeNext

\* The store to the available index submits the request that was filled in.
LEMMA PublishRefines ==
    ASSUME StoreInv, StoreInv', Publish \/ PublishInIrq, NEW h, h = Added
    PROVE  \E r \in Abstract!Requests : Abstract!Submit(h, r)
  <1> DEFINE c == mem.chain[h]
             r == [type |-> c.type, sector |-> c.sector, data |-> c.data]
  <1>0. VBTypeOK /\ ChainBudget /\ ChainsApart /\ VBTypeOK'
    BY DEF StoreInv
  <1>1. /\ h \in Heads /\ Adding /\ ~Adding' /\ drv'.free = drv.free
        /\ AvailWindow' = Append(AvailWindow, h) /\ UsedWindow' = UsedWindow
        /\ mem'.chain = mem.chain /\ store' = store /\ AvailWindow \in Seq(Heads)
    BY <1>0, PublishWindows, Typed
  <1>2. c \in Chains
    BY <1>0, <1>1, Typed
  <1>3. r \in Abstract!Requests
    BY <1>2 DEF Chains, Abstract!Requests, Abstract!Types, ReqTypes
  <1>4. \A g : Has(AvailWindow', g) <=> Has(AvailWindow, g) \/ g = h
    BY <1>1, AppendOnce
  <1>5. JobOf(h) = [stage |-> "free"]
    BY <1>0, <1>1, JobIs DEF JobAt
  <1>6. h \notin drv.free
    BY <1>0, <1>1 DEF ChainsApart
  <1>7. JobOf(h)' = [stage |-> "queued", req |-> r]
    <2>1. JobOf(h)' = JobAt(h, drv'.free, Adding' /\ Added' = h, AvailWindow', UsedWindow', mem'.chain[h])
      BY <1>0, <1>1, JobNext
    <2> QED BY <1>1, <1>4, <1>6, <2>1 DEF JobAt
  <1>8. ASSUME NEW g \in Heads, g # h PROVE JobOf(g)' = JobOf(g)
    <2>1. JobOf(g) = JobAt(g, drv.free, Adding /\ Added = g, AvailWindow, UsedWindow, mem.chain[g])
      BY <1>0, JobIs
    <2>2. JobOf(g)' = JobAt(g, drv'.free, Adding' /\ Added' = g, AvailWindow', UsedWindow', mem'.chain[g])
      BY <1>0, JobNext
    <2> QED BY <1>1, <1>4, <1>8, <2>1, <2>2 DEF JobAt
  <1> HIDE DEF r
  <1>9. Jobs' = [Jobs EXCEPT ![h] = [stage |-> "queued", req |-> r]]
    BY <1>1, <1>7, <1>8, OneJob
  <1>10. Jobs[h] = [stage |-> "free"]
    BY <1>1, <1>5 DEF Jobs
  <1>11. Disk' = Disk /\ Writable' = Writable
    BY <1>1 DEF Disk, Contents, Writable
  <1>12. Abstract!Submit(h, r)
    BY <1>1, <1>9, <1>10, <1>11
    DEF Abstract!Submit, Abstract!Idle, Jobs, Disk, Writable, AvailWindow
  <1> QED BY <1>3, <1>12

\* The handler hands a served request back.
LEMMA CollectRefines ==
    ASSUME StoreInv, StoreInv', CollectUsed, NEW h, h = Head(UsedWindow)
    PROVE  h \in Heads /\ Abstract!Collect(h)
  <1>0. VBTypeOK /\ ChainsApart /\ VBTypeOK'
    BY DEF StoreInv
  <1>1. /\ UsedWindow # << >> /\ UsedWindow' = Tail(UsedWindow)
        /\ drv'.free = drv.free \cup {h}
        /\ AvailWindow' = AvailWindow /\ Adding' = Adding /\ Added' = Added
        /\ mem' = mem /\ store' = store /\ UsedWindow \in Seq(Heads)
    BY <1>0, CollectWindows, Typed
  <1>2. /\ h \in Heads /\ Has(UsedWindow, h)
        /\ \A g : Has(Tail(UsedWindow), g) <=> Has(UsedWindow, g) /\ g # h
    BY <1>0, <1>1, TailOnce DEF ChainsApart
  <1>3. h \notin drv.free /\ ~(Adding /\ Added = h) /\ ~Has(AvailWindow, h)
    BY <1>0, <1>2 DEF ChainsApart
  <1>4. JobOf(h).stage = "served"
    <2>1. JobOf(h) = JobAt(h, drv.free, Adding /\ Added = h, AvailWindow, UsedWindow, mem.chain[h])
      BY <1>0, <1>2, JobIs
    <2> QED BY <1>2, <1>3, <2>1 DEF JobAt
  <1>5. JobOf(h)' = [stage |-> "free"]
    <2>1. JobOf(h)' = JobAt(h, drv'.free, Adding' /\ Added' = h, AvailWindow', UsedWindow', mem'.chain[h])
      BY <1>0, <1>2, JobNext
    <2> QED BY <1>1, <2>1 DEF JobAt
  <1>6. ASSUME NEW g \in Heads, g # h PROVE JobOf(g)' = JobOf(g)
    <2>1. JobOf(g) = JobAt(g, drv.free, Adding /\ Added = g, AvailWindow, UsedWindow, mem.chain[g])
      BY <1>0, JobIs
    <2>2. JobOf(g)' = JobAt(g, drv'.free, Adding' /\ Added' = g, AvailWindow', UsedWindow', mem'.chain[g])
      BY <1>0, JobNext
    <2>3. Has(UsedWindow', g) <=> Has(UsedWindow, g)
      BY <1>1, <1>2, <1>6
    <2> QED BY <1>1, <1>6, <2>1, <2>2, <2>3 DEF JobAt
  <1>7. Jobs' = [Jobs EXCEPT ![h] = [stage |-> "free"]]
    BY <1>2, <1>5, <1>6, OneJob
  <1>8. Jobs[h].stage = "served"
    BY <1>2, <1>4 DEF Jobs
  <1>9. Disk' = Disk /\ Writable' = Writable
    BY <1>1 DEF Disk, Contents, Writable
  <1> QED BY <1>1, <1>2, <1>7, <1>8, <1>9
          DEF Abstract!Collect, Abstract!Idle, Jobs, Disk, Writable, AvailWindow

\* A reset forgets every request.
LEMMA ResetRefines ==
    ASSUME StoreInv, StoreInv', ResetDevice
    PROVE  Abstract!Forget
  <1>0. VBTypeOK /\ VBTypeOK'
    BY DEF StoreInv
  <1>1. AvailWindow' = << >> /\ drv'.free = Heads /\ store' = store
    BY <1>0, ResetWindows
  <1>2. ASSUME NEW g \in Heads PROVE JobOf(g)' = [stage |-> "free"]
    <2>1. JobOf(g)' = JobAt(g, drv'.free, Adding' /\ Added' = g, AvailWindow', UsedWindow', mem'.chain[g])
      BY <1>0, JobNext
    <2> QED BY <1>1, <2>1 DEF JobAt
  <1>3. Jobs' = [g \in Heads |-> [stage |-> "free"]]
    BY <1>2 DEF Jobs
  <1>4. Disk' = Disk /\ Writable' = Writable
    BY <1>1 DEF Disk, Contents, Writable
  <1> QED BY <1>1, <1>3, <1>4
          DEF Abstract!Forget, Abstract!Idle, Jobs, Disk, Writable, AvailWindow

\* Filling a chain and the steps of the interrupt are invisible.
LEMMA StutterRefines ==
    ASSUME StoreInv, StoreInv', Add \/ AddInIrq \/ OtherStep
    PROVE  UNCHANGED <<Disk, Jobs, AvailWindow, Writable>>
  <1>0. VBTypeOK /\ ChainBudget /\ ChainsApart /\ VBTypeOK'
    BY DEF StoreInv
  <1>1. CASE Add \/ AddInIrq
    <2>1. PICK h \in drv.free, c \in NewChains :
              /\ h \in Heads /\ ~Adding /\ Adding' /\ Added' = h
              /\ drv'.free = drv.free \ {h}
              /\ AvailWindow' = AvailWindow /\ UsedWindow' = UsedWindow
              /\ mem'.chain = [mem.chain EXCEPT ![h] = c]
              /\ store' = store
      BY <1>0, <1>1, AddWindows
    <2>2. ASSUME NEW g \in Heads PROVE JobOf(g)' = JobOf(g)
      <3>1. JobOf(g) = JobAt(g, drv.free, Adding /\ Added = g, AvailWindow, UsedWindow, mem.chain[g])
        BY <1>0, JobIs
      <3>2. JobOf(g)' = JobAt(g, drv'.free, Adding' /\ Added' = g, AvailWindow', UsedWindow', mem'.chain[g])
        BY <1>0, JobNext
      <3>3. CASE g = h
        BY <2>1, <3>1, <3>2, <3>3 DEF JobAt
      <3>4. CASE g # h
        <4>1. mem'.chain[g] = mem.chain[g]
          BY <1>0, <2>1, <3>4, Typed
        <4> QED BY <2>1, <3>1, <3>2, <3>4, <4>1 DEF JobAt
      <3> QED BY <3>3, <3>4
    <2>3. Jobs' = Jobs
      BY <2>2 DEF Jobs
    <2> QED BY <2>1, <2>3 DEF Disk, Contents, Writable
  <1>2. CASE OtherStep
    <2>1. /\ AvailWindow' = AvailWindow /\ UsedWindow' = UsedWindow
          /\ drv'.free = drv.free /\ Adding' = Adding /\ Added' = Added
          /\ mem' = mem /\ store' = store
      BY <1>0, <1>2, OtherWindows
    <2>2. ASSUME NEW g \in Heads PROVE JobOf(g)' = JobOf(g)
      <3>1. JobOf(g) = JobAt(g, drv.free, Adding /\ Added = g, AvailWindow, UsedWindow, mem.chain[g])
        BY <1>0, JobIs
      <3>2. JobOf(g)' = JobAt(g, drv'.free, Adding' /\ Added' = g, AvailWindow', UsedWindow', mem'.chain[g])
        BY <1>0, JobNext
      <3> QED BY <2>1, <3>1, <3>2
    <2>3. Jobs' = Jobs
      BY <2>2 DEF Jobs
    <2> QED BY <2>1, <2>3 DEF Disk, Contents, Writable
  <1> QED BY <1>1, <1>2

\* The initial states are initial states of the block store.
LEMMA InitRefines == VBInit => Abstract!AInit
  <1> SUFFICES ASSUME VBInit PROVE Abstract!AInit
    OBVIOUS
  <1>1. VBTypeOK
    BY InitType
  <1>2. mem.avail_idx = 0 /\ dev.last_avail_idx = 0 /\ drv.free = Heads
    BY DEF VBInit, ResetDev
  <1>3. AvailWindow = << >>
    BY <1>1, <1>2, Typed, IndexArith, WindowEmpty DEF AvailWindow
  <1>4. ASSUME NEW s \in Sectors PROVE Contents(s) \in Vals
    BY DEF VBInit, Contents
  <1>5. Disk \in [Sectors -> Vals]
    BY <1>4 DEF Disk
  <1>6. ASSUME NEW g \in Heads PROVE JobOf(g) = [stage |-> "free"]
    BY <1>1, <1>2, JobIs DEF JobAt
  <1>7. Jobs = [g \in Heads |-> [stage |-> "free"]]
    BY <1>6 DEF Jobs
  <1>8. Writable \in BOOLEAN
    BY DEF Writable
  <1> QED BY <1>3, <1>5, <1>7, <1>8
          DEF Abstract!AInit, Abstract!Idle, Jobs, Disk, Writable, AvailWindow

\* The invariant holds at start-up.
LEMMA InitStoreInv == VBInit => StoreInv
  BY InitType, InitBudget, InitApart DEF StoreInv

\* The invariant is inductive.
LEMMA StoreInvStep == StoreInv /\ [VBNext]_vbvars => StoreInv'
  <1> SUFFICES ASSUME StoreInv, [VBNext]_vbvars PROVE StoreInv'
    OBVIOUS
  <1>1. VBTypeOK'
    BY TypeStep DEF StoreInv
  <1>2. ChainBudget'
    BY BudgetStep DEF StoreInv
  <1>3. ChainsApart'
    BY <1>1, ApartStep DEF StoreInv
  <1>4. TableUnused'
    BY TableStep DEF StoreInv
  <1> QED BY <1>1, <1>2, <1>3, <1>4 DEF StoreInv

\* Every step is a step of the block store, or invisible to it.
LEMMA StepRefines ==
    StoreInv /\ StoreInv' /\ [VBNext]_vbvars => [Abstract!ANext]_(Abstract!avars)
  <1> SUFFICES ASSUME StoreInv, StoreInv', [VBNext]_vbvars
               PROVE  [Abstract!ANext]_(Abstract!avars)
    OBVIOUS
  <1>1. CASE ServeNext
    BY <1>1, ServeRefines DEF Abstract!ANext
  <1>2. CASE Publish \/ PublishInIrq
    <2>1. Added \in Heads
      BY Typed DEF StoreInv
    <2>2. \E h \in Heads : h = Added
      BY <2>1
    <2>3. PICK h \in Heads : h = Added
      BY <2>2
    <2> QED BY <1>2, <2>3, PublishRefines DEF Abstract!ANext
  <1>3. CASE CollectUsed
    <2>1. \E h : h = Head(UsedWindow)
      OBVIOUS
    <2>2. PICK h : h = Head(UsedWindow)
      BY <2>1
    <2>3. h \in Heads /\ Abstract!Collect(h)
      BY <1>3, <2>2, CollectRefines
    <2> QED BY <2>3 DEF Abstract!ANext
  <1>4. CASE ResetDevice
    BY <1>4, ResetRefines DEF Abstract!ANext
  <1>5. CASE Add \/ AddInIrq \/ OtherStep
    <2>1. UNCHANGED <<Disk, Jobs, AvailWindow, Writable>>
      BY <1>5, StutterRefines
    <2> QED BY <2>1 DEF Abstract!avars, Disk, Jobs, AvailWindow, Writable
  <1> QED BY <1>1, <1>2, <1>3, <1>4, <1>5
          DEF VBNext, Device, Process, Handler, OtherStep

\* The rings, the indices and the interrupts implement the block store, for
\* rings of every size, every disk and every mode of the image.
THEOREM StoreImplemented == VBSpec => ImplementsStore
  <1>1. StoreInv /\ [VBNext]_vbvars => StoreInv' /\ [Abstract!ANext]_(Abstract!avars)
    BY StoreInvStep, StepRefines
  <1> QED BY InitStoreInv, InitRefines, <1>1, StoreInvStep, PTL
          DEF VBSpec, ImplementsStore, Abstract!StoreSpec

=============================================================================
