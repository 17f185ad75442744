---------------------------- MODULE VirtioBlock ----------------------------
(***************************************************************************)
(* The virtio block device (temu/virtio.c, temu/temu.c) behind the PLIC,   *)
(* with the guest's driver as its environment.                             *)
(*                                                                         *)
(* The device runs inside the guest's stores to its MMIO registers.  A     *)
(* store to QUEUE_NOTIFY runs the loop of queue_notify: one step per turn  *)
(* of that loop here, during which the guest does nothing (dev.loop).      *)
(*                                                                         *)
(* The driver has two contexts on the one hart: process context, which     *)
(* publishes requests, and the interrupt handler, which may come in at any *)
(* point at which process context has interrupts enabled, and which may    *)
(* publish requests itself.  Ring indices are 16-bit counters in the code  *)
(* and counters modulo IdxMod here.                                        *)
(***************************************************************************)
EXTENDS Plic, Naturals, Sequences, FiniteSets

CONSTANTS
    N,           \* entries of a ring (QUEUE_NUM)
    IdxMod,      \* modulus of the ring indices
    Sectors, Vals,
    Modes        \* how the image may have been opened

\* num is a power of two, so that it divides 2^16.
ASSUME RingAssumption == /\ N \in Nat \ {0} /\ IdxMod \in Nat
                         /\ N < IdxMod /\ IdxMod % N = 0
ASSUME ModeAssumption == Modes \subseteq {"rw", "ro", "snapshot"}

VARIABLES
    dev,     \* the device's registers and the progress of queue_notify
    mem,     \* the guest memory the device and the driver share
    store,   \* the image file and the snapshot's sector table
    plic,    \* the interrupt controller
    drv      \* the driver

vbvars == <<dev, mem, store, plic, drv>>

Heads == 0 .. N - 1
Indices == 0 .. IdxMod - 1
Slot(i) == i % N

\* Mutant: the index does not wrap.
Inc_NoWrap(i) == i + 1

Inc(i) == (i + 1) % IdxMod
NoLoop == IdxMod             \* queue_notify is not running
Untouched == "untouched"     \* no entry in the sector table

\* The table holds a pointer to the sector's copy or NULL.
ASSUME TableAssumption == Untouched \notin Vals

ReqTypes == {"in", "out", "other"}
Statuses == {"none", "ok", "ioerr"}
Chains == [type : ReqTypes, sector : Sectors, data : Vals, status : Statuses]

DevType == [int_status : Bit, last_avail_idx : Indices, loop : Indices \cup {NoLoop}]

MemType == [avail_idx : Indices, avail_ring : [Heads -> Heads],
            used_idx : Indices, used_ring : [Heads -> Heads],
            chain : [Heads -> Chains]]

StoreType == [mode : Modes, file : [Sectors -> Vals], table : [Sectors -> Vals \cup {Untouched}]]

\* proc and irq are the program counters of the driver's two contexts; seen is
\* its last_used_idx.
DrvType == [proc : {"idle", "added", "published"},
            irq : {"off", "claim", "ack", "drain", "added", "published", "done"},
            seen : Indices, free : SUBSET Heads]

VBTypeOK == /\ dev \in DevType /\ mem \in MemType /\ store \in StoreType
            /\ plic \in PlicType /\ drv \in DrvType

-----------------------------------------------------------------------------
(* The image: temu.c *)

\* Mutant: the sector table is not consulted.
bf_read_async_FileOnly(s, sector) == s.file[sector]

bf_read_async(s, sector) ==
    IF s.mode = "snapshot" /\ s.table[sector] # Untouched
    THEN s.table[sector] ELSE s.file[sector]

\* The drive never completes asynchronously: the return value is 0 or -1.
bf_write_async(s, sector, data) ==
    CASE s.mode = "ro" -> [ret |-> "ioerr", store |-> s]
      [] s.mode = "rw" -> [ret |-> "ok", store |-> [s EXCEPT !.file[sector] = data]]
      [] s.mode = "snapshot" ->
            [ret |-> "ok", store |-> [s EXCEPT !.table[sector] = data]]

-----------------------------------------------------------------------------
(* The device: virtio.c *)

\* The used ring entry, the used index, the interrupt status and the line
virtio_consume_desc(m, head) ==
    [m EXCEPT !.used_ring[Slot(m.used_idx)] = head, !.used_idx = Inc(@)]

ResetDev == [int_status |-> 0, last_avail_idx |-> 0, loop |-> NoLoop]

\* Mutant: one entry more than is published
EnterNotify_OneMore ==
    dev' = [dev EXCEPT !.loop = Inc(mem.avail_idx)]

\* The guest stores to QUEUE_NOTIFY: the available index is read once.
EnterNotify ==
    dev' = [dev EXCEPT !.loop = mem.avail_idx]

QueueBusy == dev.loop # NoLoop

\* Mutant: the ring slot is the index itself, not the index modulo the size.
NextHead_NoWrap == mem.avail_ring[IF dev.last_avail_idx < N THEN dev.last_avail_idx
                                                            ELSE N - 1]

\* The descriptor head at last_avail_idx
NextHead == mem.avail_ring[Slot(dev.last_avail_idx)]

\* Mutant: the line goes up but the interrupt status is not set.
RaiseIrq_NoStatus ==
    [int_status |-> dev.int_status, plic |-> plic_set_irq_emu(plic, 1)]

\* int_status |= 1; set_irq(s->irq, 1)
RaiseIrq == [int_status |-> 1, plic |-> plic_set_irq_emu(plic, 1)]

\* A read: the data and the status byte go to the chain's buffers.
ServeIn(h) ==
    /\ mem.chain[h].type = "in"
    /\ mem' = virtio_consume_desc(
                [mem EXCEPT !.chain[h].data = bf_read_async(store, mem.chain[h].sector),
                            !.chain[h].status = "ok"], h)
    /\ UNCHANGED store
    /\ plic' = RaiseIrq.plic
    /\ dev' = [dev EXCEPT !.last_avail_idx = Inc(@), !.int_status = RaiseIrq.int_status]

\* A write: only the status byte goes back.
ServeOut(h) ==
    /\ mem.chain[h].type = "out"
    /\ LET w == bf_write_async(store, mem.chain[h].sector, mem.chain[h].data)
       IN  /\ store' = w.store
           /\ mem' = virtio_consume_desc([mem EXCEPT !.chain[h].status = w.ret], h)
    /\ plic' = RaiseIrq.plic
    /\ dev' = [dev EXCEPT !.last_avail_idx = Inc(@), !.int_status = RaiseIrq.int_status]

\* A malformed chain, a short header or an unknown type (flush): the entry is
\* consumed and the used ring never hears of it.
DropRequest(h) ==
    /\ mem.chain[h].type = "other"
    /\ dev' = [dev EXCEPT !.last_avail_idx = Inc(@)]
    /\ UNCHANGED <<mem, store, plic>>

ServeNext ==
    /\ QueueBusy
    /\ dev.last_avail_idx # dev.loop
    /\ ServeIn(NextHead) \/ ServeOut(NextHead) \/ DropRequest(NextHead)
    /\ UNCHANGED drv

\* The loop ends and the store to QUEUE_NOTIFY with it.
NotifyDone ==
    /\ QueueBusy
    /\ dev.last_avail_idx = dev.loop
    /\ dev' = [dev EXCEPT !.loop = NoLoop]
    /\ UNCHANGED <<mem, store, plic, drv>>

-----------------------------------------------------------------------------
(* The driver, process context *)

\* Fill a free chain and put it in the available ring.
AddTo(h, c) == [mem EXCEPT !.chain[h] = c, !.avail_ring[Slot(mem.avail_idx)] = h]

NewChains == {c \in Chains : c.status = "none"}

\* In process context interrupts are off from here to the publication.
Add ==
    /\ ~QueueBusy /\ drv.proc = "idle" /\ drv.irq = "off"
    /\ \E h \in drv.free, c \in NewChains :
          /\ mem' = AddTo(h, c)
          /\ drv' = [drv EXCEPT !.proc = "added", !.free = @ \ {h}]
    /\ UNCHANGED <<dev, store, plic>>

Publish ==
    /\ ~QueueBusy /\ drv.proc = "added" /\ drv.irq = "off"
    /\ mem' = [mem EXCEPT !.avail_idx = Inc(@)]
    /\ drv' = [drv EXCEPT !.proc = "published"]
    /\ UNCHANGED <<dev, store, plic>>

Notify ==
    /\ ~QueueBusy /\ drv.proc = "published" /\ drv.irq = "off"
    /\ EnterNotify
    /\ drv' = [drv EXCEPT !.proc = "idle"]
    /\ UNCHANGED <<mem, store, plic>>

\* A store of 0 to STATUS, after which the driver sets its rings up again.
ResetDevice ==
    /\ ~QueueBusy /\ drv.proc = "idle" /\ drv.irq = "off"
    /\ drv.free # Heads \/ dev.int_status = 1
    /\ dev' = ResetDev
    /\ plic' = plic_set_irq_emu(plic, 0)
    /\ mem' = [mem EXCEPT !.avail_idx = 0, !.used_idx = 0]
    /\ drv' = [drv EXCEPT !.seen = 0, !.free = Heads]
    /\ UNCHANGED store

-----------------------------------------------------------------------------
(* The driver, interrupt handler *)

IrqStep(from, to) == drv.irq = from /\ drv' = [drv EXCEPT !.irq = to]

\* The hart takes the supervisor external interrupt.
TakeIrq ==
    /\ ~QueueBusy /\ plic.seip = 1 /\ drv.proc # "added"
    /\ IrqStep("off", "claim")
    /\ UNCHANGED <<dev, mem, store, plic>>

\* The handler claims until the PLIC has nothing more.
Claim ==
    /\ ~QueueBusy
    /\ IrqStep("claim", IF plic.seip = 1 THEN "ack" ELSE "off")
    /\ plic' = plic_read(plic)
    /\ UNCHANGED <<dev, mem, store>>

\* Mutant: the line stays up when the last status bit is acknowledged.
Ack_KeepsLine ==
    /\ ~QueueBusy
    /\ IrqStep("ack", "drain")
    /\ dev' = [dev EXCEPT !.int_status = 0]
    /\ UNCHANGED <<mem, store, plic>>

\* A store of the interrupt status to INTERRUPT_ACK
Ack ==
    /\ ~QueueBusy
    /\ IrqStep("ack", "drain")
    /\ dev' = [dev EXCEPT !.int_status = 0]
    /\ plic' = plic_set_irq_emu(plic, 0)
    /\ UNCHANGED <<mem, store>>

\* One used entry is taken; its chain is free again.
CollectUsed ==
    /\ ~QueueBusy /\ drv.irq = "drain" /\ drv.seen # mem.used_idx
    /\ drv' = [drv EXCEPT !.seen = Inc(@),
                          !.free = @ \cup {mem.used_ring[Slot(drv.seen)]}]
    /\ UNCHANGED <<dev, mem, store, plic>>

\* The handler starts a request that was waiting for a free chain ...
AddInIrq ==
    /\ ~QueueBusy /\ drv.irq = "drain" /\ drv.seen = mem.used_idx
    /\ \E h \in drv.free, c \in NewChains :
          /\ mem' = AddTo(h, c)
          /\ drv' = [drv EXCEPT !.irq = "added", !.free = @ \ {h}]
    /\ UNCHANGED <<dev, store, plic>>

PublishInIrq ==
    /\ ~QueueBusy
    /\ IrqStep("added", "published")
    /\ mem' = [mem EXCEPT !.avail_idx = Inc(@)]
    /\ UNCHANGED <<dev, store, plic>>

NotifyInIrq ==
    /\ ~QueueBusy
    /\ IrqStep("published", "done")
    /\ EnterNotify
    /\ UNCHANGED <<mem, store, plic>>

\* ... or not.
Drained ==
    /\ ~QueueBusy /\ drv.seen = mem.used_idx
    /\ IrqStep("drain", "done")
    /\ UNCHANGED <<dev, mem, store, plic>>

Complete ==
    /\ ~QueueBusy
    /\ IrqStep("done", "claim")
    /\ plic' = plic_write(plic)
    /\ UNCHANGED <<dev, mem, store>>

-----------------------------------------------------------------------------

VBInit ==
    /\ dev = ResetDev
    /\ mem \in [avail_idx : {0}, avail_ring : {[h \in Heads |-> 0]},
                used_idx : {0}, used_ring : {[h \in Heads |-> 0]},
                chain : {[h \in Heads |-> c] : c \in NewChains}]
    /\ store \in [mode : Modes, file : [Sectors -> Vals], table : {[s \in Sectors |-> Untouched]}]
    /\ plic = PlicReset
    /\ drv = [proc |-> "idle", irq |-> "off", seen |-> 0, free |-> Heads]

Device == ServeNext \/ NotifyDone
Process == Publish \/ Notify
Handler == \/ TakeIrq \/ Claim \/ Ack \/ CollectUsed \/ PublishInIrq
           \/ NotifyInIrq \/ Drained \/ Complete

VBNext == Device \/ Process \/ Handler \/ Add \/ AddInIrq \/ ResetDevice

VBSpec == VBInit /\ [][VBNext]_vbvars

\* The guest keeps running: stores end, what was added is published, and the
\* hart takes an interrupt that stays deliverable.  New requests and resets
\* are not promised.
VBFair == VBSpec /\ WF_vbvars(Device) /\ WF_vbvars(Process) /\ WF_vbvars(Handler)

-----------------------------------------------------------------------------
(* Properties *)

\* The PLIC's view of the line is the device's interrupt status, and SEIP is
\* only up for a line that is up.
LineFollowsStatus == /\ plic.pending = dev.int_status
                     /\ plic.seip <= plic.pending

\* An interrupt the device has raised is never lost: unless it has been claimed
\* and completion will look at the line again, SEIP is up.
NoLostInterrupt == plic.pending = 1 /\ plic.served = 0 => plic.seip = 1

\* A used entry the driver has not collected always has an interrupt on its
\* way to the handler, or the handler on its way to the entry.
UsedHasInterrupt ==
    mem.used_idx # drv.seen =>
        \/ dev.int_status = 1
        \/ drv.irq = "drain"

\* The distance from index i to index j
Distance(i, j) == (j + IdxMod - i) % IdxMod

InFlight == Distance(dev.last_avail_idx, mem.avail_idx)
Uncollected == Distance(drv.seen, mem.used_idx)

\* A chain the driver has filled and not published yet
Unpublished == IF "added" \in {drv.proc, drv.irq} THEN 1 ELSE 0

\* The inductive form of RingsNotOverrun: every entry in flight, every entry the
\* driver has not collected and every chain being added stands for a chain that
\* is not free.
ChainBudget ==
    /\ InFlight + Uncollected + Cardinality(drv.free) + Unpublished <= N
    /\ drv.proc = "added" => drv.irq = "off"
    /\ QueueBusy => Distance(dev.last_avail_idx, dev.loop) <= InFlight

\* Neither ring is overrun: the device never overwrites a used entry that the
\* driver has not read, nor runs past what is published.
RingsNotOverrun ==
    /\ InFlight + Uncollected <= N
    /\ QueueBusy => Distance(dev.last_avail_idx, dev.loop) <= InFlight

\* The chains at the entries from index i up to index j of a ring, oldest first
Window(ring, i, j) == [k \in 1 .. Distance(i, j) |-> ring[Slot(i + k - 1)]]

InRing(h, ring, i, j) == \E k \in 1 .. Distance(i, j) : Window(ring, i, j)[k] = h

Request(h) == [type |-> mem.chain[h].type, sector |-> mem.chain[h].sector,
               data |-> mem.chain[h].data]

\* The chain that was added but not published yet is still the driver's.
AddedNotPublished(h) ==
    /\ "added" \in {drv.proc, drv.irq}
    /\ mem.avail_ring[Slot(mem.avail_idx)] = h

JobOf(h) ==
    IF h \in drv.free \/ AddedNotPublished(h) THEN [stage |-> "free"]
    ELSE IF InRing(h, mem.avail_ring, dev.last_avail_idx, mem.avail_idx)
         THEN [stage |-> "queued", req |-> Request(h)]
    ELSE IF InRing(h, mem.used_ring, drv.seen, mem.used_idx)
         THEN [stage |-> "served", req |-> Request(h), ok |-> mem.chain[h].status = "ok"]
    ELSE [stage |-> "lost"]

\* What the disk holds: the sector table hides the image file.
Contents(s) == IF store.table[s] # Untouched THEN store.table[s] ELSE store.file[s]

Abstract == INSTANCE BlockStore WITH
    writable <- store.mode # "ro",
    disk <- [s \in Sectors |-> Contents(s)],
    job <- [h \in Heads |-> JobOf(h)],
    queue <- Window(mem.avail_ring, dev.last_avail_idx, mem.avail_idx)

\* Refinement: rings, indices and interrupts implement the block store.  Each
\* published request is served once, in order, against the disk as earlier
\* requests left it, and is handed back once with the right data and status.
ImplementsStore == Abstract!StoreSpec

\* Every request of a known type that is published comes back to the driver.
EveryRequestAnswered ==
    \A h \in Heads :
        (JobOf(h).stage \in {"queued", "served"} /\ mem.chain[h].type # "other")
            ~> (JobOf(h).stage = "free")

=============================================================================
