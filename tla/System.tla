------------------------------- MODULE System -------------------------------
(***************************************************************************)
(* The hart and the block device together: a supervisor whose driver runs  *)
(* on the hart, one instruction per turn of the main loop, over machine    *)
(* firmware that sets the timer.  Nothing is assumed of the delivery of    *)
(* interrupts: the handler runs when, and only when, the tail of the loop  *)
(* takes the supervisor external interrupt that the PLIC's accesses have   *)
(* left in mip.                                                            *)
(*                                                                         *)
(* The steps of the driver are those of VirtioBlock and the turns are      *)
(* those of Hart.  A store to QUEUE_NOTIFY is one turn; the loop of        *)
(* queue_notify runs inside it (dev.loop), and the turn ends with it.      *)
(***************************************************************************)
EXTENDS VirtioBlock

VARIABLES hart, raisedAt

(* The program: words 1-3 firmware, 4-5 the kernel's loop, 6-8 its handler *)
SetTimer == 1
SkipEcall == 2
Leave == 3
Work == 4
WorkBack == 5
Vector == 6
Serve == 7
ServeBack == 8

H == INSTANCE Hart WITH
    NPC <- 9, Firmwares <- {}, DataAddrs <- {}, CsrVals <- [r \in STRING |-> {}],
    Guest <- [m \in 0 .. 3 |-> {"ecall", "mret", "sret", "clint"}]

hvars == <<hart, raisedAt>>
svars == <<hart, raisedAt, dev, mem, store, plic, drv>>

ExternalTrap == hart.scause = H!Interrupt(H!SEI)
TimerTrap == hart.scause = H!Interrupt(H!STI)

-----------------------------------------------------------------------------
(* Turns of the loop *)

At(p) == ~QueueBusy /\ hart.pc = p

\* The firmware programs the timer far enough ahead for its interrupt to be
\* handled: it comes due in the kernel's loop or in the device's handler.
TimerAhead ==
    hart'.timer = "due" =>
        hart.timer = "due" \/ hart.pc \in {Work, WorkBack} \/ drv.irq # "off"

Turn(Exec(_)) ==
    /\ H!MayFetch /\ hart.pc # 0
    /\ \E h \in H!Tick(hart) : H!Finish(Exec(h), h.pc, raisedAt)
    /\ TimerAhead

\* An instruction that touches memory or registers of the hart only
MemTurn == Turn(LAMBDA h : [h EXCEPT !.pc = H!Succ(@)])

JumpTo(p) == Turn(LAMBDA h : [h EXCEPT !.pc = p]) /\ UNCHANGED vbvars

\* csrs, csrc on sstatus
SetSie(b) ==
    /\ Turn(LAMBDA h : [h EXCEPT !.mstatus = [@ EXCEPT !.sie = b], !.pc = H!Succ(@)])
    /\ UNCHANGED vbvars

\* Mutant: SEIP does not follow the PLIC.
RegisterTurn_NoSeip == Turn(LAMBDA h : [h EXCEPT !.pc = H!Succ(@)])

\* A load or store of a register of the PLIC or the device, which moves SEIP
RegisterTurn ==
    Turn(LAMBDA h : [h EXCEPT !.pc = H!Succ(@),
                              !.mip = IF plic'.seip = 1 THEN @ \cup {H!SEI} ELSE @ \ {H!SEI}])

-----------------------------------------------------------------------------
(* The firmware: an ecall sets the timer *)

FirmwareTimer ==
    /\ At(SetTimer) /\ H!ClintWrite /\ TimerAhead
    /\ hart'.timer \in {"off", "armed"} /\ UNCHANGED vbvars

FirmwareSkip ==
    /\ At(SkipEcall)
    /\ Turn(LAMBDA h : [H!csr_write(h, "mepc", H!Succ(h.mepc)) EXCEPT !.pc = H!Succ(@)])
    /\ UNCHANGED vbvars

FirmwareReturn == At(Leave) /\ H!Mret /\ TimerAhead /\ UNCHANGED vbvars

-----------------------------------------------------------------------------
(* The kernel's loop *)

Enabled == hart.mstatus.sie = 1

Idle == /\ At(Work) /\ Enabled /\ drv.proc = "idle"
        /\ MemTurn /\ UNCHANGED vbvars

\* Interrupts are off from before Add to after Publish.
IrqSave == At(Work) /\ Enabled /\ drv.proc = "idle" /\ drv.free # {} /\ SetSie(0)
IrqRestore == At(Work) /\ ~Enabled /\ drv.proc = "published" /\ SetSie(1)

KernelMem == At(Work) /\ ~Enabled /\ (Add \/ Publish) /\ MemTurn

KernelReset == At(Work) /\ Enabled /\ ResetDevice /\ RegisterTurn

\* The store to QUEUE_NOTIFY begins, its loop runs, and its turn ends.
KernelNotify == At(Work) /\ Enabled /\ Notify /\ UNCHANGED hvars
DeviceServes == ServeNext /\ UNCHANGED hvars
NotifyEnds == NotifyDone /\ RegisterTurn

KernelLoop == At(WorkBack) /\ JumpTo(Work)

-----------------------------------------------------------------------------
(* The handler *)

ExternalEntry == At(Vector) /\ ExternalTrap /\ TakeIrq /\ MemTurn

TimerEntry == At(Vector) /\ TimerTrap /\ H!Ecall /\ TimerAhead /\ UNCHANGED vbvars

HandlerRegister ==
    /\ At(Serve) /\ ExternalTrap
    /\ Claim \/ Ack \/ Complete
    /\ RegisterTurn

HandlerMem ==
    /\ At(Serve) /\ ExternalTrap
    /\ CollectUsed \/ AddInIrq \/ PublishInIrq \/ Drained
    /\ MemTurn

HandlerNotify == At(Serve) /\ ExternalTrap /\ NotifyInIrq /\ UNCHANGED hvars

HandlerLoop == At(ServeBack) /\ drv.irq # "off" /\ JumpTo(Serve)

HandlerReturn ==
    /\ (At(ServeBack) /\ drv.irq = "off") \/ (At(Serve) /\ TimerTrap)
    /\ H!Sret /\ TimerAhead
    /\ UNCHANGED vbvars

-----------------------------------------------------------------------------

\* The firmware is about to enter the kernel, whose device is reset.
SysInit ==
    /\ hart = [H!Reset EXCEPT !.pc = Leave, !.mepc = Work,
                  !.mtvec = [mode |-> 0, base |-> SetTimer],
                  !.stvec = [mode |-> 0, base |-> Vector],
                  !.mideleg = {H!SEI, H!STI}, !.mie = {H!SEI, H!STI},
                  !.mstatus = [H!Reset.mstatus EXCEPT !.mie = 0, !.mpp = H!SMODE],
                  !.timer = "armed"]
    /\ raisedAt = [c \in H!ExcFlags |-> 0]
    /\ VBInit

FirmwareTurn == FirmwareTimer \/ FirmwareSkip \/ FirmwareReturn
KernelTurn == Idle \/ IrqSave \/ IrqRestore \/ KernelMem \/ KernelReset \/ KernelNotify \/ KernelLoop
NotifyTurn == DeviceServes \/ NotifyEnds
HandlerTurn == \/ ExternalEntry \/ TimerEntry \/ HandlerRegister \/ HandlerMem
               \/ HandlerNotify \/ HandlerLoop \/ HandlerReturn

SysNext == FirmwareTurn \/ KernelTurn \/ NotifyTurn \/ HandlerTurn

\* The loop goes on turning; the program decides what a turn does.
SysSpec == SysInit /\ [][SysNext]_svars /\ WF_svars(SysNext)

-----------------------------------------------------------------------------
(* Properties *)

\* The emulation goes on: no exit of the trap functions, no fetch outside RAM,
\* and the test for an endless loop (a turn that ends where it began) does not
\* mistake an interrupt for one.
KeepsRunning == hart.halt = "run"

\* Whenever the kernel is out of its loop, what sret needs to come back is
\* intact: the handler has not been interrupted, nor the firmware under it.
ContextKept ==
    hart.pc \notin {Work, WorkBack} /\ hart.scause # 0 /\ ~QueueBusy =>
        /\ hart.sepc \in {Work, WorkBack}
        /\ hart.mstatus.sie = 0 /\ hart.mstatus.spp = H!SMODE

\* The driver's critical section is not interrupted: its handler never runs
\* between filling the ring and publishing.
CriticalSection ==
    drv.proc = "added" => drv.irq = "off" /\ hart.pc \in {Work, WorkBack}

\* The composition implements the block store: whatever the interrupts do to
\* the order of the driver's two contexts, each request is served once, in the
\* order of publication, and handed back once.
SysImplementsStore == ImplementsStore

\* Every published request of a known type comes back to the driver, with no
\* more than the turning of the loop to rely on.
RequestsComplete ==
    \A h \in Heads :
        (JobOf(h).stage \in {"queued", "served"} /\ mem.chain[h].type # "other")
            ~> (JobOf(h).stage = "free")
=============================================================================
