# A TLA+ model of riscv-emu-c

The repository is an emulator of a 64-bit RISC-V hart (RV64IMA with M, S and U
modes and Sv39) that boots Linux, optionally with a virtio block device taken
from TinyEMU (`temu/`).  This directory models its core: traps, address
translation, atomics, memory, arithmetic, the block device with its interrupts and
its two backends, and hart and device together.  `PROJECT.json` has the runs, the mutants, the map from definitions
to lines of code, the hazards and the theorems; this file explains them.

## 1. The system

| part | code | state | operations | interacts with |
|---|---|---|---|---|
| main loop | `emu.cpp` `main` | PC, registers, exception flags, LR reservations | one instruction per turn, then *one* interrupt or exception | everything |
| trap machinery | `csr_file.h` `trap_mode_select`, `excep_function`, `interrupt_function` | `cp`, mstatus, xcause, xepc, xtval, xtvec, xdeleg | trap entry; mret, sret in the loop | main loop, CSR file |
| CSR file | `csr_file.h` `csr_read`, `csr_write` | all CSRs (sstatus and SIE/SIP are views) | CSR instructions | trap machinery |
| Sv39 | `csr_file.h` `translate` | none (satp, mstatus, RAM) | walk for INST, LOAD, STOR | fetch, load, store, AMO |
| LR/SC, AMO | `emu.cpp` `case amo` | two reservations, `ret_data` | LR, SC, AMO* of both widths | RAM |
| CLINT | `csr_file.h`, `emu.h` | mtime, mtimecmp (cells of the RAM array) | store to mtimecmp; host clock | STIP |
| PLIC | `csr_file.h` `plic_*` | pending, served, SEIP | line up/down, claim, completion | virtio, main loop |
| virtio transport, block | `temu/virtio.c` | queue indices, `int_status`, rings in RAM | notify, acknowledge, reset, serve | PLIC, image |
| block image | `temu/temu.c` | file, sector table | sector read and write | virtio block |
| descriptor chains | `temu/virtio.c` `memcpy_to_from_queue`, `get_desc_rw_size` | none (descriptors in RAM) | copy to and from a chain, its sizes | virtio block, RAM |
| HTTP block device | `temu/block_net.c` | block cache, groups fetched ahead, written clusters, current request | sector read and write, arrival of a block | virtio block (front end `temu/jsemu.c`) |
| memory lanes, UART, loader | `emu.h`, `emu.cpp`, `temu/virtio.c` `mem_*` | RAM as double-words, the timer's cells, the input queue | loads, stores, device accesses, lines of the image file | main loop, CLINT, devices |
| ALU | `emu.h`, `emu.cpp` | registers | integer instructions, branch conditions, AMO arithmetic | main loop |
| rest of TinyEMU, `ramtest/`, `tests/`, `utils/` | | | not called by the emulator, an old copy, guest programs | |

The program is one thread.  What interleaves is inside the guest: a turn is
atomic, but an interrupt can come between any two turns, the device works inside
the guest's stores, the timer follows the host's clock, and processes of the
guest are preempted anywhere.  What makes it hard:

* **Ordering in the tail of the loop.**  An enabled and pending interrupt is
  tested before the exception flags.  If `interrupt_function` declines it, the
  chain is over: lower interrupts and the exception of this very instruction
  wait, and are taken in a later turn with that turn's PC and mode.  Page faults
  and `fence` skip the tail altogether.
* **Privilege by convention.**  `mret` and `sret` run in any mode, most CSRs can
  be written in any mode, and a trap to S overwrites `mpp`.
* **Exits.**  The trap functions call `exit(1)` to `exit(5)` for cases that are
  not supported; an unsuitable sequence of legal instructions ends the process.
* **Interrupt delivery through three latches** (int_status, PLIC line, SEIP)
  with claim, acknowledgement and completion in between.
* **Counters that wrap, reservations that outlive their thread, addresses cut to
  32 bits, 64-bit values compared in double, bytes assembled with masks.**
* **Callbacks.**  The HTTP backend resumes a request from the arrival of a block,
  while other blocks arrive, are evicted or are fetched ahead.

The properties that make each part correct are listed with its module below.

## 2. Modules

`Hart`, `VirtioBlock` (over `Plic`), `Atomics`, `Sv39`, `Memory`, `Alu`,
`DescChain` and `BlockNet` are the components, `System` composes `Hart` and
`VirtioBlock`.  `BlockStore` and `ByteMemory` are the abstract specifications of the
block device and of memory.  `HartManual` has the sentence of the manual that a run
refutes.  `MC*` are the instances for TLC, `*Proofs` the theorems, those about
`Atomics` and `Alu` together in `InstructionProofs`.

### Hart: the main loop and traps

State: `hart`, one record with the CSRs, flags, PC and timer, and the history
`raisedAt` (where each pending flag was raised).  A turn is one action, named
after the class of instruction: `Plain`, `Jump`, `Fence`, `Illegal`,
`LoadMisaligned`, `AmoMisaligned`, `LoadFault`, `StoreFault`, `BusError`,
`Ecall`, `Ebreak`, `Mret`, `Sret`, `Uret`, `CsrWrite`, `ClintWrite`,
`PlicAccess`, and for the fetch `FetchFault`, `FetchExit`, `FetchOutsideRam`.
`Tick` is the top of the loop, `Finish` its tail, `LoopCheck` the "Infinite loop"
test.  Which class comes next is free (`Guest[mode]`): the guest is the
environment, and set-up code is summarised by the set `Firmwares` of states it
may leave.

Abstractions: the PC counts words of a small space, word 0 lying below DRAM; bit
registers are sets of cause codes; whether a translated access faults is free
(`MayFault`), because the tables are the guest's (`Sv39` has the walk); mtime
against mtimecmp is off, armed or due, and may go from due back to armed, because
the clock is the host's wall clock; a PLIC
or virtio access leaves SEIP set or clear (`VirtioBlock` says which).  HMODE,
which `mpp` can name but `trap_mode_select` has no case for, makes the mode that
function returns a free choice.  Not modelled: utval, upie, fs, sd, and three
flags nothing sets.

| property | what could go wrong |
|---|---|
| `MppBelowMachine` | an `mret` in S or U climbs to M; `mprv` with a stale `mpp` turns translation off |
| `MachineEnteredByTrap` | M-mode entered elsewhere than at the vector, or with MIE set |
| `NeverAborts` | an interrupt from M to M, a vectored or user-level trap ends the process |
| `ExceptionsPrecise` | an exception outlives the turn of its instruction |
| `FaultAddressVisible` | the supervisor finds the address of an older fault in stval |
| `SupervisorOnlyDelegated` | a trap that was not delegated reaches S |
| `TimerTrapsDue` | STIP outlives the due time it was computed from |
| `TimerNotStarved` | a deliverable timer interrupt waits for ever behind others |

### VirtioBlock, Plic, BlockStore: the block device

State: `dev` (int_status, last_avail_idx and the progress of `queue_notify`),
`mem` (rings and chains in guest memory), `store` (file and sector table),
`plic`, `drv` (the driver, external).  `ServeNext` is one turn of the loop of
`queue_notify`, with `ServeIn`, `ServeOut` and `DropRequest` for the branches of
`virtio_block_recv_request`; `Notify`, `Ack`, `ResetDevice`, `Claim` and
`Complete` are the guest's accesses to the registers.  The driver publishes from
process context and from its handler, which may interrupt process context
anywhere except between filling the ring and publishing; it acknowledges before
it drains, as Linux does.  Indices count modulo `IdxMod` (2^16 in the code), of
which the ring size `N` is a divisor.  The image is opened in one of `Modes` (read
only, read-write, snapshot).  Requests are one sector long and in range, chains are
records (`DescChain` has the walk over descriptors), there is one queue.  Every chain
has a byte for the status: the assertion on its size (`virtio.c:1109`) is left out.

`ImplementsStore` says that all this implements `BlockStore`: requests served
once each, in order, against the disk as earlier ones left it, handed back once.
The mapping reads the queue out of the available ring and a chain's stage out of
the indices.  A request of an unknown type is dropped, in the abstract
specification too.  `LineFollowsStatus`, `NoLostInterrupt` and `UsedHasInterrupt` are
the delivery of interrupts, `RingsNotOverrun` the bound on both rings, and
`EveryRequestAnswered` the liveness.

### Atomics: LR/SC and AMO

State: the two reservations, `ret_data`, the running thread, and the history `lr`
of what each thread's LR still holds.  Memory contents are left out: what matters
is who wrote where.  Threads run freely and are preempted anywhere; the operating
system's dummy SCs have the widths in `Yield`.  `ScExclusive`: an SC stores only
on an LR of its own thread that no other thread has disturbed.  `ScTellsTruth`:
rd is 0 exactly if the SC has stored, never a left-over of `ret_data`.

### Sv39: translation

State: the tables `pt`, and an access with its phase.  `translate`, `Walk1` and
`Walk0` are the three levels of `translate()`, with the 32-bit truncations, RAM
aliased below DRAM_BASE, and the exception of `memory.at` as a crash.  `Allowed`,
`Current` and `Target` state the manual's algorithm (section 4.3.2) without
recursion, as conditions on the entry at each level.  The operating system edits
entries, and on a fault sets A and D if the manual allows the access (`Repair`)
or kills the process (`Kill`).  Offsets, ASIDs and bits 63-39 of an address are
left out.  `WalkAgrees`: what the manual completes in RAM, the code completes at
the same address.  `StoresTracked`: a store goes through a writable, dirty leaf.
`DemandPagingEnds`: unless the tables change for ever, every access ends.

### System: hart and device together

`System` extends `VirtioBlock` and instantiates `Hart`, over one state.  The driver of
`VirtioBlock` becomes a program of nine words: firmware that sets the timer and
returns, the kernel's loop, and a handler.  Each step of the driver is one turn of
the main loop and ends with its tail; a store to QUEUE_NOTIFY is one turn with the
device's loop inside.  Nothing is assumed of the delivery of interrupts any more:
the handler runs when the tail takes SEI, from the SEIP that the accesses to PLIC
and device have left, and timer interrupts arrive in between.  What is assumed is
`TimerAhead`: the firmware programs the timer far enough ahead for its interrupt to be
handled before the next one comes due.

| property | what could go wrong |
|---|---|
| `KeepsRunning` | the endless-loop test or an exit of the trap functions ends the process |
| `ContextKept` | a nested trap overwrites the sepc, spp or SIE that sret needs |
| `CriticalSection` | the handler runs between filling the ring and publishing |
| `SysImplementsStore` | the order the interrupts really give breaks the refinement |
| `RequestsComplete` | a request waits for an interrupt the loop never takes |

### Memory and ByteMemory: RAM, CLINT, console, loader

State: `memory`, an array of double-words, each a function of eight byte lanes; the
register loaded last; `ls_success`, which outlives the instruction that set it; the
console's queue; the loader's place in the image; and the history `last`, the access of
the last step, with its offset in RAM or its register of the CLINT.
`Memory` has `store_byte` ... `store_double_word`, the loads with their sign
extension, what LR, SC and the AMOs do to memory (`Lr`, `Amo`; their results are `Alu`'s
and `Atomics`'), `mem_read*`/`mem_write*` of the devices, the CLINT's registers with the
cells of RAM they share, the UART's polling, and the loader, which packs two 32-bit
lines into a double-word.  `ImplementsBytes` says that all this is the little-endian
memory of bytes of `ByteMemory` outside the timer's cells: an aligned access is
carried out on exactly its bytes, a misaligned one likewise or not at all, and the
emulator stops at exactly the accesses that begin outside the reach of their kind.  The
reaches are the code's own, which disagree (stores, loads and AMOs have three); that a
process exits or aborts looks alike.  A store with an undefined func3 clears a
double-word or does nothing, depending on `ls_success`: the abstract memory allows both.
`TimerMoves`: mtimecmp changes only by a write to that register of the CLINT, and then
to the value written, or by a write to the RAM address of its cell.

### Alu: integer instructions

The instructions as the C code computes them (shifts bit by bit, sign extension by
xor and subtraction, `divi` with its comparisons in double, high halves of 128-bit
products) beside the definitions of the ISA, with the widths as parameters.  Powers of
two are a recursive function, so that their laws can be proved.
`AluExact` compares the two for every instruction.  The code computes with `Regs`, the
register file after x0 has been cleared, the reference with the operands the ISA names
(`Operand`), whatever an earlier instruction left in x0.  The one difference, in `divi`
(section 3), is part of the property: it says for which operands the result deviates and
to what, so it shows any other deviation but does not reject this one.  Undefined func3
and func7 write 0 or nothing (`OpUndefined`, `BranchUndefined`).

### DescChain: copies between buffers and chains

`memcpy_to_from_queue` as a step machine, one step per turn of its loops, and
`get_desc_rw_size`.  Lengths are `uint32_t`, offsets, counts and sums are `int`: the
conversions between the two are modelled (`ToUint`, `ToInt`), with 2^31 as the parameter
`IntLimit`.  `CopyExact`: the bytes copied are the right ones, each once, and the result
says whether all were.  `SizesSuffice`: the callers, which ignore that result, may rely
on the sizes, even when the sum of the lengths has wrapped.  Both are stated for
descriptors that RAM can hold (`InRam`: lengths below 2^31); a longer one makes `min_int`
negative and the count grow, and more bytes are copied than were asked for.
`CopyReturns`: the loops end, whatever the lengths.  A chain is a finite sequence: over a
cycle of next fields `get_desc_rw_size` does not end.

### BlockNet: the HTTP block device

State: `cache` with the order `newer` of its list, the downloads `loads`, the group
still `todo` at start-up, the written `clusters` and their data, the current request
`io`, and the history `disk`, what the guest has written so far.  One turn of the loop
in `bf_rw_async1` is one step; a block arrives or fails in steps of their own, and
resumes the request that waits for it.  The data of a request are kept by value, where
the code keeps a pointer into the caller's buffer; blocks are a multiple of clusters
(`ClusterAssumption`), as the comment at `block_net.c:66` says, though lines 462-467
accept smaller blocks too.

| property | what could go wrong |
|---|---|
| `DownloadsValid` | the callback of a download finds its block evicted, or loaded twice |
| `ResumeExact` | a stale `cur_block_num` resumes a request that does not wait; one that waits is never resumed |
| `WritesKept` | eviction, or a write that fails half-way, loses or invents data |
| `ReadsExact` | a read returns a block that has not arrived, or other data than its cluster's (but for the sectors of section 3) |
| `RequestEnds` | a request waits for a block nobody has asked for |

## 3. Runs

| run | shows | states |
|---|---|---|
| `hart_modes` | privilege properties, code of all modes, HMODE and M among the targets of mret | 66118 |
| `hart_paging` | exceptions and page faults of S and U code, no interrupts | 85195 |
| `hart_sbi` | supervisor over firmware with timer, external and machine interrupts, a clock that goes back; liveness | 27589 |
| `block_store` | refinement, interrupts, rings, liveness; the three modes of the image | 248704 |
| `system_irq` | hart and device together: the loop's own delivery of interrupts; refinement and liveness | 95875 |
| `atomics_threads` | two threads, a shared and a private page each | 1784 |
| `paging_walk` | the walk, three tables with entries of every kind; liveness | 54252 |
| `memory_bytes` | loader, loads, stores, AMOs, devices and timer cells against a memory of bytes | 138213 |
| `alu_isa` | every integer instruction against the ISA, all pairs of the chosen operands | 182925 |
| `chain_copy` | all copies over all small chains, with lengths that are negative as int; termination | 565866 |
| `net_cache` | cache, downloads, clusters and requests of the HTTP device; liveness | 21624 |
| `hart_manual_epc` | the code does otherwise than the manual in `docs/` says | violation |

Bounds.

* Hart: four words of PC are enough for one word below DRAM, two vectors and code
  apart from them; no property counts further.
* VirtioBlock, System: rings of two entries with indices modulo four, so that every
  index wraps and the slot of an index differs from the index; two chains make the
  device serve one request while another is queued, collected or added.  One sector
  with two values shows a lost or reordered write; in `System` one value is enough,
  the contents being `block_store`'s question.
* Atomics: two threads, one cell shared and one private at the same virtual address,
  and a cell at DRAM_BASE.
* Sv39: one table per level with two entries, with the digits PPN2 of the real
  address map (0 below DRAM, 2 in RAM, 6 and 16386 = 2^14 + 2 for the truncations).
* Memory: four double-words of which stores reach three, two of them the timer's;
  bytes of four values, so that a byte has a sign; every offset, width and alignment,
  two accesses after loading (a write and what reads or overwrites it).
* Alu: registers of 8 bits, words of 4, immediates of 3, doubles of 5 significant
  bits: the code's 64, 32, 12 and 53 in the same order, so that each truncation and
  each rounding happens.
* DescChain: up to three descriptors in every mixture of directions, integers of three
  bits: lengths of 0 to 7, of which 4 to 7 are negative as int, counts and offsets of 0
  to 3.  Sums of two lengths already wrap.
* BlockNet: three blocks, a cache of two, two clusters in a block and two sectors in
  a cluster; groups {0}, then {0, 1}, so that a block is fetched ahead that is there
  already; requests inside a cluster, across clusters and across blocks.

The theorems drop the bounds of every component; the program and the addresses in
`System` are fixed, its rings, disk and values are not.

The disagreement with the manual that has a run (quotation in `PROJECT.json`): a
pending exception is taken late, with the epc of another instruction
(`emu.cpp:1658`).

Others, seen while modelling and kept in the model as the code has them, without a
run of their own:

* user code is not interrupted while sstatus.SIE is 0 (`csr_file.h:1184`), though the
  manual enables supervisor interrupts in U-mode whatever SIE holds;
* `~plic_served_irq` is always true, so SEIP rises between claim and completion
  (`csr_file.h:1000`); `NoLostInterrupt`, `EveryRequestAnswered` and
  `RequestsComplete` show that drivers live with it;
* an SC ends only the reservation of its own width (`emu.cpp:1263`): yielding with
  one dummy SC, as the manual recommends, is not enough (`Exclusive` asks for both);
* U, R, X and superpage alignment are not checked (`csr_file.h:1424`);
* the chain puts timer before software interrupts, against the comment at
  `emu.cpp:1646`; mret sets MIE to 1 instead of MPIE; a trap to S overwrites MPP; a
  misaligned access leaves stval alone; a fetch fault overwrites stval whoever
  handles it;
* lengths of 2^31 and more in a descriptor turn negative in `min_int` (`virtio.c:434`)
  and make a copy longer than asked for;
* `divi` compares with pow(2,63) in double (`emu.h:428`): DIV by -1 of a dividend
  that rounds to the smallest number answers the smallest number;
* a load at exactly the end of RAM passes its check (`emu.cpp:455`), a store stops at
  a limit of its own (`emu.cpp:630`), an AMO at DRAM_BASE ends the emulation
  (`emu.cpp:987`);
* stores and branches with an undefined func3 are no illegal instructions
  (`emu.cpp:669`, `emu.cpp:415`);
* the HTTP device reads a whole piece from the block when its first cluster was never
  written (`block_net.c:290`): later clusters of the piece that were written are read
  as the server has them.  `ReadsExact` states exactly this (`Shadowed`);
* `queue_notify` does not test whether the queue is ready (`virtio.c:531`), a write
  buffer is freed though an asynchronous backend may keep it (`virtio.c:1115`), and a
  reset leaves `req_in_progress` (`virtio.c:1072`); the file backend, which the
  emulator uses, completes at once.

## 4. Fairness

The emulator is a sequential loop that never waits (except in getchar), so every
liveness property assumes only that it keeps turning.  `Hart!FairSpec`: weak
fairness of the turns together, no fairness between instruction classes.
`VBFair`: the device's loop ends, the driver publishes what it added and its
handler runs on; nothing is promised about new requests or resets.  `SFair`: the
access is carried out and the handler runs.  `AFair` only keeps the hart
executing.  `SysSpec`: the machine takes steps for ever, no kind of step preferred;
the driver's program decides the rest.  `CopySpec`: the one thread runs on.
`NetFair`: the thread runs on, and each download ends, with data or with an error,
as the HTTP layer calls back in both cases.  `Memory` and `Alu` have no liveness
property.  Deadlock is checked everywhere; the end of the process is an explicit
stuttering action (`Stopped`, `Exited`, `Crashed`).

## 5. Proofs

TLAPS checks these for every value of the constants that satisfies the named
assumptions.

* `HartProofs`.  `TypeCorrect` for every guest.  `Privilege` and `MachineEntry`
  assume that machine code executes no `sret` (an `sret` in M-mode with spp = S
  would reach S-mode with mpp untouched, possibly 3); `MppBelowMachine` is then
  inductive together with the type.  `NoAbort` assumes `Disciplined` and rests on
  the inductive invariant `Safe`: besides the exits, it keeps MIE clear in M-mode,
  mpp below M, the vectors direct, no delegation to U and no pending flag, without
  which an interrupt or a late exception in M-mode would be possible.  `Precise`
  assumes `NoInterrupts` and rests on `Clean` (mie empty and no flag between
  turns).  `FaultAddress` and `OnlyDelegated` assume `SupervisorSetUp` (fetch faults
  delegated, and the delegation and the supervisor's trap registers not written after
  set-up; the constants of `hart_paging` satisfy it) and rest on `Told`, which adds
  that no mode is HMODE, that satp stays known and that fetch faults stay delegated:
  otherwise a fetch fault handled elsewhere would overwrite stval under the
  supervisor's handler.  `TimerTrapsInTime` assumes only that the guest does not write
  scause: the tail of the loop samples STIP from mtime before it takes an interrupt, so
  the step itself has the reason and no invariant beyond the type is needed.
* `VirtioBlockProofs`.  For every mode of the image.  `BlockTypeCorrect`;
  `LineConsistent`, `InterruptNotLost`
  and `UsedAnnounced` from the inductive invariant `Delivery`, which ties the
  three latches to the program counter of the handler; `RingsSafe` from
  `ChainBudget`: entries in flight, uncollected entries, free chains and the chain
  being added are at most N together.  `RingsNotOverrun` alone is not inductive:
  without the free chains in the sum, `Add` could exceed it.  The arithmetic is
  that of distances modulo IdxMod.  `StoreImplemented` is the refinement of
  `BlockStore`.  Its invariant `StoreInv` adds to types and budget `ChainsApart` (a
  chain is in one place: free, being added, published or used, and once in its ring;
  otherwise the stage of a chain could not be read off the rings) and `TableUnused`
  (without snapshot the sector table is empty).  The lemmas on windows carry it: a
  store at the end index appends, an advanced start index drops the oldest entry, a
  store elsewhere leaves the window alone, all across the wrap of the indices; this
  is where N must divide IdxMod.  Serve, Publish, Collect and Reset are steps of the
  store, all others are invisible.  `TableAssumption` says that NULL in the table is
  no sector.
* `InstructionProofs`, on `Atomics`.  `AtomicsTypeCorrect`, `ScAnswer` (a reservation
  is always aligned: `ResvAligned`), and `Exclusive`, which assumes that context
  switches yield both widths and shows that a valid reservation is the running thread's
  own undisturbed LR (`ResvHeld`).
* `InstructionProofs`, on `Alu`.  `ArithmeticExact` for all contents of the
  registers, what is left in x0 included, and all widths that `WidthAssumption` admits: words are half
  registers, a double holds every word and has at least two bits less than a register.
  64, 32, 12 and 53 are among them, so here the theorem is about the code's own numbers
  and the run about small ones.  The invariant `AluInv` adds that registers hold numbers
  of XLEN bits, which the exactness of an instruction needs of its operands;
  `RegistersStay` says that its result is one again.  A step is exact because every
  operator is, one lemma per instruction set (`XOpExact`, `WOpExact`, `AmoWExact`,
  `AmoDExact`, `BranchExact`), along these lines:
  - what a recursive function over an interval computes exists and is unique
    (`Iterates`, from the least counterexample as in `DescChainProofs`); it gives the
    laws of powers of two (`Pow2Is`, `Pow2Sum`) and of the loop of the shifts;
  - sums, differences and products depend on the residues of their operands only
    (`ModSum`), and reading as a signed number keeps the residue (`SignedIs`, `WordIs`);
    hence everything that wraps, and the upper halves of products (`DivCut`);
  - xor with the sign bit and subtraction is sign extension (`TopBit`, `SextIs`);
  - a turn of the shift loop halves the signed number, rounding down (`HalfSigned`), so
    k turns divide it by 2^k (`ShiftLoopIs`);
  - the double of a dividend is the smallest number exactly if the dividend is at most
    half a unit of the last place above it (`RoundedTop`, `ToDoubleSmallest`): the
    exception in `AluExact` is all there is to it.  Doubles hold words exactly
    (`ToDoubleExact`), so `divi32` has no such case.
* `Sv39Proofs`.  `PagingTypeCorrect`; `WalkCorrect` and `DirtyTracking`, both from
  the lemma `WalkFollows` (down to a leaf, `translate()` takes the manual's path)
  and `EndsAtLeaf`.  They assume what the address map gives: RAM lies between
  DRAM_BASE and 4 GiB.
* `BlockNetProofs`.  `NetTypeCorrect`, `DownloadsSafe` and `ResumeSafe` from
  `Structure`, `WritesSafe` and `ReadsSafe` from `Contract`, for every number and size
  of blocks, every cache and every set of requests.  `Structure` adds to them that
  requests stay inside the image (`InImage`), that nothing is left of a request or
  group that has ended (`Quiet`), and that exactly one download, callback or group will
  bring each block that is being loaded (`Expected`); without the last, the arrival of
  one block could leave a request waiting for another that nobody brings.  `Contract`
  adds that a write has the data the disk should hold still ahead (`Storing`) and that
  a read has returned what is due so far (`Fetched`).
* `DescChainProofs`.  `CopiesExactly` and `SizesHold` from `CopyInv`, which adds to the
  two properties `Progress`: where the loop stands, which bytes are behind it and which
  ahead, and in what direction the descriptors up to there go.  The invariant holds for
  descriptors in RAM (`CopySpec => [](InRam => CopyInv)`): `NoWrap` and `SmallStays` show
  that there no conversion between int and uint32_t changes a number, which fails from
  2^31 on.  `SizesHold` needs no bound on the sum: a sum that has wrapped is smaller than
  the true one (`ToIntBelow`).  The sums over a chain
  are a recursive function; what it computes is shown by the least counterexample
  (`WFMin` of the library, applied to a set), since its induction rules, which take an
  operator, cannot be used.
* `MemoryProofs`.  `MemoryIsBytes`, the refinement of `ByteMemory`, and
  `CmpMovesByAccess`, for RAM, store limits, registers and images of every size; `ByteMod`
  is any even number.  The refinement maps `stopped` to the two ways the process ends, so
  it also proves where each kind of access stops.  `MInv` adds to the type that what the loader has not reached is clear:
  otherwise the second line of a double-word, which is ored in, would not be four bytes
  written.
* `SystemProofs`.  `SysInv`: types, the registers firmware sets and nobody changes
  (`Fixed`), the phase of the program with what each phase may find in cp, SIE, spp,
  sepc and the driver's program counter (`InFirmware`, `InKernel`, `InHandler`), that
  mip's SEI is the PLIC's SEIP except while the device is serving (`SeipFollows`), and
  that the handler entered for an external interrupt finds it still there
  (`EntryHasCause`).  The lemma `LoopTail` says what the tail of a turn can do to a
  supervisor of this kind: go on, or enter the handler with the context saved.
  `NeverStops`, `ReturnContextKept` and `CriticalSectionHeld` follow.  `RunsDriver` shows
  that every step of the composition is a step of `VirtioBlock` or leaves its state
  alone, so all safety of `VirtioBlock` holds here too; `SysStoreImplemented` follows
  from it and `StoreImplemented`.

Only model-checked: the liveness properties `TimerNotStarved`, `EveryRequestAnswered`,
`RequestsComplete`, `DemandPagingEnds`, `CopyReturns`, `RequestEnds` (liveness under
fairness is beyond the prover).  Every invariant and action property that a passing run
checks has a theorem.

## 6. Not modelled

* TinyEMU beyond the block device (`temu/`: its own RISC-V and x86 machines, network,
  9P, console, input and display devices, PCI, slirp, the JavaScript front end).  The
  emulator links some of it and calls none: it has its own CPU and loop, and opens one
  file-backed block device.  The largest files of the repository are there, which is
  why the mapped share of all its lines is small.
* `ramtest/`, an older copy of the emulator and of TinyEMU line by line.
* The set-up registers of the transport (features, queue selection and addresses,
  configuration space) and the asynchronous completion in `virtio.c`, which the file
  backend never takes.
* Bitwise and, or, xor; CSRs that take no part in traps; floating point, which is an
  illegal instruction; terminal output; opening of files; guest programs in `tests/`
  and the tools in `utils/`.

## 7. Plan

1. Done: `Hart`, `VirtioBlock` over `Plic` with `BlockStore`, `Atomics`, `Sv39`;
   `Memory` with `ByteMemory`, `Alu`, `DescChain`, `BlockNet`, `System`; proofs of the
   safety of all of them and of the three refinements.
2. The asynchronous path of the virtio block device over `BlockNet`, with resets in
   between, and the set-up registers of the transport.
3. Should the emulator come to use them: the console, network and input devices of
   TinyEMU over the same queues.
