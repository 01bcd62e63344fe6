# Verification of the Virtual Machine Libraries (vml)

vml is a set of C++ libraries from which a virtual machine monitor (VMM) for
aarch64 guests on the NOVA microhypervisor is built: a model of the virtual CPUs,
a protocol that stops all of them, models of the devices a guest sees and the bus
that connects them. This directory holds TLA+ models of it, the TLC runs that check
them on small instances, and proofs for every instance. Source lines are given
as `file:line` of the repository; `PROJECT.json` maps each definition to its lines.

## 1. Inventory

### How the parts interact

One host thread per virtual CPU runs the guest, takes its exits and emulates
them; further threads serve devices, timers and the VMM itself.

```
 guest --exit--> portal of the VMM --begin_emulation--> Model::Cpu
   ^                |                                      ^   ^
   |                v                                      |   | roundup_all, resume_all
   |              Vbus --access--> devices (Pl011, GicD,   |  Vcpu::Roundup
   |                               virtio, timers)         |   ^
   +--recall, switch_on------------ GicD --notify_interrupt_pending
                                      ^                        roundup(), resume() by
                                      +-- assert_line by device threads   any thread
```

* The portal brackets each exit with `begin_emulation` and `end_emulation`; in
  between it calls `Vbus::access`, which calls the device under the address.
* Devices raise interrupts through `GicD`, which chooses a VCPU and calls
  `notify_interrupt_pending` of its `Model::Cpu`.
* Whoever needs the VM to stand still (reset, introspection, migration) calls
  `Vcpu::Roundup::roundup`, or `roundup_from_vcpu` / `roundup_parallel` from a VCPU
  thread that is emulating; the callback from `Model::Cpu` to the roundup is
  `vcpu_notify_done_progressing`.
* A virtio device takes buffers from its queues (`Virtqueue`), copies through them
  (`Sg::Buffer`) into guest memory that it finds on the bus (`SimpleAS`), and raises its
  interrupt. The VCPU that kicks it runs its handlers; its data comes from client threads.
* The ITS reads commands and tables from guest memory on the same way, and a timer's own
  thread raises the timer's interrupt.
* PSCI calls of a guest, the VMM and VM introspection turn VCPUs on and off and change what
  is trapped, through flags that the VCPU takes over at its next exit.

### Components

| Component | State | Operations | What is hard | What makes it correct |
|---|---|---|---|---|
| Roundup protocol (`src/vcpu/vcpu_roundup`) | `vcpus_progressing`, `_vcpu_waiters`, `_waiter_mutex`, `_sig_emulating`; for parallel calls `count`, `num_waiters` and two semaphores | roundup and resume, plain, `_from_vcpu` and `_parallel`; yield, unyield | two atomic counters read and written apart, by every VCPU at once; several roundups queue, and those who queue are VCPUs to be stopped | nobody progresses between the return of roundup and resume; the counters are exact; everybody returns |
| VCPU state machine (`src/vcpu/cpu_model`) | one atomic state word, pause flags, three binary signals, the recall, boot parameters | `begin_emulation`, `end_emulation`, `roundup_impl`, `resume`, `ctrl_feature_off`, `wait_for_interrupt`, `notify_interrupt_pending`, `start_cpu`, `reset_cpu` | CAS loops of two threads on one word; wakeups between a test and a wait; a start that takes five unlocked steps | no transition from a state that aborts; no lost wakeup; a VCPU starts from a reset |
| Feature flags (`cpu_feature.hpp`) | requests of two requestors, DIRTY | request, check_clean, read | value, dirty bit and the two loads of a read are separate | a request is not missed |
| Platform (`src/platform`) | signal, semaphore, mutex, readers-writer lock, range map | wait, sig, acquire, release, enter, exit | the last reader and a waiting writer | exclusion; no lost wakeup |
| Virtual UART (`src/devices/vpl011`, `vuart`) | two ring buffers, control, mask, raw status and FIFO level registers | register accesses, `to_guest`, reset | a producer blocked on a full queue that the guest empties in several ways; conditions compared before and after | no character lost or unseen; the producer wakes |
| Virtual bus (`src/devices/vbus`) | range map of devices, last access cached | register, unregister, access, reset, iterate | a removal between lookup and use, a stale cache | an access reaches the device that is registered, a reset all of them |
| Guest address space (`simple_as`) | mappings | map, use, unmap | two lookups of the device for one mapping | every mapping is returned |
| GIC distributor, redistributor (`src/devices/gic`) | configuration and injection state per interrupt, per VCPU | register accesses, assert and deassert a line, inject, update from list registers, acknowledge | lock-free CAS loops of device threads against VCPUs; accesses of any size at any offset | an asserted interrupt is delivered, once, to one VCPU; a register access reaches its interrupts and no others |
| GIC ITS (`gits.cpp`) | command ring, tables in guest memory | commands, MSIs, register accesses, reset | an MSI walks the tables while commands change them | commands take effect in order; an MSI goes where a mapping says |
| Virtqueue (`virtio_base`) | split ring shared with the driver, indices of either side | `recv`, `send`, notification suppression | memory shared without a lock; index wrap | each buffer is returned once; no notification lost |
| Virtio device and MMIO transport (`virtio_base`) | status, features, selected queue, interrupt status | register accesses, reset, queue interrupts | interrupt status set by the device as the guest clears it | a used buffer has its interrupt |
| Virtio scatter-gather (`virtio_sg.cpp`) | chain of descriptors and payloads, copy cookies | walk, build, conclude, copy to and from chains and linear memory | two cursors over descriptors that end apart; failures, retries; copies given up | each byte is copied once, each copy concluded once |
| Virtio console (`virtio_console`) | two buffers, two signals | `to_guest`, `from_guest`, notify | client threads without a lock against a VCPU that kicks, acknowledges, resets | nobody sleeps on work |
| Virtio net, block, socket | that of the transport | callbacks of the VMM | - | - |
| Timers (`src/devices/timer`) | control and compare registers, a thread per timer | register accesses, timer loop | a deadline that moves while waited for; a control byte two threads write | an expired timer asserts its line |
| PSCI (`src/devices/firmware`) | that of the VCPUs | CPU_ON, CPU_OFF, queries, system power | CPU_ON against CPU_OFF of its target, and against another CPU_ON | one start per CPU_ON that succeeds |
| System registers (`src/devices/msr`) | map from ids to registers; the trap of SCTLR_EL1 | set up, access, set/way flushes | ids packed into a word; a flush deferred until the caches are toggled, through a trap that has two requestors | one register per id; guest memory is flushed when the caches are toggled |
| Arch, debug, lifecycle helpers; examples | none | - | - | - |

The hard behaviours are listed at their lines under `hazards` in `PROJECT.json`, each
with the properties that watch it, or with the reason why none does yet.

## 2. Modules

| Module | Models |
|---|---|
| `CpuState` | the state word of a VCPU and the transition tables of `switch_state_*` and `resume` |
| `Roundup` | the roundup protocol and the part of `Model::Cpu` it interacts with: every thread, one action per access to a shared variable |
| `StopTheWorld` | abstract: what `roundup` and `resume` promise their callers |
| `RoundupParallel` | `roundup_parallel` and `resume_parallel`, added to `Roundup` |
| `RoundupTheorems` | the inductive invariant of `Roundup` with one lemma per conjunct and kind of step, the counters, the refinement of `StopTheWorld`, wakeups; two more steps that keep the invariant |
| `ParallelTheorems` | the inductive invariant of `RoundupParallel`, on top of that of `Roundup`, and the theorems |
| `SeqQueue` | the ring buffer under both FIFOs of the UART, as operators on a record |
| `Fifo` | abstract: what the receive path of a UART promises |
| `Pl011` | the virtual UART, its guest and a sender of characters |
| `GicD` | the interrupt distributor with affinity routing, its devices, the threads that inject, the guest's list registers |
| `MCGicD` | values for the functions among its constants |
| `GicDTheorems` | its inductive invariant, and the theorems |
| `GicRegs` | the register frames of the distributor and the redistributors: which bits of which interrupts an access reaches |
| `Gits` | the interrupt translation service, its commands and its MSIs |
| `Msr` | the system registers of the AArch64 build: ids, registration, cache maintenance by set and way |
| `GuestRegisters`, `MCGuestRegisters` | `GicRegs`, `Gits` and `Msr` in one specification, and values for them |
| `BufferExchange` | abstract: what a queue of buffers between driver and device promises |
| `Virtqueue` | both ends of a split ring, access by access |
| `VirtqueueTheorems` | the arithmetic of its indices, its inductive invariant, the refinement of `BufferExchange`; of `VirtioSg`, the pairing of copies, what they move and the used length |
| `VirtioConsole`, `MCVirtioConsole` | the console on the MMIO transport, over two `BufferExchange` queues |
| `ConsoleTheorems` | its inductive invariant, the theorems about interrupts and sleepers, the refinement of `BufferExchange` |
| `VirtioSg`, `MCVirtioSg` | scatter-gather buffers and the copies between them |
| `Timer` | the AA64 timer, its thread and the VCPU that programs it |
| `RegisterTheorems` | inductive invariants of `Timer`, `GicRegs`, `Gits` and `Msr`, and the theorems |
| `RWLock` | the readers-writer lock, step by step |
| `Vbus` | the virtual bus, on `RWLock` |
| `SimpleAS`, `MCSimpleAS` | guest memory, on `Vbus` |
| `DeviceTheorems` | inductive invariants of `RWLock`, `Vbus` and `SimpleAS`; of `Pl011`, what the operations of its ring buffer do to the contents; the theorems |
| `CpuControl` | PSCI, `start_cpu`, `reset_cpu`, `CpuFeature` and `CpuFlag`, and the exit handler that applies them |
| `CpuTheorems` | its inductive invariant, and the theorems |

Operators whose names begin with `Mut` are plausible bugs of the code. No specification uses
them; each stands in for the definition it mutates in one run that shows that
a property notices the bug.

### CpuState and Roundup

Variables carry the names of the code: `state[v]` is `Model::Cpu::_state`,
`vcpus_progressing` and `vcpu_waiters` are the atomics of `GlobalRoundupInfo`, `owner` is
the thread that locked `_waiter_mutex`. A `Platform::Signal` is a Boolean: `sig` sets it,
`wait` blocks until it is set and clears it. `paused[v]` is the set of requestors whose bit
is set in `_execution_paused`. `irq[v]` stands for `int_pending` and for `_dump_regs`, the two conditions that
end a WFI besides a roundup. `pc[t]` says where thread `t` is; `ret[t]` is the return address of
the one procedure with shared steps of its own that is called from several
places, `vcpu_notify_done_progressing`. `i`, `emulating`, `num_waiters` and `target` are
locals.

Three kinds of threads:

* a VCPU `0 .. N-1`, whose loop is wait_for_switch_on, `CheckPaused`, `BeginEmulationRead` and `BeginEmulationCas`,
  emulation, `EndEmulation`, guest. While it emulates it may block in a WFI or call
  `roundup_from_vcpu`;
* a member of `Ext`, which calls `roundup` and, sooner or later, `resume`;
* a member of `Dev`, which pauses VCPUs, starts them and raises interrupts.

The grain is that of the code's atomics. A CAS loop has an effect only when its CAS
succeeds, so it is one action; `switch_state_to_emulating`, which reads the state,
decides, and tries one CAS, is two (`be_read`, `be_cas`). `roundup_impl` is a CAS, a recall, and an
unblock followed by the report; `end_roundup_core` reads the waiters in one step and stores the counter
in another. A failed `ASSERT` or `ABORT_WITH` is a guard, so a thread that would fail it is
stuck; `AssertsHold` says that never happens.

Outside the sources is what `Model::Cpu` declares pure virtual. `recall` is the hypercall:
a VCPU that is in the guest is brought out before the call returns, and for one that is
not the next entry exits at once (`recalled`). This is the assumption the
code's comments make of `recall(true, ...)`, and the proofs rest on it; the `recall(false, ...)` of an interrupt
(`WeakRecallBy`) is taken to do the second only. Entering and leaving the guest,
and when guests take interrupts, are free choices.

### RoundupParallel

The first VCPU to call `roundup_parallel` leads and runs `roundup_from_vcpu` for all; the
others yield and wait on `count_sem`; the last to call `resume_parallel` ends the roundup. The
module reuses every action of `Roundup` and keeps plain roundups in
competition for the mutex. `Resume` and `SignalNextWaiter` of `Roundup` are disabled for a VCPU
in a parallel roundup, whose own actions take their place.

### SeqQueue, Fifo and Pl011

Each register access runs under `_state_lock` from start to end, as does
`write_to_rx_queue`; `to_guest` tests for room, releases the lock and waits, which is
three actions (`WriteToRxQueue` or `FindNoSpace`, then `WaitForAvailableBuffer`). Registers that
only return what was written change nothing else and are left out. The interrupt line
is that of an interrupt controller which latches what it is told. In the
transmit FIFO only the number of characters matters to what follows, so all are
`Nul`. `reset` locks, too, and is one action.

### GicD

`info[i]` is the `injection_info` of an interrupt: the target, the pending bit and the injected
bit that the code packs into one atomic word. `pending_irqs[v]` and `in_injection_irqs[v]` are the bit sets
of a VCPU. A private interrupt is an element for each VCPU that has it (`Home`), as each has
an object of its own. Threads are the devices, named by the interrupt they drive, and
the VCPUs; `notify[t]` holds the interrupt and target that `t` has stored and of which it has yet to set
the bit. The protocol takes no lock, and the grain is again that of the atomics:

| Code | Actions |
|---|---|
| `assert_global_line`, `assert_ppi`, `assert_lpi` | `AssertLine` or `AssertLpi` (the store), `NotifyTarget` (the bit) |
| `deassert_line` | `DeassertLine` (line and test), `DeassertPi` (the store) |
| ISENABLER, ISPENDR, ICPENDR, ISACTIVER, IROUTER, ICC_SGI1R, WAKER | `Write...`, `SendSgi`; then `NotifyTarget` where they assert |
| `highest_irq` | `PendingIrq` or `WriteWaker`, then a `VisitCandidate` or `VisitOther` per interrupt, `EndScan` |
| `pending_irq` | the scan, `InjectCas`, `Publish` |
| `update_inj_status` | `Update`, `UpdateCas`, `Repend` |

A thread that computes a route and then stores it does both in one action: the route
depends on which VCPUs sleep, and one that wakes after a route was computed is
the case of one that wakes after the store. The list registers (`lr`) and the guest that
acknowledges and completes what is in them are external.

`InitAsleep` are the VCPUs whose redistributor is asleep at the start. A write of GICR_WAKER
clears the bit for good, whatever it writes (see observations).

### GicRegs, Gits, Msr and GuestRegisters

A value is the set of its bits. `Distributor` and `Redistributor` are the tables of registers, with the
bits per interrupt of each; `IrqBase`, `IrqMax`, `first_irq_accessed` and `num_irqs` are the arithmetic of
`IrqMmioAccess`, and `WriteIrqs` and `ReadBits` apply an access to the interrupts it yields. A behaviour
is one access or a reset: what it does to the interrupts does not depend on earlier ones but through their fields, which
are clear in the initial state, or set for two of every three interrupts.

`Gits` has the ring and its two pointers, the three tables, and one action per command executed (`Fetch`), per
table read of an MSI (`ReadDeviceTable`, `ReadTranslationTable`, `ReadCollectionTable`) and per register written.
The commands are MAPD, MAPC, MAPTI, MOVI and one that stands for SYNC, INV, INVALL and INT, which do nothing; the others run into `ASSERT(0)`
and are excluded. The guest uses one VCPU at a time at the ITS and gives each
device ITTs of its own. Unmapped guest memory reads as empty; a ring slot that is not in memory stalls the ITS, as
in the code.

`Msr` has the ids of the registers as `build_msr_id` packs them, and one set of registers per `setup_*` function. `SetUp` is
a call of a public one by the VMM: its registers join the bus, unless an id is taken, where `register_system_reg` aborts. The
platform decides which registers there are (AArch32, a GICv3). Then VCPUs use set/way operations, which `SetWay` turns into a request
for the trap TVM; write SCTLR_EL1, trapped (`TrappedWrite`, with `flush_on_cache_toggle`) or not; and store through their caches, while the VMI requests
and withdraws the same trap. `dirty` is the set of address spaces with lines in a cache. Between the request and the trap is
`Apply`, of which `CpuControl` has the steps.

The three share no state: `GuestRegisters` chooses one of them in the initial state.

### BufferExchange and Virtqueue

`Virtqueue` has the two rings as memory (`avail`, `used`, their indices, flags and event fields), the private counters of both ends, and
a store buffer for the x86 build: there `SFENCE` orders stores and leaves a later load free to pass them;
on aarch64 the barrier orders both. It does not order two loads, and `recv` has no barrier between the index and the entry: on aarch64
`DriverAhead` and `DeviceAhead` load the entry first, and the ghost `stale` records that an end has used one that has changed since. Each access to the shared memory is an action. The two clients use
the whole interface: each suppresses notifications while it works, enables them before it sleeps, and
looks once more. `BufferExchange` is the promise, and its refinement mapping reads the contents of the rings.
Its step `Forget`, the reset of a queue, is for the console; `Virtqueue` implements the exchange without it.

### VirtioConsole

VCPUs access the registers of the device and then run `handle_events`, one step per
access to what client threads or other VCPUs read; two client threads loop in `to_guest` and `from_guest`. The flags that
`handle_events` tests belong to the device, so a VCPU may find the acknowledgement of another one (`TestAcknowledged`) and carry
it out (`DeassertLine`, `ClearStatus`) while that one returns to its handler. The ghost `late` marks that this has happened.
The driver is
external: one of its threads sets the queues up while the other VCPUs stay away from the device, which is why `FirstEvent` may test the first
two flags together with the write that sets them; it kicks with interrupts masked after it has offered, and collects what is used. It resets
the device between its own accesses, but it cannot know what the client threads are doing: the reset unmaps the rings
while a client may be inside a call or hold a chain. The ghost `stray` records that; such a client takes no step that
accesses rings at address null, and goes on when rings have been set up again. An address that is not translated
and a reset are the faults, `MaxFault` in number. The two queues are the
variables of `BufferExchange`, and the console implements it on both.

### VirtioSg

A buffer is used by one thread, so an action is one call of the interface. The bytes have no
values: a copy is the set of pairs of places it moves a byte between. `LinearImpl` and `SgImpl` are the two loops over descriptors, and
`CopyExact` compares what they move with the loop over bytes that they stand for, in every state a copy can be
in. The ghost `written` has the set of bytes written into a chain, against which the tracking of the code is
checked, and whether a copy has ended within what the first writable descriptor had tracked already (`Rewrites`), which saturates its
prefix (section 4). `MaxLoad` bounds the bytes in play. Two widths of the code meet here: lengths and prefixes have 32 bits
(`MaxBytes`), the size of a chain is a `size_t` (`SizeModulus`), which a refused `modify_link` may wrap (section 4);
`Sized` is the premise of `CopyExact` that it has not.

### Timer

`timer_loop` is modelled access by access: reading the deadline, the control byte, the wait with or
without a timeout, and the read-modify-write of the STATUS bit. The VCPU writes CVAL or TVAL, and then signals; or CTL, which it reads, stores
and then tests before it signals. The VMM ends the loop. `torn` marks the overlap of two writes of the control byte, from which on
the properties claim nothing (see observations).

### RWLock, Vbus and SimpleAS

`RWLock` has the mutex `_rq`, the word `_rw` and the flag `_rwlock_signal`, each access a step. `Vbus` has the
set of registered entries, which are allocated and freed, and the cached pointer; lookups, the two
passes of reset and every iteration visit one entry per step. `SimpleAS` adds the threads that
find memory on the bus, map a range of it, use it and unmap it, and the memory and range each has mapped. Clients register and remove memory
like any device; the ghost `gone` has the threads whose mapped memory has left the bus since.

### CpuControl

One process per VCPU and one per requestor. The exit handler is outside this repository;
the model has the one that the callees' contracts describe: a VCPU that leaves its guest is parked while
paused (`wait_if_exec_paused`), then reset if `_reset` is dirty, then takes over its features
with `check_clean_read`, then serves the exit. CPU_ON is `start_cpu` and `reset_cpu` in six steps, CPU_OFF two, a
request of a feature two, per VCPU it goes to. `booted[v]` is the CPU_ON call from whose parameters `v`
runs, 0 once it was turned off. One `CpuFeature` stands for `_tvm`, `_hypercall`, `_dump_regs` and `_pf`, which
share the class and differ only in what the handler does with them.

## 3. Runs

| Run | Instance | Shows |
|---|---|---|
| `RoundupSerial` | 3 VCPUs, each may call `roundup_from_vcpu` | asserts, exact counters, nobody progresses while a roundup is held, nobody starts from the return of its recall to its resume, and the protocol implements `StopTheWorld` |
| `RoundupDevices` | 1 VCPU, 1 `Ext`, 1 `Dev` with pause, start and interrupts, 2 requestors; fairness | no lost wakeup, and roundups return |
| `RoundupParallel` | 3 VCPUs with parallel and plain calls | the shared roundup holds until its last caller resumes, the count is stable when read, no semaphore token is left over |
| `CpuControl` | 3 VCPUs, one of them off, requests to one VCPU or to two; CPU_ON, CPU_OFF, pauses and requests, 2 in all | no reconfiguration is missed; a VCPU that was turned off starts from the parameters of the call that turned it on |
| `Pl011` | FIFOs of 2, characters `a` and `b`, levels 1 and 2 | no character lost, duplicated or, unless a UARTICR suppresses it, without status; the producer wakes, the receive path implements `Fifo` |
| `GicD` | 2 VCPUs, one of which starts asleep; an SGI, a PPI, an SPI and an LPI; 3 calls or writes | nothing that awaits injection is lost or taken back by a CAS loop, no injected bit is left behind, no injected interrupt is redirected, a VCPU has an interrupt in one list register |
| `GuestRegisters` | one access to any register of the GIC frames, near both ends of each; a history of 3 ITS commands and one MSI; or the system registers of each platform, then 2 VCPUs and 2 address spaces | a register reads back what was written, a write changes only the fields it names, ITS commands take effect in order, an MSI goes where the tables send it, no two system registers have one id, toggling the caches after a set/way operation flushes guest memory |
| `Virtqueue` | a queue of 2, indices modulo 4, on either architecture; fairness on AArch64 | a buffer goes to the device and back once, and comes back, until an end receives an entry that it had loaded before the index (aarch64); a driver that waits is interrupted for the next buffer |
| `VirtioConsole` | 2 VCPUs, a receive and a transmit queue, characters sent one by one, one fault | an interrupt is not lost but against an overtaken acknowledgement; while no copy has failed neither client sleeps on work it was kicked for, but for the producer of a completely filled ring; each queue implements `BufferExchange` until a reset takes the rings from under a client |
| `VirtioSg` | 3 buffers of up to 2 bytes, chains of up to 2, copies of up to 3 bytes | a copy moves exactly the bytes asked for, in order, between the paired buffers; the used length is a lower bound of what was written, or UINT32_MAX after a copy that ended within what the first writable descriptor had tracked |
| `Timer` | times up to 2; the loop, the VCPU, the clock; fairness | the loop sleeps on the deadline that is set, and an expired timer fires |
| `SimpleAS` | 2 VCPUs and a client of the bus; a UART, a GIC and two memories at one range, in 3 entries | the lock excludes, the cached entry is registered, a reset reaches every device, a mapping is returned to the memory it came from as long as that stays on the bus |

**Bounds.** Three VCPUs are the least with which a roundup runs, a second waits
for the mutex, and a third stops or emulates independently; every lemma of the
protocol speaks of the owner, one VCPU and at most one other thread. With one VCPU and two other
threads `RoundupDevices` has each pair of threads that can lose a wakeup: sleeper
and waker. What larger instances would add for the safety properties is covered by the theorems, which hold
for every `N`, `Ext` and `Dev`.

In `CpuControl` the boot of the first VCPUs counts as call 1, so that `MaxCalls` of 3 leaves two calls:
two requests that race, a request and a CPU_ON, or two CPU_ON. CPU_OFF and the exits are
not bounded. One of the ranges has two VCPUs, so that a request reaches one before the other.

A UART FIFO of 2 has the states empty, partly full and full, both
wrap-arounds of its indices, and a change of capacity between 1 (FIFOs disabled) and 2. The
code's 32 adds lengths, not cases. Two different characters are needed to see a reordering.

In `GicD` the bound `MaxStimuli` is on calls of devices and register writes together. Three
are an assertion, something that happens to it while it is scanned, injected or held
(another assertion, a withdrawal, a new route, a VCPU that wakes), and a third that meets the result;
steps of injection, update and guest are unbounded. No hardware interrupt is in the run (`Hw` is empty);
the theorems cover them.

`GuestRegisters` is one access per behaviour on the side of the frames: its state is the configuration of a few interrupts
at the borders of the words, and every offset near an end of a register with every size that the
bus lets through is tried. On the ITS side three commands are a mapping, a move and a change of the mapping
that was moved from, and a ring of 3 slots wraps within them. The system registers are all there, on each of the four platforms; two VCPUs
and two address spaces, of which one is not flushed, are the least in which a request or a flush can go to the wrong one.

A virtqueue of 2 has the states empty, one buffer out, full; indices modulo `W` = 4 wrap twice as late as slots do, as
the code's uint16 indices do for every size. `VirtioConsole` has two receive buffers of one character, a transmit buffer of two,
which is longer than the chunk a client takes at once, and one fault (`MaxFault`: a reset, or an address that is not translated) that
may strike anywhere. Two VCPUs are the least in which one takes the acknowledgement of the other. The constraint `Explored` keeps the second out
of the device unless the first is inside an acknowledgement, one of the clients waits and no fault has happened: the client threads meet the
accesses of either VCPU in any case, and the acknowledgement is the one place where two accesses meet. It also ends a behaviour at an overtaken
acknowledgement, after which the system may stop (section 4), after a failed copy once the driver has collected all that was returned, and after a
reset once the next chain is returned. A reset strikes at any point of a client's call. The theorems do without the constraint. In `VirtioSg` chains of two descriptors are the least in which the two sides of a copy end at different places, and
three buffers let one be the destination of one copy and the source of another; `MaxLoad` bounds the bytes in all
chains and the copies under way together. Lengths reach `MaxBytes` 3, which two links exceed, and sizes wrap at `SizeModulus` 8. The buffers are symmetric there: they are told apart by nothing but their identity.

Time in `Timer` goes to `MaxTime` 2: before, at and after a deadline. `SimpleAS` has two VCPUs that read the map and a client that
changes it, three entries that fill it, and one device of each kind (one whose accesses hold the lock, one that asks the
bus again, and memory). The two memories share their place, so that one can be exchanged for the other while a thread has it mapped; the second has a
view of its own (`HostMapped`). Entries are told apart by nothing but their identity, and symmetric (`Addresses`).

No variable is unbounded, and `Explored` is the only state constraint.

**Deadlock** is checked in every run but four. In `GicD`, `Virtqueue` and `GuestRegisters` nothing happens without a
stimulus, and the bounded ones run out; in `CpuControl` all VCPUs may be off.

**Fairness** is assumed in three runs only, as weak fairness of the steps each thread takes of its own accord: the host schedules
every thread that can run. In `RoundupDevices` it includes `Resume`, so that whoever rounds the VM up resumes
it some time; without that, no later roundup could return, whatever the code does. It
includes `EndEmulation`, as the emulation of an exit ends, and `EnterGuest`. It leaves out
what guests and devices may never do (`VcpuChoice`, `DevChoice`, `CallRoundup`). Weak
fairness does not make a mutex fair: `Lock` is not continuously enabled while others
take turns, and `std::mutex` promises nothing more. So `RoundupReturns` starts
where a roundup holds the mutex. In `Virtqueue` both threads run and a store buffer drains;
strong fairness says that a device which holds a buffer gets to returning it some time, in an order of its own. In `Timer` the loop and the VCPU are scheduled and the clock goes on.

## 4. What the models show beside their properties

Every property above holds. The following was met on the way: behaviour of the code that a
reader of its comments may not expect. The models contain it as written, but for `deinit` of the bus and what is listed in section 6; where a property would not
hold because of it, the comment at the property says what it leaves out.

Roundup, VCPUs and PSCI:

* **ctrl_feature_off does not stop a VCPU that has passed its test.**
  `cpu_model.cpp:205-208` says the recall "will guarantee that the VCPU will not
  progress any more after that call". A VCPU that has found `_execution_paused` clear in
  `wait_if_exec_paused` and has not yet done its CAS to EMULATE emulates after the call has
  returned. The pause takes effect one exit later. The recall matters for a VCPU in the guest only.
* `_waiter_mutex` is unlocked by the last VCPU to resume, which need not be the one
  that locked it. With `std::mutex` that is undefined behaviour; the model lets anyone unlock.
* Two overlapping CPU_ON calls for one VCPU both succeed: `start_cpu` tests `is_cpu_turned_on_by_guest` before it
  takes a lock (`cpu_model.cpp:251`). The target may run with the parameters of the other call, or go on after a
  CPU_OFF without a reset. `StartsFromReset` leaves such calls out by the ghost `overlapped`.
* AFFINITY_INFO compares with `>` where the number of VCPUs is the first invalid id, and reports
  OFF before the VCPU has stopped.
* The dirty bit of a pause is never read, and `ctrl_feature_reset` recalls nobody.

UART:

* A write of UARTLCR_H empties the receive FIFO (`pl011.cpp:162`) and does not signal
  `_sig_notify_empty_space`: a sender that waited for room sleeps
  though the FIFO is empty, until a read of UARTDR finds a full one. `ProducerNotStuck` speaks of a sender that
  was not overtaken by that write.
* A reset keeps the transmit FIFO: `pl011.hpp:312` resets `_rx_fifo` only and then
  enables transmission, so that characters queued before the reset are overtaken by later ones.
* `_rx_irq_disabled_by_icr` survives a write of UARTLCR_H that empties the FIFO, so the next character raises no status although the guest has
  cleared nothing since the FIFO was empty; `RxNotLost` leaves such a character out.
* `mmio_write_ifls` (`pl011.cpp:83`) takes the old receive condition from `tx_irq_cond`; `RxNotLost` holds nevertheless.
* Reading the last character deasserts the line although the transmit interrupt may be asserted.
* `compute_txris`, which the comment at `pl011.cpp:107-109` relies on, is not called.

Interrupt controller:

* With 1-of-N routing an SPI that is asserted again while a VCPU has it goes to the next VCPU (`gicd.cpp:891`), though
  the first has not completed it. `redirect_spi` "Prevent[s] injecting the IRQ twice" (`gicd.cpp:856`); `assert_pi` does not.
* `deassert_global_line`, which devices call for SPIs, only calls `deassert_line`, which returns at `gicd.cpp:563` when the
  interrupt is an SPI: the level of a shared interrupt is never withdrawn, against the comment at `gicd.cpp:571-575`.
* `deassert_line` tests `_sw_asserted` and then clears `injection_info`; a guest that sets the pending bit of
  its level-triggered PPI between the two loses it (`DeassertLine` and `DeassertPi` are two steps).
* A write to WAKER leaves the redistributor awake whatever its value (`gicr.cpp:130-133`: masks are used as
  shift counts), so only a VCPU that has never written it is treated as asleep.
* The scan of `highest_irq` ends behind the first LPI (`gicd.cpp:646`), and LPIs, whose routing is 0, are redirected to
  VCPU 0 when their VCPU sleeps.
* `highest_irq` keeps the candidate with the largest `_prio`, the least urgent one in the architecture's encoding.
* Writes to the SGI part of a register are ignored (`gicd.cpp:244-253`) only if they start at the register; the range of GICD_ISACTIVER ends
  at 0x379; GICR_ISPENDR0 and GICR_ICPENDR0 refuse without affinity routing; `Irq::reset` leaves `_sw_asserted`,
  and the redistributor's reset leaves `_waker`.
* GICD_SGIR to all but the sender goes through eight VCPUs and reaches the assertion on the target where there are fewer;
  GICD_SPENDSGIR exchanges sender and target.
* ITS: MOVI changes nothing when both collections have the same target (`gits.cpp:171`), so that a later MAPC of one is missed; from there
  on the ghost `promise.lawful` is false and `MsiTranslated` leaves the target open;
  SYNC does not wait for an MSI in flight; commands queued while the ITS is disabled run at the next write of CWRITER only;
  a write of CBASER leaves CREADR; an MSI is translated when the ITS is disabled; a collection never mapped is VCPU 0.

System registers:

* In `build_msr_id` (`msr_id.hpp:17-21`) `crn` has four bits from bit 7 and `op1` three from bit 10, so bit 10 is the
  disjunction of the two: with CRn of 8 or more an even and the next odd op1 have the same id. No two registers that the VMM
  registers clash (`NoIdTwice`), but an access to a register that it does not register may reach one that it does.
* PMSIDR, PMSICR, PMSIRR and PMSLATFR (`msr.hpp:254-257`) have ids that are not those of the architecture, which has them at CRn 9, CRm 9;
  the last of them is in the space of the error records. `setup_aarch64_auxiliary` is called by nobody.
* SetWayFlushReg keeps one bus for all of its instances: that of the first.

Virtio and timer:

* **An interrupt of the console can be lost.** `assert_queue_interrupt` does nothing while the status bit is set, since whoever
  is deasserting it "still needs to process the queues once it returns from vmexit and it is safe to skip
  injecting a new interrupt" (`virtio_mmio.hpp:237-240`). The flag `irq_acknowledged` does not say whose acknowledgement it is
  (`virtio.hpp:75-77`): a VCPU that kicks may test and clear it right after the write of another VCPU, which then finds it clear, returns
  to its handler and empties the used rings before the first has cleared the status bit. A buffer that a client returns in between
  has no interrupt, and with both clients asleep the system stops: without `Explored` and `late` TLC finds this as a violation of
  `NoLostInterrupt` and as a deadlock. One VCPU, or a driver that accesses the device from one VCPU at a time, does not meet it.
* On x86 the last store of `DriverQueue::send` may pass the load that decides on the kick; the
  properties about wakeups are stated for AArch64, where the code has its barrier.
* **A used entry may be read before its index.** `index()` of either ring executes `DSB ISHST` before its load (`virtqueue.hpp:210-213`, `:348-351`), which
  orders stores and not loads, and nothing stands between that load and the one of the entry
  (`virtqueue.cpp:110-126`, `:216-231`), although both functions say that "the implementation of this function inserts the appropriate
  synchronization". On aarch64 the processor may read the entry first, before the other end has written it, and then an index that
  covers it: `recv` delivers a head that it delivered before. `ImplementsExchange` and `Served` claim nothing once that has happened (`stale`).
* **A reset of the guest leaves the clients where they are.** A status of 0 calls `DeviceState::reset` (`virtio.hpp:68-69`, `virtio_common.hpp:222-237`), which unmaps
  the rings (`virtio_common.hpp:170-189`) without a lock and concludes neither buffer; only `VirtioConsole::reset`, the reset of the machine
  (`virtio_console.hpp:90`), concludes both first. A client inside `to_guest` or `from_guest` goes on with rings that are unmapped or at address null, and
  a chain that it holds, as `from_guest` does from one call to the next, goes into the used ring that the guest sets up next, where the driver never
  offered it. `ImplementsExchange` ends there (`stray`).
* **The used length may claim too much.** Comments call it a lower bound (`virtio_sg.hpp:82-83`) and say that writes out of order make the buffer "under-report"
  (`virtio_sg.cpp:571-572`). A copy that starts within the prefix that a descriptor has tracked and ends below its end sets the prefix to UINT32_MAX (`virtio_sg.cpp:17-21`),
  and `written_bytes_lowerbound_heuristic` adds it up as it stands: a shorter copy to the same place, or a copy that is repeated and fails earlier, in the first
  writable descriptor reports 4 GiB to the driver; in a later descriptor the sum wraps below what was written. `WrittenIsLowerBound` states
  both bounds.
* `_driver_initialized` survives a reset; a ring the driver fills completely wakes nobody; `is_driver_ok_state` compares with 4 exactly; the value of QUEUE_READY is ignored;
  a malformed chain comes back without an interrupt; `to_guest` reports false after a partial delivery.
* A `modify_link` that is refused has already taken the old length from `_size_bytes` (`virtio_sg.cpp:337-340`), and the next one takes it again:
  the size of a chain that a client builds may fall short of its bytes, and at last wrap beyond `UINT32_MAX`, although
  `virtio_sg.cpp:1031` expects the opposite to be provable ("we should be able to prove that [_size_bytes <= UINT32_MAX]"). Every later `add_link`
  is then refused, and the bounds of copies are those of the wrong size. No chain of a guest is concerned, and no caller is in this repository.
* `Timer`: a `set_status` that read the control register before a `set_ctl` may undo it (`aa64_timer.hpp:31`, `:80`); a stale
  STATUS leaves the loop in its untimed wait; masking or disabling does not wake the loop, so that the line stays up; `Msr::Register::reset`
  does not reset the timer. `SleepsOnDeadline` and `ExpiredTimerFires` leave the torn update out by the ghost `torn`.

Bus and address space:

* `deinit` clears the map under the read lock and leaves `_last_access`; `access` uses the entry's device after it has
  released the lock; an access that straddles two entries reaches one of them; `unregister(addr, 0)` removes the
  device around `addr`; a nested read lock with a writer waiting deadlocks.
* `MappingGuard::unmap` (`simple_as.hpp:591`) looks the memory up a second time and ignores an error: if the memory was unregistered in the meantime, its mapping is
  left; if another memory was registered in its place, that one is asked to unmap the range, as `demand_unmap` (`simple_as.cpp:207-217`) does not ask
  `is_gpa_valid`, or does nothing because it has a view of its own. `MappingsReturned` speaks of threads whose memory has stayed.
* `map_guest_mem` does not ask `is_gpa_valid`; `single_access_read` maps writable, which ends in ABORT on read-only memory.

## 5. Proofs

`RoundupTheorems` proves, for every number of VCPUs `N > 0` and all
disjoint sets `Ext` and `Dev` (`NAssumption`, `ThreadAssumption`), of the specification without fairness:

| Theorem | States |
|---|---|
| `Invariance` | `IInv` holds in every reachable state |
| `TypeCorrect` | `TypeOK`: in particular the uint16 counters stay in `0 .. N` and never wrap |
| `CountersCorrect` | `CountersExact`: the counters are at every instant the number of VCPUs that progress, and that wait |
| `MutualExclusion` | `OneRoundup`: at most one thread is between `begin_roundup` and the end of `resume`, and it owns the mutex |
| `NoProgressWhileHeld` | `RoundupStopsGuest`: from the return of roundup to the resume no VCPU progresses |
| `AssertsNeverFail` | `AssertsHold`: no `ASSERT` or `ABORT_WITH` can fail |
| `NoStart` | `NoStartOnceRecalled`: a VCPU that does not progress does not start to, from the return of the roundup's recall of it to the step that resumes it |
| `KeepsPromise` | `ImplementsStopTheWorld`: the protocol implements what `StopTheWorld` promises |
| `WakeupsArrive` | `NoLostWakeup`: nobody sleeps on a signal whose cause has occurred without its setter being under way |

**The argument.** None of the properties is inductive alone. `RoundupStopsGuest` follows from
"every VCPU is quiet when the counter reaches 0", which needs the counter to be exact, which
needs that each stop is reported once, which needs to know who reports it, which needs the
state word to match the place where the VCPU's thread is. `IInv` is the conjunction:

* `LocalInv`: the state word of a VCPU says which part of its loop it is in. Only
  its own thread moves it between OFF, ON and EMULATE; the owner of the mutex
  changes the ROUNDEDUP bit only.
* `LoopInv`: the loop variable is 0 outside a loop, within bounds inside; the number of
  waiters read by `end_roundup_core` is still right when it is stored (only the owner
  calls unyield, and a VCPU that would call yield is stopped).
* `OneRoundup`: the thread inside is the owner.
* `MarkInv`: a VCPU is in a ROUNDEDUP state iff the owner has marked it and not yet resumed it.
* `RecallInv`: a VCPU whose recall has returned is not in the guest, and will not
  get there, as a recall is pending as long as it may try.
* `ReportInv`: a stop has one reporter. The VCPU if it was emulating when it was marked, otherwise the owner.
* `QuietInv`: while the roundup is held and until it is resumed, a marked VCPU has nothing left to do.
* `TypeOK` and `CountersExact`.

`NextIsStep` splits a step into three kinds: one outside the roundup (`OutsideStep`), which
leaves the owner and what it has marked alone (`OwnerFrame`); `Lock`; and one of
the owner (`OwnerStep`). For each conjunct of `IInv` there is one lemma per kind, and its proof
has a step per action. For the counters the sets of VCPUs that are `Stopped` and `Waiter` are tracked
(`StopsOutside`, `StopsOwner`, `NotifySubStops`, `WaiterOutside` and so on): each action adds or removes at
most one VCPU, but for `EndRoundupStore`, which restarts all that do not wait, and the library's
theorems on cardinalities do the rest.

The refinement builds on `IInv`. `MovesOutside` and `MovesOwner` say of every kind of step that it starts or stops at most one
VCPU, and starts none that is recalled and not yet resumed (`Moves`); `NoStart` is that fact. For the refinement, `HeldChanges` adds that the
abstract `held` changes at two places only: it becomes true when the owner finds no VCPU that progresses, and false where
`end_roundup_core` stores the count. `MoveMaps` then turns a step of the first kind into a `Start`, a `Finish` or a stutter, and
`HeldFacts`, which is `RoundupStopsGuest`, gives the guard of the step that returns. `WakeInv`, the
inductive invariant of `WakeupsArrive`, is `NoLostWakeup` in one part per signal (`ResumeWakes`, `RoundupWakes`,
`IrqWakes`, `OnWakes`), where the last also covers a VCPU that is about to turn itself off.

`ParallelTheorems` proves, from the same assumptions, of `RoundupParallel` (`ParallelSpec`):

| Theorem | States |
|---|---|
| `ParallelInvariance` | `BInv` holds in every reachable state |
| `ParallelNoProgress` | `ParallelStopsGuest`: from the return of `roundup_parallel` in any VCPU until the last of them resumes no VCPU progresses |
| `CountStable` | `CountIsStable`: the count the leader reads is that of the VCPUs that have called, and the others sleep or have only a wakeup left to give |
| `TokensSpent` | `NoTokenLeft`: no token of either semaphore outlives its round |

`RoundupParallel` does not refine `Roundup` as it stands: the thread that resumes need not be the one that rounded up, and a follower
unyields while the roundup is held, which nobody else does. But its states map to states in which the invariant of `Roundup` holds. The mapping (`pcBar`, `stateBar`, `retBar`,
`iBar`, `numBar`) lets the owner of the mutex hold the roundup for all that share it; while the last caller of `resume_parallel` runs `resume_from_vcpu`, the
image of the owner has its label and its locals. A follower that has unyielded is mapped to a VCPU that is off (`Folded`) until the resume
loop turns it on again. So every step is mapped to a step of `Roundup`, to a stutter, or to one of two more steps, `LeaveQueue` (a
VCPU that waits for the mutex is turned off while the roundup is held) and `ResumeInside` (the owner's CAS sends such a VCPU back to its emulation),
for which `RoundupTheorems` proves that they preserve `IInv` (`LeaveQueueStep`, `ResumeInsideStep`).

`BInv` is `IInv` of the image and `PInv`. In `PInv`, `RoleInv` says where a leader and a follower can be; `SharedInv` that the owner of a shared roundup is its leader and
one caller is the last to leave; `LeaderInv` that `count` is the number of those that take part and that one of them leads while no roundup is held;
`TokenInv` and `ResumeInv` that tokens, given or yet to be given, are as many as the VCPUs that wait for one. Both halves need each other: that nobody calls
`roundup_parallel` while the leader reads `count` is `QuietInv` of `Roundup` on the image (`HeldQuiet`), and that the image is one of `Roundup`'s states follows
from `PInv`. A step is outside the shared part (`Beside`, `BesideMaps`), of the thread that ends the roundup (`EndsStep`, `EnderMaps`), or one of the eleven
of the parallel calls; each has a lemma for its image and one for `PInv`.

`GicDTheorems` proves, for every number of VCPUs and all sets of interrupts (`GicAssumption`):

| Theorem | States |
|---|---|
| `Invariance` | `IInv` holds in every reachable state |
| `TypeCorrect` | `TypeOK`: in particular no bit set of an invalid target is touched |
| `PendingNeverLost` | `PendingIsQueued`: what awaits injection is queued at its target or about to be |
| `InjectedAlwaysHeld` | `InjectedIsHeld`: the injected bit is set only while the target has the interrupt |
| `OneListRegisterEach` | `OneListRegister`: a VCPU has an interrupt in one list register |
| `InjectionIsStable` | `InjectionStable`: only the device and ICPENDR take back what awaits injection (`NotDropped`), and neither a scan nor a write to IROUTER moves an injected interrupt (`NoRerouteOfInjected`) |

The inductive invariant is `TypeOK`, `ThreadOK`, `PendingIsQueued` and `InjectedIsHeld`. The last two
are inductive once `ThreadOK` says what the thread of a VCPU knows at each place: an interrupt it is about to
inject is not in `in_injection_irqs`, one it updates without giving it up is, and so is all that fills a list
register. `TypeStep`, `ThreadStep`, `QueuedStep` and `HeldStep` are one lemma per conjunct, with a step per action;
what all the actions that assert have in common is in `AssertType`, `AssertQueued` and `AssertHeld`.
The argument for `PendingIsQueued`: whoever sets the pending bit has a notification to deliver; the bit
in `pending_irqs` is cleared only by `Publish`, which sets the one in `in_injection_irqs`; and that one is
cleared only by `Update`, whose thread then tests the pending bit and queues the interrupt again. The two action properties
follow from the types alone.

`DeviceTheorems` proves, for all sets of threads, entries, devices and ranges (`VbusAssumption`, `SimpleASAssumption`), of `SimpleAS`.
`GuestMemoryAssumption` says of those ranges that guest memory is registered at the range it serves; it may be removed at any time.

| Theorem | States |
|---|---|
| `ReadersWriterLock` | `Exclusion`: a writer of the map is alone in it |
| `CacheRegistered` | `CacheIsRegistered`: the entry of the last access is in the map |
| `ResetComplete` | `ResetReachesAll`: an iteration over the devices calls each that was there |
| `DevicesDisjoint` | no two entries of the map overlap |
| `MappingsGivenBack` | `MappingsReturned`: as long as the memory that a thread has mapped stays on the bus, its second lookup finds that memory, and when it has returned it has nothing mapped but a view that the memory has of its own |

Four invariants, each proved with the help of the one before. `LockInv` is about the lock alone: its word is
twice the number of readers and one for a writer, the threads counted are those inside, a writer
that has set its bit is alone or waits for the last reader, who has not
signalled yet (`SignalSound`). `BusInv` is about the map: an entry that is allocated and not in the map is in the hands of one thread, the cache
points to an entry of the map or to one that a writer is about to remove from it, the ranges are disjoint; all of this only a writer can change. `ResetInv` is
the progress of a thread that iterates: what it has left and what it has called are together what the map had. `MemoryInv` is
about guest memory: what a thread uses lies within the memory it was mapped from (`Mapped`), which is registered unless the thread is in `gone` (`Stayed`), and since the
ranges in the map are disjoint, the second lookup finds the one entry that contains the range (`LookupContains`), and the mapping is
returned to its owner.

`CpuTheorems` proves, for any number of VCPUs, any features and any requests (`BoundsAssumption`), of `CpuControl`:

| Theorem | States |
|---|---|
| `Invariance` | `IInv` holds in every reachable state |
| `NoReconfigurationMissed` | `NothingMissed`: a VCPU runs with what is requested of it, or reads it again before |
| `StartsOnlyFromReset` | `StartsFromReset`: a VCPU that was turned off starts from the parameters of the last CPU_ON |

`ConfigInv` adds to the first property what a VCPU knows between the two loads of a read: its first value is up to date, or
the dirty bit has been set or is about to be. The second follows from a chain: a VCPU that is off is at a place from which it
tests its pause before its guest runs (`OffInv`); a CPU_ON that no other overlaps finds it off until the write that lifts the pause,
and its earlier writes stay until then (`OnInv`), as the VCPU that would clear the dirty bit is off;
so a VCPU that is on runs from its parameters or has a reset ahead of it (`StartInv`).

The same module proves, for every `FIFO_MAX_SIZE > 0`, any set of characters and any watermark (`FifoAssumption`), of `Pl011`:

| Theorem | States |
|---|---|
| `QueueSound` | `RxSound`: the indices of the receive queue stay in range, and an empty queue starts again at 0 |
| `NoCharacterUnseen` | `RxNotLost`: a character in the FIFO has its raw status set, or a UARTICR suppresses it, of the time since the FIFO was empty or of before a flush by UARTLCR_H |
| `ProducerWoken` | `ProducerNotStuck`: a sender sleeps only without room, with its wakeup pending, or on a FIFO that was flushed |
| `ReceivesInOrder` | `ImplementsFifo`: the receive path is a queue |

The ring buffer keeps its indices modulo the capacity and encodes "empty" in the read index, so the work is in
its arithmetic: `WrapOnce` (each remainder that occurs subtracts the capacity at most once), `SlotFacts` and `DistanceFacts` (the slot of
element `k`; the write index meets no element of a queue that is not full). From these, for any `Sound` queue,
`EnqueueFacts` is `Append` on the contents, `DequeueFacts` is `Head` and `Tail`, `ResetFacts` gives the empty sequence. `RxStep` says
of each action of the device which of the three it performs.

`RegisterTheorems` proves, for any bound on times (`MaxTimeAssumption`), of `Timer`:

| Theorem | States |
|---|---|
| `Invariance` | `IInv` holds in every reachable state |
| `SleepsRight` | `SleepsOnDeadline`: a loop at rest sleeps until the deadline of the registers with the line down, or has fired |

`IInv` ties the place of the loop to the registers: as long as no two stores of the control register have overlapped, its STATUS
bit is the line (`StatusTrue`); as long as no signal is under way, the deadline that the loop sleeps on is that of
the register (`DeadlineTrue`); a loop in its untimed wait has fired, cannot fire, or is about to be signalled (`WaitTrue`).

and, for any VCPUs, devices, events, tables, size of the command ring and slots that are not in memory (`GitsAssumption`), and any set of address
spaces (`MsrAssumption`), any number of VCPUs and interrupts and any values (`GicRegsAssumption`), of `GuestRegisters`:

| Theorem | States |
|---|---|
| `CommandsFetched` | `CommandsInOrder`: commands are executed in turn, none twice, none left out, and a kick that is fetched leaves none behind |
| `MsiRaisesMapped` | `MsiTranslated`: an MSI raises an interrupt and VCPU that its event was mapped to during the call, and raises one if the event stays mapped |
| `SetWayMadeGood` | `TogglesFlush`: a toggle of the caches by a trapped write flushes guest memory when set/way operations are outstanding |
| `NoIdIsTwice` | `NoIdTwice`: no two system registers of a platform have the same id, in whatever order they are set up |
| `FramesAreExact` | `FramesExact`: an access to a GIC frame writes the fields in its bytes and no other, and either frame reads back what is configured |

For the commands, `QueueInv` measures distances on the ring (`Dist`): from CREADR to the end of what was issued there are as many slots as commands
outstanding, CWRITER is among them, and `iterations` suffices to reach it. For the MSIs, `TableInv` says that the tables in guest memory
hold what the commands asked for, except for the collection of an interrupt that was moved between two of the same
target (`Agree`); `InFlight` says of a call between two reads what the next one may find: `may` has what it would raise, and when `sure` is set it finds something.
`CommandKeepsMsi` shows that a command of the guest extends `may` by whatever it writes. `FlushInv`: a VCPU with set/way operations outstanding
has the VMM's request for the trap, whatever the VMI requests.

For the ids, `IdInjective`: the ids of the single registers are computed and stay clear of the ranges in which the debug banks and the event
counters lie (`SinglesApart`, `NumbersApart`), and within those the number of a register is read off its id (`DebugUnique`, `EventUnique`). `CallsApart` says that no
two calls set up one register. Hence as many ids as registers (`AsManyIds`), and none in use when a call begins.

For the frames the invariant is `FramesType` alone; the work is in one step. Each register of the code is part of one register of the architecture, begins and ends on a
word of it (`Decoded`, `Ends`), and no offset lies in two (`ExtentsApart`). So the positions of the bits that `mmio_write` visits and the places that the
architecture gives the fields in the accessed bytes correspond (`PositionPlace`, `PlacePosition`), whatever the number of interrupts cuts off at the end. `TouchedWritten` and
`WrittenTouched` carry this over to writes, `ReadExact` to reads.

`VirtqueueTheorems` proves, for every size of the rings and every modulus `W` of the counters that is a larger multiple of it
(`VirtqueueAssumption`), on either architecture, of `Virtqueue`:

| Theorem | States |
|---|---|
| `Invariance` | `IInv` holds in every reachable state |
| `WaiterIsNotified` | `EventReachesWaiter`: on aarch64, `used_event` asks for the interrupt of the next buffer returned to a driver that sleeps |
| `RingsExchange` | `ImplementsExchange`: the two rings exchange buffers as `BufferExchange` promises, none lost, duplicated or overtaken, up to the recv of a stale entry on aarch64 |

All of it is arithmetic of counters that wrap: `Ahead(a, b)` is how far `b` is ahead of `a`, `Live(a, b)` the counters between them, and `SlotsDiffer` says that
no two of at most `Size` consecutive counters share a slot. `IndexInv` relates the index in memory to the counter of its owner through the store buffer
and the place of the thread; `BalanceInv` bounds the lengths and what the clients hold by the size, which holds even if an end receives the same head twice; `HeadInv`, until that has
happened (`stale`), puts every buffer in one place; `EventInv` bounds
the event index. `EntriesAppend` and `EntriesTail` turn a written index into `Append` and a consumed one into `Tail` on the contents that the refinement mapping
reads from memory; every other access is a stutter.

The same module proves of `VirtioSg`, for any buffers, none of them `Linear`, and any lengths (`SgAssumption`):

| Theorem | States |
|---|---|
| `CopiesConcludeOnce` | `CopiesPaired`: the cookies of a copy match until it is concluded, and no cookie stays in use without a copy |
| `CopiesMoveEveryByte` | `CopyExact`: a copy that nothing stops moves every byte of the request to its place, and no other |
| `UsedLengthIsWritten` | `WrittenIsLowerBound`: the used length given to the driver is not more than the prefix that was written, or UINT32_MAX after a copy that ended within what the first writable descriptor had tracked |

`SgInv` says that two buffers have one copy between them at most, that the cookies of every copy match, and that `pending` of a buffer is the number of copies
that read it. From that `IdleEnd` concludes that a buffer that is not in use belongs to no copy, and `CanStart` that one which passes the tests at the
start of a copy can only be the source of copies to other buffers: so what the start writes disturbs no copy (`Joins`), and what an end
clears belongs to its own copy, unless others read the same source (`LeftOne`, `Ends`). Parts of copies, retries and failures only record how far they came (`GoesOn`).

The other two rest on `SgData`, which TLC checked before it was proved: the chains and their fields have their types and the size of a chain is the sum of its
lengths unless it wrapped; the rest of every copy fits into the chains on both sides (`Fits`); and the prefix of every writable descriptor has been written, unless it is saturated, in the first of them only after a copy that ended within it (`Covered`).
The loops over descriptors are functions over `0 .. N`, and what they do is shown by induction, not with the library's theorems
but by the well-foundedness of `<` on a set of naturals. Two loop invariants carry it: the bytes moved so far are those of the request up to
`n` (`Reached`), and both cursors stand where `find` would put that offset (`Goes`), so that a turn moves on in one chain at least. `SgMoves` and `LinearMoves` conclude that
the loop cannot run out of turns before it runs out of bytes. For the used length, `TracksEach` says what one copy does to the prefix of each descriptor,
`TracksWritten` that no prefix claims a byte which neither this copy nor an earlier one wrote, and the sum of full descriptors and the first that is not is a range of written bytes.

`ConsoleTheorems` proves, for any number of VCPUs, any chains and lengths and any number of faults (`ConsoleAssumption`), of `VirtioConsole`:

| Theorem | States |
|---|---|
| `Invariance` | `IInv` holds in every reachable state |
| `InterruptsArrive` | `NoLostInterrupt`: a used buffer has its interrupt, as long as no acknowledgement was overtaken |
| `ProducerIsWoken` | `ProducerWoken`: while no copy has failed, the client in `to_guest` does not sleep beside buffers it was kicked for, unless the ring is completely filled |
| `ConsumerIsDone` | `ConsumerNotStuck`: while no copy has failed, the client in `from_guest` does not sleep beside data it was kicked for |
| `QueuesExchange` | `ImplementsExchange`: both queues exchange buffers, across failed copies and resets, until a reset takes the rings from under a client |

The invariant says who still owes what. `IrqInv`: a set status bit has the line up, a client about to raise it, or a VCPU about to clear the bit; a VCPU that clears it does so
while the one that acknowledged has not returned to its handler, unless `late`; so whoever skips the interrupt leaves its buffer to a handler that has yet to
scan. `WakeInv`: a sleeping client is signalled, or the kick for what it sleeps beside is written or about to be. `SetUpInv`: the rings
are used between the set-up and the reset only. `ChainInv`: a chain is in one ring, with the driver or with a client, and there once (`Apart`); it is
claimed until a reset has taken the rings from under a client (`stray \/ ChainInv`), while `ChainType`, the types of rings and chains, holds beyond. There is a
lemma per conjunct and group of actions; the refinement needs `SetUpInv` and `ChainInv`.

**Only model-checked**: liveness (`RoundupReturns`, `Served`, `ExpiredTimerFires`), which is out of reach of the
prover, as are fairness and ENABLED.

## 6. What is not modelled

* `VcpuInitializedInfo` (a counter and a signal at start-up), cleanup and allocation.
* In `Model::Cpu`: `system_suspend`, which scans the other VCPUs one by one, and the end of the VM (SYSTEM_OFF, SYSTEM_RESET),
  which calls into `Lifecycle`, a module that is not in this repository. The exit handler is external as well.
* `Signal` returns a failure of the host's semaphore to its caller; the VMM does not
  survive that and the model has no such failure.
* The physical timing of waits: a timed wait may end at any moment.
* In `GicD`: the GICv2 mode (sets of targets, SGIs banked by their sender), group enables; `min_priority` is a free
  choice (`masked`); the assertion of `gic.hpp:73` that a set of targets is asked about VCPUs below 8 only. An LPI has one sender. A VCPU changes the WAKER of its own
  redistributor. Register writes that change nothing and scans that find no bit are left out.
* In `GicRegs`: GICD_SGIR and the registers of pending SGIs, which exist in GICv2 mode only, and identification
  registers. In `Gits`: the commands that end in an assertion (CLEAR, MAPI, MOVALL, DISCARD); SYNC stands for
  the commands without effect. One VCPU at a time writes ITS registers, and each device has tables of its own.
* In `Pl011`: receive timeouts and errors, which the device does not emulate; registers without effect; a second
  concurrent sender, which `to_guest` is not written for.
* In `Virtqueue` and `VirtioConsole`: drivers that offer malformed chains; features, configuration space. A client of the console that finds its rings at address null
  is stopped, where the VMM would fault; `recv` of the console takes index and entry in one step, of which `Virtqueue` has the
  loads. The driver kicks after its offers with interrupts masked and sets the device up with one thread; the test and the clearing of
  a flag in `handle_events` are one step, but for the acknowledgement, where the test is a step of its own. The network, block and socket devices differ from the console in their configuration space only, as far as
  they are in this repository.
* In `VirtioSg`: copies of no bytes, chains longer than the queue, copies between a linear buffer and a chain in one call.
* In `Timer`: statistics, `_curr_timeout`, and the start and end of its thread.
* In `SimpleAS`: memory that is read-only to the guest (`ReadOnly` is a constant of the module and empty in the run; the theorems cover it); wrap-around of 64-bit addresses.
* In `Msr`: the values and masks of registers without a protocol, CCSIDR, statistics, tracing, the decoding of the exit, and the registers of x86.
* Architecture helpers, debug helpers and examples: address arithmetic and I/O with no protocol.

## 7. Plan

The order follows what is hardest to test. Done: the VCPU side (roundup, parallel roundup, PSCI, features), the interrupt
controller with its frames and ITS, the system registers, the UART, virtqueues, scatter-gather buffers and the console, the timer, the bus and its lock.
Left, in this order:

1. Proofs: the wakeups of `RoundupParallel` (`NoLostWakeup` for the parallel calls), and that a shared roundup keeps the promise of `StopTheWorld`.
2. The GICv2 mode of the distributor: SGIs banked by sender and sets of targets.
3. `system_suspend` against CPU_ON and interrupts.
