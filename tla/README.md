# MH microkernel: TLA+ models, model checking and proofs

This directory holds TLA+ models of the MH (Murgia Hack) system, from the
kernel's page tables to the terminal of its console, the TLC runs that check
them and the TLAPS proofs about them. The models are translated from the C
sources in `src/`; `PROJECT.json` maps every definition to the lines it stands
for.

## The system and its parts

MH is a microkernel ("everything is a device"). A process is one kernel thread
with its own page table, a bus of device slots and a few pending signals.
Kernel entries (system calls, exceptions, interrupts) run with interrupts off,
so on one CPU an entry is atomic; CPUs interleave through spinlocks and
unlocked accesses. Scheduling is cooperative: a process gives up its CPU in
`sys_wait`, `sys_yield` or by dying. Inside a process, libmrg runs light-weight
threads (LWTs), one at a time, which signals of the kernel interrupt.

| part | module | state | operations | interacts with |
|---|---|---|---|---|
| User address spaces (`pmap.c`, `pfndb.c`, vm calls of `kern.c`) | `Pmap` | page-table entries (NORMAL, COW, WIRED, IOMAP), `usr.ref` and `usr.wir` of each frame | map, unmap, move, protect, fault, fork, exit, reap | hardware devices (wiring, MMIO), allocator, TLB |
| Threads and scheduler (`kern.c`, `machdep.c`) | `Sched` | `running_threads`, `stopped_threads`, per-CPU `resched`, softirq word, idle map, `softintrs`, parents | fork, wait, yield, raise, wake, schedule, softirq, exit, childstat | every part that calls `thraise` |
| Device bus (`bus.c`), user devices (`usrdev.c`) | `Bus` | slots of each process, device tree, `offline`, `busdevs`; sessions (`remths`), request FIFO, apertures | plug, copy at fork, unplug, calls, detach; open, clone, out, export, close, creat, poll, destroy | scheduler (`thraise`), the owner process |
| Interrupts (`kern.c`, `hwdev.c`, `ioapic.c`) | `Irq` | `irqsigs`, `eoi` flags, mask bits | open, irqmap, interrupt, eoi, close | drivers, scheduler |
| Alarms (`kern.c`, `sysdev.c`, `hpet.c`) | `Timer` | timer list, comparator, virtual times | set alarm, expiry, switch | scheduler, interrupts |
| Zones, pages, addresses (`alloc.c`, `pgalloc.c`, both `vmap.c`, `dma32.c`, `dio.c`) | `Zone`, `PgAlloc`, `Vmap` | free lists by order, bitmap, boundary tags, trees | alloc, free, kvmap, kvunmap, diomap | address spaces, drivers |
| Heap and slabs (`heap.c`, `slab.c`) | `Heap`, `Slab` | blocks of a page; queues of slabs | alloc, free, grow | page allocator |
| TLB shootdown (`tlb.c`) | `Tlb` | `tlbop`, `__tlbcnt`, pending NMIs | commit, flush, NMI | address spaces |
| Kernel log (`klogdev.c`, `klogger.c`) | `Klog` | ring buffer, availability interrupt | putc, open, irqmap, in, out, close | the process that shows it |
| Trees and lists (`rb.c`, `queue.h`) | `Rbtree`, `Queue` over `OrdSet`, `SeqQueue` | pointers | insert, remove, lookups, concatenate, ... | all of the kernel and libmrg |
| LWTs and events (`lwt.c`, `evt.c`, `int.c`) | `Lwt`, `Evt` | queue of active LWTs, events, preemption level; `alloc_evts`, `set_evts`, `wait_evts` | sleep, wake, yield, pause, exit, evtset, evtwait, evtclear, evtast, interrupt; evtalloc, evtfree | signals |
| Disk driver (`ahci.c`) | `Ahci` | slots, `lastci`, PxCI, PxIS, IS | probe, read, write, interrupt AST | LWTs, hardware devices |
| Block devices, partitions (`blk.c`, `part.c`, `bootstrap.c`, `rumpuser.c`) | `Blk` | registry, references, descriptors | add, del, open, close, read, scan | disk driver, rump |
| Rump glue (`rumpuser.c`) | `Rump` | threads, mutex, rwlock, condition variable, waiters | enter, exit, wait, signal, join, bio | LWTs, block devices |
| Console (`console.c`, `console-kbd_.c`, `consio_vtdrv.c`, `keyb.c`) | `Console` | screens with key buffers, clists | scan code, request, answer, switch, open, fork, close | user devices, terminal |
| Terminal (`window.c`, `vt100.c`, `console-vga.c`) | `Window`, `Vt100` | image of the screen, believed cursor, window, escape state | window calls, redraw, bytes of output | console |

What is hard here, and what makes each part correct:

* **Address spaces.** Each path decides for itself whether the entry it
  replaces holds a reference. Correct: a mapped frame is never free, the count
  never falls below the mappings, a shared frame is not writable, a page a
  device does DMA to stays where it is.
* **Scheduler.** Status, lists and signals are changed by several CPUs, partly
  without the lock. Correct: no wake-up is lost, a thread is in one place, an
  idle CPU means no work, dead threads are reported to a living parent.
* **Bus and user devices.** A device dies with its owner while other processes
  are in the middle of a call. Correct: slots and sessions match one to one,
  requests arrive in order and are not forgotten, a device reaches only memory
  its current client exported, nothing freed is used.
* **Interrupts, alarms.** A line is masked by one CPU and unmasked by the
  acknowledgement of any of its drivers, which may die first; the timer list,
  the comparator and the alarm of a thread are updated in several places.
  Correct: a masked line has somebody to unmask it, the hardware waits for the
  head of the list, no tick is charged twice.
* **Allocators, trees and lists.** Long sequences of legal calls. Correct: what
  is free and what is in use partition the space, and the structures implement
  the set or the sequences that their users see.
* **User level.** Interrupts at any point outside `preempt_disable`, a
  controller and a keyboard that run concurrently, processes that come and go.
  Correct: nothing is lost, doubled or reordered on the way, nobody sleeps with
  work to do, nothing is freed in use, and the screen shows what was written.

`PROJECT.json` lists the hazards line by line, with the properties that cover
them and, where the code is known to go wrong, what the property leaves out.

## Modules

### `Pmap` (address spaces)

`pte` is the page table of each process (one page `ZVa` for the no-COW area and
the pages `CowVas` for the COW area), `ref`/`wir` are the counters of
`pfndb`, `used` the frames of type `PFNT_USER`, `dma` and `hwmap` the records of
`hwdev.c`. One action is one system call (or fault): `VmMap`, `VmUnmap`,
`VmMove`, `VmChprot`, `PmapFault`, `Export`, `Unexport`, `IoMap`, `IoUnmap`,
`Fork`, `Exit`, `Reap`. A call is atomic because a page table belongs to one
thread, the counters are atomic and the allocator is locked. A failed kernel
assertion or `panic` sets `halt` and stops the machine. `cowed` and `cowexp` are
history variables: the properties that the code gives up for leaked or
COW-exported frames are stated without those frames. `SelfMove` says whether
processes call `sys_move` with equal addresses (that releases a mapped frame).
Contents of pages are not modelled; TLB flushes are in `Tlb`.

### `Sched` (threads, signals, scheduler)

`k[c]` is the continuation of CPU `c`: the next step of the kernel entry it is
in. A step is one locked section or one access to shared state, so that
`schedule` is four steps (`SysWait`/`SysYield` with the signal test, `Pick` under
the lock, `Switch` with the unlocked write of the old status, `Insert` under the
lock) followed by `Resume`, and every entry ends with `do_softirq` (`Deliver`,
`DoZombie`, `ReturnToUser`). All pending signals of a thread are one bit.
`Raise` stands for every caller of `thraise`. When `wake` removes a thread from a
list it is not in, `broken` is set and nothing is modelled afterwards. Init never
exits (that is a panic). Handing a zombie to its parent is one step. A dead
child's structure is freed by `SysChildstat`.

### `Bus` (device bus and user devices)

`bus[t]` is the slot table of a process, `rem[o]` the session table of a device,
`ioreqs[o]` its request FIFO. `bus_plug` is `BusPlugFind`, `BusPlugOpen`,
`BusMark`; `bus_copy` is `BusCopyClone`, `BusCopyLink`, `BusMark`; `__exit` is
`BusRemove` for each slot and then, for each device of the process,
`UsrdevDestroy`, `DevDetachTree`, `DevDetachOffline`, `DevDetachSever` for each bus
entry, `UsrdevFree`. Only the bus lock is held between steps (`locked`). At most
`NCpus` threads are in the kernel. The owner of a device behaves like
`__console_io_ast`: a signal starts its handler, which polls until there is
nothing left; `known` is what it believes from the requests it polled.
All devices have the same name, so a second one exists only once the first has
left the tree. Use of freed or NULL memory sets `damaged`. The apertures of a
session are recorded as the threads that exported them. I/O space, interrupt map
and configuration space are data no property tells apart and are left out.

### `Irq`, `Timer`

`Irq` has drivers on one shared level-triggered line and drivers of edge lines.
`sigs` is `irqsigs`, `eoi` the flags of its entries, `masked` the mask bits;
`op[c]` is what CPU `c` still has to do after a locked section (signal the
drivers, write the mask). CPU 0 takes all interrupts, system calls run anywhere. A device asserts its line at
any time (`HwAssert`); an edge on a masked line is lost.
`irqeoi` may read an uninitialised `doeoi`: both outcomes are possible.

`Timer` has `tq` (list, `valid`, `time`, comparator, enable bit), the virtual
times `vtt` and the line of the HPET. System calls, switches and the interrupt
with its soft interrupt are one step each, on one CPU. `Horizon` stops the clock.
Threads do not exit: `__exit` leaves the real-time alarm behind (a hazard).

### `Zone`, `PgAlloc`, `Vmap`

`Zone` is `alloc.c`, which the C files include with their own entry type: lists
per order, bitmap and amount; `ORDMAX` bounds the orders, and with them the sizes.
`PgAlloc` puts the boundary tags of `pgalloc.c` and
the page types of `pfndb.c` on it, in three zones; an allocation is two steps
because the types are set after the unlock. The scan of memory in `pginit` is a
recursive function along the pages. `Vmap` has the kernel's addresses
(`kvmap`, `kvunmap` with unaligned lengths) and those of a process
(`dma32_alloc`, `dma32_free`, `diomap`).

### `Heap`, `Slab`, `Tlb`

`Heap` keeps the block list and free list of each page, in units of a header.
`LIST_PREV` on the first block reads the list head as a block; the model has what
comes out of that. `Slab` is one fixmem cache with its three queues; `grow` runs
with the lock released. `Tlb` has the request bits, the one counter and NMIs that
coalesce while one is pending; `stale` are the translations that CPUs may hold.

### `Rbtree` and `OrdSet`, `Queue` and `SeqQueue`

`Rbtree` is `rb.c` with the node fields (children, father, position, colour) and
`rbt_minmax`; insertion, removal, rebalancing and the lookups are the code's.
`OrdSet` is the set of keys its users take it for. `Queue` has the macros of
`queue.h` by the addresses of "next" fields, one kind of list per behaviour;
`SeqQueue` is a family of sequences. Both pairs are refinements
(`INSTANCE ... WITH`), checked as `RbIsSet` and `QueueIsSeq`; the second one is
proved as well.

### `Lwt`, `Evt`, `Klog`, `Ahci`, `Blk`, `Rump`

`Lwt` keeps the SIMPLEQ of active LWTs with its pointers, because an LWT can be
queued twice; interrupts come between any two steps at which the preemption level
is zero. A waiter loops around `evtwait`, an AST is started by its event, the main
LWT starts and registers them in any order. Any of them sets the event of another
(`EvtSetBy`), and those of `Yielders` call `lwt_yield` or `lwt_pause` at any point;
the two differ in a `sys_yield` that changes nothing here. `lwt_yield` and `lwt_pause`
queue the LWT that runs also when it is queued already, and `lwt_exit` clears
`LWTF_ACTIVE` of an AST that is queued behind others; `lslip` records that one of
these has happened, and the properties hold until then.
`Evt` has the allocator: words of `EvtWord` bits (64), `evtfree` shifting an `int` of
`IntBits` bits (32), `evtalloc` clearing the registration in the first word; users
allocate, register, are raised, free or, as `mbr_scan` does, forget to free.
`eover` records that an event was handed out from which on these go wrong.
`Klog` splits `klogputc` and `kloggetc` where they read the indices without the
lock. `Ahci` divides the driver's steps where it touches a register of the HBA;
the HBA itself is external. Buffers are sequences of pages and may share them; ports
without a disk, and exports and allocations that fail, are actions. `Blk` numbers the disk objects in the order of
creation and tracks who holds each. `Rump` has one mutex, one reader-writer lock
and one condition variable, `ruse` choosing which of them a behaviour is about;
waiters are records on stacks, which `wait()` does not take off a list.

### `Console`, `Window`, `Vt100`

`Console` follows a key from the controller through the buffer of the current
screen, the request and answer of a process and its clist to the application.
`Window` keeps, in `tty`, the library's image of the screen and the position where
it believes the cursor to be, next to the real display; a call is one step.
Switching to another screen makes the console drop output until the redraw
interrupt. `torn` marks the five situations in which the code does lose track of
the display; the property says nothing until the next redraw.
`Vt100` takes one byte per step through the states of `vt_out` and uses the
operators of `Window` on a window. Parameters have the widths of the code (`ShortHalf`,
`IntHalf`), and there are as many of them (`NParms`, 8) although `ptr` counts further
(`PtrMax`, 15): a digit written behind the last is recorded in `spilt`, and the model
stops there. Nothing in the repository calls it yet, so its
initial modes are those of `vt_init` with everything on.

### MC modules

`MCPmap`, `MCSched` and `MCBus` add the symmetry sets. `MCKernel`, `MCUser` and
`MCLive` put parts that share no state into one run each: the variable `part`
chooses one of them at the start and the others stand still, so the run is the
union of the parts' own runs, and not their product. The bounds are in the
`.cfg` files.

## Runs

| run | bounds | checks |
|---|---|---|
| `pmap` | 2 processes, 1 COW and 1 no-COW page, 3 frames, 1 MMIO frame, 1 DMA record per page, 3 references by fork | `TypeOK`, `RefCovers`, `RefExact`, `SharedReadOnly`, `DmaPinned` hold |
| `sched_up` | 1 CPU, 3 threads | `NoSleepWithSignal`, `ListsIntact`, `WorkConserving`, `ParentAlive` hold |
| `bus` | 2 CPUs, 3 processes, 1 device, 1 slot each, 2 sessions, 1 aperture, 2 queued requests | `TypeOK`, `SessionsMatch`, `RequestsOrdered`, `NoLostRequest`, `AperturesOwn`, `NoDanglingEntry` hold |
| `kernel` | 2 CPUs and 2 threads for the scheduler; 2 drivers on a line, 2 CPUs; 2 threads with alarms to time 2; 7 pages in 3 zones; 6 kernel and 5 user pages of addresses; 2 heap pages; 2 slabs, 2 CPUs; 3 CPUs and 2 flushes; 8 keys; 4 elements in 2 lists | `KernelTypeOK`, `OnePlace`, `MaskedIsOwed`, `TimersSound`, `PagesSound`, `VmapSound`, `HeapSound`, `SlabSound`, `FlushReaches` hold, `RbIsSet` and `QueueIsSeq` (refinements) hold |
| `user` | 2 waiters and an AST with 2 interrupts each, of which the AST and one waiter may yield; 2 users of 6 events in a word, `int` of 3 bits; a log of 3 with 4 characters; 3 requests (of 3 pages, and 2 within one page), 2 slots; 3 disk objects; 4 rump threads; 2 screens, buffers of 2, 2 scan codes; a display of 2 by 4, 5 calls; 2 parameters counted to 3, 3 digits, shorts of 4 and ints of 7 bits, 8 bytes | `UserTypeOK`, `LwtSound`, `KlogInOrder`, `RequestsSound`, `BlkSound`, `RumpSound`, `ConsoleSound`, `TerminalSound` hold |
| `live` | as above on one CPU, with 2 level drivers and an edge driver, 1 waiter and 1 AST (the waiter and the main LWT may yield), fairness | `SignalDelivered`, `RunnableRuns`, `InterruptServed`, `WorkServed`, `KlogDrained`, `IssuedReported` hold |
| `pmap_chprot` | as `pmap` | `ChprotAssertHolds` fails: map, fork, protect read-only |
| `sched_reap` | 1 CPU, 3 threads, fairness | `DeathReported` fails: `do_zombie` handles one of two zombies |
| `sched_smp_wake` | 2 CPUs, 2 threads | `NoSleepWithSignal` fails: the signal test of `schedule` is not under the lock |
| `bus_race` | as `bus` | `NothingFreedIsUsed` fails: `dev_detach` follows a bus pointer that `bus_plug` has not set yet |
| `timer_line` | 2 threads, time 2 | `LineReenabled` fails: the HPET's line stays masked after the first alarm |
| `zone_cross` | 8 pages, 3 zones, 1-page requests | `KernelPagesDirect` fails: a range merges across the zone boundary |

Why the bounds are enough for the cases of interest: two processes and three
frames let a frame be shared, released by one side and reallocated; a third
process would only repeat the second's role at the counts. Three threads on one
CPU give a dying thread a parent that is not init, and two deaths at once; on two
CPUs two threads already show every race of one CPU's `schedule` with the other's
`wake`. In `bus` three processes are an owner, a client and a forked child, the
slot and aperture tables are full after one use, the session table after two, and
the request queue holds more than one request of one session. `MaxReqs` only
stops new opens, outputs and forks, so that closing never blocks.

Two drivers are what sharing a line takes. Seven pages with a hole give each of
the three zones a range, splits and merges on both sides; eight keys make
trees in which the rebalancing after a removal climbs more than one level. Four elements in two lists
cover the first, middle and last place and a concatenation. Two slabs with three
objects visit every queue. Three CPUs let two flushes meet at a third. The ring
buffers wrap and overflow. A display of four rows has a window with a
title and a region inside it; five calls suffice for a character, a scroll, a
switch, a redraw and one more, and eight bytes for two complete sequences, or one
after a cancelled one.

`OnePlace` and the invariants of `bus` are conditional on (or, after the
damage, untouched by) the flags `broken` and `damaged`: the runs `sched_smp_wake`
and `bus_race` show how the flags get set on two CPUs. `CHECK_DEADLOCK` is off
where a bound on the inputs ends the behaviours.

### Fairness

`Fairness` of `Sched` assumes that a CPU goes on executing kernel code (weak
fairness of `Kernel(c)`), that a pending kick is taken by a CPU that is again and
again in user mode or idle (strong fairness of `CpuKick(c)`; interrupts are only
off inside the kernel), and that a process that runs again and again also again
and again calls `sys_wait`, and again and again gives up its CPU. The last
assumption is not enforced by the kernel, which never preempts; the processes of
the system justify it: they spend their idle time in `lwt_sleep` of libmrg, a
loop around `sys_wait`. A process that computes for ever starves the others on
its CPU.

`IrqFairness`: CPUs finish what they do, CPU 0, which is in the kernel for short
times only, takes an interrupt that keeps coming, and a driver that is signalled
serves its device and calls `sys_eoi` (as `__ahci_intr` and `__kbd_ast` do). Devices
may assert their lines at any time or never; an edge that comes while its line is
still masked is lost, between the two steps of `irqregister` too, and `DeviceServed`
speaks of edges that the I/O APIC has latched. `LwtFairness`: the process goes on, since
the kernel runs it, and no LWT does nothing but yield; interrupts are not assumed. `KlogFairness`: the reader's AST and a `klogputc`
that has begun go on. `AhciFairness`: the driver goes on, and the HBA carries out
commands and raises its interrupt, or stops with an error.

## Findings

1. `pmap_uchprot` asserts that the entry is NORMAL, but lets a read-only
   protection of a COW entry through (run `pmap_chprot`).
2. On more than one CPU, `schedule` can put a thread to sleep with a signal
   pending (run `sched_smp_wake`).
3. `do_zombie` hands over only the first of several dead threads; the softirq bit
   is already cleared, so the others stay unreported (run `sched_reap`).
4. `bus_plug` and `bus_copy` make a bus entry visible to `dev_detach` before its
   bus pointer is set (run `bus_race`).
5. `hpet_irqhandler` does not unmask the level-triggered line that `irqsignal`
   masked: one alarm expires and no other (run `timer_line`).
6. `___get_neighbors` of `pgalloc.c` looks for a zone boundary behind the first page
   of a range and not behind its last: ranges merge across zones (run `zone_cross`).

Met while modelling, excluded from the properties and described with the hazards:
leaked COW references, an export of several pages that keeps the lock, alarms of
dead threads, a heap page that loses a block, `max_objs` of fixmem slabs, the log's
indices read without the lock, page types that `pgalloc` sets after the unlock, a
failed `set_prdt` that takes back pages it has not exported, writers that
enter a lock held by readers, a key list that overflows into the wrong entry, and
the five ways in which the terminal loses its display. Also:

* An edge between the insertion and the `platform_irqon` of `irqregister`
  (`kern.c:1033-1036`) is lost, and its device waits for good.
* `timer_register` puts an alarm that is earlier than the first one second
  (`kern.c:1105-1112`), and the HPET waits for the later one.
* `lwt_yield` and `lwt_pause` queue an LWT twice that was woken while it ran
  (`lwt.c:147`, `169`). `lwt_exit` clears the flag of an AST that is queued behind
  others (`lwt.c:216`), so that the next event queues it twice; an AST that is
  registered before an LWT is started, as in `vtdrv_init`, can get there.
* `evtfree` shifts an `int`: from event 31 of a word on it frees others (`evt.c:36`).
  `evtalloc` clears `wait_evts` of the first word whatever the word (`evt.c:50`).
* `ahci_port_unset_prdt` takes back the first page of a buffer as often as the buffer
  has pages (`ahci.c:204-208`): too often for another request in that page.
* A thread back from a condition variable goes on without the mutex when it is
  taken (`rumpuser.c:570-579`).
* More than eight parameters of an escape sequence are written behind `escparms`
  (`vt100.c:421`, `426`).

## Proofs

Eight modules hold the theorems; each EXTENDS the module it is about, so that
TLC evaluates the assumptions on the constants in the runs. The theorems hold for
every value of the constants that satisfies those assumptions (finite sets,
positive sizes, elements that are distinct); where more is assumed, the table says
so.

| theorem | of | rests on | further assumption |
|---|---|---|---|
| `TypeCorrect`, `RefCoversCorrect` | `PmapProofs` | themselves | none; `~SelfMove` |
| `SharedReadOnlyCorrect` | `PmapProofs` | `ShareInv` | `~SelfMove` |
| `DmaPinnedCorrect` | `PmapProofs` | `DmaInv` | `~SelfMove` |
| `RefExactCorrect` | `PmapProofs` | `ExactInv` | `~SelfMove` |
| `TypeCorrect`, `ParentAliveCorrect`, `OnePlaceCorrect` | `SchedProofs` | `SchedInv` | none |
| `ListsIntactCorrect`, `NoSleepWithSignalCorrect`, `WorkConservingCorrect` | `SchedProofs` | `OneCpuInv` | `NCpus = 1` |
| `TypeCorrect`, `NoDanglingEntryCorrect`, `SessionsMatchCorrect` | `BusProofs` | `BusInv` | none |
| `NoLostRequestCorrect`, `AperturesOwnCorrect`, `RequestsOrderedCorrect` | `BusProofs` | `BusInv`, `StepEffect` | none |
| `MaskedIsOwedCorrect` | `KernelProofs` | `IrqInv` | none |
| `TimersSoundCorrect` | `KernelProofs` | `TimerInv` | none; says nothing of the order behind the head |
| `FlushReachesCorrect` | `KernelProofs` | `TlbInv` | none |
| `SlabSoundCorrect` | `KernelProofs` | `SlabInv` | none |
| `HeapSoundCorrect` | `KernelProofs` | `HeapInv` | none |
| `QueueIsSeqCorrect` (refinement) | `KernelProofs` | `QInv` | none |
| `VmapSoundCorrect` | `AllocProofs` | `VmapInv` | none |
| `PagesSoundCorrect` | `AllocProofs` | `PgInv` | `ZonesApart`, `OnePgCpu` |
| `LwtSoundCorrect` | `LibraryProofs` | `LwtInv`, `EvtInv` | none; until `lslip`, of events until `eover` |
| `RumpSoundCorrect` | `LibraryProofs` | `RumpInv` | none; mutual exclusion until `rbarged` |
| `TerminalSoundCorrect` | `LibraryProofs` | `WindowInv`, `VtInv` | none; display while not `torn`, emulator until `spilt` |
| `KlogTypeCorrect`, `KlogInOrderCorrect` | `UserProofs` | `LogInv` | none; `OneCpu` |
| `RequestsSoundCorrect` | `UserProofs` | `AhciInv` | `OneDisk`, `NoNeighbour`, `FirstPagesOwn` |
| `BlkSoundCorrect` | `UserProofs` | `BlkInv` | none |
| `ConsoleSoundCorrect` | `UserProofs` | `ConsInv` | `[]ClistsHold` |

`ListProofs` has what several of them use: the least element of a set of numbers,
induction up to a number, lists without duplicates.

The further assumptions are needed: without them TLC finds a counterexample, and
the run of the property has constants that satisfy them. `sys_move(va, va)`
decrements the count of the page it leaves mapped (`~SelfMove`). On two CPUs a
thread can sleep with a signal pending (run `sched_smp_wake`) and after that leave a
list it is not in (`NCpus = 1`). Two CPUs that log at once store at one index
(`OneCpu`). `ZonesApart` is the memory for which the slip that run `zone_cross` shows
does no harm: where two zones touch, the lower one ends in a run of one page.
`pgalloc` sets the types of its pages after it has unlocked the zone, so that a
`pgfree` on a second CPU may merge with what is being handed out (`OnePgCpu`). A
second disk gets the first one's event (`OneDisk`), a `set_prdt` that fails takes
back pages behind its own, which must not be another request's (`NoNeighbour`), and
the end of a request of several pages takes back its first page once for each, which
must not be another's either (`FirstPagesOwn`); buffers may share their pages otherwise. `ClistsHold` is about the behaviour and not the constants: no chunk of
a clist is overfull, which ends when `CLIST_SIZE` keys wait that nobody reads
(`keyb.c:32`).

**Address spaces.** `RefCovers` compares the *number* of mappings of a frame with
its count, so each action is reduced to a statement on the set `Maps(p)`:
`OneEntry`, `Shrink` and `SameFrame` say how it changes when one entry is replaced,
when entries only disappear and when they are untouched; `Release` covers the tail
shared by map, unmap, move and iomap; `PairImage` and `SubsetCard` relate the
mappings of one process to the cardinalities that `Fork` and `Exit` add and
subtract. `SharedReadOnly` speaks of a frame with two mappings and does not say
what kind they are; `ShareInv` does: entries that share a frame are COW entries, and
COW entries are read-only. It needs `RefCovers` (a frame that `Pmap` hands out has no
mappings). `DmaInv` adds to `DmaPinned` that the wiring count of a frame is at
least the number of its export records in all processes: only then does
releasing one of them leave the page of another wired. `ExactInv` says that a frame
never shared by fork has one reference and, unless it is wired, a normal or COW
entry that will release it.

**Scheduler.** `SchedInv` says for each step of `schedule`, `wake` and `__exit` what
its CPU holds (`ControlOK`), that a dying thread has given its children away
(`DyingOK`), and, while no list is corrupted, list by list that what is in it has the
status of that list and is in no other (`PlaceInv`); a thread between two lists is
accounted for by the continuation of the one CPU that moves it (`NextOK`, `OldOK`).
`OnePlace` follows by showing that the union of the places is a singleton.
`OneCpuInv` adds that a thread on its way to sleep has no signal (one CPU
has nobody else to raise it between the test and the insertion) and that an idle
CPU that has something to run has a kick pending.

**Bus.** `BusInv` has the control state of each thread in a plug, fork, exit or
detach (`ControlOK`), the stages of a device (`StageOK`), the slots (`EntryOK`), the
slots about to be filled (`PendingOK`), the sessions (`SessionOK`), that each session
in use has its holder (`HeldOK`), the list of bus entries of a device, which is handed to the owner's
continuation during `dev_detach` (`ListOK`, until a NULL bus pointer is followed),
and devices that do not exist yet (`NewOK`). For the queue, `StepEffect` first
reduces the actions to what a step can do to the sessions and the queue of a device
(nothing, take a session by open or clone, end it, output, export, poll, free); each
property then has one case per effect. `KA` is `KnownAfter` of an arbitrary
queue, with lemmas on appending a request and taking the first; no induction over
the queue is needed since it says which sessions are known by quantifying over
the positions of opens and closes.

**Interrupts.** `MaskedIsOwed` asks for one driver that owes an
acknowledgement; when that one dies another must be left. `IrqInv` therefore says
that *all* drivers of a masked line owe one while no CPU is about to change the
line, and that an edge line with an edge waiting is not masked.

**TLB.** One counter stands for all requests. `TlbInv`: the counter is at least the
number of pending NMIs, of CPUs in the handler and of CPUs about to send, and each
stale translation is of a flush in progress whose CPU still has to be asked, or was
asked and has its request bit and NMI.

**Log.** `LogInv` describes the ring: the characters that wait are the last
`logsize` of those stored, from `kc` on, and a call in progress holds the
indices that the buffer still has.

**Slabs.** `SlabInv` has the queues (disjoint, without duplicates, one per free
count), the objects and the counters. It is stronger than `SlabSound` in one point:
a slab in the queue of empty ones has at least two free objects (`FreeEnough`), or
taking one of them would put it in the wrong queue.

**Alarms.** `TimerInv` has the list with `valid` and the comparator (`QueueOk`), the
times of the thread that runs (`ThreadsOk`), and that the clock is the sum of what
all threads were charged (`Conserved`). `timer_register`, `timer_remove` and
`do_timer` become one lemma each on an arbitrary queue. The sum over the threads is
a recursive function on sets: that there is one, and that any thread can be taken
out of it, is shown by induction on the size of the set (`IsSum`, `TakesOut`).

**Heap.** `PageOk` says of a page that its blocks are in order and within it, that the
free list has the free ones, and that the others are what is held; `Whole` that
there are no gaps and no two free blocks in a row. Splitting and merging are both
the replacement of a stretch of the block list (`Spliced`), and the lemmas are on
that. Only the oldest page is whole: the others lose a block in
`LIST_PREV` (see the hazard).

**Lists.** `Rep` relates the links to a family of sequences: the next fields
(`NextOk`), the tail pointers of TAILQ and SIMPLEQ (`LastOk`), the back pointers of
TAILQ and LIST (`PrevOk`). Each macro is shown to be an insertion, a removal or a
concatenation of cells (`Inserted`, `Removed`, `Joined`), and three lemmas carry these
over to the sequences. The walk, which the refinement mapping uses, is a recursive
function of the cell; induction on the number of cells left shows that it meets the
sequence. With that, a step of `Queue` is a step of `SeqQueue` or leaves the
sequences alone.

**Zones, addresses, pages.** `ZRep` says that a zone stands for a family of sets of
entries, one set per zone: lists by order, bitmap and amount. `zone_attachentry`,
`zone_detachentry`, `zone_findfree` and `zone_create` are operations on that family.
`Tiled` (free and used entries are apart and cover the space) and `Coalesced` (no
free entry ends where another begins) are kept by taking the first part of an
entry and by freeing with the neighbours merged (`FreeTiles`). `VIs` adds the tree of
`vmap.c`, in which the neighbours are found; `PIs` the types and boundary tags of
`pgalloc.c`: every free entry is tagged at its two ends, and every tag is one of
these, except on the pages whose types `pgalloc` has still to set. `pginit`, a
recursive function along memory, is a sequence of frees of the runs it meets; pages
that are no memory, or that it has not come to, count as ranges in use of one
page each. Powers of two and the scan are shown to exist by induction on numbers.

**LWTs.** `LwtInv` is `LwtGood` until `lslip`. `LwtGood` says which sequence the pointers
of the active queue stand for, that the preemption level is at least the number of
LWTs in `evtwait`, so that an interrupt that finds an LWT running finds none of them
waiting there, and that whoever waits for an event that is set is active. Insertion at
the tail and removal of the head are lemmas on an arbitrary queue (`InsertList`,
`DequeueList`), and so is the choice of who runs next (`ResumeOk`). `EvtInv` says of the
events that, until `eover`, all that are held are below bit 31 of the first word,
where `evtfree` clears the bit it is asked to and `evtalloc` the registration of the event
it hands out.

**Rump.** `RumpInv` says by `rpc` in which list of waiters a thread must be, and that a
lock which is free and waited for has a thread on its way (`GoingOk`); of the
reader-writer lock that this is a writer. A step is a change of one thread's
position and of one list, and the lemmas are on these two.

**Disk.** `AhciInv` has the slots of `lastci` with their commands, and
that every slot PxCI no longer shows was carried out (`CarriedOut`), except the one that is
just being issued; `IssueOk` says that the value about to be written to PxCI sets no
bit but that of a live request.

**Block devices.** `BlkInv` is `BlkSound` with types and with every base older than
what is on it, which makes the walk along the bases finite. References are compared
with the *number* of holders, so the lemmas say by how much a step changes the
number of descriptors, partitions and scans that hold an object.

**Keys.** `ConsInv` says, screen by screen, where the request of an open session is: in
the queue of the console, noted on the screen, or answered by an interrupt that is
on its way or delivered, and in exactly one of these while the keyboard LWT waits
(`OwnToken`). Of the queue it says that an open comes first, a close last, that no
session has two requests in it, and that nothing of a closed session is left when its
number is given away (`OwnQueue`, `CloseLast`). The ring buffer and the clist are shown
to be sequences to which a key is appended and from which the first is taken;
`OwnKeys` is then an equation between sequences, which every step keeps by moving one
key across one of its three joints. A forked process shares the answer with its
parent, and only its screen and queue are spoken of.

**Terminal.** That display and image agree is not inductive: the library sends a
character without a movement when it believes the cursor to be there already.
`WindowInv` says when it may: the cursor of the display is where the library
believes it to be, unless that is right of the last column (`Sync`), and a character
that follows one with bit 7 set is sent to where the display has its cursor
(`Ready`). Every operation of `window.c` has one lemma, on a display and a window
and not on the variables: it keeps the types and the title, and if the display
showed the image before, it does so afterwards (`Does`, `Goes`, `Shows`). The
operations that write a row or scroll are loops over `_write`; a loop is a recursive
function on numbers, and `LoopExists` and `LoopInvariant` show that there is one and
that it keeps what each of its rounds keeps. `VtInv` says that the emulator's region
is the window's and not empty, also after the operations that change it for a while,
and that the parameters are clear in every state in which none is read, unless a
sequence was cut short. The operations of `window.c` are used there through the
lemmas of the first part.

Only model-checked:

* All liveness (`live`, `sched_reap`): temporal reasoning under fairness and `ENABLED`
  are out of the prover's reach.
* `RbIsSet`: the rebalancing of the tree is a loop that climbs by the colours of
  nodes, over definitions with RECURSIVE operators.
* `KernelTypeOK` and `UserTypeOK` as wholes; the proofs contain the types of the parts
  that they are about.

## Not modelled

* `plt_acpi.c`, `plt_pci.c`, `plt_usb.c` and `pltdev.c`: one pass of enumeration
  through firmware tables and configuration space.
* Port I/O, VGA and APIC register setup: the hardware decides what they mean.
* Credentials and permission checks only make calls fail.
* User devices: contents of I/O space, interrupt map and configuration space.
* `STAILQ`, `CIRCLEQ` and `LIST_MOVE` (unused; `LIST_MOVE`, `queue.h:217-223`, would leave
  a stale back link), shrinking and removing slab caches (unused).
* LWTs: the private pointer and the exception flag (`lwt.c:64-88`), a `malloc` that fails in
  `lwt_create_priv`, the table of interrupt numbers (`intalloc`, `intfree`).
* Reads of more than one character from the log device (`klogdev.c:171-175`), the
  process number that `usrdev_poll` reports (`usrdev.c:525`).
* Disk: `blkdrv_ahci_probe` before it comes to the ports, and its error path
  (`ahci.c:708-716`), after which there is no disk; the parsing of IDENTIFY data.
* Terminal: attributes and colours, borders and overlapping windows, the line
  editor, `vt_send`, insert mode (recorded and unused), the character maps.
* Rump: clocks, random numbers, parameters and memory; the hypervisor calls of the
  rump kernel, which is not in the repository.
* C start-up code, squoze, printf: no state.

## Plan

Done, in this order: `Pmap` with its proofs, `Sched`, `Bus`; then interrupts and
alarms, the allocators, TLB, trees and lists, LWTs, log, disk, block devices, rump
locks, console, windows and the terminal emulator.

Proved since: the invariants of `Pmap`, `Sched` and `Bus`, those of `Irq`, `Timer`,
`Tlb`, `Slab`, `Heap`, `Vmap` and `PgAlloc`, the refinement of `SeqQueue` by `Queue`, and
the invariants of `Klog`, `Ahci`, `Blk`, `Console`, `Lwt`, `Rump`, `Window` and `Vt100`.

Next:

1. Smaller steps in `Sched` (`do_zombie` against `__exit`, stacks), an abstract
   specification of the bus.
2. The page allocator on two CPUs, with what a type set late may do.
