# A TLA+ model of the OS/161 kernel

This directory specifies the OS/161 1.11 kernel in `src/os161-1.11/kern` (paths
below are relative to it), with `mksfs` and `printf` beside it, checks it with TLC
and proves central invariants with TLAPS. Definitions carry the names of the C
functions they translate; `PROJECT.json` gives the lines.

## The system

OS/161 runs on one MIPS CPU. Kernel threads are preempted by a timer interrupt,
give the CPU away in `mi_switch()`, and protect short sections by raising the
interrupt level: `splhigh()` ... `splx()`. Such a section is atomic *unless it
calls something that sleeps*, and much of what is hard in this kernel is in that
exception.

| Part | State | Operations | Who meets it |
|---|---|---|---|
| Threads, scheduler (`thread/thread.c`, `scheduler.c`) | `curthread`, run queue, `sleepers`, `zombies`, `numthreads` | fork, exit, yield, sleep, wakeup, switch, exorcise | everything that blocks |
| Semaphores (`thread/synch.c`) | `count` | P, V | drivers, file systems; V also from interrupts |
| Locks, condition variables (`thread/synch.c`) | none: the functions are empty | | vnode and SFS code calls them and is not protected by them |
| Timer (`thread/hardclock.c`, `dev/lamebus/ltimer.c`) | `lbolt_counter` | hardclock, clocksleep | scheduler |
| Run queue, arrays (`lib/queue.c`, `lib/array.c`) | ring and its indices; array and its room | add, remove, preallocate, grow | scheduler, thread lists |
| Virtual memory (`vm/*.c`) | core map, page tables, swap list, TLB | fault, page in, evict, copy, destroy, kernel pages | every kmalloc of a page, every user access |
| Kernel heap (`lib/kheap.c`) | page references, free lists | kmalloc, kfree | everything |
| Traps, interrupt levels (`arch/mips/mips/`) | `curspl`, `in_interrupt`, kernel stacks | trap, interrupt, system call, switch | everything |
| Bus and drivers (`dev/`) | slots; device registers, semaphores | probe, request, interrupt | SFS, console, timer |
| VFS, SFS (`fs/`) | vnode counts, mount list; free map, inodes, directory | open, close, read, write, truncate, link, rename, mount | swap file, program loading |
| Processes (`userprog/`, `thread/filetable.c`) | address space, file table, (unbuilt) pid list | exec, write, exit, (fork, waitpid) | VM, VFS |
| Main, menu, panic (`main/`, `lib/kprintf.c`) | the line being run, stages of a panic | boot, commands, reboot, panic | programs, disk |
| Synchronisation problems (`asst1/`), tests (`test/`) | bowls, regions, counters | cats and mice, cars, tests | semaphores, locks |

The behaviours that make it hard, and the properties worth having: a wakeup
racing a thread on its way to sleep; a thread that is woken but finds its
condition taken; interrupts in the idle loop, when there is no current thread;
lists that must never need memory inside the context switch; frames whose page
is on its way to disk while its owner faults on it; counters that rely on locks
that do nothing. The list `hazards` of `PROJECT.json` has each at its line.

## Modules

| Module | What it is |
|---|---|
| `Threads`, `SemaphoreSpec`, `ThreadsProof` | threads, scheduler, timer and semaphores as one state machine; what semaphores promise; the proofs |
| `ThreadSpace` | `Threads` with the room of its three lists and failing memory |
| `RunQueue`, `FIFO`, `Bitmap` | containers of `lib/`, and what a queue promises |
| `VM`, `TLB`, `TLBSpec`, `AddrSpace` | core map, page tables, swap, page faults; the slots of the TLB and what `VM` assumes of them; segments |
| `DumbVM` | the memory system of kernels with option dumbvm |
| `KHeap` | `kmalloc()`, `kfree()` and the memory stolen at boot |
| `Base` | the constants that several components share: the threads and the null pointer |
| `Trap`, `CopyInOut` | entering and leaving the kernel; copying across the boundary |
| `LameBus`, `Lhd`, `Emu`, `Console`, `Clock` | the bus and the drivers |
| `SFSBlocks`, `SFSFile`, `SFSDir` | blocks, files, and names of the simple file system |
| `VFS`, `VfsProof`, `FileTable` | devices, mounts, paths and vnode counts, and the proofs about them; descriptors |
| `DevNode` | the vnodes of devices, and transfers through them |
| `KernelProof`, `DataProof`, `MemoryProof`, `DeviceProof` | proofs about `Trap` and `Halt`; about `CopyInOut`, `Bitmap` and `FileTable`; about `RunQueue`, `AddrSpace` and `TLB`; about `Console` and `Lhd` |
| `Mksfs` | making a volume and mounting it |
| `RunProgram`, `Process` | loading by the page and arguments; process numbers |
| `Menu`, `Halt` | commands and programs from the menu; panic and shutdown |
| `Printf` | formatted output |
| `Stoplight`, `CatMouse` | the intersection of `stoplight_v2.c`, cats and mice |
| `SynchTest`, `ThreadTest`, `FsTest` | the kernel's tests that use threads |
| `MCMemory`, `MCStorage`, `MCKernel` | the instances of all runs but those of `Threads`, `ThreadSpace`, `VM`, `CatMouse` and `SynchTest`, whose configurations need no module of their own |

`MCMemory`, `MCStorage` and `MCKernel` check several specifications in
one run each (`devices`, `sfs_truncate` and `elf_zero_fill` take one or a few of their
instances, under specifications of their own). The variable `subject` says which one a behaviour is of and never
changes. The components with proofs are extended, so that a property is one and the
same definition for the run and for the theorem and TLC evaluates their assumptions:
their variables have a fixed value in behaviours of another subject. The others are
instantiated with a pool of variables `x1`, `x2`, ... in place of their own, and a
property `P` of such a module `M` appears as `subject = "m" => M!P`. State spaces add up
and nothing interacts that does not in the modules themselves.

### Threads

One action is what the CPU does between two points at which an interrupt or
another thread can come in. `curthread # NULL` means that thread runs with
interrupts on, and any operation of its program (fork, exit, yield, P, V,
clocksleep) or a tick may be next; programs are arbitrary. `curthread = NULL`
means the CPU is inside `scheduler()`, on the stack of the thread that switched
away: interrupts are off unless the run queue is empty, when `cpu_idle()` lets
them in (`Idle`). V is allowed there too, since drivers call it from interrupt
handlers.

A thread that blocks leaves its continuation in `pc`: it resumes inside `P()`
(`resume_P`, which tests the count again and may sleep again at once), inside
`clocksleep()` (`resume_clocksleep`), in its program (`resume_run`), or begins
(`mi_threadstart`). All but the last go through `exorcise()`, as the code after
`md_switch()` does. The loop of `thread_wakeup()` is one step per sleeper, with
`waking` saying what it is doing and that nothing else can happen meanwhile;
this is where the order of `array_remove()` inside the walk shows.

`ThreadSpace` conjoins each step with what it does to the room of the lists:
`thread_fork()` enlarges them in advance, `mi_switch()` must then not need
memory, and `kmalloc()` may fail at every call. A failed `assert(result==0)`
stops the kernel: that is the value of `failed`, and why that run does not check
for deadlock.

### RunQueue

The ring is modelled to the slot: indices modulo its size, an element more than
it has room for makes `q_grow()` move everything to the start of storage twice
as long, storage starts as garbage. It is shown to implement `FIFO`.

### VM

A thread is in its program, where it may store, fault, allocate or free kernel
pages, exit or start a program, or it is inside a fault or an allocation, where
`at` says in which function. The functions are cut where the code opens an
`splhigh()` section or starts a disk transfer, and `mi_switch()` may come between
any two cuts. Frames and swap pages have contents, tagged with the program, the
page and the parity of its stores, so that a lost, stale or foreign page shows.

Three stretches are one step although interrupts are on in parts of them: the
loop of `as_free_segments()`, the end of `cm_free_core()` after its transfer, and
the end of `pt_page_in()` with `tlb_add_entry()` and `cm_finish_paging()`. A timer
interrupt inside them is not explored. Kernel pages are allocated by a thread that
is not itself inside a fault. `as_copy()` is left out: its only caller is in
`process_syscall.c`, which is not built.

### TLB and AddrSpace

`TLB` has the nodes of the free list and the slots of the processor as separate
state, because the number in a node need not be the node's own. `AddrSpace` keeps
byte addresses and the pointer arithmetic of `as_valid_read_addr()`; the memory of
the segment that `as_create()` does not clear starts empty or as an earlier
address space left it.

### Containers and the heap

`Bitmap` keeps words of bits, so that the bits behind
the end exist. `KHeap` has addresses, the first word of every block (the link of a
free list, or what the owner wrote), page references and both lists of pages.
Interrupts are off in the allocator, but `alloc_kpages()` may sleep: an allocation
that needs a page is two steps and other threads come between. `checksubpages()` is
part of every step: what it asserts is the value `panic`.

### Traps and copying

`Trap` has, per thread, the kernel stack as the sequence of what is on it (trap
frames, `splhigh()` sections, a copy, a switch), and the globals `curspl`,
`in_interrupt`, `curkstack` beside the processor's own mode and interrupt bit. A
step is one push or pop. `CopyInOut` has the arithmetic of `copycheck()` modulo the
word size and copies byte by byte, with a fault possible at every one.

### Devices

Drivers are cut where they sleep or where their interrupt can come in; the card is
an external part that answers, or fails within a bound. `Lhd` marks what is on a
sector and in the buffer with the thread it belongs to. `Emu` has handles, vnodes, the root directory,
the retries of a close and failing memory. `e_lock` locks nothing, and what the card does with a
request on top of another one is not in the sources: a behaviour ends where two calls
overlap (`HostOverlap`). `Console` joins `console.c` and `lser.c`, with the three ways of
output that may interrupt each other; its locks are no steps either. `LameBus` has the generated autoconfiguration, in its order, with a record per driver for
the cards it takes, whether they interrupt and whether their attachment may fail, and
`lamebus_interrupt()` cut at each handler, because the timer's may switch threads.
`Clock` has the three reads of `ltimer_gettime()` with time passing between them.
`DevNode` is the layer between vnodes and drivers: `dev_tryseek()`, `dev_read()` and the
others of `device.c` over the console, the disk, the random generators and `null:`, with
the `uio` they move, in bytes and offsets of six bits.

### Files

`SFSBlocks`, `SFSFile` and `SFSDir` are written as operators that take the state of
the file system and hand back the state they leave, an error and a result, in the
order of the C code; an operation is one step, and within it one chosen disk transfer
may fail. A read then fails. A write does not: `sfs_rwblock()` tries again with the `uio`
that `lhd_io()` has used up, which transfers nothing and succeeds, so the write is lost
and nobody is told; the models go no further. `SFSFile` keeps contents, block numbers and the indirect block to the unit,
`SFSDir` names, link counts, reference counts and the table of loaded vnodes. Both
have one caller at a time: SFS has no locks of its own. `VFS` has the table of
devices, mounts, paths and the counts of vnodes over the operations file systems
offer, one operation at a time; a `VOP_RECLAIM` may fail, and leaves a reference that
nobody holds. `FileTable` is one thread's
table. `Mksfs` writes a volume in parts, perhaps interrupted, on a host of either byte
order or in the system, and mounts it.

### Programs

`RunProgram` tracks every byte of memory to the offset in the file it came from, to a
zero, or to what the frame held before. A page is mapped whatever `load_segment_page()`
returns, as in `pt_page_in()`. The field `uio_resid`, which the code does
not set for a page without file contents, is chosen from `Garbage`. Its second part builds
the stack byte by byte, over zeros or over what its frame held, and reads it as `main()`
would. `Process` is the table of numbers of `process_syscall.c`, which is not in
`conf.kern` and which nothing calls. Its callers are those the comments on its masks speak
of: a process that has exited and a parent that has exited or waited, in any order. When
`pid_change_status()` takes the last of several entries away it follows a null pointer:
the value `crash`.

### Menu, panic, text, tests

`Menu` has the line and the array of words both threads share, and per command of the
table that only asks another part of the kernel how many words it takes and whether it
may fail. `Halt` has the tests
and assignments of `evil` in `panic()`, everything behind which may panic again, and
shutdown, with threads that use the disk meanwhile. `Printf` consumes a format character by character with numbers of
four bits. `Stoplight` takes each route apart at the flags and counts; `CatMouse`, `SynchTest`,
`ThreadTest` and `FsTest` at the statements other threads can see. Locks and condition
variables do nothing in `synch.c`, and calls of them are no steps. Only `CatMouse` has the
locks that `synch.h` describes: its run shows what goes wrong even with them.

## What TLC checks

| Run | Subjects and their bounds | Shows |
|---|---|---|
| `threads` | 3 threads, 2 semaphores, each 0 or 1 at first, HZ 2, counts to 2, clocksleep to 2 s; with fairness | `OnePlace`, `NoLostWakeup`, `NoOvertaking`, `ImplementsFairSemaphores`, `ReadyRuns`, `ClocksleepReturns` |
| `memory` | *pressure*: 1 thread, 3 pages, 3 frames, 2 swap pages; *serial*: 3 programs in turn, 2 frames; *plenty*: 2 threads, 5 frames; *tlb*: 4 pages, 3 slots; *space*: starts 0 to 7 and sizes 1 to 6 with pages of 4; *ring*: 1 to 3 slots growing to 6; *lists*: 4 threads, ring of 2; *heap*: 2 threads, 3 pages of 8 in blocks of 2 and 4, 2 page references; *dumb*: 2 address spaces, 8 frames | `VMSeesOwnData`, `VMAccounted`, `SpaceAskedIsReachable`, `ListsRoomForSleepers`, `HeapFreeListsAreExact`, `DumbPagesKeepTheirData`, `TLBImplements`, `RingImplementsFIFO` |
| `storage` | *bitmap*: to 7 bits in words of 3; *disk*: 2 threads, 2 sectors, 1 error; *host*: 2 threads, 2 handles, 2 errors; *files*: 2 files, 4 blocks, 4 operations, one of the first 3 transfers failing; *dirs*: 2 names, 4 blocks, 3 slots, one of the first 7 transfers failing; *vfs*: 1 thread, 4 attachments (one a repetition), 8 paths; *table*: OPEN_MAX 4; *mksfs*: disks of 2 to 13 blocks, hosts of both byte orders or none; *fstest*: 2 threads, 3 chunks, 2 tests in a row; *node*: disks of 1 and 3 sectors of 4, positions around both ends, lengths to 8 | `BitmapBitsAreExact`, `DiskOwnData`, `HostHandlesAccounted`, `FilesReadsBack`, `DirsCleanDiskIsConsistent`, `VfsCountsAreExact`, `TableNoDangling`, `MkAllocationIsSound`, `TestNoFalseAlarm`, `NodeTransfersAgree` |
| `kernel` | *copy*: words of 8 values, user space of 4, pages of 2; *cars*: 3 from 2 directions, limit 1; *traps*: 2 threads, stacks 5 deep; *port*: 2 threads, 2 calls; *pids*: 4 numbers; *elf*: up to 3 headers for 2 segments, pages of 4; *args*: to 3 of lengths 0, 1, 3, 4; *menu*: 3 lines typed; *halt*: 2 threads, 2 nested panics; *synch*: 3 threads, 2 tests in a row; *wakes*: 2 sleepers, 2 tests in a row; *format*: numbers of 4 bits, formats to 5 characters; *time*: 2 threads, reads up to `SMALL` apart | `CopyIsExact`, `CarsCountsSleepers`, `TrapsSplIsTrue`, `PortInputIsExact`, `PidsKept`, `ElfImageIsExact`, `ArgsAllArrive`, `MenuArgsIntact`, `StopSleepersAreServed`, `SynchCanRunAgain`, `WakesWakerOutlivesSleepers`, `FormatNumbersReadBack`, `TimeIsCorrect` |
| `devices` | *disk*: transfers to 2; *console*: 1 call a thread; *bus*: 3 cards; 2 threads each; with fairness | `DiskIOReturns`, `ConsolePutchReturns`, `BusAttended` |
| `thread_space_queue` | 4 threads, ring of 2 slots | `MakeRunnableNeverFails` is violated |
| `vm_two` | 2 threads, 2 frames | `FreeFramesAreInTheList` is violated |
| `vm_reuse` | 1 thread, 2 programs in turn, 2 frames; a freed address space may be handed out again | `SeesOwnData` is violated |
| `cats_and_mice` | 2 cats, 1 mouse, 2 bowls | `NeverRefused` is violated |
| `sfs_truncate` | as *files* with lengths 0 to 5 and no failing transfer | `NoBlockPastEOF` is violated |
| `locks_absent` | as *synch* with 2 threads | `LocksExclude` is violated |
| `elf_zero_fill` | one segment, pages of 4, three values of the unset field | `ZeroFilled` is violated |

Every property has its statement and its reason beside it in its module; a property
of a subject is that of its module with the subject in front. The configurations list
the strongest one or two of each subject. The MC modules define more (`HeapDisjoint`,
`DirsLinksMatchEntries`, `DirsNothingLost`, ...), and
`Threads` has `TypeOK`, `CountsThreads`, `OneThreadOnly` and `ImplementsSemaphores`:
all of these hold in the same instances when they are added to the configuration, but
no run lists them.

Bounds. Three threads are the boot thread and two that can race each other for
one semaphore and for the end of the run queue; two semaphores tell a wakeup on
the right address from one on the wrong. `MaxCount` and `MaxSecs` only keep
counters finite. In `ThreadSpace` the sizes 32 and 16 of the code are the
constants `QueueSlots` and `KeepMax`, set to 2, so that four threads cross both
of them. Two threads are what it takes to have one inside a driver and another about
to enter; sizes (blocks, pages, words, buffers) are the smallest at which a list has a
middle, a ring wraps, an indirect block is needed, and a number overflows. Three cars
with a limit of one are one that drives and two that wait and race each other.
Two tests in a row are what it takes to see what the first left behind.

Where the code is wrong at a bound the passing runs stay on the side where it is
right; the other side is a violation, or is named at the end of this section:
eviction while a second thread runs
(`vm_two`), `kmalloc()` returning the block of `last_addrspace` (`Recycle`,
`vm_reuse`), kernel allocations of more than one page (`MaxKernel`), truncation to
other lengths than 0 (`TruncLens`, `sfs_truncate`), pages with nothing from the
file (`elf_zero_fill`; `ElfImageIsExact` is about the others),
segments with contents that do not start at a page boundary (of which
`load_segment_page()` places the bytes wrongly), more
than `SMALL` between the reads of the clock, `link()` of a root directory
(`LinkRoots`). Nothing is
established about swap space under two threads, about SFS under two callers or after a
lost write, about calls of the emulator that overlap, or about a stop after `panic()` has begun.
Only `threads` checks for deadlock, as elsewhere a panic, a shutdown or the end of
a test is where the system may stop.

Fairness. In `threads` the CPU goes on inside the scheduler and `thread_wakeup()`:
weak fairness of `mi_switch_in` and `thread_wakeup`. The timer reloads itself and
holds its interrupt line until it is served, so a tick possible again and again
is taken: strong fairness of `hardclock`. Nothing is assumed of programs: a
thread may spin or sleep for ever. In `devices` each card finishes what it has
begun, its interrupt is taken as long as the line is held, and a thread that can run
inside a driver does, which is what `threads` shows of ready threads; on the bus a
thread that is switched away in the middle of an interrupt is switched to again
(strong fairness of `SwitchTo`), for the same reason.

Seven runs are violations, disagreements between the code and what it says:

* `thread_space_queue`: `thread.c:410` says that putting a thread on a list in
  `mi_switch()` "should not fail" because of the preallocation, which asks for
  `numthreads+1` slots of a ring that always keeps one empty. The last thread
  does not fit without growing; if that fails the kernel stops.
* `vm_two`: `cm_free_core()` leaves a frame with `kern == 0` and no page until
  `cm_finish_paging()`, across a disk transfer; another fault's clock hand meets
  it and panics at `coremap.c:164`, which takes that to be impossible.
* `vm_reuse`: `as_activate()` compares with the address of an address space that
  has been freed, and does not flush the TLB if the next one is at that address.
* `cats_and_mice`: a cat counts itself after releasing the lock under which mice
  look at the count, and `bowls.c` stops the kernel.
* `sfs_truncate`: the first indirect block behind the new end is kept
  (`sfs_vnode.c:1124`).
* `locks_absent`: `synch.h:37` says that only one thread can hold a lock at the same
  time; with the empty functions of `synch.c` two threads of `locktest()` are inside
  together, and one finds the values of the other.
* `elf_zero_fill`: `loadelf.c:90` adds to a field that was not set, and the page
  keeps some or all of what its frame held.

Some definitions state what the code does not do, and are kept beside the model
without a run of their own. Put into a configuration they are violated: `ZombiesNeverFail` (the
configuration of `thread_space_queue`), `FramesAccounted` with `MaxKernel` 2 and 4 frames
(`free_kpages()` of several pages), `WritesASlot` of `TLB`, `AcceptedHasSegment` and
`FreesItsOwn` of `AddrSpace` (instances *tlb* and *space*), `ImageIsExact` of `RunProgram` with a segment whose contents do not
start at a page boundary, `TimeIsTrue` of `Clock` with `MaxGap` 3 and `MaxTime` 8, and
`NoPanic` of `VFS` with `LinkRoots` TRUE.

## What is proved

`ThreadsProof` proves, for every finite set of threads, every set of semaphores
with any initial counts, every HZ:

* `TypeCorrect`, `ThreadsInOnePlace`, `NumthreadsCounts`, `WakeupsNotLost`,
  `AloneWhenOneThread`: `TypeOK`, `OnePlace`, `CountsThreads`, `NoLostWakeup`,
  `OneThreadOnly`;
* `FirstInFirstOut`: the action property `NoOvertaking`;
* `SemaphoresCorrect`: `Threads` implements `SemaphoreSpec` (safety).

The inductive invariant `Inv` is `TypeOK`, `OnePlace`, `CountsThreads`,
`NoLostWakeup` and `Continuations`. The last says what a thread's continuation
tells about its place: the current thread is in its program, a sleeper is inside
`P()` on a semaphore or inside `clocksleep()` on `LBOLT`, and `waking` is either
idle or has an address. Without it nothing would prevent a thread on the run
queue from resuming in `P()` with no address to test, and `NoLostWakeup` would
not survive. Each action has its own lemma; facts about appending to and removing
from sequences without repetition are lemmas at the start. The only assumption is
`ThreadsAssumption`: the constants are of the right kind and distinct.

`DataProof` proves of `CopyInOut`, for every size of word and every smaller user space
that is a whole number of pages:

* `CopiesStayInUserSpace`: no copy touches an address that is not the user's
  (`NeverKernel`), for any pointer and length, also where their sum wraps around;
* `CopiesAreExact`: a copy that reports success has moved what was asked for, one
  that fails says why (`CopyIsExact`).

The inductive invariant is `TypeInv`, `Checked`, `Progress` and `CopyIsExact`.
`NeverKernel` alone is not inductive: that the next byte is the user's is known only
from what `copycheck()` found before the copy (`Checked`) and from how far the copy has
come (`Progress`). `CopyCheckLemma` is about the check itself. The assumption is
`CopyAssumption`, on the sizes.

The assumptions of the other results are each a named ASSUME of the component
(`RingAssumption`, `SpaceAssumption`, `SlotAssumption`, `BitsAssumption`,
`TableAssumption`, `TrapAssumption`, `PortAssumption`, `DiskAssumption`,
`HaltAssumption`, `VfsAssumption`), which the runs evaluate.

| Theorem | States | Assumes | Along which argument |
|---|---|---|---|
| `RingIsFIFO`, `RingSlotsAreElements` (`MemoryProof`) | `RingImplementsFIFO`, `RingOK` of `RunQueue` | sizes at creation are positive | a remainder is taken of numbers out of range by less than the size (`RingRemainder`); with that, `Contents` is a sequence whose ends are the two indices, and each operation moves one end or copies the whole (`RingGrow`) |
| `SpaceIsReachable` (`MemoryProof`) | `SpaceAskedIsReachable` of `AddrSpace` | a page has at least one byte | rounding a start down and an end up keeps what is between |
| `TLBIsASet` (`MemoryProof`) | `TLBImplements`: `TLB` implements `TLBSpec` | at least one slot | every page has at most one slot and the list leads to slots only, so writing a slot loses at most the page it had |
| `StopServesSleepers` (`KernelProof`) | `StopSleepersAreServed` of `Halt` | `NULL` is no thread and no semaphore | until a panic has begun or the power is off nobody is dropped, and of every thread `Calm` holds: one that is past `P(lh_clear)` has the disk, which works for it or has finished, and one that has the disk is there or has panicked there. The property alone does not say where an owner is, and so not that it will not sleep on `lh_clear` |
| `TrapsSplStaysTrue` (`KernelProof`) | `TrapsSplIsTrue` of `Trap` | the boot thread is a thread | for every kernel stack, what each frame will restore is what was true below it: the invariant is about pairs of neighbouring frames, and the top frame about the processor |
| `PortInputExact`, `PortClearToWrite`, `PortRightToSend` (`DeviceProof`) | `PortInputIsExact`, `ClearToWrite`, `RightToSend` of `Console` | the boot thread is a thread, `NULL` is no state of polled output | what was typed is what was read, the character a reader is about to take, and the one in the register, in this order (`InputSplit`); `cs_wsem`, a writer or the busy port has the right to send (`OneSender`) |
| `DiskDataIsOwn`, `DiskReturned`, `DiskCompletionsMatch` (`DeviceProof`) | `DiskOwnData`, `DiskIsNotLost`, `NoStrayCompletion` of `Lhd` | offsets are integers, lengths are bounded | `lh_clear` is up or one thread is inside `lhd_io()`, and the registers, buffer and result are its own at each point there |
| `BitmapIsExact`, `BitmapOnlyItsOwn` (`DataProof`) | `BitmapBitsAreExact`, `BitmapOnlyItsBits` of `Bitmap` | words have bits | a bit is where division and remainder say; the bits behind the end stay set |
| `TableNeverDangles`, `TableNumbersStaySound` (`DataProof`) | `TableNoDangling`, `TableNumbersAreSound` of `FileTable` | at least three descriptors | `Sound`, kept by each removal of the loop of `ft_destroy()` |
| `VfsCountsStayExact` (`VfsProof`) | `VfsCountsAreExact` of `VFS` | `VfsAssumption`: finitely many threads, attached file systems are file systems | below |

For `VFS` every function is shown to leave the counts exact up to the references its
caller has in hand: `Exact(s, h)` says that the counts of state `s` are the holders of
each vnode, the reference a failed `VOP_RECLAIM` has left on it, and `h` of it besides. An operation that returns a vnode adds it to `h`, one
that drops it takes it away, an error path must end with the `h` it began with, and at
the end of a system call `h` is nothing.

Where a recursive function is involved (the table of devices at boot, the loop of
`ft_destroy()`, the search for a bit), that it exists and what it computes is proved by
taking the least number for which it fails (`SmallestNat`).

Model-checked only: liveness, for which the prover has no rules; `Printf`, which is written with recursive operators, which the prover does not take;
`SFSFile`, `SFSDir`, `SFSBlocks`, `Mksfs`, `KHeap`,
`VM`, `DumbVM`, `ThreadSpace`, `Clock`, `LameBus`, `Emu`, `DevNode`, `RunProgram`,
`Process`, `Menu`, `Stoplight`, `CatMouse` and the tests, for which no proof is written.

## Not modelled

* User programs and the rest of libc: sequential, outside the kernel, most of them
  tests of system calls this kernel does not have.
* `lnet.c` (an empty skeleton), what `ltrace` and `beep` write (one register each); the screen and
  `kgets()`, which have one user and a cursor; the elements of `lib/array.c`.
* The sequential tests of `test/`, which walk one path of `RunQueue`, `Bitmap` and
  `KHeap` or of arrays; the skeletons of the synchronisation problems; `synch_v0.c`, which is
  not built; string and byte order routines, which have no state.
* `sys___fork()` and `sys___waitpid()`: not built, and written for a list of children that
  `thread.h` does not have. `as_copy()`, reached only from the former; the menu thread's sleep
  in `stoplight_v3.c`; the statistics of the heap.
* SFS with two callers. Its locks are the empty ones, so every statement would be a
  step; with one caller an operation is a step, and what two do to each other is not
  described. For the same reason the machine does not stop between two transfers of an
  SFS operation; a transfer that fails there is modelled.
* A file table after `ft_attachstds()` failed, and swap space with two threads short of
  frames, where the kernel stops first (`vm_two`).
* The registers in a context switch, which are saved as a whole.
