------------------------------ MODULE MCMemory ------------------------------
(***************************************************************************)
(* One run for virtual memory, the kernel heap and the lists of kern/lib.  *)
(*                                                                         *)
(* A behaviour is one of the specification that subject names; the state   *)
(* spaces of the specifications add up and do not multiply.  VM is checked *)
(* under the constants of the configuration ("pressure": more pages than   *)
(* frames), and in two more instances of it ("serial": programs one after  *)
(* the other; "plenty": two threads and more frames than pages).  The      *)
(* address space, the TLB and the run queue have their own variables and   *)
(* stay in an initial state while another specification is the subject;    *)
(* each other specification has as many of x1, x2, ... for its variables   *)
(* as it needs, and those that a subject has no use for stay NULL.         *)
(***************************************************************************)
EXTENDS VM, AddrSpace, TLB, RunQueue, TLC

CONSTANTS t0, t1, t2, boot, f1, f2, f3, a1, a2, s1, LBOLT, JUNK, DATA

const_OneThread == {t0}
const_TwoThreads == {t1, t2}
const_AS == {a1, a2}
const_Data == {1, 2}
const_Regions == (0..7) \X (1..6)

VARIABLES subject, x1, x2, x3, x4, x5, x6, x7, x8, x9, x10, x11, x12, x13, x14, x15

shared == <<x1, x2, x3, x4, x5, x6, x7, x8, x9, x10, x11, x12, x13, x14, x15>>
libs == <<as_vars, tlb_vars, ring_vars>>
allvars == <<subject, vars, libs, shared>>

Serial ==
  INSTANCE VM WITH NPage <- 2, Writeable <- {1}, NFrame <- 2, MaxPrograms <- 3
Plenty ==
  INSTANCE VM WITH Thread <- const_TwoThreads, NPage <- 2, Writeable <- {1},
    NFrame <- 5, NSlot <- 1, MaxPrograms <- 2
Lists ==
  INSTANCE ThreadSpace WITH Thread <- {boot, f1, f2, f3}, Boot <- boot, Sem <- {s1},
    InitCounts <- {0}, HZ <- 1, MaxCount <- 1, MaxSecs <- 1,
    QueueSlots <- 2, KeepMax <- 2,
    curthread <- x1, runqueue <- x2, sleepers <- x3, zombies <- x4, numthreads <- x5,
    t_sleepaddr <- x6, pc <- x7, num_secs <- x8, count <- x9, lbolt_counter <- x10,
    waking <- x11, q_size <- x12, sl_max <- x13, zo_max <- x14, failed <- x15
Heap ==
  INSTANCE KHeap WITH Thread <- {t1, t2}, PAGE_SIZE <- 8, sizes <- <<2, 4>>, NPAGES <- 3,
    NPAGEREFS <- 2, Requests <- {1, 3, 9}, MaxHeld <- 4, MaxStolen <- 1,
    firstpaddr <- x1, lastpaddr <- x2, first_vm_addr <- x3, kpages <- x4,
    pagerefs_inuse <- x5, pageref <- x6, sizebases <- x7, allbase <- x8, mem <- x9,
    held <- x10, at <- x11, panic <- x12
Segment(vaddr, sz) == [vaddr |-> vaddr, sz |-> sz]
Dumb ==
  INSTANCE DumbVM WITH As <- {a1, a2}, PAGE_SIZE <- 4, USERSTACK <- 24,
    Programs <- {<<Segment(4, 3), Segment(9, 4)>>, <<Segment(6, 3), Segment(12, 1)>>},
    DUMBVM_STACKPAGES <- 1, NUM_TLB <- 2, NFRAMES <- 8, Value <- {1}, MaxWrites <- 2,
    firstfree <- x1, space <- x2, cur <- x3, tlb <- x4, mem <- x5, image <- x6,
    writes <- x7, refused <- x8

VMIdle ==
  /\ curthread = NULL /\ t_vmspace = NULL /\ last_addrspace = NULL /\ program = NULL
  /\ stored = NULL /\ page = NULL /\ kern = NULL /\ free = NULL /\ pd = NULL
  /\ free_frame_list = NULL /\ clock_pointer = NULL /\ next = NULL /\ freePages = NULL
  /\ disk = NULL /\ mem = NULL /\ tlb = NULL /\ at = NULL /\ kallocs = NULL /\ panic = NULL

From13 == x13 = NULL /\ x14 = NULL /\ x15 = NULL
From9 == x9 = NULL /\ x10 = NULL /\ x11 = NULL /\ x12 = NULL /\ From13
From1 ==
  /\ x1 = NULL /\ x2 = NULL /\ x3 = NULL /\ x4 = NULL /\ x5 = NULL /\ x6 = NULL /\ x7 = NULL
  /\ x8 = NULL /\ From9

AsIdle == AsInit /\ segments[Stack] = NoSegment
RingIdle == q_create /\ size = 1
LibsIdle == AsIdle /\ TlbInit /\ RingIdle

MCInit ==
  \/ /\ LibsIdle /\ From1
     /\ \/ subject = "pressure" /\ Init
        \/ subject = "serial" /\ Serial!Init
        \/ subject = "plenty" /\ Plenty!Init
  \/ /\ VMIdle /\ From1 /\ TlbInit
     /\ \/ subject = "tlb" /\ AsIdle /\ RingIdle
        \/ subject = "space" /\ AsInit /\ RingIdle
        \/ subject = "ring" /\ q_create /\ AsIdle
  \/ /\ VMIdle /\ LibsIdle
     /\ \/ subject = "lists" /\ Lists!SpaceInit
        \/ subject = "heap" /\ Heap!Init /\ From13
        \/ subject = "dumb" /\ Dumb!Init /\ From9

still13 == <<x13, x14, x15>>
still9 == <<x9, x10, x11, x12, still13>>

MCNext ==
  \/ subject = "pressure" /\ Next /\ UNCHANGED <<subject, libs, shared>>
  \/ subject = "serial" /\ Serial!Next /\ UNCHANGED <<subject, libs, shared>>
  \/ subject = "plenty" /\ Plenty!Next /\ UNCHANGED <<subject, libs, shared>>
  \/ subject = "tlb" /\ TlbNext /\ UNCHANGED <<subject, vars, as_vars, ring_vars, shared>>
  \/ subject = "space" /\ AsNext /\ UNCHANGED <<subject, vars, tlb_vars, ring_vars, shared>>
  \/ subject = "ring" /\ RingNext /\ UNCHANGED <<subject, vars, as_vars, tlb_vars, shared>>
  \/ subject = "lists" /\ Lists!SpaceNext /\ UNCHANGED <<subject, vars, libs>>
  \/ subject = "heap" /\ Heap!Next /\ UNCHANGED <<subject, vars, libs, still13>>
  \/ subject = "dumb" /\ Dumb!Next /\ UNCHANGED <<subject, vars, libs, still9>>

MCSpec == MCInit /\ [][MCNext]_allvars

\* Sound because the initial states and the steps name none of these values
\* but through the sets they are in.
Symmetry ==
  Permutations({a1, a2}) \cup Permutations({t1, t2}) \cup Permutations({f1, f2, f3})

----------------------------------------------------------------------------
\* The properties of VM.tla, of whichever instance the behaviour is one.
\* A program sees its own data.
VMSeesOwnData ==
  /\ subject = "pressure" => SeesOwnData
  /\ subject = "serial" => Serial!SeesOwnData
  /\ subject = "plenty" => Plenty!SeesOwnData

\* Every frame, and every page of swap space, is in exactly one place: none
\* leaks and none is handed out twice.
VMAccounted ==
  /\ subject = "pressure" => FramesAccounted /\ SwapAccounted
  /\ subject = "serial" => Serial!FramesAccounted /\ Serial!SwapAccounted
  /\ subject = "plenty" => Plenty!FramesAccounted

\* The kernel stops only when memory or swap space is used up.
VMStopsOnlyWhenFull ==
  /\ subject = "pressure" => StopsOnlyWhenFull
  /\ subject = "serial" => Serial!StopsOnlyWhenFull

\* What thread_fork() preallocates is enough for every thread to sleep:
\* ThreadSpace.tla.
ListsRoomForSleepers == subject = "lists" => Lists!RoomForSleepers

\* And gives the run queue a slot per thread: ThreadSpace.tla.
ListsSlotForEveryThread == subject = "lists" => Lists!SlotForEveryThread

\* kmalloc() gives no byte to two: KHeap.tla.
HeapDisjoint == subject = "heap" => Heap!Disjoint

\* The free lists of the heap's pages hold what is free of them: KHeap.tla.
HeapFreeListsAreExact == subject = "heap" => Heap!FreeListsAreExact

\* What is freed can be allocated again: KHeap.tla.
HeapNothingLeaks == subject = "heap" => Heap!NothingLeaks

\* kmalloc() and kfree() find nothing wrong with their structures: KHeap.tla.
HeapNoPanic == subject = "heap" => Heap!NoPanic

\* The pages of a process keep their data, with dumbvm: DumbVM.tla.
DumbPagesKeepTheirData == subject = "dumb" => Dumb!PagesKeepTheirData

\* The pages of a segment hold all of it, with dumbvm: DumbVM.tla.
DumbNoByteLeftOut == subject = "dumb" => Dumb!NoByteLeftOut

\* No frame has two owners, with dumbvm: DumbVM.tla.
DumbFramesAreOwn == subject = "dumb" => Dumb!FramesAreOwn
=============================================================================
