----------------------------- MODULE AddrSpace -----------------------------
(***************************************************************************)
(* The segments of one address space (kern/vm/addrspace.c): as_create(),   *)
(* as_define_region() for each loadable segment of a program,              *)
(* as_define_stack(), the look-ups a page fault makes, as_destroy().       *)
(* Addresses are bytes; a vaddr_t has 4 of them.                           *)
(***************************************************************************)
EXTENDS Integers, FiniteSets

CONSTANTS
  PAGE_SIZE, USERTOP,
  STACKPAGES,      \* DUMBVM_STACKPAGES
  Regions          \* <<vaddr, sz>> of segments program files may ask for

AS_NUM_SEG == 3
Stack == AS_NUM_SEG - 1

\* User space ends at a page, the stack fits in it, and programs are linked
\* into it.
ASSUME SpaceAssumption ==
  /\ PAGE_SIZE \in Nat \ {0} /\ STACKPAGES \in Nat /\ USERTOP \in Nat
  /\ USERTOP % PAGE_SIZE = 0 /\ STACKPAGES * PAGE_SIZE <= USERTOP
  /\ Regions \subseteq Nat \X Nat /\ \A r \in Regions : r[1] + r[2] <= USERTOP

VARIABLES
  segments,      \* active, vbase, size in pages, and whose page table pt is
  num_segments,
  asked,         \* the regions defined so far
  freed          \* whose page tables as_destroy() has freed

as_vars == <<segments, num_segments, asked, freed>>

NoSegment == [active |-> FALSE, vbase |-> 0, size |-> 0, pt |-> "none"]

\* What the memory of the last segment may hold: nothing, or what an earlier
\* address space left in it.
Leftover ==
  {NoSegment, [active |-> TRUE, vbase |-> USERTOP - STACKPAGES * PAGE_SIZE,
          size |-> STACKPAGES, pt |-> "not its own"]}

\* as_create() clears all segments but the last.
AsInit ==
  /\ \E s \in Leftover : segments = [i \in 0..Stack |-> IF i = Stack THEN s ELSE NoSegment]
  /\ num_segments = 0
  /\ asked = {} /\ freed = {}

PageOf(addr) == (addr \div PAGE_SIZE) * PAGE_SIZE

bug_RegionPages(vaddr, sz) == (sz + PAGE_SIZE - 1) \div PAGE_SIZE

\* Pages a region has, from the one its first byte is in.
RegionPages(vaddr, sz) == (sz + (vaddr - PageOf(vaddr)) + PAGE_SIZE - 1) \div PAGE_SIZE

\* as_define_region(); with all segments used it returns EUNIMP.
as_define_region(vaddr, sz) ==
  /\ freed = {} /\ num_segments < AS_NUM_SEG - 1
  /\ segments' = [segments EXCEPT ![num_segments] =
                    [active |-> TRUE, vbase |-> PageOf(vaddr),
                     size |-> RegionPages(vaddr, sz), pt |-> "its own"]]
  /\ num_segments' = num_segments + 1
  /\ asked' = asked \cup {<<vaddr, sz>>}
  /\ UNCHANGED freed

as_define_stack ==
  /\ freed = {} /\ num_segments > 0
  /\ segments' = [segments EXCEPT ![Stack] =
                    [active |-> TRUE, vbase |-> USERTOP - STACKPAGES * PAGE_SIZE,
                     size |-> STACKPAGES, pt |-> "its own"]]
  /\ asked' = asked \cup {<<USERTOP - STACKPAGES * PAGE_SIZE, STACKPAGES * PAGE_SIZE>>}
  /\ UNCHANGED <<num_segments, freed>>

\* as_destroy(), when the program ends or could not be loaded.
as_destroy_segments ==
  /\ freed = {}
  /\ freed' = {segments[i].pt : i \in {j \in 0..Stack : segments[j].active}} \cup {"none"}
  /\ UNCHANGED <<segments, num_segments, asked>>

AsNext ==
  \/ \E r \in Regions : as_define_region(r[1], r[2])
  \/ as_define_stack
  \/ as_destroy_segments

AsSpec == AsInit /\ [][AsNext]_as_vars

\* as_get_segment(): the segments v is in; the code takes the first.
as_get_segment(v) ==
  {i \in 0..Stack : /\ segments[i].active
                    /\ v >= segments[i].vbase
                    /\ v < segments[i].vbase + segments[i].size * PAGE_SIZE}

\* as_valid_read_addr() and as_valid_write_addr(): the bound is added to a
\* pointer to vaddr_t.
as_valid_read_addr(addr) ==
  /\ addr < USERTOP
  /\ \E i \in 0..Stack :
       /\ segments[i].active
       /\ addr >= segments[i].vbase
       /\ addr < segments[i].vbase + 4 * (PAGE_SIZE * segments[i].size)

----------------------------------------------------------------------------
(* Properties *)

\* Every byte a program file or the stack asked for can be paged in: a fault
\* on it is accepted and finds a segment, whatever the alignment of the region
\* and whatever the other segments are.
SpaceAskedIsReachable ==
  \A r \in asked : \A b \in r[1]..(r[1] + r[2] - 1) :
    as_valid_read_addr(PageOf(b)) /\ as_get_segment(PageOf(b)) # {}

\* vm_fault() asserts at addrspace.c:90 that an address it has accepted is in a
\* segment.
AcceptedHasSegment ==
  \A b \in 0..(USERTOP - 1) :
    as_valid_read_addr(PageOf(b)) => as_get_segment(PageOf(b)) # {}

\* as_destroy() frees page tables of this address space only.  as_create()
\* makes "a new empty address space" (addrspace.h), so there is no other.
FreesItsOwn == "not its own" \notin freed
============================================================================
