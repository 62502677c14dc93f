-------------------------------- MODULE DumbVM --------------------------------
(***************************************************************************)
(* The virtual memory system of the kernels ASST0 to ASST2                 *)
(* (kern/arch/mips/mips/dumbvm.c): an address space is two regions and a   *)
(* stack, each in consecutive frames that are stolen from RAM once and     *)
(* never given back; a fault puts a translation into a free TLB entry, and *)
(* as_activate() empties the TLB.                                          *)
(*                                                                         *)
(* Addresses are numbers of bytes, frames numbers of pages; 0 is no frame. *)
(***************************************************************************)
EXTENDS Integers, Sequences, FiniteSets

CONSTANTS
  As,            \* address spaces
  Programs,      \* what load_elf() may define: pairs of [vaddr, sz]
  PAGE_SIZE,
  USERSTACK,     \* the address above the stack
  DUMBVM_STACKPAGES,
  NUM_TLB,
  NFRAMES,       \* frames of RAM that are free at boot, 1 to NFRAMES
  Value, NULL,
  MaxWrites      \* bound: stores of programs

VARIABLES
  firstfree,     \* the next frame ram_stealmem() gives
  space,         \* per address space: its record, or NULL
  cur,           \* the one that is active, or NULL
  tlb,           \* per entry: [v, p], a page and its frame, or NULL
  mem,           \* what the frames hold
  image,         \* per address space: what its pages should hold
  writes,
  refused        \* a fault on an address of the current program was refused

vars == <<firstfree, space, cur, tlb, mem, image, writes, refused>>

Page(a) == a \div PAGE_SIZE                    \* of the address a & PAGE_FRAME
NoRegion == [vbase |-> 0, npages |-> 0, pbase |-> 0]
as_create == [r1 |-> NoRegion, r2 |-> NoRegion, stackpbase |-> 0]

Init ==
  /\ firstfree = 1 /\ space = [a \in As |-> NULL] /\ cur = NULL
  /\ tlb = [i \in 1..NUM_TLB |-> NULL] /\ mem = [p \in 1..NFRAMES |-> 0]
  /\ image = [a \in As |-> <<>>] /\ writes = 0 /\ refused = FALSE

----------------------------------------------------------------------------
(* Building an address space *)

\* as_define_region(); a third region is refused (EUNIMP).
as_define_region(as, vaddr, sz) ==
  LET r == [vbase |-> Page(vaddr), pbase |-> 0,
            npages |-> (sz + (vaddr % PAGE_SIZE) + PAGE_SIZE - 1) \div PAGE_SIZE]
  IN CASE as.r1.vbase = 0 -> [as EXCEPT !.r1 = r]
       [] as.r1.vbase # 0 /\ as.r2.vbase = 0 -> [as EXCEPT !.r2 = r]

\* getppages(): ram_stealmem() gives the next frames if there are enough.
getppages(next, npages) ==
  IF next + npages - 1 <= NFRAMES THEN [addr |-> next, next |-> next + npages]
  ELSE [addr |-> 0, next |-> next]

\* as_prepare_load(): what was taken before a failure stays taken.  The
\* caller then destroys the address space.
as_prepare_load(as) ==
  LET g1 == getppages(firstfree, as.r1.npages)
      g2 == getppages(g1.next, as.r2.npages)
      g3 == getppages(g2.next, DUMBVM_STACKPAGES)
      full == [as EXCEPT !.r1.pbase = g1.addr, !.r2.pbase = g2.addr, !.stackpbase = g3.addr]
  IN CASE g1.addr = 0 -> [as |-> NULL, next |-> g1.next]
       [] g1.addr # 0 /\ g2.addr = 0 -> [as |-> NULL, next |-> g2.next]
       [] g1.addr # 0 /\ g2.addr # 0 ->
            [as |-> IF g3.addr = 0 THEN NULL ELSE full, next |-> g3.next]

StackBase == Page(USERSTACK) - DUMBVM_STACKPAGES

\* The part of vm_fault() that finds the frame of a page, 0 if there is none.
Translate(as, v) ==
  CASE v \in as.r1.vbase..(as.r1.vbase + as.r1.npages - 1) -> (v - as.r1.vbase) + as.r1.pbase
    [] v \notin as.r1.vbase..(as.r1.vbase + as.r1.npages - 1)
       /\ v \in as.r2.vbase..(as.r2.vbase + as.r2.npages - 1) -> (v - as.r2.vbase) + as.r2.pbase
    [] OTHER -> IF v \in StackBase..(Page(USERSTACK) - 1)
                THEN (v - StackBase) + as.stackpbase ELSE 0

\* The pages a program may use: those with a byte of its segments, and the
\* stack.
PagesOf(prog) ==
  UNION {{Page(b) : b \in s.vaddr..(s.vaddr + s.sz - 1)} : s \in {prog[i] : i \in 1..2}}
  \cup StackBase..(Page(USERSTACK) - 1)

\* load_elf() of a program into a new address space; what it loads is not
\* told apart from what the frames held.
Load(a, prog) ==
  LET as == as_define_region(as_define_region(as_create, prog[1].vaddr, prog[1].sz),
                             prog[2].vaddr, prog[2].sz)
      r == as_prepare_load(as)
  IN /\ space[a] = NULL
     /\ firstfree' = r.next /\ space' = [space EXCEPT ![a] = r.as]
     /\ image' = [image EXCEPT ![a] = IF r.as = NULL THEN <<>>
                                      ELSE [v \in PagesOf(prog) |-> 0]]
     /\ mem' = IF r.as = NULL THEN mem
               ELSE [p \in DOMAIN mem |-> IF p \in firstfree..(r.next - 1) THEN 0 ELSE mem[p]]
     /\ UNCHANGED <<cur, tlb, writes, refused>>

\* memmove() of n frames.
Moved(m, from, to, n) ==
  [p \in DOMAIN m |-> IF p \in to..(to + n - 1) THEN m[p - to + from] ELSE m[p]]

bug_Copied(old, new) ==         \* the stack is not copied
  Moved(Moved(mem, old.r1.pbase, new.r1.pbase, old.r1.npages),
        old.r2.pbase, new.r2.pbase, old.r2.npages)

Copied(old, new) ==
  Moved(Moved(Moved(mem, old.r1.pbase, new.r1.pbase, old.r1.npages),
              old.r2.pbase, new.r2.pbase, old.r2.npages),
        old.stackpbase, new.stackpbase, DUMBVM_STACKPAGES)

\* as_copy().
as_copy(a, b) ==
  /\ space[a] # NULL /\ space[b] = NULL
  /\ LET old == space[a]
         r == as_prepare_load([old EXCEPT !.r1.pbase = 0, !.r2.pbase = 0, !.stackpbase = 0])
     IN /\ firstfree' = r.next /\ space' = [space EXCEPT ![b] = r.as]
        /\ image' = [image EXCEPT ![b] = IF r.as = NULL THEN <<>> ELSE image[a]]
        /\ mem' = IF r.as = NULL THEN mem ELSE Copied(old, r.as)
  /\ UNCHANGED <<cur, tlb, writes, refused>>

\* as_destroy(), of an address space nobody runs in.
as_destroy(a) ==
  /\ space[a] # NULL /\ a # cur
  /\ space' = [space EXCEPT ![a] = NULL] /\ image' = [image EXCEPT ![a] = <<>>]
  /\ UNCHANGED <<firstfree, cur, tlb, mem, writes, refused>>

----------------------------------------------------------------------------
(* Running in one *)

\* A switch to a thread of the address space, and as_activate().
as_activate(a) ==
  /\ space[a] # NULL
  /\ cur' = a /\ tlb' = [i \in 1..NUM_TLB |-> NULL]
  /\ UNCHANGED <<firstfree, space, mem, image, writes, refused>>

Entries(v) == {i \in 1..NUM_TLB : tlb[i] # NULL /\ tlb[i].v = v}
Free == {i \in 1..NUM_TLB : tlb[i] = NULL}
First(S) == CHOOSE i \in S : \A j \in S : i <= j

\* vm_fault(): the first entry that is not valid takes the translation; when
\* there is none, or no region has the page, the fault is refused.
vm_fault(v) ==
  /\ Entries(v) = {}
  /\ LET p == Translate(space[cur], v)
     IN IF p # 0 /\ Free # {}
        THEN tlb' = [tlb EXCEPT ![First(Free)] = [v |-> v, p |-> p]] /\ UNCHANGED refused
        ELSE refused' = (refused \/ (p = 0 /\ v \in DOMAIN image[cur])) /\ UNCHANGED tlb
  /\ UNCHANGED <<firstfree, space, cur, mem, image, writes>>

\* The program writes to a page that has an entry: all are read-write.
Store(v, val) ==
  /\ writes < MaxWrites /\ writes' = writes + 1
  /\ \E i \in Entries(v) : mem' = [mem EXCEPT ![tlb[i].p] = val]
  /\ image' = [image EXCEPT ![cur][v] = val]
  /\ UNCHANGED <<firstfree, space, cur, tlb, refused>>

\* The kernel takes a frame for itself: alloc_kpages(), which is never given
\* back by free_kpages().
alloc_kpages ==
  /\ firstfree <= NFRAMES /\ firstfree' = firstfree + 1
  /\ mem' = [mem EXCEPT ![firstfree] = 0]
  /\ UNCHANGED <<space, cur, tlb, image, writes, refused>>

Next ==
  \/ \E a \in As :
       \/ \E prog \in Programs : Load(a, prog)
       \/ \E b \in As : as_copy(a, b)
       \/ as_destroy(a)
       \/ as_activate(a)
  \/ /\ cur # NULL
     /\ \E v \in DOMAIN image[cur] : vm_fault(v) \/ \E val \in Value : Store(v, val)
  \/ alloc_kpages

Spec == Init /\ [][Next]_vars

----------------------------------------------------------------------------
\* A program finds in every page what it last wrote there, or what its parent
\* had there when as_copy() was called: no frame is used for two pages, of
\* one address space or of two, and no translation outlives a switch.
PagesKeepTheirData ==
  /\ \A a \in As : space[a] # NULL =>
       \A v \in DOMAIN image[a] :
         Translate(space[a], v) # 0 => mem[Translate(space[a], v)] = image[a][v]
  /\ cur # NULL => \A i \in 1..NUM_TLB : tlb[i] # NULL => mem[tlb[i].p] = image[cur][tlb[i].v]

\* as_define_region() rounds a segment out to whole pages, so that every byte
\* of the program is in a region, also when segments begin in the middle of
\* a page: a fault on it finds a frame, if the TLB has room.
NoByteLeftOut == ~refused

\* Frames are given out at most once, to the regions of live address spaces.
FramesAreOwn ==
  LET Frames(r) == r.pbase..(r.pbase + r.npages - 1)
      Stack(as) == as.stackpbase..(as.stackpbase + DUMBVM_STACKPAGES - 1)
      Of(as) == Frames(as.r1) \cup Frames(as.r2) \cup Stack(as)
      live == {a \in As : space[a] # NULL}
  IN \A a \in live :
       /\ Of(space[a]) \subseteq 1..(firstfree - 1)
       /\ Cardinality(Of(space[a])) = space[a].r1.npages + space[a].r2.npages + DUMBVM_STACKPAGES
       /\ \A b \in live \ {a} : Of(space[a]) \cap Of(space[b]) = {}
=============================================================================
