-------------------------------- MODULE KHeap --------------------------------
(***************************************************************************)
(* kmalloc() and kfree(): kern/lib/kheap.c, and ram_stealmem() from        *)
(* kern/arch/mips/mips/ram.c for what is allocated before the VM system.   *)
(*                                                                         *)
(* Interrupts are off in the subpage allocator, but alloc_kpages() may     *)
(* write a page to swap space and sleep, and then other threads use the    *)
(* heap: subpage_kmalloc() is two steps when it needs a page.              *)
(*                                                                         *)
(* Addresses are numbers, mem holds the first word of every block: the     *)
(* next one of the page's free list, NULL at its end, or what the owner    *)
(* of the block wrote there.                                               *)
(***************************************************************************)
EXTENDS Integers, Sequences, FiniteSets, FiniteSetsExt, SequencesExt

CONSTANTS
  Thread, NULL, DATA,
  PAGE_SIZE, sizes,   \* a sequence of block sizes; the last is LARGEST_SUBPAGE_SIZE
  NPAGES,             \* pages of memory
  NPAGEREFS,
  Requests,           \* the sizes that are asked for
  MaxHeld, MaxStolen  \* bounds: allocations at a time, and before the VM system

VARIABLES
  firstpaddr, lastpaddr, first_vm_addr,   \* in pages; lastpaddr = 0 once the VM system is set up
  kpages,       \* what alloc_kpages() has given out: sets of pages
  pagerefs_inuse, pageref, sizebases, allbase,
  mem,
  held,         \* what the callers have: [addr, sz]
  at,           \* per thread: the subpage_kmalloc() that waits for a page, or NULL
  panic

vars == <<firstpaddr, lastpaddr, first_vm_addr, kpages, pagerefs_inuse, pageref, sizebases,
          allbase, mem, held, at, panic>>
ram == <<firstpaddr, lastpaddr, first_vm_addr>>
lists == <<pageref, sizebases, allbase>>

NSIZES == Len(sizes)
LARGEST_SUBPAGE_SIZE == sizes[NSIZES]
INVALID_OFFSET == PAGE_SIZE
BlocksOf(type) == PAGE_SIZE \div sizes[type]
PageOf(addr) == addr \div PAGE_SIZE
is_vm_setup == lastpaddr = 0
was_vm_alloced(addr) == PageOf(addr) >= first_vm_addr

Init ==
  /\ firstpaddr = 0 /\ lastpaddr = NPAGES /\ first_vm_addr = NPAGES    \* ram_bootstrap()
  /\ kpages = {} /\ pagerefs_inuse = {}
  /\ pageref = [r \in 0..(NPAGEREFS - 1) |-> NULL]
  /\ sizebases = [k \in 1..NSIZES |-> <<>>] /\ allbase = <<>>
  /\ mem = [a \in 0..(NPAGES * PAGE_SIZE - 1) |-> DATA]
  /\ held = {} /\ at = [t \in Thread |-> NULL] /\ panic = FALSE

----------------------------------------------------------------------------
(* Before the VM system *)

\* kmalloc() before the VM system is set up: ram_stealmem() gives whole pages.
ram_stealmem(sz) ==
  LET npages == (sz + PAGE_SIZE - 1) \div PAGE_SIZE
  IN  /\ ~is_vm_setup /\ firstpaddr < MaxStolen
      /\ IF firstpaddr + npages > lastpaddr
         THEN panic' = TRUE /\ UNCHANGED <<firstpaddr, held>>
         ELSE /\ held' = held \cup {[addr |-> firstpaddr * PAGE_SIZE, sz |-> sz]}
              /\ firstpaddr' = firstpaddr + npages
              /\ UNCHANGED panic
      /\ UNCHANGED <<lastpaddr, first_vm_addr, kpages, pagerefs_inuse, lists, mem, at>>

ram_getsize ==
  /\ ~is_vm_setup
  /\ first_vm_addr' = firstpaddr /\ firstpaddr' = 0 /\ lastpaddr' = 0
  /\ UNCHANGED <<kpages, pagerefs_inuse, lists, mem, held, at, panic>>

\* The VM system's pages: the lowest run of them that is free, if there is one.
alloc_kpages(npages) ==
  LET bases == {f \in first_vm_addr..(NPAGES - npages) :
                  \A ps \in kpages : ps \cap (f..(f + npages - 1)) = {}}
  IN  {f..(f + npages - 1) : f \in {g \in bases : g = Min(bases)}}
free_kpages(addr) == {ps \in kpages : PageOf(addr) # Min(ps)}

----------------------------------------------------------------------------
(* kmalloc() *)

blocktype(sz) == Min({k \in 1..NSIZES : sz <= sizes[k]})

remove_lists(r) ==
  /\ sizebases' = [sizebases EXCEPT ![pageref[r].type] = SelectSeq(@, LAMBDA q : q # r)]
  /\ allbase' = SelectSeq(allbase, LAMBDA q : q # r)

\* doalloc: the first block of r's free list goes to the caller, who writes
\* to it.  prs and m are the page references and the memory.
doalloc(r, sz, prs, m) ==
  LET pr == prs[r]
      addr == pr.page * PAGE_SIZE + pr.freelist_offset
      next == m[addr]
  IN  /\ panic' = (pr.freelist_offset >= PAGE_SIZE \/ (next = NULL) # (pr.nfree = 1))
      /\ pageref' =
           [prs EXCEPT ![r].nfree = @ - 1,
                       ![r].freelist_offset =
                          IF next = NULL THEN INVALID_OFFSET ELSE next - pr.page * PAGE_SIZE]
      /\ mem' = [m EXCEPT ![addr] = DATA]
      /\ held' = held \cup {[addr |-> addr, sz |-> sz]}

Room == is_vm_setup /\ Cardinality(held) + Cardinality({u \in Thread : at[u] # NULL}) < MaxHeld

\* subpage_kmalloc(), if a page of the right size has a free block.
Subpage(t, sz) ==
  LET type == blocktype(sz)
      i == CHOOSE j \in 1..Len(sizebases[type]) :
             /\ pageref[sizebases[type][j]].nfree > 0
             /\ \A k \in 1..(j - 1) : pageref[sizebases[type][k]].nfree = 0
  IN  /\ Room /\ at[t] = NULL /\ sz < LARGEST_SUBPAGE_SIZE
      /\ \E r \in Range(sizebases[type]) : pageref[r].nfree > 0
      /\ doalloc(sizebases[type][i], sz, pageref, mem)
      /\ UNCHANGED <<ram, kpages, pagerefs_inuse, sizebases, allbase, at>>

\* If none has: allocpageref(), up to alloc_kpages().  Without a reference,
\* NULL is returned.
allocpageref(t, sz) ==
  LET type == blocktype(sz)
      unused == (0..(NPAGEREFS - 1)) \ pagerefs_inuse
  IN  /\ Room /\ at[t] = NULL /\ sz < LARGEST_SUBPAGE_SIZE
      /\ \A r \in Range(sizebases[type]) : pageref[r].nfree = 0
      /\ unused # {}
      /\ pagerefs_inuse' = pagerefs_inuse \cup {Min(unused)}
      /\ at' = [at EXCEPT ![t] = [sz |-> sz, type |-> type, ref |-> Min(unused)]]
      /\ UNCHANGED <<ram, kpages, lists, mem, held, panic>>

\* The page is there: its free list is built from the first block to the
\* last, and the last block is taken.
NewPage(t) ==
  LET r == at[t].ref  type == at[t].type  size == sizes[type]
  IN  /\ at[t] # NULL
      /\ \E ps \in alloc_kpages(1) :
           LET base == Min(ps) * PAGE_SIZE
           IN  /\ kpages' = kpages \cup {ps}
               /\ doalloc(r, at[t].sz,
                    [pageref EXCEPT ![r] = [page |-> Min(ps), type |-> type,
                       nfree |-> BlocksOf(type), freelist_offset |-> PAGE_SIZE - size]],
                    [a \in DOMAIN mem |->
                       IF a \notin base..(base + PAGE_SIZE - 1) \/ (a - base) % size # 0 THEN mem[a]
                       ELSE IF a = base THEN NULL ELSE a - size])
      /\ sizebases' = [sizebases EXCEPT ![type] = <<r>> \o @]
      /\ allbase' = <<r>> \o allbase
      /\ at' = [at EXCEPT ![t] = NULL]
      /\ UNCHANGED <<ram, pagerefs_inuse>>

\* There is no page: freepageref(), and NULL is returned.
NoPage(t) ==
  /\ at[t] # NULL /\ alloc_kpages(1) = {}
  /\ pagerefs_inuse' = pagerefs_inuse \ {at[t].ref}
  /\ at' = [at EXCEPT ![t] = NULL]
  /\ UNCHANGED <<ram, kpages, lists, mem, held, panic>>

subpage_kmalloc(t) ==
  (\E sz \in Requests : Subpage(t, sz) \/ allocpageref(t, sz)) \/ NewPage(t) \/ NoPage(t)

\* kmalloc() of at least LARGEST_SUBPAGE_SIZE: whole pages.
Pages(t, sz) ==
  /\ Room /\ at[t] = NULL /\ sz >= LARGEST_SUBPAGE_SIZE
  /\ \E ps \in alloc_kpages((sz + PAGE_SIZE - 1) \div PAGE_SIZE) :
       /\ kpages' = kpages \cup {ps}
       /\ held' = held \cup {[addr |-> Min(ps) * PAGE_SIZE, sz |-> sz]}
  /\ UNCHANGED <<ram, pagerefs_inuse, lists, mem, at, panic>>

----------------------------------------------------------------------------
(* kfree() *)

bug_subpage_kfree(r, addr) ==           \* the rest of the free list is dropped
  LET pr == pageref[r]
  IN  /\ panic' = (pr.nfree >= BlocksOf(pr.type))
      /\ pageref' = [pageref EXCEPT ![r].nfree = @ + 1,
                                    ![r].freelist_offset = addr - pr.page * PAGE_SIZE]
      /\ mem' = [mem EXCEPT ![addr] = NULL]
      /\ UNCHANGED <<sizebases, allbase, kpages, pagerefs_inuse>>

\* subpage_kfree(), of a block of page reference r: it becomes the first of
\* the free list; a page that is all free goes back.
subpage_kfree(r, addr) ==
  LET pr == pageref[r]
      base == pr.page * PAGE_SIZE
      offset == addr - base
  IN  /\ panic' = (offset % sizes[pr.type] # 0 \/ pr.nfree >= BlocksOf(pr.type))
      /\ IF pr.nfree + 1 = BlocksOf(pr.type)
         THEN /\ remove_lists(r)
              /\ kpages' = free_kpages(base)
              /\ pagerefs_inuse' = pagerefs_inuse \ {r}
              /\ pageref' = [pageref EXCEPT ![r] = NULL]
              /\ mem' = [a \in DOMAIN mem |-> IF PageOf(a) = pr.page THEN DATA ELSE mem[a]]
         ELSE /\ pageref' = [pageref EXCEPT ![r].nfree = @ + 1, ![r].freelist_offset = offset]
              /\ mem' = [mem EXCEPT ![addr] = IF pr.freelist_offset = INVALID_OFFSET THEN NULL
                                             ELSE base + pr.freelist_offset]
              /\ UNCHANGED <<sizebases, allbase, kpages, pagerefs_inuse>>

\* kfree(): ignored if the memory is older than the VM system, subpage_kfree()
\* if its page is on the list, and whole pages otherwise.
kfree(t, x) ==
  LET on == {r \in Range(allbase) : pageref[r].page = PageOf(x.addr)}
  IN  /\ at[t] = NULL /\ x \in held
      /\ held' = held \ {x}
      /\ IF ~was_vm_alloced(x.addr)
         THEN UNCHANGED <<kpages, pagerefs_inuse, lists, mem, panic>>
         ELSE IF on # {} THEN subpage_kfree(CHOOSE r \in on : TRUE, x.addr)
         ELSE /\ panic' = (x.addr % PAGE_SIZE # 0)
              /\ kpages' = free_kpages(x.addr)
              /\ UNCHANGED <<pagerefs_inuse, lists, mem>>
      /\ UNCHANGED <<ram, at>>

Next ==
  /\ ~panic
  /\ \/ ram_getsize
     \/ \E sz \in Requests : ram_stealmem(sz)
     \/ \E t \in Thread :
          \/ subpage_kmalloc(t)
          \/ \E sz \in Requests : Pages(t, sz)
          \/ \E x \in held : kfree(t, x)

Spec == Init /\ [][Next]_vars

----------------------------------------------------------------------------
BytesOf(x) == x.addr..(x.addr + x.sz - 1)

\* No two allocations share a byte, whatever was freed and allocated while a
\* thread waited for a page, and each is inside memory that is the heap's.
Disjoint ==
  /\ \A x, y \in held : x # y => BytesOf(x) \cap BytesOf(y) = {}
  /\ \A x \in held : was_vm_alloced(x.addr) /\ is_vm_setup =>
       \E ps \in kpages : \A a \in BytesOf(x) : PageOf(a) \in ps

\* The blocks of r's page that nobody has.
FreeIn(r) ==
  {a \in {pageref[r].page * PAGE_SIZE + i * sizes[pageref[r].type] :
            i \in 0..(BlocksOf(pageref[r].type) - 1)} : \A x \in held : x.addr # a}

\* The free list of r's page, followed for n blocks, or to its end, or to
\* where it leaves the page.
FreeList(r, n) ==
  LET pr == pageref[r]
      base == pr.page * PAGE_SIZE
      blocks == base..(base + PAGE_SIZE - 1)
      list[k \in 0..n] == IF k = 0 THEN <<base + pr.freelist_offset>>
                          ELSE IF Last(list[k - 1]) \in blocks
                               THEN Append(list[k - 1], mem[Last(list[k - 1])]) ELSE list[k - 1]
  IN  list[n]

\* The assertions of checksubpage().
checksubpage(r) ==
  LET pr == pageref[r]
      list == FreeList(r, BlocksOf(pr.type))
  IN  \/ pr.freelist_offset = INVALID_OFFSET /\ pr.nfree = 0
      \/ /\ pr.freelist_offset < PAGE_SIZE
         /\ Len(list) = pr.nfree + 1 /\ Last(list) = NULL
         /\ \A k \in 1..pr.nfree : PageOf(list[k]) = pr.page /\ list[k] % sizes[pr.type] = 0

\* checksubpages(), of all pages on the lists.
checksubpages ==
  /\ \A k \in 1..NSIZES : \A r \in Range(sizebases[k]) : checksubpage(r)
  /\ \A r \in Range(allbase) : checksubpage(r)
  /\ FoldSeq(LAMBDA q, n : n + Len(q), 0, sizebases) = Len(allbase)

\* What the assertions of checksubpages() say when they are compiled in holds
\* after every call, and the blocks on the free list of a page are exactly the
\* ones that nobody has.
FreeListsAreExact ==
  /\ checksubpages
  /\ \A r \in Range(allbase) :
       LET free == FreeIn(r)
       IN  /\ Cardinality(free) = pageref[r].nfree
           /\ free # {} => Range(FreeList(r, BlocksOf(pageref[r].type))) = free \cup {NULL}

\* Nothing leaks: a page that the heap has holds a block that somebody has,
\* and a page reference that is in use has a page or is waiting for one.
NothingLeaks ==
  /\ \A ps \in kpages : \E x \in held : PageOf(x.addr) \in ps
  /\ pagerefs_inuse = Range(allbase) \cup {at[t].ref : t \in {u \in Thread : at[u] # NULL}}
  /\ \A k \in 1..NSIZES : Range(sizebases[k]) = {r \in Range(allbase) : pageref[r].type = k}

\* The panics and assertions of the allocator are reached by callers that
\* free what they have not; memory that runs out before the VM system is
\* set up is the other one.
NoPanic == panic => ~is_vm_setup
=============================================================================
