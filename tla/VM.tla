--------------------------------- MODULE VM ---------------------------------
(***************************************************************************)
(* Virtual memory: the core map (kern/vm/coremap.c), page tables (pt.c),   *)
(* swap space (swapfile.c) and the address spaces and page faults of       *)
(* addrspace.c.  The TLB is the set of translations TLBSpec.tla promises;  *)
(* its slots are TLB.tla.                                                  *)
(*                                                                         *)
(* Several threads run programs on the one CPU.  A fault is handled with   *)
(* interrupts on but for short splhigh() sections, and sleeps in the disk  *)
(* transfers: one action is a section, or the stretch of code up to the    *)
(* next transfer or section, and mi_switch() may come between any two.     *)
(*                                                                         *)
(* Frames are numbered from lowest_frame.  The doubly linked list of free  *)
(* frames is a sequence.  Contents of frames and of swap pages are tagged  *)
(* with the program and page they belong to and with the parity of the     *)
(* number of stores, so that foreign and stale contents can be told apart. *)
(***************************************************************************)
EXTENDS Base, Integers, Sequences, FiniteSets, Functions

CONSTANTS
  AS,          \* blocks kmalloc() may return for a struct addrspace
  NPage,       \* pages of an address space
  Writeable,   \* the ones in writeable segments
  NFrame,      \* core_map.size - core_map.lowest_frame
  NSlot,       \* SWAP_PAGES
  NTLB,        \* NUM_TLB
  MaxPrograms, \* bound: programs started
  MaxKernel,   \* bound: pages in one alloc_kpages()
  MaxAllocs,   \* bound: kernel allocations outstanding
  Recycle      \* whether kmalloc() may return the block of last_addrspace

VPage == 0..(NPage - 1)
Frame == 0..(NFrame - 1)
Slot == 0..(NSlot - 1)

ASSUME VMAssumption ==
  /\ NPage \in Nat \ {0} /\ NFrame \in Nat \ {0} /\ NSlot \in Nat \ {0}
  /\ NTLB \in Nat \ {0} /\ Writeable \subseteq VPage /\ Recycle \in BOOLEAN
  /\ NULL \notin Thread \cup AS \cup Int \cup (AS \X VPage)

VARIABLES
  curthread,       \* the running thread
  t_vmspace,       \* per thread
  last_addrspace,
  program,         \* per address space: the number of the program in it
  stored,          \* per address space and page: parity of its stores
  page,            \* per address space and page: its struct page_detail
  kern, free, pd,  \* per frame: its struct cm_detail
  free_frame_list,
  clock_pointer,
  next, freePages, \* free swap pages: links and head
  mem, disk,       \* contents of frames and swap pages
  tlb,             \* translations of the current address space
  at,              \* per thread: where it is in the kernel, and its locals
  kallocs,         \* outstanding alloc_kpages()
  panic            \* why the kernel has stopped, or "no"

frames  == <<kern, free, pd, free_frame_list>>
swap    == <<next, freePages, disk>>
program_vars == <<t_vmspace, last_addrspace, program, stored>>
vars == <<curthread, program_vars, page, frames, clock_pointer, swap, mem, tlb,
          at, kallocs, panic>>

(***************************************************************************)
(* Where a thread is.  "user": in its program; the other names are those   *)
(* of the function it is in.  v: the page it faulted on, from: where the   *)
(* page comes from; frame: the frame being emptied; slot: the swap page    *)
(* being written; base, num: the frames asked for by alloc_kpages().       *)
(***************************************************************************)
User == [pc |-> "user", v |-> 0, from |-> "none", frame |-> 0, slot |-> 0,
         base |-> 0, num |-> 0]

\* The contents of page v of address space a if it is intact.
Contents(a, v) == <<program[a], v, stored[a][v]>>
Junk == <<0, 0, 0>>

NewPage == [pfn |-> -1, sfn |-> -1, valid |-> FALSE, use |-> FALSE]

Runs(t, pc) == panic = "no" /\ curthread = t /\ at[t].pc = pc

Init ==
  /\ curthread \in Thread
  /\ t_vmspace = [t \in Thread |-> NULL]
  /\ last_addrspace = NULL
  /\ program = [a \in AS |-> 0]
  /\ stored = [a \in AS |-> [v \in VPage |-> 0]]
  /\ page = [p \in AS \X VPage |-> NewPage]
  /\ kern = [f \in Frame |-> 0] /\ free = [f \in Frame |-> TRUE]
  /\ pd = [f \in Frame |-> NULL]
  /\ free_frame_list = [i \in 1..NFrame |-> NFrame - i]
  /\ clock_pointer = 0
  /\ next = [n \in Slot |-> IF n + 1 \in Slot THEN n + 1 ELSE NULL]
  /\ freePages = 0
  /\ mem = [f \in Frame |-> Junk] /\ disk = [n \in Slot |-> Junk]
  /\ tlb = [v \in VPage |-> NULL]
  /\ at = [t \in Thread |-> User]
  /\ kallocs = {}
  /\ panic = "no"

Stops(why) ==
  /\ panic' = why
  /\ UNCHANGED <<curthread, program_vars, page, frames, clock_pointer, swap,
                 mem, tlb, at, kallocs>>

----------------------------------------------------------------------------
(* The TLB, as TLBSpec.tla describes it *)

Mapped == {v \in VPage : tlb[v] # NULL}

\* tlb_add_entry(): one other translation may be lost to it.
tlb_with(v, f) ==
  \E lost \in SUBSET (Mapped \ {v}) :
    /\ Cardinality(lost) <= 1
    /\ Cardinality((Mapped \cup {v}) \ lost) <= NTLB
    /\ tlb' = [u \in VPage |-> IF u = v THEN f ELSE IF u \in lost THEN NULL ELSE tlb[u]]

\* The TLB after tlb_invalidate_vaddr() of the pages in S.
tlb_without(S) == [u \in VPage |-> IF u \in S THEN NULL ELSE tlb[u]]

----------------------------------------------------------------------------
(* Programs and address spaces *)

\* as_activate(): the TLB is flushed if another address space was active.
as_activate(a) ==
  /\ tlb' = IF last_addrspace \notin {NULL, a} THEN tlb_without(VPage) ELSE tlb
  /\ last_addrspace' = a

\* The current thread sleeps or is preempted and t comes out of mi_switch().
\* Not while alloc_kpages() has interrupts off.
mi_switch(t) ==
  /\ panic = "no" /\ t # curthread /\ at[curthread].pc # "cm_request_kframes"
  /\ curthread' = t
  /\ IF t_vmspace[t] = NULL
     THEN UNCHANGED <<tlb, last_addrspace>>
     ELSE as_activate(t_vmspace[t])
  /\ UNCHANGED <<t_vmspace, program, stored, page, frames, clock_pointer, swap,
                 mem, at, kallocs, panic>>

NextProgram == 1 + CHOOSE m \in Range(program) : \A a \in AS : program[a] <= m

\* runprogram(), or the second half of sys_execv(): a new address space, all
\* of its pages still in the program file.
runprogram(t) ==
  /\ Runs(t, "user") /\ t_vmspace[t] = NULL
  /\ NextProgram <= MaxPrograms
  /\ \E a \in AS \ Range(t_vmspace) :
       /\ Recycle \/ a # last_addrspace
       /\ as_activate(a)
       /\ t_vmspace' = [t_vmspace EXCEPT ![t] = a]
       /\ program' = [program EXCEPT ![a] = NextProgram]
       /\ stored' = [stored EXCEPT ![a] = [v \in VPage |-> 0]]
       /\ page' = [p \in AS \X VPage |-> IF p[1] = a THEN NewPage ELSE page[p]]
  /\ UNCHANGED <<curthread, frames, clock_pointer, swap, mem, at, kallocs, panic>>

IsNumber(n) == n # -1

\* as_destroy(), in thread_exit() or sys_execv(): frames go to the front of
\* the free list, swap pages to the front of theirs, page after page.
as_destroy(t) ==
  LET a == t_vmspace[t]
      last_first(field(_)) ==
        SelectSeq([i \in 1..NPage |-> field(page[<<a, NPage - i>>])], IsNumber)
      pfn(p) == p.pfn
      sfn(p) == p.sfn
      fs == last_first(pfn)
      ns == last_first(sfn)
  IN /\ Runs(t, "user") /\ a # NULL
     /\ IF -2 \in Range(ns) THEN Stops("no such swap page") ELSE
        /\ t_vmspace' = [t_vmspace EXCEPT ![t] = NULL]
        /\ free_frame_list' = fs \o free_frame_list
        /\ free' = [f \in Frame |-> f \in Range(fs) \/ free[f]]
        /\ kern' = [f \in Frame |-> IF f \in Range(fs) THEN 0 ELSE kern[f]]
        /\ freePages' = IF ns = <<>> THEN freePages ELSE ns[1]
        /\ next' = [n \in Slot |->
                      IF \E i \in DOMAIN ns : ns[i] = n
                      THEN LET i == CHOOSE i \in DOMAIN ns : ns[i] = n
                           IN IF i = Len(ns) THEN freePages ELSE ns[i + 1]
                      ELSE next[n]]
        /\ UNCHANGED <<curthread, last_addrspace, program, stored, page, pd,
                       clock_pointer, disk, mem, tlb, at, kallocs, panic>>

\* The program stores to a page it has a translation for.
store(t, v) ==
  LET a == t_vmspace[t] IN
  /\ Runs(t, "user") /\ a # NULL /\ v \in Writeable /\ tlb[v] # NULL
  /\ stored' = [stored EXCEPT ![a][v] = 1 - @]
  /\ mem' = [mem EXCEPT ![tlb[v]] = <<program[a], v, 1 - stored[a][v]>>]
  /\ UNCHANGED <<curthread, t_vmspace, last_addrspace, program, page, frames,
                 clock_pointer, swap, tlb, at, kallocs, panic>>

----------------------------------------------------------------------------
(* Page faults *)

Moved(t, pc) == at' = [at EXCEPT ![t].pc = pc]

\* vm_fault() and the first section of pt_page_in(): the page is in memory,
\* in swap space, or still in the program file.
vm_fault(t, v) ==
  LET p == <<t_vmspace[t], v>> IN
  /\ Runs(t, "user") /\ t_vmspace[t] # NULL /\ tlb[v] = NULL
  /\ IF page[p].valid /\ page[p].pfn # -1
     THEN /\ page' = [page EXCEPT ![p].use = TRUE]
          /\ tlb_with(v, page[p].pfn)
          /\ UNCHANGED at
     ELSE /\ at' = [at EXCEPT ![t] =
                     [User EXCEPT !.pc = "cm_getppage", !.v = v,
                        !.from = IF page[p].sfn # -1 THEN "swap" ELSE "file"]]
          /\ UNCHANGED <<page, tlb>>
  /\ UNCHANGED <<curthread, program_vars, frames, clock_pointer, swap, mem,
                 kallocs, panic>>

\* What at[t] and page become when the fault of t gets frame f.
GotFrame(t, f, pages) ==
  LET p == <<t_vmspace[t], at[t].v>> IN
  /\ page' = [pages EXCEPT ![p].pfn = f]
  /\ at' = [at EXCEPT ![t].pc = "pt_page_in", ![t].frame = f,
                      ![t].slot = page'[p].sfn]

\* cm_getppage(): a free frame, if there is one.
cm_getppage(t) ==
  LET used == [page EXCEPT ![<<t_vmspace[t], at[t].v>>].use = TRUE] IN
  /\ Runs(t, "cm_getppage")
  /\ \/ LET f == Head(free_frame_list) IN
        /\ free_frame_list # <<>>
        /\ free_frame_list' = Tail(free_frame_list)
        /\ kern' = [kern EXCEPT ![f] = 1] /\ free' = [free EXCEPT ![f] = FALSE]
        /\ GotFrame(t, f, used)
     \/ /\ free_frame_list = <<>>
        /\ page' = used
        /\ Moved(t, "cm_push_to_swap")
        /\ UNCHANGED <<kern, free, free_frame_list>>
  /\ UNCHANGED <<curthread, program_vars, pd, clock_pointer, swap, mem, tlb,
                 kallocs, panic>>

bug_FreeCore(f, S) ==        \* no tlb_invalidate_vaddr()
  /\ page' = [page EXCEPT ![pd[f]] =
                [@ EXCEPT !.valid = FALSE, !.use = FALSE, !.sfn = -2]]
  /\ UNCHANGED tlb

\* The start of cm_free_core() on frame f, when the clock hand has passed the
\* frames in S on its way there and taken their use bits.
FreeCore(f, S) ==
  /\ page' = [p \in AS \X VPage |->
                IF p = pd[f]
                THEN [page[p] EXCEPT !.valid = FALSE, !.use = FALSE, !.sfn = -2]
                ELSE IF \E g \in S : pd[g] = p
                     THEN [page[p] EXCEPT !.use = FALSE] ELSE page[p]]
  /\ tlb' = tlb_without({pd[g][2] : g \in S \cup {f}})

\* cm_push_to_swap(): the clock hand goes round, at most twice, to the first
\* frame of a page that has not been used since it was last passed.
cm_push_to_swap(t) ==
  LET hand(k) == (clock_pointer + k) % NFrame
      users == {k \in 0..(NFrame - 1) : kern[hand(k)] = 0}
      stops == {k \in users : pd[hand(k)] = NULL \/ ~page[pd[hand(k)]].use}
      first(K) == CHOOSE k \in K : \A j \in K : k <= j
      takes(k, passed) ==
        /\ FreeCore(hand(k), {hand(j) : j \in passed})
        /\ clock_pointer' = hand(k)
        /\ at' = [at EXCEPT ![t].pc = "cm_free_core", ![t].frame = hand(k)]
        /\ UNCHANGED <<curthread, program_vars, frames, swap, mem, kallocs, panic>>
  IN /\ Runs(t, "cm_push_to_swap")
     /\ IF users = {} THEN Stops("Too many kernel pages")
        ELSE IF stops = {} THEN takes(first(users), users)
        ELSE IF pd[hand(first(stops))] = NULL
             THEN Stops("FREE PHYSICAL FRAMES NOT IN THE FREE LIST")
             ELSE takes(first(stops), {k \in users : k < first(stops)})

\* The pages once the one in frame f is in swap page n.
Left(f, n) == [page EXCEPT ![pd[f]].sfn = n, ![pd[f]].pfn = -1]

\* The end of cm_free_core(): the page has left frame f, with its contents in
\* swap page n or, if n = -1, not needed.  The thread goes on with its fault,
\* or with the next frame for the kernel.
Emptied(t, f, n) ==
  /\ pd' = [pd EXCEPT ![f] = NULL]
  /\ IF at[t].from = "kernel"
     THEN /\ page' = Left(f, n)
          /\ at' = [at EXCEPT ![t].pc = "cm_request_kframes", ![t].frame = f + 1]
     ELSE GotFrame(t, f, Left(f, n))
  /\ UNCHANGED <<curthread, program_vars, kern, free, free_frame_list,
                 clock_pointer, mem, tlb, kallocs, panic>>

\* cm_free_core() after splx(): a page that can not be read again from the
\* program file is given a swap page.
cm_free_core(t) ==
  LET f == at[t].frame IN
  /\ Runs(t, "cm_free_core")
  /\ IF pd[f] = NULL THEN Stops("NULL page")
     ELSE IF pd[f][2] \notin Writeable THEN Emptied(t, f, -1) /\ UNCHANGED swap
     ELSE IF freePages = NULL THEN Stops("Out of swap space") ELSE
       /\ at' = [at EXCEPT ![t].pc = "swap_write", ![t].slot = freePages]
       /\ freePages' = next[freePages]
       /\ UNCHANGED <<curthread, program_vars, page, frames, clock_pointer,
                      next, disk, mem, tlb, kallocs, panic>>

\* The transfer to swap space is over.
swap_write(t) ==
  LET f == at[t].frame
      n == at[t].slot
  IN /\ Runs(t, "swap_write")
     /\ IF pd[f] = NULL THEN Stops("NULL page") ELSE
        /\ disk' = [disk EXCEPT ![n] = mem[f]]
        /\ Emptied(t, f, n)
        /\ UNCHANGED <<next, freePages>>

\* The transfer into the frame is over: swap_read(), which then puts the swap
\* page back (in two statements and with interrupts on), or
\* load_segment_page().
pt_page_in(t) ==
  LET a == t_vmspace[t]
      n == at[t].slot
  IN /\ Runs(t, "pt_page_in")
     /\ IF at[t].from = "swap" /\ n \notin Slot THEN Stops("no such swap page") ELSE
        /\ mem' = [mem EXCEPT ![at[t].frame] =
                     IF at[t].from = "swap" THEN disk[n]
                     ELSE <<program[a], at[t].v, 0>>]
        /\ next' = IF at[t].from = "swap" THEN [next EXCEPT ![n] = freePages] ELSE next
        /\ Moved(t, "cm_finish_paging")
        /\ UNCHANGED <<curthread, program_vars, page, frames, clock_pointer,
                       freePages, disk, tlb, kallocs, panic>>

bug_swap_free(t) == UNCHANGED freePages

\* The second statement of swap_read() that puts the swap page back.
swap_free(t) ==
  freePages' = IF at[t].from = "swap" THEN at[t].slot ELSE freePages

\* The rest of pt_page_in(), with cm_finish_paging().
cm_finish_paging(t) ==
  LET p == <<t_vmspace[t], at[t].v>>
      f == page[p].pfn
  IN /\ Runs(t, "cm_finish_paging")
     /\ IF f = -1 THEN Stops("no such frame") ELSE
        /\ swap_free(t)
        /\ page' = [page EXCEPT ![p].valid = TRUE,
                                ![p].sfn = IF at[t].from = "swap" THEN -1 ELSE @]
        /\ tlb_with(at[t].v, f)
        /\ pd' = [pd EXCEPT ![f] = p]
        /\ free' = [free EXCEPT ![f] = FALSE] /\ kern' = [kern EXCEPT ![f] = 0]
        /\ at' = [at EXCEPT ![t] = User]
        /\ UNCHANGED <<curthread, program_vars, free_frame_list, clock_pointer,
                       next, disk, mem, kallocs, panic>>

----------------------------------------------------------------------------
(* Pages for the kernel *)

\* alloc_kpages(num), up to where the frames are chosen and marked: the lowest
\* num in a row that are not the kernel's.
alloc_kpages(t, num) ==
  LET bases == {b \in 0..(NFrame - num) : \A f \in b..(b + num - 1) : kern[f] = 0}
      base == CHOOSE b \in bases : \A c \in bases : b <= c
  IN /\ Runs(t, "user") /\ Cardinality(kallocs) < MaxAllocs
     /\ IF bases = {} THEN Stops("No space to get kernel page(s)") ELSE
        /\ kern' = [f \in Frame |-> IF f = base THEN num
                       ELSE IF f \in base..(base + num - 1) THEN 1 ELSE kern[f]]
        /\ at' = [at EXCEPT ![t] =
                     [User EXCEPT !.pc = "cm_request_kframes", !.from = "kernel",
                        !.frame = base, !.base = base, !.num = num]]
        /\ UNCHANGED <<curthread, program_vars, page, free, pd, free_frame_list,
                       clock_pointer, swap, mem, tlb, kallocs, panic>>

\* free_frame_list_remove()
free_frame_list_remove(f) ==
  /\ LET other(g) == g # f IN free_frame_list' = SelectSeq(free_frame_list, other)
  /\ free' = [free EXCEPT ![f] = FALSE]
  /\ kern' = [kern EXCEPT ![f] = 1]

\* One turn of the last loop of cm_request_kframes(), or its end.
cm_request_kframes(t) ==
  LET f == at[t].frame
      end == at[t].base + at[t].num
  IN /\ Runs(t, "cm_request_kframes")
     /\ \/ /\ f = end
           /\ kallocs' = kallocs \cup {at[t].base..(end - 1)}
           /\ mem' = [g \in Frame |-> IF g \in at[t].base..(end - 1) THEN Junk ELSE mem[g]]
           /\ at' = [at EXCEPT ![t] = User]
           /\ UNCHANGED <<page, frames, tlb, panic>>
        \/ /\ f < end /\ free[f]
           /\ free_frame_list_remove(f)
           /\ at' = [at EXCEPT ![t].frame = f + 1]
           /\ UNCHANGED <<page, pd, mem, tlb, kallocs, panic>>
        \/ /\ f < end /\ ~free[f]
           /\ IF pd[f] = NULL
              THEN panic' = "NULL page" /\ UNCHANGED <<page, tlb, at>>
              ELSE /\ FreeCore(f, {})
                   /\ Moved(t, "cm_free_core")
                   /\ UNCHANGED panic
           /\ UNCHANGED <<frames, mem, kallocs>>
     /\ UNCHANGED <<curthread, program_vars, clock_pointer, swap>>

bug_add_back(base, num) ==   \* one frame too few
  free_frame_list' = free_frame_list \o [i \in 1..(num - 1) |-> base + i - 1]

\* free_frame_list_add_back(), num times.
add_back(base, num) ==
  free_frame_list' = free_frame_list \o [i \in 1..num |-> base + i - 1]

\* free_kpages(): as many frames as the core map says were allocated go to the
\* end of the free list.
free_kpages(t, fs) ==
  LET base == CHOOSE f \in fs : \A g \in fs : f <= g
      num == kern[base]
  IN /\ Runs(t, "user") /\ fs \in kallocs
     /\ kallocs' = kallocs \ {fs}
     /\ add_back(base, num)
     /\ free' = [f \in Frame |-> f \in base..(base + num - 1) \/ free[f]]
     /\ kern' = [f \in Frame |-> IF f \in base..(base + num - 1) THEN 0 ELSE kern[f]]
     /\ UNCHANGED <<curthread, program_vars, page, pd, clock_pointer, swap, mem, tlb,
                    at, panic>>

Fault(t) ==
  \/ \E v \in VPage : vm_fault(t, v)
  \/ cm_getppage(t) \/ cm_push_to_swap(t) \/ cm_free_core(t) \/ swap_write(t)
  \/ pt_page_in(t) \/ cm_finish_paging(t)

Kernel(t) ==
  \/ \E num \in 1..MaxKernel : alloc_kpages(t, num)
  \/ cm_request_kframes(t)
  \/ \E fs \in kallocs : free_kpages(t, fs)

Next ==
  \E t \in Thread :
    \/ mi_switch(t) \/ runprogram(t) \/ as_destroy(t)
    \/ \E v \in Writeable : store(t, v)
    \/ Fault(t) \/ Kernel(t)

Spec == Init /\ [][Next]_vars

----------------------------------------------------------------------------
(* Properties *)

\* The pages of the address spaces there are.
Pages == (Range(t_vmspace) \ {NULL}) \X VPage

\* Whether a thread has frame f in its hands: to fill it, to empty it, or
\* already taken for the kernel.
Holds(t, f) ==
  \/ /\ at[t].frame = f
     /\ at[t].pc \in {"cm_free_core", "swap_write", "pt_page_in",
                      "cm_finish_paging"}
  \/ at[t].from = "kernel" /\ f \in at[t].base..(at[t].frame - 1)

\* All that has frame f.
Holders(f) ==
  {<<"page", p>> : p \in {q \in Pages : page[q].valid /\ page[q].pfn = f}}
  \cup {<<"kernel", fs>> : fs \in {gs \in kallocs : f \in gs}}
  \cup {<<"thread", t>> : t \in {u \in Thread : Holds(u, f)}}
  \cup {<<"list", i>> : i \in {j \in DOMAIN free_frame_list : free_frame_list[j] = f}}

\* What a program can reach through the TLB is its own data, as it was last
\* stored: through eviction, swap space, reading the file again, the frames
\* taken by the kernel, context switches and the death of other programs.
\* (addrspace.h: as_activate() makes "the specified address space the one
\* currently seen by the processor".)
SeesOwnData ==
  LET a == t_vmspace[curthread] IN
  at[curthread].pc = "user" /\ a # NULL =>
    \A v \in VPage : tlb[v] # NULL => mem[tlb[v]] = Contents(a, v)

\* Every frame is in exactly one place: a page, the kernel, a thread that is
\* moving a page, the free list.  None is given to two at a time, and those
\* free_kpages() is given, as_destroy() leaves and cm_free_core() empties can
\* be used again (vm.h: "Allocate/free kernel heap pages").
FramesAccounted == \A f \in Frame : Cardinality(Holders(f)) = 1

\* Every swap page is either on the free list or holds one page, or is being
\* written: swap space neither leaks nor is handed out twice.
SwapAccounted ==
  LET reach[k \in 0..NSlot] ==
        IF k = 0 THEN {freePages}
        ELSE reach[k - 1] \cup {next[n] : n \in reach[k - 1] \ {NULL}}
  IN \A n \in Slot :
       LET holders ==
             {p \in Pages : page[p].sfn = n}
             \cup {t \in Thread : at[t].pc = "swap_write" /\ at[t].slot = n}
       IN IF n \in reach[NSlot] THEN holders = {} ELSE Cardinality(holders) = 1

\* The kernel stops only when memory or swap space is used up, never because
\* the core map or a page table is wrong.
StopsOnlyWhenFull ==
  panic \in {"no", "Out of swap space", "Too many kernel pages",
             "No space to get kernel page(s)"}

\* coremap.c:164 and 182 call it a panic if there are "FREE PHYSICAL FRAMES NOT
\* IN THE FREE LIST": frames that neither the kernel nor a page has, and that
\* the clock hand finds although the free list is empty.
FreeFramesAreInTheList == panic # "FREE PHYSICAL FRAMES NOT IN THE FREE LIST"
=============================================================================
