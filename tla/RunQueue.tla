------------------------------ MODULE RunQueue ------------------------------
(***************************************************************************)
(* kern/lib/queue.c: the ring buffer behind the run queue.  One slot       *)
(* always stays empty, so that nextwrite = nextread means an empty queue.  *)
(* Its callers have interrupts off: an operation is one step.              *)
(***************************************************************************)
EXTENDS Integers, Sequences

CONSTANTS
  Elem,        \* the pointers stored
  Garbage,     \* contents of a slot kmalloc() returned and nothing wrote
  ENOMEM,
  CreateSizes, \* sizes q_create() is called with
  MaxSize      \* bound: q_grow() asks for no more

ASSUME RingAssumption == CreateSizes \subseteq Nat \ {0}

VARIABLES size, nextwrite, nextread, data, ret

ring_vars == <<size, nextwrite, nextread, data, ret>>

q_create ==
  /\ size \in CreateSizes
  /\ data = [i \in 0..(size - 1) |-> Garbage]
  /\ nextread = 0 /\ nextwrite = 0
  /\ ret = 0

q_empty == nextwrite = nextread

\* Number of elements, and the k-th of them from the head, k = 0, 1, ...
Count == (nextwrite - nextread) % size
Item(k) == data[(nextread + k) % size]

\* The size q_grow() doubles up to: the first that is enough.
NewSize(targetsize) ==
  {nsize \in targetsize..(2 * targetsize) :
     \E k \in 0..targetsize : /\ nsize = size * 2^k
                              /\ k > 0 => size * 2^(k - 1) < targetsize}

\* q_grow()'s new storage: the elements, moved to the start.
Grown(nsize) == [i \in 0..(nsize - 1) |-> IF i < Count THEN Item(i) ELSE Garbage]

q_preallocate(n) ==
  \/ /\ n <= size
     /\ ret' = 0
     /\ UNCHANGED <<size, nextwrite, nextread, data>>
  \/ \E nsize \in NewSize(n) :
     /\ n > size /\ nsize <= MaxSize
     /\ size' = nsize /\ data' = Grown(nsize)
     /\ nextread' = 0 /\ nextwrite' = Count
     /\ ret' = 0
  \/ /\ n > size
     /\ ret' = ENOMEM
     /\ UNCHANGED <<size, nextwrite, nextread, data>>

bug_Full == FALSE

Full == (nextwrite + 1) % size = nextread

q_addtail(ptr) ==
  \/ /\ ~Full
     /\ data' = [data EXCEPT ![nextwrite] = ptr]
     /\ nextwrite' = (nextwrite + 1) % size
     /\ ret' = 0
     /\ UNCHANGED <<size, nextread>>
  \/ \E nsize \in NewSize(size + 1) :
     /\ Full /\ nsize <= MaxSize
     /\ size' = nsize
     /\ data' = [Grown(nsize) EXCEPT ![Count] = ptr]
     /\ nextread' = 0 /\ nextwrite' = (Count + 1) % nsize
     /\ ret' = 0
  \/ /\ Full
     /\ ret' = ENOMEM
     /\ UNCHANGED <<size, nextwrite, nextread, data>>

\* assert(!q_empty(q)): callers test it first.
q_remhead ==
  /\ ~q_empty
  /\ ret' = data[nextread]
  /\ nextread' = (nextread + 1) % size
  /\ UNCHANGED <<size, nextwrite, data>>

RingNext ==
  \/ \E n \in 1..(MaxSize + 1) : q_preallocate(n)
  \/ \E x \in Elem : q_addtail(x)
  \/ q_remhead

RingSpec == q_create /\ [][RingNext]_ring_vars

----------------------------------------------------------------------------
(* Properties *)

\* The indices stay inside the storage, and every slot between them holds an
\* element: q_remhead() never returns memory nothing was stored in, whatever
\* q_grow() did while the elements were wrapped around the end of the ring.
RingOK ==
  /\ nextread \in 0..(size - 1) /\ nextwrite \in 0..(size - 1)
  /\ DOMAIN data = 0..(size - 1)
  /\ \A k \in 0..(Count - 1) : Item(k) \in Elem

RingContents == [k \in 1..Count |-> Item(k - 1)]

\* The ring is a first-in first-out queue through growing and wrapping.
Queue == INSTANCE FIFO WITH q <- RingContents
RingImplementsFIFO == Queue!Spec
=============================================================================
