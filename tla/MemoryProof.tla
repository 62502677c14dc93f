-------------------------- MODULE MemoryProof --------------------------
(***************************************************************************)
(* Proofs about the data structures that threads and memory rest on: the   *)
(* ring of the run queue (RunQueue), the segments of an address space      *)
(* (AddrSpace) and the TLB (TLB).                                          *)
(***************************************************************************)
EXTENDS RunQueue, AddrSpace, TLB, WellFoundedInduction, FiniteSetTheorems, TLAPS

----------------------------------------------------------------------------
(* The ring of the run queue *)

RingInv == size \in Nat \ {0} /\ RingOK

\* The remainder q.c takes, of a number that is out of range by less than n.
LEMMA RingRemainder ==
  ASSUME NEW n \in Nat \ {0}, NEW a \in Int, -n <= a, a < 2 * n
  PROVE  a % n = (IF a < 0 THEN a + n ELSE IF a < n THEN a ELSE a - n)
  <1>1. CASE n <= a
    <2>1. a = 1 * n + (a - n) /\ a - n >= 0 /\ a - n < n
      BY <1>1
    <2> QED
      BY <1>1, <2>1
  <1>2. CASE a < 0
    <2>1. a = (-1) * n + (a + n) /\ a + n >= 0 /\ a + n < n
      BY <1>2
    <2> QED
      BY <1>2, <2>1
  <1> QED
    BY <1>1, <1>2

\* The ring in numbers: how many slots lie between two indices, and where the
\* k-th slot from an index is, without the remainder.
Between(n, r, w) == IF w >= r THEN w - r ELSE w - r + n
Slot(n, r, k) == IF r + k < n THEN r + k ELSE r + k - n

\* How many slots there are from one to the next, as q.c counts them.
LEMMA RingBetween ==
  ASSUME NEW n \in Nat \ {0}, NEW r \in 0..(n - 1), NEW w \in 0..(n - 1)
  PROVE  (w - r) % n = Between(n, r, w) /\ Between(n, r, w) \in 0..(n - 1)
  <1> DEFINE a == w - r
  <1>1. a \in Int /\ -n <= a /\ a < 2 * n /\ a < n /\ (a < 0 <=> ~(w >= r))
    OBVIOUS
  <1> HIDE DEF a
  <1>2. a % n = IF w >= r THEN a ELSE a + n
    BY <1>1, RingRemainder, Zenon
  <1>3. (w - r) % n = Between(n, r, w)
    BY <1>2 DEF a, Between
  <1>4. Between(n, r, w) \in 0..(n - 1)
    BY DEF Between
  <1> QED
    BY <1>3, <1>4

\* The slot that is k further on, as q.c counts them.
LEMMA RingSlot ==
  ASSUME NEW n \in Nat \ {0}, NEW r \in 0..(n - 1), NEW k \in 0..n
  PROVE  (r + k) % n = Slot(n, r, k) /\ Slot(n, r, k) \in 0..(n - 1)
  <1> DEFINE a == r + k
  <1>1. a \in Int /\ -n <= a /\ a >= 0 /\ a < 2 * n
    OBVIOUS
  <1>2. Slot(n, r, k) = IF a < n THEN a ELSE a - n
    BY DEF Slot
  <1> HIDE DEF a
  <1>3. a % n = (IF a < 0 THEN a + n ELSE IF a < n THEN a ELSE a - n)
    BY <1>1, RingRemainder, Zenon
  <1>4. Slot(n, r, k) \in 0..(n - 1)
    BY DEF Slot
  <1> QED
    BY <1>1, <1>2, <1>3, <1>4 DEF a

\* The arithmetic of one more and of one less element.
LEMMA RingMore ==
  ASSUME NEW n \in Nat \ {0}, NEW r \in 0..(n - 1), NEW w \in 0..(n - 1),
         NEW c, c = Between(n, r, w)
  PROVE  /\ c \in 0..(n - 1) /\ Slot(n, r, c) = w
         /\ Slot(n, w, 1) # r => c < n - 1 /\ Between(n, r, Slot(n, w, 1)) = c + 1
         /\ Slot(n, w, 1) = r => c = n - 1
         /\ \A k \in 0..(c - 1) : Slot(n, r, k) # w /\ Slot(n, r, k) \in 0..(n - 1)
  BY DEF Between, Slot

\* Moving nextread on by one leaves one slot less, and the same ones.
LEMMA RingLess ==
  ASSUME NEW n \in Nat \ {0}, NEW r \in 0..(n - 1), NEW w \in 0..(n - 1),
         NEW c, c = Between(n, r, w), w # r
  PROVE  /\ c > 0 /\ Between(n, Slot(n, r, 1), w) = c - 1
         /\ \A k \in 0..(c - 2) : Slot(n, Slot(n, r, 1), k) = Slot(n, r, k + 1)
  BY DEF Between, Slot

\* What RingInv says in those terms.
LEMMA RingShape ==
  ASSUME RingInv
  PROVE  /\ size \in Nat \ {0} /\ nextread \in 0..(size - 1) /\ nextwrite \in 0..(size - 1)
         /\ DOMAIN data = 0..(size - 1)
         /\ Count = Between(size, nextread, nextwrite)
         /\ Count \in 0..(size - 1)
         /\ \A k \in 0..(size - 1) : Item(k) = data[Slot(size, nextread, k)]
         /\ \A k \in 0..(Count - 1) : Item(k) \in Elem
         /\ RingContents \in Seq(Elem) /\ Len(RingContents) = Count
  <1>1. size \in Nat \ {0} /\ nextread \in 0..(size - 1) /\ nextwrite \in 0..(size - 1)
    BY DEF RingInv, RingOK
  <1>2. Count = Between(size, nextread, nextwrite) /\ Count \in 0..(size - 1)
    BY <1>1, RingBetween DEF Count
  <1>3. \A k \in 0..(size - 1) : Item(k) = data[Slot(size, nextread, k)]
    BY <1>1, RingSlot DEF Item
  <1>4. DOMAIN data = 0..(size - 1) /\ \A k \in 0..(Count - 1) : Item(k) \in Elem
    BY DEF RingInv, RingOK
  <1>5. RingContents \in Seq(Elem) /\ Len(RingContents) = Count
    BY <1>2, <1>4 DEF RingContents
  <1> QED
    BY <1>1, <1>2, <1>3, <1>4, <1>5

\* A write to the slot at nextwrite appends to the queue.
LEMMA RingAdd ==
  ASSUME RingInv, NEW x \in Elem, ~Full,
         data' = [data EXCEPT ![nextwrite] = x], nextwrite' = (nextwrite + 1) % size,
         size' = size, nextread' = nextread
  PROVE  RingInv' /\ RingContents' = Append(RingContents, x)
  <1> DEFINE n == Count
  <1>0. RingInv
    OBVIOUS
  <1>1. nextwrite' = Slot(size, nextwrite, 1) /\ nextwrite' \in 0..(size - 1)
    BY RingShape, RingSlot
  <1>2. nextwrite' # nextread
    BY DEF Full
  <1>3. n < size - 1 /\ Between(size, nextread, nextwrite') = n + 1
    BY <1>1, <1>2, RingShape, RingMore
  <1>4. Count' = n + 1
    BY <1>1, <1>3, RingShape, RingBetween, Zenon DEF Count
  <1>5. Slot(size, nextread, n) = nextwrite
    BY RingShape, RingMore
  <1>6. ASSUME NEW k \in 0..n PROVE (nextread + k) % size = Slot(size, nextread, k)
    <2>1. k \in 0..size
      BY <1>3, RingShape
    <2> QED
      BY <2>1, RingShape, RingSlot
  <1>7. \A k \in 0..(n - 1) : Slot(size, nextread, k) # nextwrite /\ Slot(size, nextread, k) \in 0..(size - 1)
    BY RingShape, RingMore, Zenon
  <1>8. \A k \in 0..n : Item(k)' = IF k = n THEN x ELSE Item(k)
    <2> SUFFICES ASSUME NEW k \in 0..n PROVE Item(k)' = IF k = n THEN x ELSE Item(k)
      OBVIOUS
    <2>1. Item(k)' = data'[Slot(size, nextread, k)]
      BY <1>6 DEF Item
    <2>2. CASE k = n
      BY <2>1, <2>2, <1>5, RingShape
    <2>3. CASE k # n
      <3>1. k \in 0..(n - 1) /\ k \in 0..(size - 1)
        BY <2>3, <1>3, RingShape
      <3> QED
        BY <2>1, <2>3, <3>1, <1>7, RingShape
    <2> QED
      BY <2>2, <2>3
  <1>9. RingInv'
    <2>1. \A k \in 0..(Count' - 1) : Item(k)' \in Elem
      <3>1. Count' - 1 = n
        BY <1>4, RingShape
      <3> QED
        BY <3>1, <1>8, RingShape
    <2> QED
      BY <2>1, <1>1, RingShape DEF RingInv, RingOK
  <1>10. RingContents' = Append(RingContents, x)
    <2>1. RingContents' = [k \in 1..(n + 1) |-> IF k - 1 = n THEN x ELSE Item(k - 1)]
      BY <1>4, <1>8, RingShape DEF RingContents
    <2>2. RingContents = [k \in 1..n |-> Item(k - 1)] /\ n \in Nat
      BY RingShape DEF RingContents
    <2>3. RingContents \in Seq(Elem)
      BY RingShape
    <2> HIDE DEF n
    <2> QED
      BY <2>1, <2>2, <2>3
  <1> QED
    BY <1>9, <1>10

\* q_remhead() hands out the head of the queue and leaves the tail.
LEMMA RingRemove ==
  ASSUME RingInv, ~q_empty, q_remhead
  PROVE  /\ RingInv' /\ RingContents # <<>>
         /\ RingContents' = Tail(RingContents) /\ ret' = Head(RingContents)
  <1> DEFINE n == Count
  <1>0. /\ nextread' = (nextread + 1) % size /\ size' = size /\ data' = data
        /\ nextwrite' = nextwrite /\ nextwrite # nextread /\ ret' = data[nextread]
    BY DEF q_remhead, q_empty
  <1>1. nextread' = Slot(size, nextread, 1) /\ nextread' \in 0..(size - 1)
    BY <1>0, RingShape, RingSlot
  <1>2. /\ n > 0 /\ Between(size, nextread', nextwrite) = n - 1
        /\ \A k \in 0..(n - 2) : Slot(size, nextread', k) = Slot(size, nextread, k + 1)
    BY <1>0, <1>1, RingShape, RingLess
  <1>3. Count' = n - 1
    BY <1>0, <1>1, <1>2, RingShape, RingBetween, Zenon DEF Count
  <1>4. ASSUME NEW k \in 0..(n - 2) PROVE Item(k)' = Item(k + 1)
    <2>1. k \in 0..size /\ k + 1 \in 0..(size - 1)
      BY RingShape
    <2>2. Item(k)' = data[Slot(size, nextread', k)]
      BY <2>1, <1>0, <1>1, RingShape, RingSlot, Zenon DEF Item
    <2> QED
      BY <2>1, <2>2, <1>2, RingShape
  <1>5. RingInv'
    <2>1. \A k \in 0..(Count' - 1) : Item(k)' \in Elem
      <3> SUFFICES ASSUME NEW k \in 0..(Count' - 1) PROVE Item(k)' \in Elem
        OBVIOUS
      <3>1. k \in 0..(n - 2) /\ k + 1 \in 0..(n - 1)
        BY <1>3, RingShape
      <3> QED
        BY <3>1, <1>4, RingShape
    <2> QED
      BY <2>1, <1>0, <1>1, RingShape DEF RingInv, RingOK
  <1>6. RingContents' = Tail(RingContents)
    <2>1. RingContents' = [k \in 1..(n - 1) |-> Item(k)]
      <3>1. \A k \in 1..(n - 1) : Item(k - 1)' = Item(k)
        BY <1>4, RingShape
      <3> QED
        BY <3>1, <1>3 DEF RingContents
    <2>2. RingContents = [k \in 1..n |-> Item(k - 1)] /\ n \in Nat
      BY RingShape DEF RingContents
    <2>3. RingContents \in Seq(Elem) /\ Len(RingContents) = n
      BY RingShape
    <2> HIDE DEF n
    <2> QED
      BY <2>1, <2>2, <2>3, <1>2
  <1>7. ret' = Head(RingContents) /\ RingContents # <<>>
    <2>1. Slot(size, nextread, 0) = nextread
      BY RingShape DEF Slot
    <2>2. Item(0) = data[nextread]
      BY <2>1, RingShape
    <2> QED
      BY <2>2, <1>0, <1>2, RingShape DEF RingContents
  <1> QED
    BY <1>5, <1>6, <1>7

\* q_grow(): the elements in new storage, c of them.
LEMMA RingGrow ==
  ASSUME RingInv, NEW m \in Nat, m > size, NEW c \in 0..(m - 1),
         size' = m, nextread' = 0, nextwrite' = c, DOMAIN data' = 0..(m - 1),
         \A k \in 0..(c - 1) : data'[k] \in Elem
  PROVE  RingInv' /\ RingContents' = [k \in 1..c |-> data'[k - 1]]
  <1>1. Count' = c
    BY RingBetween DEF Count, Between
  <1>2. ASSUME NEW k \in 0..(c - 1) PROVE Item(k)' = data'[k]
    BY RingSlot DEF Item, Slot
  <1>3. RingInv'
    BY <1>1, <1>2 DEF RingInv, RingOK
  <1>4. RingContents' = [k \in 1..c |-> data'[k - 1]]
    BY <1>1, <1>2 DEF RingContents
  <1> QED
    BY <1>3, <1>4

\* q_create() makes an empty queue.
LEMMA RingInit == ASSUME RingAssumption PROVE q_create => RingInv /\ Queue!Init
  <1> SUFFICES ASSUME q_create PROVE RingInv /\ Queue!Init
    OBVIOUS
  <1>1. size \in Nat \ {0} /\ nextread = 0 /\ nextwrite = 0
    BY DEF q_create
  <1>2. Count = 0
    BY <1>1, RingBetween DEF Count, Between
  <1>3. RingInv
    BY <1>1, <1>2 DEF RingInv, RingOK, q_create
  <1>4. RingContents = <<>>
    BY <1>3, <1>2, RingShape
  <1> QED
    BY <1>3, <1>4 DEF Queue!Init, q_create

\* Every step keeps the ring sound, and is a step of the queue or leaves it alone.
LEMMA RingStep ==
  RingInv /\ [RingNext]_ring_vars => RingInv' /\ [Queue!Next]_<<RingContents, ret>>
  <1> SUFFICES ASSUME RingInv, [RingNext]_ring_vars
               PROVE  RingInv' /\ [Queue!Next]_<<RingContents, ret>>
    OBVIOUS
  <1>0. ASSUME UNCHANGED <<size, nextwrite, nextread, data>>
        PROVE  RingInv' /\ RingContents' = RingContents
    BY <1>0 DEF RingInv, RingOK, RingContents, Count, Item
  <1>1. ASSUME NEW m \in 1..(MaxSize + 1), q_preallocate(m)
        PROVE  RingInv' /\ Queue!Preallocate
    <2>1. ASSUME NEW nsize \in NewSize(m), m > size,
                 size' = nsize, data' = Grown(nsize), nextread' = 0, nextwrite' = Count, ret' = 0
          PROVE  RingInv' /\ Queue!Preallocate
      <3>1. nsize \in Nat /\ nsize > size
        BY <2>1, RingShape DEF NewSize
      <3>2. Count \in 0..(nsize - 1)
        BY <3>1, RingShape
      <3>3. DOMAIN data' = 0..(nsize - 1) /\ \A k \in 0..(Count - 1) : data'[k] = Item(k)
        BY <2>1, <3>1, <3>2 DEF Grown
      <3>4. RingInv' /\ RingContents' = [k \in 1..Count |-> data'[k - 1]]
        <4>1. \A k \in 0..(Count - 1) : data'[k] \in Elem
          BY <3>3, RingShape
        <4> QED
          BY <2>1, <3>1, <3>2, <3>3, <4>1, RingGrow
      <3>5. RingContents' = RingContents
        <4>1. \A k \in 1..Count : data'[k - 1] = Item(k - 1)
          BY <3>2, <3>3
        <4> QED
          BY <3>4, <4>1, Zenon DEF RingContents
      <3> QED
        BY <2>1, <3>4, <3>5 DEF Queue!Preallocate
    <2> QED
      BY <1>0, <1>1, <2>1 DEF q_preallocate, Queue!Preallocate, Queue!Fails
  <1>2. ASSUME NEW x \in Elem, q_addtail(x)
        PROVE  RingInv' /\ Queue!AddTail(x)
    <2>1. CASE /\ ~Full
               /\ data' = [data EXCEPT ![nextwrite] = x]
               /\ nextwrite' = (nextwrite + 1) % size
               /\ ret' = 0
               /\ UNCHANGED <<size, nextread>>
      BY <2>1, RingAdd, Zenon DEF Queue!AddTail
    <2>2. ASSUME NEW nsize \in NewSize(size + 1), Full, size' = nsize,
                 data' = [Grown(nsize) EXCEPT ![Count] = x],
                 nextread' = 0, nextwrite' = (Count + 1) % nsize, ret' = 0
          PROVE  RingInv' /\ Queue!AddTail(x)
      <3> DEFINE n == Count
      <3>1. nsize \in Nat /\ nsize > size
        BY <2>2, RingShape DEF NewSize
      <3>2. n = size - 1
        <4>1. (nextwrite + 1) % size = Slot(size, nextwrite, 1)
          BY RingShape, RingSlot
        <4> QED
          BY <4>1, <2>2, RingShape, RingMore, SMTT(30) DEF Full
      <3>3. nextwrite' = n + 1 /\ n + 1 \in 0..(nsize - 1) /\ n \in 0..(nsize - 1)
        <4>1. n \in 0..(nsize - 1) /\ n + 1 < nsize
          BY <3>1, <3>2, RingShape
        <4>2. (n + 1) % nsize = Slot(nsize, n, 1)
          BY <4>1, <3>1, RingSlot
        <4>3. n + 1 \in 0..(nsize - 1)
          BY <4>1, <3>1
        <4>4. nextwrite' = Slot(nsize, n, 1)
          BY <4>2, <2>2
        <4>5. Slot(nsize, n, 1) = n + 1
          BY <4>1 DEF Slot
        <4> QED
          BY <4>1, <4>3, <4>4, <4>5
      <3>4. /\ DOMAIN data' = 0..(nsize - 1) /\ data'[n] = x
            /\ \A k \in 0..(n - 1) : data'[k] = Item(k)
        BY <2>2, <3>1, <3>3, RingShape, SMTT(30) DEF Grown
      <3>5. \A k \in 0..n : data'[k] = (IF k = n THEN x ELSE Item(k)) /\ data'[k] \in Elem
        BY <3>4, RingShape, SMTT(30)
      <3>6. RingInv' /\ RingContents' = [k \in 1..(n + 1) |-> data'[k - 1]]
        <4>1. n \in Nat
          BY RingShape
        <4>2. size' = nsize /\ nextread' = 0 /\ DOMAIN data' = 0..(nsize - 1)
          BY <2>2, <3>4
        <4>3. nsize \in Nat /\ nsize > size
          BY <3>1
        <4> DEFINE c == n + 1
        <4>4. c \in 0..(nsize - 1) /\ nextwrite' = c
          BY <3>3
        <4> HIDE DEF n
        <4>5. \A k \in 0..(c - 1) : data'[k] \in Elem
          BY <3>5, <4>1
        <4> HIDE DEF c
        <4>6. RingInv' /\ RingContents' = [k \in 1..c |-> data'[k - 1]]
          BY <4>2, <4>3, <4>4, <4>5, RingGrow
        <4> QED
          BY <4>6 DEF c
      <3>7. RingContents' = Append(RingContents, x)
        <4>0. n \in Nat
          BY RingShape
        <4>1. RingContents' = [k \in 1..(n + 1) |-> IF k - 1 = n THEN x ELSE Item(k - 1)]
          <5> HIDE DEF n
          <5> QED
            BY <3>5, <3>6, <4>0
        <4>2. RingContents = [k \in 1..n |-> Item(k - 1)] /\ n \in Nat
          BY RingShape DEF RingContents
        <4>3. RingContents \in Seq(Elem)
          BY RingShape
        <4> HIDE DEF n
        <4> QED
          BY <4>1, <4>2, <4>3
      <3> QED
        BY <2>2, <3>6, <3>7, Zenon DEF Queue!AddTail
    <2> QED
      BY <1>0, <1>2, <2>1, <2>2 DEF q_addtail, Queue!AddTail, Queue!Fails
  <1>3. ASSUME q_remhead PROVE RingInv' /\ Queue!RemHead
    BY <1>3, RingRemove DEF Queue!RemHead, q_remhead
  <1>4. CASE UNCHANGED ring_vars
    BY <1>4, <1>0 DEF ring_vars
  <1> QED
    BY <1>1, <1>2, <1>3, <1>4 DEF RingNext, Queue!Next

\* lib/queue.c is a first-in first-out queue for every size it is created with:
\* however the elements are wrapped around the end of the storage when q_grow()
\* moves them, q_remhead() returns them in the order q_addtail() got them, and
\* an operation that found no memory has changed nothing.
THEOREM RingIsFIFO == RingSpec => RingImplementsFIFO
  BY RingAssumption, RingInit, RingStep, PTL DEF RingSpec, RingImplementsFIFO, Queue!Spec

\* The indices stay in the storage and every slot between them holds an element.
THEOREM RingSlotsAreElements == RingSpec => []RingOK
  <1>1. RingInv => RingOK
    BY DEF RingInv
  <1> QED
    BY RingAssumption, <1>1, RingInit, RingStep, PTL DEF RingSpec

----------------------------------------------------------------------------
(* Address spaces *)

StackRegion == <<USERTOP - STACKPAGES * PAGE_SIZE, STACKPAGES * PAGE_SIZE>>

\* Segment f is the one that was set up for region r.
Holds(f, r) ==
  /\ segments[f].active
  /\ segments[f].vbase = PageOf(r[1])
  /\ segments[f].size = RegionPages(r[1], r[2])

\* Each region has kept its segment: those below num_segments are never set up
\* again, and the last one only ever for the stack.
SpaceInv ==
  /\ DOMAIN segments = 0..2
  /\ num_segments \in 0..2
  /\ asked \subseteq Nat \X Nat
  /\ \A r \in asked : /\ r[1] + r[2] <= USERTOP
                      /\ \/ \E f \in 0..(num_segments - 1) : Holds(f, r)
                         \/ r = StackRegion /\ Holds(2, r)

\* x lies in the page that starts at the multiple of p below it.
LEMMA Multiple == ASSUME NEW p \in Nat \ {0}, NEW x \in Nat
                  PROVE  /\ x \div p \in Nat /\ (x \div p) * p \in Nat
                         /\ (x \div p) * p <= x /\ x < (x \div p) * p + p
  <1>1. x = p * (x \div p) + (x % p) /\ x % p \in 0..(p - 1) /\ x \div p \in Int
    OBVIOUS
  <1>2. x \div p >= 0
    OBVIOUS
  <1> QED
    BY <1>1, <1>2

\* Multiples are in the order of their factors.
LEMMA MultipleGrows == ASSUME NEW p \in Nat \ {0}, NEW q \in Nat, NEW r \in Nat, q <= r
                       PROVE  q * p \in Nat /\ r * p \in Nat /\ q * p <= r * p
  <1>1. (r - q) * p >= 0
    OBVIOUS
  <1> QED
    BY <1>1

\* Masking an address with PAGE_FRAME keeps the order, and stays within a page.
LEMMA PageOrder == ASSUME SpaceAssumption, NEW a \in Nat, NEW b \in Nat, a <= b
                   PROVE  /\ PageOf(a) \in Nat /\ PageOf(b) \in Nat
                          /\ PageOf(a) <= PageOf(b) /\ PageOf(b) <= b
                          /\ a < PageOf(a) + PAGE_SIZE
  <1> DEFINE p == PAGE_SIZE
  <1>0. p \in Nat \ {0}
    OBVIOUS
  <1>1. /\ a \div p \in Nat /\ b \div p \in Nat
        /\ (a \div p) * p <= a /\ a < (a \div p) * p + p
        /\ (b \div p) * p <= b /\ b < (b \div p) * p + p
        /\ (a \div p) * p \in Nat /\ (b \div p) * p \in Nat
    BY <1>0, Multiple
  <1>2. (a \div p) * p <= (b \div p) * p
    <2>1. CASE a \div p <= b \div p
      BY <1>0, <1>1, <2>1, MultipleGrows
    <2>2. CASE (b \div p) + 1 <= a \div p
      <3>1. ((b \div p) + 1) * p <= (a \div p) * p
        BY <1>0, <1>1, <2>2, MultipleGrows
      <3>2. ((b \div p) + 1) * p = (b \div p) * p + p
        BY <1>0, <1>1
      <3> QED
        BY <1>0, <1>1, <3>1, <3>2
    <2> QED
      BY <1>1, <2>1, <2>2
  <1> QED
    BY <1>1, <1>2 DEF PageOf

\* A multiple of p and a remainder below p divide to the factor.
LEMMA DivExact == ASSUME NEW p \in Nat \ {0}, NEW q \in Nat, NEW r \in 0..(p - 1)
                  PROVE  (q * p + r) \div p = q
  <1> DEFINE x == q * p + r
             d == x \div p
  <1>1. x \in Nat /\ x < q * p + p /\ q * p <= x /\ q * p \in Nat
    <2>1. q * p \in Nat
      BY MultipleGrows
    <2> QED
      BY <2>1
  <1> HIDE DEF x
  <1>2. d \in Nat /\ d * p \in Nat /\ d * p <= x /\ x < d * p + p
    BY <1>1, Multiple
  <1> HIDE DEF d
  <1>3. ASSUME d + 1 <= q PROVE FALSE
    <2>1. (d + 1) * p <= q * p
      BY <1>2, <1>3, MultipleGrows
    <2>2. (d + 1) * p = d * p + p
      BY <1>2
    <2> QED
      BY <1>1, <1>2, <2>1, <2>2
  <1>4. ASSUME q + 1 <= d PROVE FALSE
    <2>1. (q + 1) * p <= d * p
      BY <1>2, <1>4, MultipleGrows
    <2>2. (q + 1) * p = q * p + p
      OBVIOUS
    <2> QED
      BY <1>1, <1>2, <2>1, <2>2
  <1>5. d = q
    BY <1>2, <1>3, <1>4
  <1> QED
    BY <1>5 DEF d, x

\* A region's pages reach behind its last byte.
LEMMA PagesCover ==
  ASSUME SpaceAssumption, NEW v \in Nat, NEW sz \in Nat
  PROVE  /\ RegionPages(v, sz) \in Nat /\ RegionPages(v, sz) * PAGE_SIZE \in Nat
         /\ v + sz <= PageOf(v) + RegionPages(v, sz) * PAGE_SIZE
  <1> DEFINE x == sz + (v - PageOf(v)) + PAGE_SIZE - 1
  <1>1. PAGE_SIZE \in Nat \ {0} /\ PageOf(v) \in Nat /\ PageOf(v) <= v
    BY PageOrder
  <1>2. x \in Nat
    BY <1>1
  <1>3. RegionPages(v, sz) = x \div PAGE_SIZE
    BY DEF RegionPages
  <1>4. v + sz = x + PageOf(v) - PAGE_SIZE + 1
    BY <1>1
  <1> HIDE DEF x
  <1>5. /\ x \div PAGE_SIZE \in Nat /\ (x \div PAGE_SIZE) * PAGE_SIZE \in Nat
        /\ x < (x \div PAGE_SIZE) * PAGE_SIZE + PAGE_SIZE
    BY <1>1, <1>2, Multiple
  <1> QED
    BY <1>1, <1>2, <1>3, <1>4, <1>5

\* The stack as as_define_stack() sets it up is what its region asks for.
LEMMA StackIsPages ==
  ASSUME SpaceAssumption
  PROVE  /\ StackRegion \in Nat \X Nat /\ StackRegion[1] + StackRegion[2] = USERTOP
         /\ PageOf(StackRegion[1]) = USERTOP - STACKPAGES * PAGE_SIZE
         /\ RegionPages(StackRegion[1], StackRegion[2]) = STACKPAGES
  <1> DEFINE p == PAGE_SIZE
             k == USERTOP \div p
             v == USERTOP - STACKPAGES * p
  <1>0. p \in Nat \ {0} /\ STACKPAGES \in Nat /\ USERTOP \in Nat /\ STACKPAGES * p <= USERTOP
        /\ USERTOP % p = 0
    OBVIOUS
  <1>1. USERTOP = k * p + (USERTOP % p) /\ k \in Int
    BY <1>0
  <1>2. k \in Nat /\ USERTOP = k * p
    BY <1>0, <1>1, Multiple
  <1>3. STACKPAGES * p \in Nat
    BY <1>0, MultipleGrows
  <1> HIDE DEF k
  <1>4. STACKPAGES <= k
    <2> SUFFICES ASSUME k + 1 <= STACKPAGES PROVE FALSE
      BY <1>0, <1>2
    <2>1. (k + 1) * p <= STACKPAGES * p
      BY <1>0, <1>2, MultipleGrows
    <2>2. (k + 1) * p = k * p + p
      BY <1>0, <1>2
    <2> QED
      BY <1>0, <1>2, <1>3, <2>1, <2>2
  <1>5. v = (k - STACKPAGES) * p + 0 /\ k - STACKPAGES \in Nat /\ v \in Nat
    BY <1>0, <1>2, <1>3, <1>4
  <1>6. (v \div p) * p = v
    <2> DEFINE q == k - STACKPAGES
    <2>1. v = q * p + 0 /\ q \in Nat /\ 0 \in 0..(p - 1)
      BY <1>0, <1>5
    <2> HIDE DEF q, v, p
    <2>2. v \div p = q
      BY <2>1, <1>0, DivExact
    <2> QED
      BY <2>1, <2>2, <1>0
  <1>7. PageOf(v) = v
    BY <1>6 DEF PageOf
  <1>8. RegionPages(v, STACKPAGES * p) = STACKPAGES
    <2>1. RegionPages(v, STACKPAGES * p) = (STACKPAGES * p + (v - v) + p - 1) \div p
      BY <1>7 DEF RegionPages
    <2>2. STACKPAGES * p + (v - v) + p - 1 = STACKPAGES * p + (p - 1)
      BY <1>0, <1>3, <1>5
    <2>3. (STACKPAGES * p + (p - 1)) \div p = STACKPAGES
      BY <1>0, DivExact
    <2> QED
      BY <2>1, <2>2, <2>3
  <1>9. StackRegion = <<v, STACKPAGES * p>>
    BY DEF StackRegion
  <1>10. v + STACKPAGES * p = USERTOP
    BY <1>0, <1>3
  <1> HIDE DEF v, p
  <1>11. StackRegion[1] = v /\ StackRegion[2] = STACKPAGES * p /\ StackRegion \in Nat \X Nat
    BY <1>3, <1>5, <1>9
  <1> QED
    BY <1>7, <1>8, <1>10, <1>11 DEF v, p

\* as_create() leaves an address space that nothing was asked of.
LEMMA SpaceInit == AsInit => SpaceInv
  BY DEF AsInit, SpaceInv, Stack, AS_NUM_SEG

\* What is recorded of a region stays, while its segment does.
LEMMA HoldsOn ==
  ASSUME NEW f, NEW q
  PROVE  /\ segments'[f] = segments[f] /\ Holds(f, q) => Holds(f, q)'
         /\ segments'[f] = [active |-> TRUE, vbase |-> PageOf(q[1]),
                            size |-> RegionPages(q[1], q[2]), pt |-> "its own"] => Holds(f, q)'
  <1>1. ASSUME segments'[f] = segments[f], Holds(f, q) PROVE Holds(f, q)'
    BY <1>1 DEF Holds, PageOf, RegionPages
  <1>2. ASSUME segments'[f] = [active |-> TRUE, vbase |-> PageOf(q[1]),
                               size |-> RegionPages(q[1], q[2]), pt |-> "its own"]
        PROVE  Holds(f, q)'
    <2> DEFINE s == segments'[f]
    <2>1. s = [active |-> TRUE, vbase |-> PageOf(q[1]),
               size |-> RegionPages(q[1], q[2]), pt |-> "its own"]
      BY <1>2, Zenon
    <2> HIDE DEF s
    <2>2. s.active = TRUE /\ s.vbase = PageOf(q[1]) /\ s.size = RegionPages(q[1], q[2])
      BY <2>1, Zenon
    <2> QED
      BY <2>2 DEF s, Holds, PageOf, RegionPages
  <1> QED
    BY <1>1, <1>2, Zenon

\* The segments are numbered 0, 1 and 2, and the stack is the last.
LEMMA StackIsLast == Stack = 2 /\ AS_NUM_SEG = 3
  BY DEF Stack, AS_NUM_SEG

\* Every call on the address space keeps the invariant.
LEMMA SpaceStep == ASSUME SpaceAssumption PROVE SpaceInv /\ [AsNext]_as_vars => SpaceInv'
  <1> SUFFICES ASSUME SpaceInv, [AsNext]_as_vars PROVE SpaceInv'
    OBVIOUS
  <1>1. ASSUME NEW r \in Regions, as_define_region(r[1], r[2]) PROVE SpaceInv'
    <2>00. num_segments < 2
      <3>1. num_segments < AS_NUM_SEG - 1
        BY <1>1, Zenon DEF as_define_region
      <3> QED
        BY <3>1, StackIsLast
    <2>0. PICK n \in 0..1 : num_segments = n
      BY <2>00 DEF SpaceInv
    <2> DEFINE seg == [active |-> TRUE, vbase |-> PageOf(r[1]),
                       size |-> RegionPages(r[1], r[2]), pt |-> "its own"]
    <2>1. /\ num_segments' = n + 1
          /\ segments' = [segments EXCEPT ![n] = seg]
          /\ asked' = asked \cup {<<r[1], r[2]>>}
      BY <1>1, <2>0, Zenon DEF as_define_region
    <2> HIDE DEF seg
    <2>2. <<r[1], r[2]>> = r /\ r \in Nat \X Nat /\ r[1] + r[2] <= USERTOP
      OBVIOUS
    <2>3. segments'[n] = seg /\ \A f \in (0..2) \ {n} : segments'[f] = segments[f]
      BY <2>1 DEF SpaceInv
    <2>4. ASSUME NEW q, NEW f \in (0..2) \ {n}, Holds(f, q) PROVE Holds(f, q)'
      BY <2>3, <2>4, HoldsOn, Zenon
    <2>5. Holds(n, r)'
      BY <2>3, HoldsOn, Zenon DEF seg
    <2>6. ASSUME NEW q \in asked'
          PROVE  /\ q[1] + q[2] <= USERTOP
                 /\ \/ \E f \in 0..(num_segments' - 1) : Holds(f, q)'
                    \/ q = StackRegion /\ Holds(2, q)'
      <3>1. CASE q = r
        BY <2>1, <2>2, <2>5, <3>1
      <3>2. CASE q \in asked
        <4>1. q[1] + q[2] <= USERTOP
          BY <3>2 DEF SpaceInv
        <4>2. CASE q = StackRegion /\ Holds(2, q)
          BY <2>1, <2>4, <4>1, <4>2
        <4>3. ASSUME NEW f \in 0..(n - 1), Holds(f, q) PROVE \E j \in 0..(num_segments' - 1) : Holds(j, q)'
          <5>1. f \in (0..2) \ {n} /\ f \in 0..(num_segments' - 1)
            BY <2>1
          <5> QED
            BY <5>1, <2>4, <4>3
        <4> QED
          BY <2>0, <3>2, <4>1, <4>2, <4>3 DEF SpaceInv
      <3> QED
        BY <2>1, <2>2, <2>6, <3>1, <3>2
    <2>7. DOMAIN segments' = 0..2 /\ num_segments' \in 0..2 /\ asked' \subseteq Nat \X Nat
      BY <2>1, <2>2 DEF SpaceInv
    <2> QED
      BY <2>6, <2>7, Zenon DEF SpaceInv, StackRegion
  <1>2. ASSUME as_define_stack PROVE SpaceInv'
    <2> DEFINE seg == [active |-> TRUE, vbase |-> PageOf(StackRegion[1]),
                       size |-> RegionPages(StackRegion[1], StackRegion[2]), pt |-> "its own"]
    <2>0. seg = [active |-> TRUE, vbase |-> USERTOP - STACKPAGES * PAGE_SIZE,
                 size |-> STACKPAGES, pt |-> "its own"]
      BY StackIsPages, Zenon
    <2> HIDE DEF seg
    <2>1. /\ num_segments' = num_segments
          /\ segments' = [segments EXCEPT ![2] = seg]
          /\ asked' = asked \cup {StackRegion}
      BY <1>2, <2>0, StackIsLast, Zenon DEF as_define_stack, StackRegion
    <2>2. segments'[2] = seg /\ \A f \in 0..1 : segments'[f] = segments[f]
      BY <2>1 DEF SpaceInv
    <2>3. ASSUME NEW q, NEW f \in 0..1, Holds(f, q) PROVE Holds(f, q)'
      BY <2>2, <2>3, HoldsOn, Zenon
    <2>4. Holds(2, StackRegion)'
      BY <2>2, HoldsOn, Zenon DEF seg
    <2>5. ASSUME NEW q \in asked'
          PROVE  /\ q[1] + q[2] <= USERTOP
                 /\ \/ \E f \in 0..(num_segments' - 1) : Holds(f, q)'
                    \/ q = StackRegion /\ Holds(2, q)'
      <3>1. CASE q = StackRegion
        <4>1. q[1] + q[2] <= USERTOP
          BY <3>1, StackIsPages
        <4> QED
          BY <2>4, <3>1, <4>1
      <3>2. CASE q \in asked /\ q # StackRegion
        <4>1. q[1] + q[2] <= USERTOP /\ \E f \in 0..(num_segments - 1) : Holds(f, q)
          BY <3>2 DEF SpaceInv
        <4>2. PICK f \in 0..(num_segments - 1) : Holds(f, q)
          BY <4>1
        <4>3. f \in 0..1
          BY DEF SpaceInv
        <4> QED
          BY <4>1, <4>2, <4>3, <2>1, <2>3
      <3> QED
        BY <2>1, <2>5, <3>1, <3>2
    <2>6. DOMAIN segments' = 0..2 /\ num_segments' \in 0..2 /\ asked' \subseteq Nat \X Nat
      BY <2>1, StackIsPages DEF SpaceInv
    <2> QED
      BY <2>5, <2>6, Zenon DEF SpaceInv, StackRegion
  <1>3. CASE UNCHANGED <<segments, num_segments, asked>>
    BY <1>3 DEF SpaceInv, Holds, StackRegion, PageOf, RegionPages
  <1> QED
    BY <1>1, <1>2, <1>3 DEF AsNext, as_vars, as_destroy_segments

\* Every byte of every region a program file or the stack asked for is accepted
\* by as_valid_read_addr() and found by as_get_segment(), for every page size,
\* alignment and length.
THEOREM SpaceIsReachable == AsSpec => []SpaceAskedIsReachable
  <1>1. SpaceInv => SpaceAskedIsReachable
    <2> SUFFICES ASSUME SpaceInv, NEW r \in asked, NEW b \in r[1]..(r[1] + r[2] - 1)
                 PROVE  as_valid_read_addr(PageOf(b)) /\ as_get_segment(PageOf(b)) # {}
      BY DEF SpaceAskedIsReachable
    <2> DEFINE a == PageOf(b)
               g == RegionPages(r[1], r[2])
    <2>1. r[1] \in Nat /\ r[2] \in Nat /\ b \in Nat /\ r[1] <= b /\ b < r[1] + r[2]
      BY DEF SpaceInv
    <2>2. PICK f \in 0..2 : Holds(f, r)
      BY StackIsPages DEF SpaceInv
    <2>3. a \in Nat /\ PageOf(r[1]) \in Nat /\ PageOf(r[1]) <= a /\ a <= b
      BY SpaceAssumption, <2>1, PageOrder
    <2>4. g \in Nat /\ g * PAGE_SIZE \in Nat /\ r[1] + r[2] <= PageOf(r[1]) + g * PAGE_SIZE
      BY SpaceAssumption, <2>1, PagesCover, Zenon
    <2>5. /\ segments[f].active /\ segments[f].vbase = PageOf(r[1]) /\ segments[f].size = g
      BY <2>2 DEF Holds
    <2>6. USERTOP \in Nat /\ PAGE_SIZE \in Nat /\ r[1] + r[2] <= USERTOP
      BY SpaceAssumption DEF SpaceInv
    <2> HIDE DEF a, g
    <2>7. a < USERTOP /\ a < PageOf(r[1]) + g * PAGE_SIZE
      BY <2>1, <2>3, <2>4, <2>6
    <2>8. PAGE_SIZE * g = g * PAGE_SIZE
      BY <2>4, <2>6
    <2>9. a < PageOf(r[1]) + 4 * (PAGE_SIZE * g)
      <3> DEFINE m == g * PAGE_SIZE
      <3>1. m \in Nat /\ a < PageOf(r[1]) + m /\ PAGE_SIZE * g = m
        BY <2>4, <2>7, <2>8
      <3> HIDE DEF m
      <3>2. a < PageOf(r[1]) + 4 * m
        BY <2>3, <3>1
      <3> QED
        BY <3>1, <3>2
    <2>10. as_valid_read_addr(a)
      BY <2>3, <2>5, <2>7, <2>9 DEF as_valid_read_addr, Stack, AS_NUM_SEG
    <2>11. f \in as_get_segment(a)
      BY <2>3, <2>5, <2>7 DEF as_get_segment, Stack, AS_NUM_SEG
    <2> QED
      BY <2>10, <2>11 DEF a
  <1> QED
    BY SpaceAssumption, <1>1, SpaceInit, SpaceStep, PTL DEF AsSpec

----------------------------------------------------------------------------
(* The TLB *)

\* Every page has at most one slot, and the list leads to slots only.
SlotInv ==
  /\ entry \in [Index -> Vpn \cup {NULL}]
  /\ next_free \in [Index -> Index \cup {NULL}]
  /\ tlbnextfree \in Index \cup {NULL}
  /\ next_victim \in Index
  /\ \A m, j \in Index : entry[m] = entry[j] /\ entry[m] # NULL => m = j

\* An empty TLB has no translations.
LEMMA SlotInit == ASSUME SlotAssumption PROVE TlbInit => SlotInv /\ Present = {}
  <1> SUFFICES ASSUME TlbInit PROVE SlotInv /\ Present = {}
    OBVIOUS
  <1> USE DEF TlbInit, Index
  <1>1. SlotInv
    BY DEF SlotInv, InitialNext
  <1>2. Present = {}
    BY DEF Present, Matching
  <1> QED
    BY <1>1, <1>2

\* The number a node stands for is that of a slot once the hardware has cut
\* it down, although the last node has the number behind the last slot.
LEMMA SlotOfNode ==
  ASSUME SlotAssumption, NEW m \in Index
  PROVE  id(m) % NUM_TLB \in Index /\ m % NUM_TLB = m
  <1>1. NUM_TLB % NUM_TLB = 0 /\ m % NUM_TLB = m
    BY DEF Index
  <1> QED
    BY <1>1 DEF Index, id

\* Writing slot m: at most its page is lost.
LEMMA SlotWrite ==
  ASSUME SlotAssumption, SlotInv, NEW m \in Index, NEW v \in Vpn, Matching(v) = {},
         entry' = [entry EXCEPT ![m] = v]
  PROVE  Translations!Add(v)
  <1> DEFINE lost == Present \ Present'
  <1>1. v \notin Present
    BY DEF Present
  <1>2. lost \subseteq {entry[m]}
    <2> SUFFICES ASSUME NEW w \in Vpn, NEW j \in Index, entry[j] = w, w # entry[m]
                 PROVE  w \in Present'
      BY DEF Present, Matching
    <2>1. entry'[j] = w
      BY DEF SlotInv
    <2> QED
      BY <2>1 DEF Present, Matching
  <1>3. Present' = (Present \ lost) \cup {v}
    <2>1. v \in Present'
      <3>1. entry'[m] = v
        BY DEF SlotInv
      <3> QED
        BY <3>1 DEF Present, Matching
    <2>2. ASSUME NEW w \in Present', w # v PROVE w \in Present
      <3>1. PICK j \in Index : entry'[j] = w
        BY <2>2 DEF Present, Matching
      <3>2. entry[j] = w
        BY <2>2, <3>1 DEF SlotInv
      <3> QED
        BY <2>2, <3>2 DEF Present, Matching
    <2> QED
      BY <2>1, <2>2
  <1>4. \A u, w \in lost : u = w
    BY <1>2
  <1> QED
    BY <1>1, <1>3, <1>4, Zenon DEF Translations!Add

\* Every step keeps the slots sound, and is a step on the set of translations or
\* leaves it alone.
LEMMA SlotStep ==
  ASSUME SlotAssumption
  PROVE  SlotInv /\ [TlbNext]_tlb_vars => SlotInv' /\ [Translations!Next]_(Present)
  <1> SUFFICES ASSUME SlotInv, [TlbNext]_tlb_vars
               PROVE  SlotInv' /\ [Translations!Next]_(Present)
    OBVIOUS
  <1>0. Index' = Index /\ NUM_TLB \in Nat /\ NUM_TLB > 0
    BY DEF Index
  <1>1. ASSUME NEW v \in Vpn, tlb_add_entry(v)
        PROVE  SlotInv' /\ [Translations!Next]_(Present)
    <2>1. PICK m \in Index : entry' = [entry EXCEPT ![m] = v]
      <3>1. CASE tlb_get_free_entry /\ TLB_Write(v, id(tlbnextfree))
        <4>1. tlbnextfree \in Index
          BY <3>1 DEF tlb_get_free_entry, SlotInv
        <4>2. id(tlbnextfree) % NUM_TLB \in Index
          BY <4>1, SlotOfNode
        <4> QED
          BY <3>1, <4>2, Zenon DEF TLB_Write
      <3>2. CASE TLB_Write(v, next_victim)
        <4>1. next_victim \in Index /\ next_victim % NUM_TLB = next_victim
          BY SlotOfNode DEF SlotInv
        <4> QED
          BY <3>2, <4>1, Zenon DEF TLB_Write
      <3> QED
        BY <1>1, <3>1, <3>2 DEF tlb_add_entry
    <2>2. Matching(v) = {} /\ v # NULL
      BY <1>1 DEF tlb_add_entry
    <2>3. /\ next_free' \in [Index -> Index \cup {NULL}]
          /\ tlbnextfree' \in Index \cup {NULL}
      BY <1>1 DEF tlb_add_entry, tlb_get_free_entry, SlotInv
    <2>4. next_victim' \in Index
      <3>1. next_victim' = next_victim \/ next_victim' = (next_victim + 1) % NUM_TLB
        BY <1>1 DEF tlb_add_entry, tlb_get_rr_victim
      <3> QED
        BY <1>0, <3>1 DEF SlotInv, Index
    <2>5. entry' \in [Index -> Vpn \cup {NULL}]
      BY <2>1 DEF SlotInv
    <2>6. \A j, k \in Index : entry'[j] = entry'[k] /\ entry'[j] # NULL => j = k
      BY <2>1, <2>2 DEF SlotInv, Matching
    <2>7. Translations!Add(v)
      BY <2>1, <2>2, SlotWrite, Zenon
    <2> QED
      BY <1>0, <2>3, <2>4, <2>5, <2>6, <2>7 DEF SlotInv, Translations!Next
  <1>2. ASSUME NEW v \in Vpn, tlb_invalidate_vaddr(v)
        PROVE  SlotInv' /\ [Translations!Next]_(Present)
    <2>1. PICK m \in Index : /\ entry[m] = v /\ entry' = [entry EXCEPT ![m] = NULL]
                              /\ next_free' = [next_free EXCEPT ![m] = tlbnextfree]
                              /\ tlbnextfree' = m /\ next_victim' = next_victim
      BY <1>2, SlotOfNode, Zenon DEF tlb_invalidate_vaddr, TLB_Write, Matching
    <2>2. SlotInv'
      BY <1>0, <2>1 DEF SlotInv
    <2>3. Present' = Present \ {v}
      <3>1. ASSUME NEW w \in Vpn, w # v PROVE w \in Present' <=> w \in Present
        <4>1. \A j \in Index : entry'[j] = w <=> entry[j] = w
          BY <2>1, <3>1 DEF SlotInv
        <4> QED
          BY <4>1, <1>0 DEF Present, Matching
      <3>2. v \notin Present'
        BY <2>1, <1>0 DEF SlotInv, Present, Matching
      <3> QED
        BY <3>1, <3>2 DEF Present
    <2> QED
      BY <2>2, <2>3 DEF Translations!Next, Translations!Invalidate
  <1>3. ASSUME tlb_context_switch
        PROVE  SlotInv' /\ [Translations!Next]_(Present)
    <2>1. SlotInv'
      BY <1>0, <1>3 DEF tlb_context_switch, InitialNext, SlotInv, Index
    <2>2. Present' = {}
      BY <1>3 DEF tlb_context_switch, Present, Matching, Index
    <2> QED
      BY <2>1, <2>2 DEF Translations!Next, Translations!Flush
  <1>4. CASE UNCHANGED tlb_vars
    BY <1>4, <1>0 DEF tlb_vars, SlotInv, Present, Matching
  <1> QED
    BY <1>1, <1>2, <1>3, <1>4 DEF TlbNext

\* vm_tlb.c is a set of translations: tlb_add_entry() loses at most one other,
\* tlb_invalidate_vaddr() removes what it is given and nothing else, and
\* tlb_context_switch() everything, for every number of slots.
THEOREM TLBIsASet == TlbSpec => TLBImplements
  <1>1. TlbInit => SlotInv /\ Translations!Init
    BY SlotAssumption, SlotInit DEF Translations!Init
  <1> QED
    BY SlotAssumption, <1>1, SlotStep, PTL DEF TlbSpec, TLBImplements, Translations!Spec
=============================================================================
