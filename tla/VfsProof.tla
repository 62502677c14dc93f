------------------------------ MODULE VfsProof ------------------------------
(*************************************************************************)
(* That the counts of the VFS layer are exact.  Every function is shown to *)
(* leave them exact but for the references its caller has in hand: h says  *)
(* how many of each vnode.  What an operation hands back is added to h,    *)
(* what is dropped is taken from it, and at the end of a system call       *)
(* nothing is in hand.                                                     *)
(*************************************************************************)
EXTENDS VFS, WellFoundedInduction, FiniteSetTheorems, TLAPS

Devs == DOMAIN KnownDevs

\* An entry of the table of devices.
IsEntry(kd) ==
  /\ kd = [name |-> kd.name, fs |-> kd.fs, rawname |-> kd.rawname]
  /\ kd.fs \in FS \cup {NoFS}
  /\ kd.rawname # NULL => OnDisk[kd.name] \in FS

\* A state of the layer.
Record(t) ==
  t = [knowndevs |-> t.knowndevs, refcount |-> t.refcount, opencount |-> t.opencount,
       names |-> t.names, cwd |-> t.cwd, bootfs |-> t.bootfs, open |-> t.open,
       failing |-> t.failing, leaked |-> t.leaked, panic |-> t.panic]

IsState(s) ==
  /\ Record(s)
  /\ DOMAIN s.knowndevs = Devs /\ \A i \in Devs : IsEntry(s.knowndevs[i])
  /\ s.refcount \in [Vnode -> Nat] /\ s.opencount \in [Vnode -> Nat] /\ s.open \in [Vnode -> Nat]
  /\ DOMAIN s.names = FS
  /\ \A fs \in FS : \A name \in DOMAIN s.names[fs] : s.names[fs][name] \in 0..MaxIno
  /\ s.cwd \in [Proc -> Vnode \cup {NULL}]
  /\ s.bootfs \in Vnode \cup {NULL}
  /\ s.panic \in BOOLEAN

\* The holders of v, as Holders has them.
Hold(s, v) ==
  s.open[v] + Cardinality({t \in Proc : s.cwd[t] = v})
  + (IF s.bootfs = v THEN 1 ELSE 0) + (IF v.kind = "dev" \/ v \in s.leaked THEN 1 ELSE 0)

\* The counts are exact, but for the references h that an operation has in
\* hand: h says how many of each vnode.
Exact(s, h) ==
  \A v \in Vnode : s.refcount[v] = Hold(s, v) + h[v] /\ s.opencount[v] = s.open[v]

Hand == [Vnode -> Nat]
Good(s, h) == IsState(s) /\ (s.panic = FALSE => Exact(s, h))

Empty == [v \in Vnode |-> 0]
Plus(h, v) == [h EXCEPT ![v] = h[v] + 1]
Minus(h, v) == [h EXCEPT ![v] = h[v] - 1]

IsResult(r) == r = [s |-> r.s, err |-> r.err, val |-> r.val]

\* What an operation that hands back a vnode, and one that does not, leaves.
Gives(r, h) ==
  /\ IsResult(r)
  /\ r.err = "ok" => r.val \in Vnode /\ Good(r.s, Plus(h, r.val))
  /\ r.err # "ok" => Good(r.s, h)
Leaves(r, h) == IsResult(r) /\ Good(r.s, h)

VfsInv == Good(vfs, Empty)

----------------------------------------------------------------------------
\* A set of numbers that is not empty has a least one.  Induction over data is
\* used in this form: the least case that fails does not.
LEMMA SmallestNat == ASSUME NEW T \in SUBSET Nat, T # {}
                     PROVE  \E x \in T : \A y \in T : x <= y
  <1>1. PICK x \in T : \A y \in T : ~ (<<y, x>> \in OpToRel(<, Nat))
    BY WFMin, NatLessThanWellFounded, Zenon
  <1>2. \A y \in T : ~ (y < x)
    BY <1>1, Zenon DEF OpToRel
  <1> QED
    BY <1>2

\* What the lookups find first is one of those they look for.
LEMMA VfsMin == ASSUME NEW T \in SUBSET Nat, T # {} PROVE Min(T) \in T
  BY SmallestNat, Zenon DEF Min

\* vfs_doadd(), one call after the other, makes a table.
LEMMA DevsAreNumbered ==
  ASSUME VfsConstants
  PROVE  Devs \subseteq Nat /\ \A i \in Devs : IsEntry(KnownDevs[i])
  <1> DEFINE N == Len(Attach)
             Step(f, k) == IF k = 0 THEN <<>> ELSE vfs_doadd(f[k - 1], Attach[k])
             Upto(f, n) == \A k \in 0..n : f[k] = Step(f, k)
             Bad == {n \in 0..N : ~ \E f : Upto(f, n)}
  <1>1. N \in Nat
    OBVIOUS
  <1>2. Bad = {}
    <2> SUFFICES ASSUME Bad # {} PROVE FALSE
      OBVIOUS
    <2>0. Bad \in SUBSET Nat
      BY <1>1
    <2>1. PICK n \in Bad : \A m \in Bad : n <= m
      <3> HIDE DEF Bad
      <3> QED
        BY <2>0, SmallestNat
    <2>2. n # 0
      <3> DEFINE f == [k \in {0} |-> <<>>]
      <3>1. \A k \in 0..0 : f[k] = Step(f, k)
        OBVIOUS
      <3> QED
        BY <3>1, Zenon
    <2>3. n - 1 \in 0..N /\ n - 1 \notin Bad
      <3>1. n \in 0..N
        OBVIOUS
      <3> HIDE DEF Bad
      <3> QED
        BY <1>1, <2>1, <2>2, <3>1
    <2>4. PICK f : Upto(f, n - 1)
      BY <2>3
    <2> DEFINE h == [k \in 0..n |-> IF k = n THEN vfs_doadd(f[n - 1], Attach[n]) ELSE f[k]]
    <2>5. Upto(h, n)
      <3> SUFFICES ASSUME NEW k \in 0..n PROVE h[k] = Step(h, k)
        BY Zenon
      <3>1. CASE k = n
        BY <1>1, <2>1, <2>2, <3>1
      <3>2. CASE k = 0
        BY <1>1, <2>1, <2>2, <2>4, <3>2
      <3>3. CASE k # n /\ k # 0
        <4>1. k \in 0..(n - 1) /\ k - 1 \in 0..n /\ k - 1 # n
          BY <1>1, <2>1, <3>3
        <4>2. h[k] = f[k] /\ h[k - 1] = f[k - 1]
          BY <3>3, <4>1
        <4>3. f[k] = Step(f, k)
          BY <2>4, <4>1
        <4> QED
          BY <3>3, <4>2, <4>3
      <3> QED
        BY <3>1, <3>2, <3>3
    <2> QED
      BY <2>1, <2>5, Zenon
  <1>3. PICK f : Upto(f, N)
    <2>1. N \in 0..N /\ N \notin Bad
      BY <1>1, <1>2
    <2> QED
      BY <2>1
  <1> DEFINE e == [k \in 0..N |-> f[k]]
  <1>4. e = [k \in 0..N |-> Step(e, k)]
    <2>1. \A k \in 0..N : k # 0 => k - 1 \in 0..N
      BY <1>1
    <2>2. \A k \in 0..N : e[k] = Step(e, k)
      BY <1>3, <2>1
    <2> QED
      BY <2>2
  <1>5. AfterAttach = [k \in 0..N |-> Step(AfterAttach, k)]
    BY <1>4, Zenon DEF AfterAttach
  <1> DEFINE E == AfterAttach
             IsTable(kds) == \E m \in Nat : DOMAIN kds = 1..m /\ Len(kds) = m /\ \A i \in 1..m : IsEntry(kds[i])
             Wrong == {k \in 0..N : ~IsTable(E[k])}
  <1>6. \A k \in 0..N : E[k] = IF k = 0 THEN <<>> ELSE vfs_doadd(E[k - 1], Attach[k])
    BY <1>5
  <1> HIDE DEF E
  <1>7. Wrong = {}
    <2> SUFFICES ASSUME Wrong # {} PROVE FALSE
      OBVIOUS
    <2>0. Wrong \in SUBSET Nat
      BY <1>1
    <2>1. PICK n \in Wrong : \A m \in Wrong : n <= m
      <3> HIDE DEF Wrong
      <3> QED
        BY <2>0, SmallestNat
    <2>2. n # 0
      <3>1. 0 \in Nat /\ DOMAIN <<>> = 1..0 /\ Len(<<>>) = 0
        OBVIOUS
      <3> QED
        BY <1>1, <1>6, <2>1, <3>1
    <2>3. n - 1 \in 0..N /\ n - 1 \notin Wrong
      <3>1. n \in 0..N
        OBVIOUS
      <3> HIDE DEF Wrong
      <3> QED
        BY <1>1, <2>1, <2>2, <3>1
    <2>4. PICK m \in Nat : DOMAIN E[n - 1] = 1..m /\ Len(E[n - 1]) = m /\ \A i \in 1..m : IsEntry(E[n - 1][i])
      BY <2>3
    <2> DEFINE a == Attach[n]
               kd == [name |-> a.name, fs |-> a.fs,
                      rawname |-> IF a.mountable THEN mkrawname(a.name) ELSE NULL]
    <2>5. E[n] = E[n - 1] \/ E[n] = Append(E[n - 1], kd)
      BY <1>1, <1>6, <2>1, <2>2, Zenon DEF vfs_doadd
    <2>6. IsEntry(kd)
      <3>1. n \in 1..Len(Attach)
        BY <1>1, <2>1, <2>2
      <3>2. a.fs \in FS \cup {NoFS} /\ (a.mountable => OnDisk[a.name] \in FS)
        BY <3>1 DEF VfsConstants
      <3> HIDE DEF a, Wrong
      <3>3. /\ kd.name = a.name /\ kd.fs = a.fs
            /\ kd.rawname = IF a.mountable THEN mkrawname(a.name) ELSE NULL
            /\ kd = [name |-> kd.name, fs |-> kd.fs, rawname |-> kd.rawname]
        OBVIOUS
      <3> HIDE DEF kd
      <3> QED
        BY <3>2, <3>3 DEF IsEntry
    <2> HIDE DEF kd
    <2> DEFINE q == E[n - 1]
    <2>7. DOMAIN q = 1..m /\ Len(q) = m /\ \A i \in 1..m : IsEntry(q[i])
      BY <2>4
    <2> HIDE DEF q
    <2>8. /\ DOMAIN Append(q, kd) = 1..(m + 1) /\ Len(Append(q, kd)) = m + 1
          /\ \A i \in 1..(m + 1) : Append(q, kd)[i] = IF i = m + 1 THEN kd ELSE q[i]
      BY <2>7
    <2>9. IsTable(E[n])
      <3>1. IsTable(q)
        BY <2>7
      <3>2. IsTable(Append(q, kd))
        <4>1. m + 1 \in Nat /\ \A i \in 1..(m + 1) : i # m + 1 => i \in 1..m
          OBVIOUS
        <4>2. \A i \in 1..(m + 1) : IsEntry(Append(q, kd)[i])
          BY <2>6, <2>7, <2>8, <4>1
        <4> QED
          BY <2>8, <4>1, <4>2
      <3> HIDE DEF IsTable
      <3> QED
        BY <2>5, <3>1, <3>2, Zenon DEF q
    <2> QED
      BY <2>1, <2>9
  <1>8. IsTable(KnownDevs)
    BY <1>1, <1>7 DEF KnownDevs, E
  <1> QED
    BY <1>8 DEF Devs

\* Adding a thread to a set of threads or taking one from it changes its size
\* by one.
LEMMA ThreadSets ==
  ASSUME VfsConstants, NEW S \in SUBSET Proc
  PROVE  /\ Cardinality(S) \in Nat /\ (S = {} => Cardinality(S) = 0)
         /\ \A x \in Proc \ S : Cardinality(S \cup {x}) = Cardinality(S) + 1
         /\ \A x \in S : Cardinality(S \ {x}) = Cardinality(S) - 1
  <1>1. IsFiniteSet(S)
    BY FS_Subset DEF VfsConstants
  <1>2. Cardinality(S) \in Nat /\ (S = {} => Cardinality(S) = 0)
    BY <1>1, FS_CardinalityType, FS_EmptySet
  <1>3. \A x \in Proc \ S : Cardinality(S \cup {x}) = Cardinality(S) + 1
    BY <1>1, FS_AddElement
  <1>4. \A x \in S : Cardinality(S \ {x}) = Cardinality(S) - 1
    BY <1>1, FS_RemoveElement
  <1> QED
    BY <1>2, <1>3, <1>4

----------------------------------------------------------------------------
(* Hands, and single changes of the state. *)

\* A reference that is taken can be given back.
LEMMA HandPlus == ASSUME NEW h \in Hand, NEW v \in Vnode
                  PROVE  /\ Plus(h, v) \in Hand /\ Plus(h, v)[v] >= 1
                         /\ Minus(Plus(h, v), v) = h
  <1>1. Plus(h, v) \in Hand /\ Plus(h, v)[v] >= 1
    BY DEF Plus, Hand
  <1>2. \A u \in Vnode : Minus(Plus(h, v), v)[u] = h[u]
    BY DEF Plus, Minus, Hand
  <1>3. Minus(Plus(h, v), v) = [u \in Vnode |-> Minus(Plus(h, v), v)[u]]
    BY <1>1, Zenon DEF Minus, Hand
  <1>4. h = [u \in Vnode |-> h[u]]
    BY DEF Hand
  <1> QED
    BY <1>1, <1>2, <1>3, <1>4

\* References are given back in any order.
LEMMA HandSwap == ASSUME NEW h \in Hand, NEW v \in Vnode, NEW w \in Vnode
                  PROVE  /\ Plus(Plus(h, v), w)[v] >= 1
                         /\ Minus(Plus(Plus(h, v), w), v) = Plus(h, w)
                         /\ Plus(Plus(h, v), w) = Plus(Plus(h, w), v)
  <1> DEFINE a == Plus(Plus(h, v), w)
  <1>1. a \in Hand /\ Plus(h, w) \in Hand /\ Plus(h, v) \in Hand /\ Plus(Plus(h, w), v) \in Hand
    BY DEF Plus, Hand
  <1>2. a[v] >= 1
    BY DEF Plus, Hand
  <1>3. \A u \in Vnode : Minus(a, v)[u] = Plus(h, w)[u]
    BY DEF Plus, Minus, Hand
  <1>4. \A u \in Vnode : a[u] = Plus(Plus(h, w), v)[u]
    BY DEF Plus, Hand
  <1>5. DOMAIN Minus(a, v) = Vnode /\ Minus(a, v) = [u \in Vnode |-> Minus(a, v)[u]]
    BY <1>1, Zenon DEF Minus, Hand
  <1>6. Plus(h, w) = [u \in Vnode |-> Plus(h, w)[u]]
    BY <1>1 DEF Hand
  <1>7. Minus(a, v) = Plus(h, w)
    BY <1>3, <1>5, <1>6
  <1>8. a = Plus(Plus(h, w), v)
    BY <1>1, <1>4 DEF Hand
  <1> QED
    BY <1>2, <1>7, <1>8

\* What does not touch the counts and the holders.
LEMMA KeepGood ==
  ASSUME NEW h \in Hand, NEW s, Good(s, h), NEW t, IsState(t),
         t.refcount = s.refcount, t.opencount = s.opencount, t.open = s.open, t.cwd = s.cwd,
         t.bootfs = s.bootfs, t.leaked = s.leaked, t.panic = s.panic
  PROVE  Good(t, h)
  BY DEF Good, Exact, Hold

\* Nothing is claimed of the counts after a panic.
LEMMA PanicGood ==
  ASSUME NEW h \in Hand, NEW s, IsState(s) PROVE Good(Panic(s), h)
  <1> DEFINE t == Panic(s)
  <1>0. t = [s EXCEPT !.panic = TRUE]
    BY DEF Panic
  <1> HIDE DEF t
  <1>1. t.panic = TRUE
    BY <1>0 DEF IsState, Record
  <1>2. Record(t)
    BY <1>0, Zenon DEF IsState, Record
  <1>3. t.knowndevs = s.knowndevs /\ t.refcount = s.refcount /\ t.opencount = s.opencount /\ t.names = s.names
        /\ t.cwd = s.cwd /\ t.bootfs = s.bootfs /\ t.leaked = s.leaked /\ t.open = s.open
    BY <1>0 DEF IsState, Record
  <1>4. IsState(t)
    BY <1>1, <1>2, <1>3, Zenon DEF IsState, Record
  <1> QED
    BY <1>1, <1>4 DEF Good, t

\* A change of one vn_refcount changes nothing else.
LEMMA RefChange ==
  ASSUME NEW s, IsState(s), NEW v \in Vnode, NEW n \in Nat
  PROVE  LET t == [s EXCEPT !.refcount[v] = n]
         IN  /\ IsState(t) /\ t.refcount = [s.refcount EXCEPT ![v] = n]
             /\ t.opencount = s.opencount /\ t.open = s.open /\ t.cwd = s.cwd
             /\ t.bootfs = s.bootfs /\ t.leaked = s.leaked /\ t.panic = s.panic
  BY DEF IsState, Record

\* The threads with v as their current directory are a number.
LEMMA CwdCount ==
  ASSUME VfsConstants, NEW s, NEW v
  PROVE  Cardinality({t \in Proc : s.cwd[t] = v}) \in Nat
  <1> DEFINE C == {t \in Proc : s.cwd[t] = v}
  <1>1. C \subseteq Proc
    OBVIOUS
  <1> HIDE DEF C
  <1>2. Cardinality(C) \in Nat
    BY <1>1, ThreadSets
  <1> QED
    BY <1>2 DEF C

\* The holders are a number, and a device holds itself.
LEMMA HoldIsNat ==
  ASSUME VfsConstants, NEW s, IsState(s), NEW v \in Vnode
  PROVE  Hold(s, v) \in Nat /\ (v.kind = "dev" => Hold(s, v) >= 1)
  <1>1. s.open[v] \in Nat
    BY DEF IsState, Record
  <1> DEFINE c == Cardinality({t \in Proc : s.cwd[t] = v})
  <1>2. c \in Nat /\ Hold(s, v) = s.open[v] + c + (IF s.bootfs = v THEN 1 ELSE 0) + (IF v.kind = "dev" \/ v \in s.leaked THEN 1 ELSE 0)
    BY CwdCount, Zenon DEF Hold
  <1> HIDE DEF c
  <1> QED
    BY <1>1, <1>2

\* One more reference, to a vnode that may have none.
LEMMA RefPlus ==
  ASSUME VfsConstants, NEW h \in Hand, NEW s, Good(s, h), NEW v \in Vnode, NEW n \in Nat, n = s.refcount[v] + 1
  PROVE  Good([s EXCEPT !.refcount[v] = n], Plus(h, v))
  <1> DEFINE t == [s EXCEPT !.refcount[v] = n]
  <1>1. /\ IsState(t) /\ t.refcount = [s.refcount EXCEPT ![v] = n]
        /\ t.opencount = s.opencount /\ t.open = s.open /\ t.cwd = s.cwd
        /\ t.bootfs = s.bootfs /\ t.leaked = s.leaked /\ t.panic = s.panic
    BY RefChange DEF Good
  <1> HIDE DEF t
  <1>2. \A w \in Vnode : Hold(t, w) = Hold(s, w)
    BY <1>1 DEF Hold
  <1>3. ASSUME s.panic = FALSE, NEW w \in Vnode
        PROVE  t.refcount[w] = Hold(t, w) + Plus(h, v)[w] /\ t.opencount[w] = t.open[w]
    <2>1. s.refcount[w] = Hold(s, w) + h[w] /\ s.opencount[w] = s.open[w] /\ s.refcount[w] \in Nat
      BY <1>3 DEF Good, Exact, IsState, Record
    <2>2. t.refcount[w] = IF w = v THEN n ELSE s.refcount[w]
      BY <1>1 DEF Good, IsState, Record
    <2>3. Plus(h, v)[w] = (IF w = v THEN h[w] + 1 ELSE h[w]) /\ h[w] \in Nat /\ h[v] \in Nat
      BY DEF Plus, Hand
    <2>4. Hold(t, w) = Hold(s, w) /\ Hold(s, w) \in Nat
      BY <1>2, HoldIsNat DEF Good
    <2> QED
      BY <1>1, <2>1, <2>2, <2>3, <2>4
  <1> QED
    BY <1>1, <1>3, Zenon DEF Good, Exact, t
\* One reference less, of those in hand.
LEMMA RefMinus ==
  ASSUME VfsConstants, NEW h \in Hand, NEW s, Good(s, h), NEW v \in Vnode, h[v] >= 1,
         NEW n \in Nat, n = s.refcount[v] - 1
  PROVE  Good([s EXCEPT !.refcount[v] = n], Minus(h, v))
  <1> DEFINE t == [s EXCEPT !.refcount[v] = n]
  <1>1. /\ IsState(t) /\ t.refcount = [s.refcount EXCEPT ![v] = n]
        /\ t.opencount = s.opencount /\ t.open = s.open /\ t.cwd = s.cwd
        /\ t.bootfs = s.bootfs /\ t.leaked = s.leaked /\ t.panic = s.panic
    BY RefChange DEF Good
  <1> HIDE DEF t
  <1>2. \A w \in Vnode : Hold(t, w) = Hold(s, w)
    BY <1>1 DEF Hold
  <1>3. ASSUME s.panic = FALSE, NEW w \in Vnode
        PROVE  t.refcount[w] = Hold(t, w) + Minus(h, v)[w] /\ t.opencount[w] = t.open[w]
    <2>1. s.refcount[w] = Hold(s, w) + h[w] /\ s.opencount[w] = s.open[w] /\ s.refcount[w] \in Nat
      BY <1>3 DEF Good, Exact, IsState, Record
    <2>2. t.refcount[w] = IF w = v THEN n ELSE s.refcount[w]
      BY <1>1 DEF Good, IsState, Record
    <2>3. Minus(h, v)[w] = (IF w = v THEN h[w] - 1 ELSE h[w]) /\ h[w] \in Nat /\ h[v] \in Nat
      BY DEF Minus, Hand
    <2>4. Hold(t, w) = Hold(s, w) /\ Hold(s, w) \in Nat
      BY <1>2, HoldIsNat DEF Good
    <2> QED
      BY <1>1, <2>1, <2>2, <2>3, <2>4
  <1> QED
    BY <1>1, <1>3, Zenon DEF Good, Exact, t

\* vnode_incref() takes a reference.
LEMMA IncrefGood ==
  ASSUME VfsConstants, NEW h \in Hand, NEW s, Good(s, h), NEW v \in Vnode
  PROVE  Good(vnode_incref(s, v), Plus(h, v))
  <1>1. CASE s.refcount[v] = 0
    BY <1>1, PanicGood, HandPlus, Zenon DEF vnode_incref, Good
  <1>2. CASE s.refcount[v] # 0
    <2> DEFINE n == s.refcount[v] + 1
    <2>1. n \in Nat
      BY DEF Good, IsState, Record
    <2>2. vnode_incref(s, v) = [s EXCEPT !.refcount[v] = n]
      BY <1>2 DEF vnode_incref
    <2> HIDE DEF n
    <2> QED
      BY <2>1, <2>2, RefPlus DEF n
  <1> QED
    BY <1>1, <1>2

\* FSOP_GETROOT takes a reference to the root.
LEMMA GetrootGood ==
  ASSUME VfsConstants, NEW h \in Hand, NEW s, Good(s, h), NEW fs \in FS
  PROVE  Root(fs) \in Vnode /\ Good(FSOP_GETROOT(s, fs), Plus(h, Root(fs)))
  <1> DEFINE v == Root(fs)
             n == s.refcount[v] + 1
  <1>1. v \in Vnode
    BY DEF Vnode
  <1>2. n \in Nat
    BY <1>1 DEF Good, IsState, Record
  <1>3. FSOP_GETROOT(s, fs) = [s EXCEPT !.refcount[v] = n]
    BY DEF FSOP_GETROOT
  <1> HIDE DEF n
  <1> QED
    BY <1>1, <1>2, <1>3, RefPlus DEF n

\* The reference in hand goes to a vnode that could not be reclaimed.
LEMMA LeakGood ==
  ASSUME VfsConstants, NEW h \in Hand, NEW s, Good(s, h), NEW v \in Vnode, h[v] >= 1, s.refcount[v] = 1
  PROVE  Good([s EXCEPT !.leaked = @ \cup {v}], Minus(h, v))
  <1> DEFINE t == [s EXCEPT !.leaked = @ \cup {v}]
             L == s.leaked \cup {v}
  <1>0. t = [s EXCEPT !.leaked = L]
    OBVIOUS
  <1> HIDE DEF t, L
  <1>1. /\ Record(t) /\ t.knowndevs = s.knowndevs /\ t.refcount = s.refcount /\ t.names = s.names
        /\ t.opencount = s.opencount /\ t.bootfs = s.bootfs /\ t.panic = s.panic /\ t.open = s.open
        /\ t.cwd = s.cwd /\ t.leaked = L
    BY <1>0 DEF Good, IsState, Record
  <1>2. IsState(t)
    BY <1>1 DEF Good, IsState
  <1>3. ASSUME s.panic = FALSE, NEW w \in Vnode
        PROVE  t.refcount[w] = Hold(t, w) + Minus(h, v)[w] /\ t.opencount[w] = t.open[w]
    <2>1. s.refcount[w] = Hold(s, w) + h[w] /\ s.opencount[w] = s.open[w]
      BY <1>3 DEF Good, Exact
    <2> DEFINE k == s.open[w]
               c == Cardinality({x \in Proc : s.cwd[x] = w})
               b == (IF s.bootfs = w THEN 1 ELSE 0)
               d == (IF w.kind = "dev" \/ w \in s.leaked THEN 1 ELSE 0)
               e == (IF w.kind = "dev" \/ w \in t.leaked THEN 1 ELSE 0)
    <2>2. Hold(s, w) = k + c + b + d /\ Hold(t, w) = k + c + b + e
      BY <1>1 DEF Hold
    <2>3. k \in Nat /\ c \in Nat /\ b \in Nat /\ d \in Nat /\ e \in Nat
      <3>1. c \in Nat
        BY CwdCount, Zenon
      <3>2. k \in Nat
        BY DEF Good, IsState
      <3> QED
        BY <3>1, <3>2
    <2>4. Minus(h, v)[w] = (IF w = v THEN h[w] - 1 ELSE h[w]) /\ h[w] \in Nat
      BY DEF Minus, Hand
    <2>5. (w = v => e = 1) /\ (w # v => e = d)
      BY <1>1 DEF L
    <2> HIDE DEF k, c, b, d, e
    <2>6. t.refcount[w] = s.refcount[w] /\ t.opencount[w] = t.open[w]
      BY <1>1, <2>1
    <2>7. CASE w # v
      BY <2>1, <2>2, <2>4, <2>5, <2>6, <2>7
    <2>8. CASE w = v
      <3>1. s.refcount[w] = 1 /\ h[w] >= 1
        BY <2>8
      <3>2. Hold(s, w) = 0 /\ h[w] = 1 /\ d = 0
        BY <2>1, <2>2, <2>3, <2>4, <3>1
      <3>3. Hold(t, w) = 1 /\ Minus(h, v)[w] = 0
        BY <2>2, <2>3, <2>4, <2>5, <2>8, <3>2
      <3> QED
        BY <2>6, <3>1, <3>3
    <2> QED
      BY <2>7, <2>8
  <1> QED
    BY <1>1, <1>2, <1>3, Zenon DEF Good, Exact, t

\* VOP_RECLAIM gives back the last reference, which is in hand.
LEMMA ReclaimGood ==
  ASSUME VfsConstants, NEW h \in Hand, NEW s, Good(s, h), NEW v \in Vnode, h[v] >= 1, s.refcount[v] = 1
  PROVE  Good(VOP_RECLAIM(s, v), Minus(h, v))
  <1>0. Minus(h, v) \in Hand
    BY DEF Minus, Hand
  <1>1. CASE v.kind = "dev"
    <2>1. VOP_RECLAIM(s, v) = s
      BY <1>1 DEF VOP_RECLAIM
    <2>2. s.panic # FALSE
      <3>1. Hold(s, v) \in Nat /\ Hold(s, v) >= 1 /\ h[v] \in Nat
        BY <1>1, HoldIsNat DEF Good, Hand
      <3>2. 1 # Hold(s, v) + h[v]
        BY <3>1
      <3>3. s.panic = FALSE => s.refcount[v] = Hold(s, v) + h[v]
        BY DEF Good, Exact
      <3> QED
        BY <3>2, <3>3, Zenon
    <2> QED
      BY <2>1, <2>2, Zenon DEF Good
  <1>2. CASE v.kind # "dev" /\ v.kind = "file" /\ s.failing
    <2>1. VOP_RECLAIM(s, v) = [s EXCEPT !.leaked = @ \cup {v}]
      BY <1>2 DEF VOP_RECLAIM
    <2> QED
      BY <2>1, LeakGood
  <1>3. CASE v.kind # "dev" /\ ~(v.kind = "file" /\ s.failing) /\ s.opencount[v] # 0
    <2>1. VOP_RECLAIM(s, v) = Panic(s)
      BY <1>3 DEF VOP_RECLAIM
    <2> QED
      BY <1>0, <2>1, PanicGood, Zenon DEF Good
  <1>4. CASE v.kind # "dev" /\ ~(v.kind = "file" /\ s.failing) /\ s.opencount[v] = 0
    <2>1. VOP_RECLAIM(s, v) = [s EXCEPT !.refcount[v] = 0]
      BY <1>4 DEF VOP_RECLAIM
    <2>2. 0 \in Nat /\ 0 = s.refcount[v] - 1
      OBVIOUS
    <2> QED
      BY <2>1, <2>2, RefMinus
  <1> QED
    BY <1>1, <1>2, <1>3, <1>4

\* vnode_decref() gives back a reference that is in hand.
LEMMA DecrefGood ==
  ASSUME VfsConstants, NEW h \in Hand, NEW s, Good(s, h), NEW v \in Vnode, h[v] >= 1
  PROVE  Good(vnode_decref(s, v), Minus(h, v))
  <1>0. Minus(h, v) \in Hand /\ s.refcount[v] \in Nat
    BY DEF Minus, Hand, Good, IsState
  <1>1. CASE s.refcount[v] = 0
    <2>1. vnode_decref(s, v) = Panic(s)
      BY <1>1 DEF vnode_decref
    <2> QED
      BY <1>0, <2>1, PanicGood, Zenon DEF Good
  <1>2. CASE s.refcount[v] = 1
    <2>1. vnode_decref(s, v) = VOP_RECLAIM(s, v)
      BY <1>2 DEF vnode_decref
    <2> QED
      BY <1>2, <2>1, ReclaimGood
  <1>3. CASE s.refcount[v] > 1
    <2> DEFINE n == s.refcount[v] - 1
    <2>1. n \in Nat
      BY <1>0, <1>3
    <2>2. vnode_decref(s, v) = [s EXCEPT !.refcount[v] = n]
      BY <1>3 DEF vnode_decref
    <2> HIDE DEF n
    <2> QED
      BY <2>1, <2>2, RefMinus DEF n
  <1> QED
    BY <1>0, <1>1, <1>2, <1>3

\* Dropping what an operation had in hand before another one.
LEMMA DecrefGives ==
  ASSUME VfsConstants, NEW h \in Hand, NEW v \in Vnode, NEW r, Gives(r, Plus(h, v))
  PROVE  Gives(Decref(r, v), h) /\ Decref(r, v).val = r.val /\ Decref(r, v).err = r.err
  <1> DEFINE d == Decref(r, v)
  <1>1. IsResult(d) /\ d.s = vnode_decref(r.s, v) /\ d.err = r.err /\ d.val = r.val
    BY DEF Decref, Gives, IsResult
  <1> HIDE DEF d
  <1>2. Plus(h, v) \in Hand /\ Plus(h, v)[v] >= 1 /\ Minus(Plus(h, v), v) = h
    BY HandPlus
  <1>3. CASE r.err # "ok"
    <2>1. Good(vnode_decref(r.s, v), Minus(Plus(h, v), v))
      BY <1>2, <1>3, DecrefGood DEF Gives
    <2> QED
      BY <1>1, <1>2, <1>3, <2>1 DEF Gives, d
  <1>4. CASE r.err = "ok"
    <2> DEFINE w == r.val
    <2>1. w \in Vnode /\ Good(r.s, Plus(Plus(h, v), w))
      BY <1>4 DEF Gives
    <2> HIDE DEF w
    <2>2. /\ Plus(Plus(h, v), w) \in Hand /\ Plus(Plus(h, v), w)[v] >= 1
          /\ Minus(Plus(Plus(h, v), w), v) = Plus(h, w)
      BY <1>2, <2>1, HandPlus, HandSwap
    <2>3. Good(vnode_decref(r.s, v), Minus(Plus(Plus(h, v), w), v))
      BY <2>1, <2>2, DecrefGood
    <2> QED
      BY <1>1, <1>4, <2>1, <2>2, <2>3 DEF Gives, d, w
  <1> QED
    BY <1>3, <1>4

\* vnode_decref() after an operation that hands back no vnode.
LEMMA DecrefLeaves ==
  ASSUME VfsConstants, NEW h \in Hand, NEW v \in Vnode, NEW r, Leaves(r, Plus(h, v))
  PROVE  Leaves(Decref(r, v), h)
  <1>1. LET d == Decref(r, v) IN IsResult(d) /\ d.s = vnode_decref(r.s, v)
    BY DEF Decref, Leaves, IsResult
  <1>2. Plus(h, v) \in Hand /\ Plus(h, v)[v] >= 1 /\ Minus(Plus(h, v), v) = h
    BY HandPlus
  <1>3. Good(vnode_decref(r.s, v), Minus(Plus(h, v), v))
    BY <1>2, DecrefGood DEF Leaves
  <1> QED
    BY <1>1, <1>2, <1>3 DEF Leaves

\* An operation that fails takes no reference.
LEMMA FailGives == ASSUME NEW h, NEW s, Good(s, h), NEW e, e # "ok"
                   PROVE  Gives(Fail(s, e), h) /\ Fail(s, e).err # "ok"
  BY DEF Fail, Gives, IsResult

\* An operation that succeeds hands back the reference it took.
LEMMA OkGives == ASSUME NEW h, NEW s, NEW v \in Vnode, Good(s, Plus(h, v))
                 PROVE  Gives(Ok(s, v), h) /\ Ok(s, v).val = v
  BY DEF Ok, Gives, IsResult

----------------------------------------------------------------------------
(* Lookups.  Each hands back a vnode that is in hand. *)

\* Every device of the table has a vnode.
LEMMA DeviceIsVnode == \A i \in Devs : Device(i) \in Vnode
  BY DEF Devs, Vnode

\* vfs_getroot() hands back a reference, or fails without one.
LEMMA GetrootGives ==
  ASSUME VfsConstants, NEW h \in Hand, NEW s, Good(s, h), NEW devname
  PROVE  Gives(vfs_getroot(s, devname), h)
  <1> DEFINE kds == s.knowndevs
             hits == {i \in DOMAIN kds : devname \in Names(kds[i])}
             i == Min(hits)
             kd == kds[i]
             r == vfs_getroot(s, devname)
  <1>1. hits \in SUBSET Nat /\ hits \subseteq Devs
    BY DevsAreNumbered DEF Good, IsState, Record
  <1>2. CASE hits = {}
    <2>1. r = Fail(s, "ENODEV")
      BY <1>2 DEF vfs_getroot
    <2> QED
      BY <2>1, FailGives
  <1>3. CASE hits # {}
    <2>1. i \in hits
      <3> HIDE DEF hits
      <3> QED
        BY <1>1, <1>3, VfsMin
    <2>2. i \in Devs /\ IsEntry(kd)
      BY <1>1, <2>1 DEF Good, IsState, Record
    <2>3. \/ r = Ok(FSOP_GETROOT(s, kd.fs), Root(kd.fs)) /\ kd.fs # NoFS
          \/ r = Fail(s, "ENXIO")
          \/ r = Ok(vnode_incref(s, Device(i)), Device(i))
      BY <1>3, Zenon DEF vfs_getroot
    <2>4. Device(i) \in Vnode
      BY <2>2, DeviceIsVnode
    <2>5. kd.fs # NoFS => kd.fs \in FS
      BY <2>2 DEF IsEntry
    <2> HIDE DEF i, kd, hits, r
    <2>6. CASE r = Ok(FSOP_GETROOT(s, kd.fs), Root(kd.fs)) /\ kd.fs # NoFS
      BY <2>5, <2>6, GetrootGood, OkGives DEF r
    <2>7. CASE r = Fail(s, "ENXIO")
      BY <2>7, FailGives DEF r
    <2>8. CASE r = Ok(vnode_incref(s, Device(i)), Device(i))
      BY <2>4, <2>8, IncrefGood, OkGives DEF r
    <2> QED
      BY <2>3, <2>6, <2>7, <2>8
  <1> QED
    BY <1>2, <1>3

\* vfs_getcurdir() hands back a reference, or fails without one.
LEMMA CurdirGives ==
  ASSUME VfsConstants, NEW h \in Hand, NEW s, Good(s, h), NEW t \in Proc
  PROVE  Gives(vfs_getcurdir(s, t), h)
  <1>1. CASE s.cwd[t] = NULL
    <2>1. vfs_getcurdir(s, t) = Fail(s, "ENOENT")
      BY <1>1 DEF vfs_getcurdir
    <2> QED
      BY <2>1, FailGives
  <1>2. CASE s.cwd[t] # NULL
    <2>1. s.cwd[t] \in Vnode
      BY <1>2 DEF Good, IsState, Record
    <2>2. vfs_getcurdir(s, t) = Ok(vnode_incref(s, s.cwd[t]), s.cwd[t])
      BY <1>2 DEF vfs_getcurdir
    <2> QED
      BY <2>1, <2>2, IncrefGood, OkGives
  <1> QED
    BY <1>1, <1>2

\* A vnode that is not a device belongs to a file system.
LEMMA OfFS == ASSUME NEW v \in Vnode, vn_fs(v) # NoFS \/ v.kind # "dev"
              PROVE  vn_fs(v) \in FS /\ v.of = vn_fs(v) /\ v.kind # "dev"
  BY DEF Vnode, vn_fs, Root, Device, FileOf

\* The root of a file system is known by it.
LEMMA RootOf == ASSUME NEW v \in Vnode, v.kind = "root"
                PROVE  v.of \in FS /\ v = Root(v.of)
  BY DEF Vnode, Root, Device, FileOf

\* getdevice() hands back a reference, or fails without one.
LEMMA DeviceGives ==
  ASSUME VfsConstants, NEW h \in Hand, NEW s, Good(s, h), NEW t \in Proc, NEW path,
         path.kind \in {"plain", "dev", "slash", "colon"}
  PROVE  Gives(getdevice(s, t, path), h)
  <1> DEFINE cur == vfs_getcurdir(s, t)
             fs == vn_fs(cur.val)
             root == FSOP_GETROOT(cur.s, fs)
             r == getdevice(s, t, path)
  <1>1. Gives(cur, h)
    BY CurdirGives
  <1>2. CASE path.kind = "plain"
    <2>1. r = cur
      BY <1>2 DEF getdevice
    <2> QED
      BY <1>1, <2>1
  <1>3. CASE path.kind = "dev"
    <2>1. r = vfs_getroot(s, path.dev)
      BY <1>3 DEF getdevice
    <2> QED
      BY <2>1, GetrootGives
  <1>4. CASE path.kind = "slash" /\ s.bootfs = NULL
    <2>1. r = Fail(s, "ENOENT")
      BY <1>4 DEF getdevice
    <2> QED
      BY <2>1, FailGives
  <1>5. CASE path.kind = "slash" /\ s.bootfs # NULL
    <2>1. r = Ok(vnode_incref(s, s.bootfs), s.bootfs)
      BY <1>5 DEF getdevice
    <2>2. s.bootfs \in Vnode
      BY <1>5 DEF Good, IsState, Record
    <2> QED
      BY <2>1, <2>2, IncrefGood, OkGives
  <1>6. CASE path.kind = "colon" /\ cur.err # "ok"
    <2>1. r = cur
      BY <1>6 DEF getdevice
    <2> QED
      BY <1>1, <2>1
  <1>7. CASE path.kind = "colon" /\ cur.err = "ok"
    <2>1. r = IF fs = NoFS THEN Fail(Panic(s), "panic")
              ELSE Ok(vnode_decref(root, cur.val), Root(fs))
      BY <1>7 DEF getdevice
    <2>2. CASE fs = NoFS
      <3>1. r = Fail(Panic(s), "panic")
        BY <2>1, <2>2
      <3>2. Good(Panic(s), h)
        BY PanicGood, Zenon DEF Good
      <3> QED
        BY <3>1, <3>2, FailGives
    <2>3. CASE fs # NoFS
      <3> DEFINE v == cur.val
                 w == Root(fs)
      <3>1. v \in Vnode /\ Good(cur.s, Plus(h, v))
        BY <1>1, <1>7 DEF Gives
      <3>2. fs \in FS
        BY <2>3, <3>1, OfFS
      <3>3. r = Ok(vnode_decref(FSOP_GETROOT(cur.s, fs), v), w)
        BY <2>1, <2>3
      <3> HIDE DEF v, fs
      <3>4. Plus(h, v) \in Hand
        BY <3>1, HandPlus
      <3>5. w \in Vnode /\ Good(FSOP_GETROOT(cur.s, fs), Plus(Plus(h, v), w))
        BY <3>1, <3>2, <3>4, GetrootGood
      <3> HIDE DEF w
      <3>6. /\ Plus(Plus(h, v), w) \in Hand /\ Plus(Plus(h, v), w)[v] >= 1
            /\ Minus(Plus(Plus(h, v), w), v) = Plus(h, w)
        BY <3>1, <3>4, <3>5, HandPlus, HandSwap
      <3>7. Good(vnode_decref(FSOP_GETROOT(cur.s, fs), v), Plus(h, w))
        BY <3>1, <3>5, <3>6, DecrefGood
      <3> QED
        BY <3>3, <3>5, <3>7, OkGives
    <2> QED
      BY <2>2, <2>3
  <1> QED
    BY <1>2, <1>3, <1>4, <1>5, <1>6, <1>7

\* VOP_LOOKUP hands back a reference, or fails without one.
LEMMA LookupGives ==
  ASSUME VfsConstants, NEW h \in Hand, NEW s, Good(s, h), NEW v \in Vnode, NEW name
  PROVE  Gives(VOP_LOOKUP(s, v, name), h)
  <1> DEFINE ino == s.names[v.of][name]
             file == IF ino = 0 THEN Root(v.of) ELSE FileOf(v.of, ino)
             n == s.refcount[file] + 1
             r == VOP_LOOKUP(s, v, name)
  <1>1. CASE v.kind = "file"
    <2>1. r = Fail(s, "ENOTDIR")
      BY <1>1 DEF VOP_LOOKUP
    <2> QED
      BY <2>1, FailGives
  <1>2. CASE v.kind # "file" /\ (v.kind = "dev" \/ name \notin DOMAIN s.names[v.of])
    <2>1. r = Fail(s, "ENOENT")
      BY <1>2 DEF VOP_LOOKUP
    <2> QED
      BY <2>1, FailGives
  <1>3. CASE v.kind # "file" /\ v.kind # "dev" /\ name \in DOMAIN s.names[v.of]
    <2>1. r = Ok([s EXCEPT !.refcount[file] = n], file)
      BY <1>3 DEF VOP_LOOKUP
    <2>2. v.of \in FS
      BY <1>3, OfFS
    <2>3. ino \in 0..MaxIno /\ MaxIno \in Nat
      BY <1>3, <2>2 DEF Good, IsState, Record, VfsConstants
    <2>4. file \in Vnode
      <3>1. Root(v.of) \in Vnode
        BY <2>2 DEF Vnode
      <3> HIDE DEF ino
      <3>2. ino # 0 => ino \in 1..MaxIno
        BY <2>3
      <3>3. ino # 0 => FileOf(v.of, ino) \in Vnode
        BY <2>2, <3>2 DEF Vnode
      <3> QED
        BY <3>1, <3>3
    <2> HIDE DEF file
    <2>5. n \in Nat
      BY <2>4 DEF Good, IsState, Record
    <2>6. Good([s EXCEPT !.refcount[file] = n], Plus(h, file))
      <3> HIDE DEF n
      <3> QED
        BY <2>4, <2>5, RefPlus DEF n
    <2> QED
      BY <2>1, <2>4, <2>6, OkGives
  <1> QED
    BY <1>1, <1>2, <1>3

\* VOP_LOOKPARENT hands back a reference to a directory, or fails without one.
LEMMA ParentGives ==
  ASSUME VfsConstants, NEW h \in Hand, NEW s, Good(s, h), NEW v \in Vnode
  PROVE  LET r == VOP_LOOKPARENT(s, v) IN Gives(r, h) /\ (r.err = "ok" => r.val.kind = "root")
  <1> DEFINE r == VOP_LOOKPARENT(s, v)
  <1>1. CASE v.kind = "root"
    <2>1. r = Ok(vnode_incref(s, v), v)
      BY <1>1 DEF VOP_LOOKPARENT
    <2> QED
      BY <1>1, <2>1, IncrefGood, OkGives
  <1>2. CASE v.kind # "root"
    <2>1. r = Fail(s, "ENOTDIR")
      BY <1>2 DEF VOP_LOOKPARENT
    <2> QED
      BY <2>1, FailGives
  <1> QED
    BY <1>1, <1>2

\* vfs_lookparent() hands back a reference to a directory, or fails without one:
\* the one to the start is given back either way.
LEMMA LookparentGives ==
  ASSUME VfsConstants, NEW h \in Hand, NEW s, Good(s, h), NEW t \in Proc, NEW path \in Path
  PROVE  LET r == vfs_lookparent(s, t, path)
         IN  Gives(r, h) /\ (r.err = "ok" => r.val.kind = "root")
  <1> DEFINE g == getdevice(s, t, path)
             v == g.val
             q == IF path.sub = NULL THEN Fail(g.s, "EINVAL") ELSE VOP_LOOKPARENT(g.s, v)
             r == vfs_lookparent(s, t, path)
  <1>1. Gives(g, h)
    BY DeviceGives DEF VfsConstants
  <1>2. CASE g.err # "ok"
    <2>1. r = g
      BY <1>2 DEF vfs_lookparent
    <2> QED
      BY <1>1, <1>2, <2>1
  <1>3. CASE g.err = "ok"
    <2>1. r = Decref(q, v)
      BY <1>3 DEF vfs_lookparent
    <2>2. v \in Vnode /\ Good(g.s, Plus(h, v)) /\ Plus(h, v) \in Hand
      BY <1>1, <1>3, HandPlus DEF Gives
    <2> HIDE DEF v, g
    <2>3. Gives(q, Plus(h, v)) /\ (q.err = "ok" => q.val.kind = "root")
      <3>1. CASE path.sub = NULL
        <4>1. q = Fail(g.s, "EINVAL")
          BY <3>1
        <4> QED
          BY <2>2, <4>1, FailGives
      <3>2. CASE path.sub # NULL
        BY <2>2, <3>2, ParentGives
      <3> QED
        BY <3>1, <3>2
    <2> HIDE DEF q
    <2> QED
      BY <2>1, <2>2, <2>3, DecrefGives
  <1> QED
    BY <1>2, <1>3

\* vfs_lookup() hands back a reference, or fails without one.
LEMMA PathGives ==
  ASSUME VfsConstants, NEW h \in Hand, NEW s, Good(s, h), NEW t \in Proc, NEW path,
         path.kind \in {"plain", "dev", "slash", "colon"}
  PROVE  Gives(vfs_lookup(s, t, path), h)
  <1> DEFINE g == getdevice(s, t, path)
             v == g.val
             q == VOP_LOOKUP(g.s, v, path.sub)
             r == vfs_lookup(s, t, path)
  <1>1. Gives(g, h)
    BY DeviceGives
  <1>2. CASE g.err # "ok" \/ path.sub = NULL
    <2>1. r = g
      BY <1>2 DEF vfs_lookup
    <2> QED
      BY <1>1, <2>1
  <1>3. CASE ~(g.err # "ok" \/ path.sub = NULL)
    <2>1. r = Decref(q, v)
      BY <1>3 DEF vfs_lookup
    <2>2. v \in Vnode /\ Good(g.s, Plus(h, v)) /\ Plus(h, v) \in Hand
      BY <1>1, <1>3, HandPlus DEF Gives
    <2> HIDE DEF v, g
    <2>3. Gives(q, Plus(h, v))
      BY <2>2, LookupGives
    <2> HIDE DEF q
    <2> QED
      BY <2>1, <2>2, <2>3, DecrefGives
  <1> QED
    BY <1>2, <1>3

\* vfs_lookup() of one of the paths.
LEMMA FoundGives ==
  ASSUME VfsConstants, NEW h \in Hand, NEW s, Good(s, h), NEW t \in Proc, NEW path \in Path
  PROVE  Gives(vfs_lookup(s, t, path), h)
  <1>1. path.kind \in {"plain", "dev", "slash", "colon"}
    BY DEF VfsConstants
  <1> QED
    BY <1>1, PathGives

----------------------------------------------------------------------------
(* The directory operations. *)

\* Names hold no references.
LEMMA NamesChange ==
  ASSUME NEW h \in Hand, NEW s, Good(s, h), NEW fs \in FS, NEW names,
         \A n \in DOMAIN names : names[n] \in 0..MaxIno
  PROVE  Good([s EXCEPT !.names[fs] = names], h)
  <1> DEFINE t == [s EXCEPT !.names[fs] = names]
  <1>1. /\ t.knowndevs = s.knowndevs /\ t.refcount = s.refcount /\ t.opencount = s.opencount
        /\ t.cwd = s.cwd /\ t.bootfs = s.bootfs /\ t.leaked = s.leaked /\ t.open = s.open /\ t.panic = s.panic
        /\ t.names = [s.names EXCEPT ![fs] = names]
        /\ Record(t)
    BY DEF Good, IsState, Record
  <1> HIDE DEF t
  <1>2. DOMAIN t.names = FS /\ \A f \in FS : \A n \in DOMAIN t.names[f] : t.names[f][n] \in 0..MaxIno
    BY <1>1 DEF Good, IsState, Record
  <1>3. IsState(t)
    BY <1>1, <1>2 DEF Good, IsState, Record
  <1> QED
    BY <1>1, <1>3, KeepGood, Zenon DEF t

\* Entering a name takes no reference.
LEMMA SetNameGood ==
  ASSUME NEW h \in Hand, NEW s, Good(s, h), NEW fs \in FS, NEW name, NEW ino \in 0..MaxIno
  PROVE  Good(SetName(s, fs, name, ino), h) /\ SetName(s, fs, name, ino).refcount = s.refcount
  <1> DEFINE names == [n \in DOMAIN s.names[fs] \cup {name} |-> IF n = name THEN ino ELSE s.names[fs][n]]
  <1>1. SetName(s, fs, name, ino) = [s EXCEPT !.names[fs] = names]
    BY DEF SetName
  <1>2. \A n \in DOMAIN names : names[n] \in 0..MaxIno
    BY DEF Good, IsState, Record
  <1> HIDE DEF names
  <1>3. [s EXCEPT !.names[fs] = names].refcount = s.refcount
    BY DEF Good, IsState, Record
  <1> QED
    BY <1>1, <1>2, <1>3, NamesChange

\* Removing a name gives none back.
LEMMA DropNameGood ==
  ASSUME NEW h \in Hand, NEW s, Good(s, h), NEW fs \in FS, NEW name
  PROVE  Good(DropName(s, fs, name), h)
  <1> DEFINE names == [n \in DOMAIN s.names[fs] \ {name} |-> s.names[fs][n]]
  <1>1. DropName(s, fs, name) = [s EXCEPT !.names[fs] = names]
    BY DEF DropName
  <1>2. \A n \in DOMAIN names : names[n] \in 0..MaxIno
    BY DEF Good, IsState, Record
  <1> HIDE DEF names
  <1> QED
    BY <1>1, <1>2, NamesChange

\* VOP_CREAT hands back a reference to the file, new or old, or fails without one.
LEMMA CreatGives ==
  ASSUME VfsConstants, NEW h \in Hand, NEW s, Good(s, h), NEW dir \in Vnode, dir.kind = "root",
         NEW name, NEW excl
  PROVE  Gives(VOP_CREAT(s, dir, name, excl), h)
  <1> DEFINE fs == dir.of
             free == FreeInos(s, fs)
             ino == Min(free)
             v == FileOf(fs, ino)
             r == VOP_CREAT(s, dir, name, excl)
             u == SetName(s, fs, name, ino)
  <1>1. \/ r = Fail(s, "EEXIST")
        \/ r = VOP_LOOKUP(s, dir, name)
        \/ r = Fail(s, "ENOSPC")
        \/ free # {} /\ r = Ok([u EXCEPT !.refcount[v] = 1], v)
    BY DEF VOP_CREAT
  <1>2. Gives(VOP_LOOKUP(s, dir, name), h)
    BY LookupGives
  <1>3. CASE free # {} /\ r = Ok([u EXCEPT !.refcount[v] = 1], v)
    <2>1. fs \in FS
      BY RootOf
    <2>2. free \in SUBSET Nat
      BY DEF FreeInos
    <2>3. ino \in free
      <3> HIDE DEF free
      <3> QED
        BY <1>3, <2>2, VfsMin
    <2> HIDE DEF ino, fs
    <2>4. ino \in 1..MaxIno /\ s.refcount[v] = 0 /\ MaxIno \in Nat
      BY <2>3 DEF FreeInos, VfsConstants
    <2>5. v \in Vnode
      BY <2>1, <2>4 DEF Vnode
    <2>6. Good(u, h) /\ u.refcount = s.refcount
      <3>1. ino \in 0..MaxIno
        BY <2>4
      <3> QED
        BY <2>1, <3>1, SetNameGood
    <2> HIDE DEF u, v
    <2>7. 1 = u.refcount[v] + 1
      BY <2>4, <2>6
    <2>8. Good([u EXCEPT !.refcount[v] = 1], Plus(h, v))
      BY <2>5, <2>6, <2>7, RefPlus
    <2> QED
      BY <1>3, <2>5, <2>8, OkGives
  <1> HIDE DEF r, u, free
  <1> QED
    BY <1>1, <1>2, <1>3, FailGives DEF r

\* An operation that fails leaves the references as they are.
LEMMA FailLeaves == ASSUME NEW h, NEW s, Good(s, h), NEW e PROVE Leaves(Fail(s, e), h)
  BY DEF Fail, Leaves, IsResult

\* An operation that hands back no vnode leaves them as they are.
LEMMA OkLeaves == ASSUME NEW h, NEW s, Good(s, h), NEW e PROVE Leaves(Ok(s, e), h)
  BY DEF Ok, Leaves, IsResult

\* VOP_REMOVE leaves the references as they are.
LEMMA RemoveLeaves ==
  ASSUME VfsConstants, NEW h \in Hand, NEW s, Good(s, h), NEW dir \in Vnode, dir.kind = "root", NEW name
  PROVE  Leaves(VOP_REMOVE(s, dir, name), h)
  <1>1. dir.of \in FS
    BY RootOf
  <1>2. Good(DropName(s, dir.of, name), h)
    BY <1>1, DropNameGood
  <1> QED
    BY <1>2, OkLeaves, FailLeaves DEF VOP_REMOVE

\* VOP_RENAME leaves the references as they are.
LEMMA RenameLeaves ==
  ASSUME VfsConstants, NEW h \in Hand, NEW s, Good(s, h), NEW dir \in Vnode, dir.kind = "root",
         NEW old, NEW new
  PROVE  Leaves(VOP_RENAME(s, dir, old, new), h)
  <1> DEFINE names == s.names[dir.of]
             r == VOP_RENAME(s, dir, old, new)
             u == SetName(s, dir.of, new, names[old])
  <1>1. dir.of \in FS
    BY RootOf
  <1>2. Good(Panic(s), h)
    BY PanicGood, Zenon DEF Good
  <1>3. CASE old \in DOMAIN names
    <2>1. names[old] \in 0..MaxIno
      BY <1>1, <1>3 DEF Good, IsState, Record
    <2>2. Good(u, h)
      <3> HIDE DEF names
      <3> QED
        BY <1>1, <2>1, SetNameGood
    <2> HIDE DEF u
    <2>3. Good(DropName(u, dir.of, old), h)
      BY <1>1, <2>2, DropNameGood
    <2>4. \/ r = Fail(Panic(s), "panic")
          \/ r = Fail(s, "EEXIST")
          \/ r = Ok(DropName(u, dir.of, old), NULL)
      BY <1>3 DEF VOP_RENAME, u
    <2> QED
      BY <1>2, <2>3, <2>4, FailLeaves, OkLeaves
  <1>4. CASE old \notin DOMAIN names
    BY <1>4, FailLeaves DEF VOP_RENAME
  <1> QED
    BY <1>3, <1>4

\* VOP_LINK leaves the references as they are.
LEMMA LinkLeaves ==
  ASSUME VfsConstants, NEW h \in Hand, NEW s, Good(s, h), NEW dir \in Vnode, dir.kind = "root",
         NEW name, NEW v \in Vnode
  PROVE  Leaves(VOP_LINK(s, dir, name, v), h)
  <1>1. dir.of \in FS
    BY RootOf
  <1>2. v.ino \in 0..MaxIno
    <2>1. MaxIno \in Nat
      BY DEF VfsConstants
    <2>2. v.ino = 0 \/ v.ino \in 1..MaxIno
      BY DEF Vnode, Root, Device, FileOf
    <2> QED
      BY <2>1, <2>2
  <1>3. Good(SetName(s, dir.of, name, v.ino), h)
    BY <1>1, <1>2, SetNameGood
  <1> QED
    BY <1>3, OkLeaves, FailLeaves DEF VOP_LINK

----------------------------------------------------------------------------
(* Opening and closing. *)

\* A file that is opened keeps the reference that was in hand.
LEMMA OpenPlus ==
  ASSUME VfsConstants, NEW h \in Hand, NEW s, NEW v \in Vnode, Good(s, Plus(h, v))
  PROVE  Good([vnode_incopen(s, v) EXCEPT !.open[v] = @ + 1], h)
  <1> DEFINE t == [vnode_incopen(s, v) EXCEPT !.open[v] = @ + 1]
  <1>1. /\ Record(t) /\ t.knowndevs = s.knowndevs /\ t.refcount = s.refcount /\ t.names = s.names
        /\ t.cwd = s.cwd /\ t.bootfs = s.bootfs /\ t.leaked = s.leaked /\ t.panic = s.panic
        /\ t.opencount = [s.opencount EXCEPT ![v] = s.opencount[v] + 1]
        /\ t.open = [s.open EXCEPT ![v] = s.open[v] + 1]
    <2> DEFINE u == vnode_incopen(s, v)
    <2>1. /\ Record(u) /\ u.knowndevs = s.knowndevs /\ u.refcount = s.refcount /\ u.names = s.names
          /\ u.cwd = s.cwd /\ u.bootfs = s.bootfs /\ u.leaked = s.leaked /\ u.panic = s.panic /\ u.open = s.open
          /\ u.opencount = [s.opencount EXCEPT ![v] = s.opencount[v] + 1]
      BY DEF Good, IsState, vnode_incopen, Record
    <2> HIDE DEF u
    <2>2. t = [u EXCEPT !.open[v] = u.open[v] + 1]
      BY DEF u
    <2> QED
      BY <2>1, <2>2 DEF Record
  <1> HIDE DEF t
  <1>2. /\ t.opencount \in [Vnode -> Nat] /\ t.open \in [Vnode -> Nat]
    BY <1>1 DEF Good, IsState, Record
  <1>3. IsState(t)
    BY <1>1, <1>2 DEF Good, IsState, Record
  <1>4. ASSUME s.panic = FALSE, NEW w \in Vnode
        PROVE  t.refcount[w] = Hold(t, w) + h[w] /\ t.opencount[w] = t.open[w]
    <2>1. s.refcount[w] = Hold(s, w) + Plus(h, v)[w] /\ s.opencount[w] = s.open[w]
      BY <1>4 DEF Good, Exact
    <2>2. t.open[w] = (IF w = v THEN s.open[w] + 1 ELSE s.open[w]) /\ s.open[w] \in Nat
      BY <1>1 DEF Good, IsState, Record
    <2>3. t.opencount[w] = (IF w = v THEN s.opencount[w] + 1 ELSE s.opencount[w]) /\ s.opencount[w] \in Nat
      BY <1>1 DEF Good, IsState, Record
    <2>4. Plus(h, v)[w] = (IF w = v THEN h[w] + 1 ELSE h[w]) /\ h[w] \in Nat
      BY DEF Plus, Hand
    <2> DEFINE c == Cardinality({u \in Proc : s.cwd[u] = w})
               b == (IF s.bootfs = w THEN 1 ELSE 0)
               d == (IF w.kind = "dev" \/ w \in s.leaked THEN 1 ELSE 0)
    <2>5. Hold(s, w) = s.open[w] + c + b + d /\ Hold(t, w) = t.open[w] + c + b + d
      BY <1>1 DEF Hold
    <2>6. c \in Nat /\ b \in Nat /\ d \in Nat
      BY CwdCount, Zenon DEF Good
    <2> HIDE DEF c, b, d
    <2> QED
      BY <1>1, <2>1, <2>2, <2>3, <2>4, <2>5, <2>6
  <1> QED
    BY <1>1, <1>3, <1>4, Zenon DEF Good, Exact, t

\* vnode_decopen() after vnode_incopen() leaves things as they were.
LEMMA OpenBack ==
  ASSUME VfsConstants, NEW h \in Hand, NEW s, Good(s, h), NEW v \in Vnode
  PROVE  Good(vnode_decopen(vnode_incopen(s, v), v), h)
  <1> DEFINE u == vnode_incopen(s, v)
             t == vnode_decopen(u, v)
  <1>1. /\ Record(u) /\ u.knowndevs = s.knowndevs /\ u.refcount = s.refcount /\ u.names = s.names
        /\ u.cwd = s.cwd /\ u.bootfs = s.bootfs /\ u.leaked = s.leaked /\ u.panic = s.panic /\ u.open = s.open
        /\ u.opencount = [s.opencount EXCEPT ![v] = s.opencount[v] + 1]
    BY DEF Good, IsState, vnode_incopen, Record
  <1>2. s.opencount \in [Vnode -> Nat]
    BY DEF Good, IsState, Record
  <1> HIDE DEF u
  <1>3. u.opencount[v] = s.opencount[v] + 1 /\ u.opencount[v] # 0 /\ DOMAIN u.opencount = Vnode
    BY <1>1, <1>2
  <1>4. /\ Record(t) /\ t.knowndevs = s.knowndevs /\ t.refcount = s.refcount /\ t.names = s.names
        /\ t.cwd = s.cwd /\ t.bootfs = s.bootfs /\ t.leaked = s.leaked /\ t.panic = s.panic /\ t.open = s.open
        /\ t.opencount = [u.opencount EXCEPT ![v] = u.opencount[v] - 1]
    BY <1>1, <1>3 DEF vnode_decopen, Record
  <1>5. t.opencount = s.opencount
    BY <1>1, <1>2, <1>3, <1>4
  <1> HIDE DEF t
  <1>6. IsState(t)
    BY <1>4, <1>5, Zenon DEF Good, IsState, Record
  <1> QED
    BY <1>4, <1>5, <1>6, KeepGood DEF t, u

\* Closing puts the reference back in hand.
LEMMA OpenMinus ==
  ASSUME VfsConstants, NEW h \in Hand, NEW s, NEW v \in Vnode, Good(s, h), s.open[v] > 0
  PROVE  Good([vnode_decopen(s, v) EXCEPT !.open[v] = @ - 1], Plus(h, v))
  <1> DEFINE t == [vnode_decopen(s, v) EXCEPT !.open[v] = @ - 1]
  <1>0. s.open[v] \in Nat /\ s.open[v] - 1 \in Nat /\ s.opencount[v] \in Nat
    BY DEF Good, IsState, Record
  <1>1. CASE s.opencount[v] = 0
    <2> DEFINE u == Panic(s)
    <2>1. t = [u EXCEPT !.open[v] = @ - 1]
      BY <1>1 DEF vnode_decopen
    <2>2. IsState(u) /\ u.panic = TRUE /\ u.open = s.open
      BY PanicGood DEF Good, Panic, IsState, Record
    <2> HIDE DEF u
    <2>3. /\ Record(t) /\ t.knowndevs = u.knowndevs /\ t.refcount = u.refcount /\ t.names = u.names
          /\ t.cwd = u.cwd /\ t.bootfs = u.bootfs /\ t.leaked = u.leaked /\ t.panic = u.panic /\ t.opencount = u.opencount
          /\ t.open = [u.open EXCEPT ![v] = u.open[v] - 1]
      BY <2>1, <2>2 DEF IsState, Record
    <2> HIDE DEF t
    <2>4. t.open \in [Vnode -> Nat]
      BY <1>0, <2>2, <2>3 DEF IsState, Record
    <2>5. IsState(t)
      BY <2>2, <2>3, <2>4 DEF IsState, Record
    <2> QED
      BY <2>2, <2>3, <2>5 DEF Good, t
  <1>2. CASE s.opencount[v] # 0
    <2>1. /\ Record(t) /\ t.knowndevs = s.knowndevs /\ t.refcount = s.refcount /\ t.names = s.names
          /\ t.cwd = s.cwd /\ t.bootfs = s.bootfs /\ t.leaked = s.leaked /\ t.panic = s.panic
          /\ t.opencount = [s.opencount EXCEPT ![v] = s.opencount[v] - 1]
          /\ t.open = [s.open EXCEPT ![v] = s.open[v] - 1]
      <3> DEFINE u == vnode_decopen(s, v)
      <3>1. u = [s EXCEPT !.opencount[v] = s.opencount[v] - 1]
        BY <1>2 DEF vnode_decopen
      <3>2. /\ Record(u) /\ u.knowndevs = s.knowndevs /\ u.refcount = s.refcount /\ u.names = s.names
            /\ u.cwd = s.cwd /\ u.bootfs = s.bootfs /\ u.leaked = s.leaked /\ u.panic = s.panic /\ u.open = s.open
            /\ u.opencount = [s.opencount EXCEPT ![v] = s.opencount[v] - 1]
        BY <3>1 DEF Good, IsState, Record
      <3> HIDE DEF u
      <3>3. t = [u EXCEPT !.open[v] = u.open[v] - 1]
        BY DEF u
      <3> QED
        BY <3>2, <3>3 DEF Record
    <2> HIDE DEF t
    <2>2. /\ t.opencount \in [Vnode -> Nat] /\ t.open \in [Vnode -> Nat]
      BY <1>0, <1>2, <2>1 DEF Good, IsState, Record
    <2>3. IsState(t)
      BY <2>1, <2>2 DEF Good, IsState, Record
    <2>4. ASSUME s.panic = FALSE, NEW w \in Vnode
          PROVE  t.refcount[w] = Hold(t, w) + Plus(h, v)[w] /\ t.opencount[w] = t.open[w]
      <3>1. s.refcount[w] = Hold(s, w) + h[w] /\ s.opencount[w] = s.open[w]
        BY <2>4 DEF Good, Exact
      <3>2. t.open[w] = (IF w = v THEN s.open[w] - 1 ELSE s.open[w]) /\ s.open[w] \in Nat
        BY <2>1 DEF Good, IsState, Record
      <3>3. t.opencount[w] = (IF w = v THEN s.opencount[w] - 1 ELSE s.opencount[w]) /\ s.opencount[w] \in Nat
        BY <2>1 DEF Good, IsState, Record
      <3>4. Plus(h, v)[w] = (IF w = v THEN h[w] + 1 ELSE h[w]) /\ h[w] \in Nat
        BY DEF Plus, Hand
      <3> DEFINE c == Cardinality({u \in Proc : s.cwd[u] = w})
                 b == (IF s.bootfs = w THEN 1 ELSE 0)
                 d == (IF w.kind = "dev" \/ w \in s.leaked THEN 1 ELSE 0)
      <3>5. Hold(s, w) = s.open[w] + c + b + d /\ Hold(t, w) = t.open[w] + c + b + d
        BY <2>1 DEF Hold
      <3>6. c \in Nat /\ b \in Nat /\ d \in Nat
        BY CwdCount, Zenon DEF Good
      <3> HIDE DEF c, b, d
      <3> QED
        BY <2>1, <3>1, <3>2, <3>3, <3>4, <3>5, <3>6
    <2> QED
      BY <2>1, <2>3, <2>4, Zenon DEF Good, Exact, t
  <1> QED
    BY <1>1, <1>2

----------------------------------------------------------------------------
(* Current directories and the boot file system. *)

\* h, with old in hand instead of new.
Moved(h, old, new) ==
  [w \in Vnode |-> h[w] + (IF w = old THEN 1 ELSE 0) - (IF w = new THEN 1 ELSE 0)]

\* What is in hand when new takes the place of old.
LEMMA HandMoved ==
  ASSUME VfsConstants, NEW h \in Hand, NEW old, NEW new, new \in Vnode => h[new] >= 1
  PROVE  /\ Moved(h, old, new) \in Hand
         /\ old \in Vnode => /\ Moved(h, old, new)[old] >= 1 \/ old = new
                             /\ old # new => Minus(Moved(h, old, new), old) = Moved(h, NULL, new)
         /\ Moved(h, NULL, NULL) = h
         /\ old = new => Moved(h, old, new) = h
         /\ new \in Vnode => Moved(h, NULL, new) = Minus(h, new)
  <1>0. NULL \notin Vnode /\ \A w \in Vnode : h[w] \in Nat
    BY DEF Hand, VfsConstants
  <1>1. Moved(h, old, new) \in Hand
    <2>1. \A w \in Vnode : Moved(h, old, new)[w] \in Nat
      BY <1>0 DEF Moved
    <2> QED
      BY <2>1 DEF Moved, Hand
  <1>2. old \in Vnode => Moved(h, old, new)[old] >= 1 \/ old = new
    BY <1>0 DEF Moved
  <1>3. ASSUME old \in Vnode, old # new PROVE Minus(Moved(h, old, new), old) = Moved(h, NULL, new)
    <2>1. \A w \in Vnode : Minus(Moved(h, old, new), old)[w] = Moved(h, NULL, new)[w]
      BY <1>0, <1>3 DEF Moved, Minus
    <2>2. Minus(Moved(h, old, new), old) = [w \in Vnode |-> Minus(Moved(h, old, new), old)[w]]
      BY DEF Minus, Moved
    <2>3. Moved(h, NULL, new) = [w \in Vnode |-> Moved(h, NULL, new)[w]]
      BY DEF Moved
    <2> QED
      BY <2>1, <2>2, <2>3
  <1>4. h = [w \in Vnode |-> h[w]]
    BY DEF Hand
  <1>5. Moved(h, NULL, NULL) = h
    <2>1. \A w \in Vnode : Moved(h, NULL, NULL)[w] = h[w]
      BY <1>0 DEF Moved
    <2> QED
      BY <1>4, <2>1 DEF Moved
  <1>6. ASSUME old = new PROVE Moved(h, old, new) = h
    <2>1. \A w \in Vnode : Moved(h, old, new)[w] = h[w]
      BY <1>0, <1>6 DEF Moved
    <2> QED
      BY <1>4, <2>1 DEF Moved
  <1>7. ASSUME new \in Vnode PROVE Moved(h, NULL, new) = Minus(h, new)
    <2>1. \A w \in Vnode : Moved(h, NULL, new)[w] = Minus(h, new)[w]
      BY <1>0, <1>7 DEF Moved, Minus, Hand
    <2>2. Minus(h, new) = [w \in Vnode |-> Minus(h, new)[w]]
      BY Zenon DEF Minus, Hand
    <2> QED
      BY <2>1, <2>2 DEF Moved
  <1> QED
    BY <1>1, <1>2, <1>3, <1>5, <1>6, <1>7

\* t_cwd of one thread.
LEMMA CwdMoves ==
  ASSUME VfsConstants, NEW h \in Hand, NEW s, Good(s, h), NEW t \in Proc,
         NEW new \in Vnode \cup {NULL}, new \in Vnode => h[new] >= 1
  PROVE  Good([s EXCEPT !.cwd[t] = new], Moved(h, s.cwd[t], new))
  <1> DEFINE u == [s EXCEPT !.cwd[t] = new]
             old == s.cwd[t]
  <1>1. /\ Record(u) /\ u.knowndevs = s.knowndevs /\ u.refcount = s.refcount /\ u.names = s.names
        /\ u.opencount = s.opencount /\ u.bootfs = s.bootfs /\ u.leaked = s.leaked /\ u.panic = s.panic /\ u.open = s.open
        /\ u.cwd = [s.cwd EXCEPT ![t] = new]
    BY DEF Good, IsState, Record
  <1> HIDE DEF u
  <1>2. u.cwd \in [Proc -> Vnode \cup {NULL}]
    BY <1>1 DEF Good, IsState
  <1>3. IsState(u)
    BY <1>1, <1>2 DEF Good, IsState
  <1>4. ASSUME s.panic = FALSE, NEW w \in Vnode
        PROVE  u.refcount[w] = Hold(u, w) + Moved(h, old, new)[w] /\ u.opencount[w] = u.open[w]
    <2>1. s.refcount[w] = Hold(s, w) + h[w] /\ s.opencount[w] = s.open[w]
      BY <1>4 DEF Good, Exact
    <2> DEFINE A == {x \in Proc : s.cwd[x] = w}
               B == {x \in Proc : u.cwd[x] = w}
               c == Cardinality(A)
               d == Cardinality(B)
               k == s.open[w]
               b == (IF s.bootfs = w THEN 1 ELSE 0) + (IF w.kind = "dev" \/ w \in s.leaked THEN 1 ELSE 0)
    <2>2. A \in SUBSET Proc /\ B \in SUBSET Proc
      OBVIOUS
    <2>3. c \in Nat /\ d \in Nat
      BY <2>2, ThreadSets
    <2>4. \A x \in Proc : u.cwd[x] = IF x = t THEN new ELSE s.cwd[x]
      BY <1>1 DEF Good, IsState
    <2>5. d = c + (IF w = new THEN 1 ELSE 0) - (IF w = old THEN 1 ELSE 0)
      <3>1. CASE w = new /\ w = old
        <4>1. A = B
          BY <2>4, <3>1
        <4>2. c = d
          BY <4>1
        <4> HIDE DEF c, d, old
        <4> QED
          BY <2>3, <3>1, <4>2
      <3>2. CASE w # new /\ w # old
        <4>1. A = B
          BY <2>4, <3>2
        <4>2. c = d
          BY <4>1
        <4> HIDE DEF c, d, old
        <4> QED
          BY <2>3, <3>2, <4>2
      <3>3. CASE w = new /\ w # old
        <4>1. B = A \cup {t} /\ t \notin A
          BY <2>4, <3>3
        <4> HIDE DEF A, B
        <4>2. d = c + 1
          BY <2>2, <4>1, ThreadSets
        <4> QED
          BY <2>3, <3>3, <4>2
      <3>4. CASE w # new /\ w = old
        <4>1. B = A \ {t} /\ t \in A
          BY <2>4, <3>4
        <4> HIDE DEF A, B
        <4>2. d = c - 1
          BY <2>2, <4>1, ThreadSets
        <4> QED
          BY <2>3, <3>4, <4>2
      <3> QED
        BY <3>1, <3>2, <3>3, <3>4
    <2>6. Hold(s, w) = k + c + b /\ Hold(u, w) = k + d + b
      <3>1. k \in Nat
        BY DEF Good, IsState
      <3> HIDE DEF k
      <3>2. Hold(s, w) = k + c + (IF s.bootfs = w THEN 1 ELSE 0) + (IF w.kind = "dev" \/ w \in s.leaked THEN 1 ELSE 0)
        BY DEF Hold, k
      <3>3. Hold(u, w) = k + d + (IF s.bootfs = w THEN 1 ELSE 0) + (IF w.kind = "dev" \/ w \in s.leaked THEN 1 ELSE 0)
        BY <1>1 DEF Hold, k
      <3> HIDE DEF c, d
      <3> QED
        BY <2>3, <3>1, <3>2, <3>3
    <2>7. k \in Nat /\ b \in Nat /\ h[w] \in Nat
      BY DEF Good, IsState, Hand
    <2>8. Moved(h, old, new)[w] = h[w] + (IF w = old THEN 1 ELSE 0) - (IF w = new THEN 1 ELSE 0)
      BY DEF Moved
    <2> HIDE DEF c, d, k, b, old
    <2> QED
      BY <1>1, <2>1, <2>3, <2>5, <2>6, <2>7, <2>8
  <1> QED
    BY <1>1, <1>3, <1>4, Zenon DEF Good, Exact, u

\* A change of bootfs_vnode moves the reference it holds.
LEMMA BootMoves ==
  ASSUME VfsConstants, NEW h \in Hand, NEW s, Good(s, h),
         NEW new \in Vnode \cup {NULL}, new \in Vnode => h[new] >= 1
  PROVE  Good([s EXCEPT !.bootfs = new], Moved(h, s.bootfs, new))
  <1> DEFINE u == [s EXCEPT !.bootfs = new]
             old == s.bootfs
  <1>1. /\ Record(u) /\ u.knowndevs = s.knowndevs /\ u.refcount = s.refcount /\ u.names = s.names
        /\ u.opencount = s.opencount /\ u.bootfs = new /\ u.leaked = s.leaked /\ u.panic = s.panic /\ u.open = s.open
        /\ u.cwd = s.cwd
    BY DEF Good, IsState, Record
  <1> HIDE DEF u
  <1>2. IsState(u)
    BY <1>1 DEF Good, IsState
  <1>3. ASSUME s.panic = FALSE, NEW w \in Vnode
        PROVE  u.refcount[w] = Hold(u, w) + Moved(h, old, new)[w] /\ u.opencount[w] = u.open[w]
    <2>1. s.refcount[w] = Hold(s, w) + h[w] /\ s.opencount[w] = s.open[w]
      BY <1>3 DEF Good, Exact
    <2> DEFINE c == Cardinality({x \in Proc : s.cwd[x] = w})
               k == s.open[w]
               b == (IF w.kind = "dev" \/ w \in s.leaked THEN 1 ELSE 0)
    <2>2. Hold(s, w) = k + c + (IF old = w THEN 1 ELSE 0) + b
      BY DEF Hold
    <2>3. Hold(u, w) = k + c + (IF new = w THEN 1 ELSE 0) + b
      BY <1>1 DEF Hold
    <2>4. k \in Nat /\ b \in Nat /\ h[w] \in Nat /\ c \in Nat
      <3>1. c \in Nat
        BY CwdCount, Zenon
      <3>2. k \in Nat /\ b \in Nat /\ h[w] \in Nat
        BY DEF Good, IsState, Hand
      <3> QED
        BY <3>1, <3>2
    <2>5. Moved(h, old, new)[w] = h[w] + (IF w = old THEN 1 ELSE 0) - (IF w = new THEN 1 ELSE 0)
      BY DEF Moved
    <2> HIDE DEF c, k, b, old
    <2> QED
      BY <1>1, <2>1, <2>2, <2>3, <2>4, <2>5
  <1> QED
    BY <1>1, <1>2, <1>3, Zenon DEF Good, Exact, u

\* What was there before is dropped.
LEMMA DropOld ==
  ASSUME VfsConstants, NEW h \in Hand, NEW s, NEW old \in Vnode \cup {NULL},
         NEW new \in Vnode \cup {NULL}, new \in Vnode => h[new] >= 1, Good(s, Moved(h, old, new)),
         NEW r, r = IF old = NULL THEN s ELSE vnode_decref(s, old)
  PROVE  Good(r, IF new = NULL THEN h ELSE Minus(h, new))
  <1>0. NULL \notin Vnode
    BY DEF VfsConstants
  <1>1. CASE old = NULL
    BY <1>0, <1>1, HandMoved
  <1>2. CASE old # NULL /\ old = new
    <2>1. Good(vnode_decref(s, old), Minus(h, old))
      BY <1>0, <1>2, HandMoved, DecrefGood
    <2> QED
      BY <1>0, <1>2, <2>1
  <1>3. CASE old # NULL /\ old # new
    <2>1. old \in Vnode
      BY <1>3
    <2>2. /\ Moved(h, old, new) \in Hand /\ Moved(h, old, new)[old] >= 1
          /\ Minus(Moved(h, old, new), old) = Moved(h, NULL, new)
      BY <1>3, <2>1, HandMoved
    <2>3. Good(vnode_decref(s, old), Moved(h, NULL, new))
      BY <2>1, <2>2, DecrefGood
    <2> QED
      BY <1>0, <1>3, <2>3, HandMoved
  <1> QED
    BY <1>1, <1>2, <1>3

\* vnode_incref() changes nobody's current directory.
LEMMA IncrefKeepsCwd ==
  ASSUME NEW s, IsState(s), NEW v \in Vnode PROVE vnode_incref(s, v).cwd = s.cwd
  BY DEF vnode_incref, Panic, IsState, Record

\* vfs_setcurdir() takes a reference to the new directory and drops the old.
LEMMA SetcurdirLeaves ==
  ASSUME VfsConstants, NEW h \in Hand, NEW s, Good(s, h), NEW t \in Proc, NEW dir \in Vnode
  PROVE  Leaves(vfs_setcurdir(s, t, dir), h)
  <1> DEFINE i == vnode_incref(s, dir)
             s1 == [i EXCEPT !.cwd[t] = dir]
             old == s.cwd[t]
             q == IF old = NULL THEN s1 ELSE vnode_decref(s1, old)
  <1>1. CASE dir.kind # "root"
    <2>1. vfs_setcurdir(s, t, dir) = Fail(s, "ENOTDIR")
      BY <1>1 DEF vfs_setcurdir
    <2> QED
      BY <2>1, FailLeaves
  <1>2. CASE dir.kind = "root"
    <2>1. vfs_setcurdir(s, t, dir) = Ok(q, NULL)
      BY <1>2 DEF vfs_setcurdir
    <2>2. Good(i, Plus(h, dir)) /\ i.cwd = s.cwd /\ Plus(h, dir) \in Hand /\ Plus(h, dir)[dir] >= 1
          /\ Minus(Plus(h, dir), dir) = h
      BY IncrefGood, IncrefKeepsCwd, HandPlus, Zenon DEF Good
    <2>3. old \in Vnode \cup {NULL} /\ NULL \notin Vnode
      BY DEF Good, IsState, VfsConstants
    <2> HIDE DEF i
    <2>4. Good(s1, Moved(Plus(h, dir), old, dir))
      BY <2>2, CwdMoves
    <2> HIDE DEF s1, old
    <2>5. Good(q, IF dir = NULL THEN Plus(h, dir) ELSE Minus(Plus(h, dir), dir))
      BY <2>2, <2>3, <2>4, DropOld
    <2>6. Good(q, h)
      BY <2>2, <2>3, <2>5
    <2> HIDE DEF q
    <2> QED
      BY <2>1, <2>6, OkLeaves
  <1> QED
    BY <1>1, <1>2

\* vfs_clearcurdir() drops the reference of the current directory.
LEMMA ClearcurdirGood ==
  ASSUME VfsConstants, NEW h \in Hand, NEW s, Good(s, h), NEW t \in Proc
  PROVE  Good(vfs_clearcurdir(s, t), h)
  <1> DEFINE s1 == [s EXCEPT !.cwd[t] = NULL]
             old == s.cwd[t]
             q == IF old = NULL THEN s1 ELSE vnode_decref(s1, old)
  <1>1. vfs_clearcurdir(s, t) = q
    BY DEF vfs_clearcurdir
  <1>2. old \in Vnode \cup {NULL} /\ NULL \notin Vnode
    BY DEF Good, IsState, VfsConstants
  <1>3. Good(s1, Moved(h, old, NULL))
    BY <1>2, CwdMoves
  <1> HIDE DEF s1, old
  <1>4. Good(q, IF NULL = NULL THEN h ELSE Minus(h, NULL))
    BY <1>2, <1>3, DropOld
  <1> QED
    BY <1>1, <1>4

\* change_bootfs() keeps the reference it is given and drops the old.
LEMMA BootfsGood ==
  ASSUME VfsConstants, NEW h \in Hand, NEW s, Good(s, h), NEW new \in Vnode \cup {NULL},
         new \in Vnode => h[new] >= 1
  PROVE  Good(change_bootfs(s, new), IF new = NULL THEN h ELSE Minus(h, new))
  <1> DEFINE s1 == [s EXCEPT !.bootfs = new]
             old == s.bootfs
             q == IF old = NULL THEN s1 ELSE vnode_decref(s1, old)
  <1>1. change_bootfs(s, new) = q
    BY DEF change_bootfs
  <1>2. old \in Vnode \cup {NULL} /\ NULL \notin Vnode
    BY DEF Good, IsState, VfsConstants
  <1>3. Good(s1, Moved(h, old, new))
    BY BootMoves
  <1> HIDE DEF s1, old
  <1>4. Good(q, IF new = NULL THEN h ELSE Minus(h, new))
    BY <1>2, <1>3, DropOld
  <1> QED
    BY <1>1, <1>4

----------------------------------------------------------------------------
(* The table of devices. *)

\* The table of devices holds no references.
LEMMA KnowndevsGood ==
  ASSUME NEW h \in Hand, NEW s, Good(s, h), NEW kds, DOMAIN kds = Devs, \A i \in Devs : IsEntry(kds[i])
  PROVE  Good([s EXCEPT !.knowndevs = kds], h)
  <1> DEFINE u == [s EXCEPT !.knowndevs = kds]
  <1>1. /\ Record(u) /\ u.knowndevs = kds /\ u.refcount = s.refcount /\ u.names = s.names
        /\ u.opencount = s.opencount /\ u.bootfs = s.bootfs /\ u.leaked = s.leaked /\ u.panic = s.panic /\ u.open = s.open
        /\ u.cwd = s.cwd
    BY DEF Good, IsState, Record
  <1> HIDE DEF u
  <1>2. IsState(u)
    BY <1>1 DEF Good, IsState
  <1> QED
    BY <1>1, <1>2, KeepGood, Zenon DEF u

\* An entry with another file system is an entry.
LEMMA EntryChange ==
  ASSUME NEW kd, IsEntry(kd), NEW fs \in FS \cup {NoFS}
  PROVE  IsEntry([kd EXCEPT !.fs = fs])
  BY DEF IsEntry

\* Mounting and unmounting change no counts.
LEMMA DevFsGood ==
  ASSUME NEW h \in Hand, NEW s, Good(s, h), NEW i \in Devs, NEW fs \in FS \cup {NoFS}
  PROVE  Good([s EXCEPT !.knowndevs[i].fs = fs], h)
  <1> DEFINE k == [s.knowndevs[i] EXCEPT !.fs = fs]
             kds == [s.knowndevs EXCEPT ![i] = k]
  <1>1. DOMAIN s.knowndevs = Devs /\ \A j \in Devs : IsEntry(s.knowndevs[j])
    BY DEF Good, IsState
  <1>2. IsEntry(k)
    BY <1>1, EntryChange
  <1>3. [s EXCEPT !.knowndevs[i].fs = fs] = [s EXCEPT !.knowndevs = kds]
    OBVIOUS
  <1> HIDE DEF k
  <1>4. DOMAIN kds = Devs /\ \A j \in Devs : IsEntry(kds[j])
    BY <1>1, <1>2
  <1> HIDE DEF kds
  <1> QED
    BY <1>3, <1>4, KnowndevsGood

\* What findmount() finds is in the table, and a file system is on it.
LEMMA MountFound ==
  ASSUME VfsConstants, NEW h, NEW s, Good(s, h), NEW devname, findmount(s, devname) # {}
  PROVE  LET i == Min(findmount(s, devname))
         IN  i \in Devs /\ IsEntry(s.knowndevs[i]) /\ OnDisk[devname] \in FS
  <1> DEFINE f == findmount(s, devname)
             i == Min(f)
  <1>1. f \in SUBSET Nat /\ f \subseteq Devs
    BY DevsAreNumbered DEF Good, IsState, findmount
  <1>2. i \in f
    <2> HIDE DEF f
    <2>1. f # {}
      BY DEF f
    <2> QED
      BY <1>1, <2>1, VfsMin
  <1> HIDE DEF i
  <1>3. s.knowndevs[i].rawname # NULL /\ s.knowndevs[i].name = devname
    BY <1>2 DEF findmount
  <1>4. i \in Devs /\ IsEntry(s.knowndevs[i])
    BY <1>1, <1>2 DEF Good, IsState
  <1>5. OnDisk[devname] \in FS
    BY <1>3, <1>4 DEF IsEntry
  <1> QED
    BY <1>4, <1>5 DEF i

\* vfs_mount() leaves the references as they are.
LEMMA MountLeaves ==
  ASSUME VfsConstants, NEW h \in Hand, NEW s, Good(s, h), NEW devname, NEW ok
  PROVE  Leaves(vfs_mount(s, devname, ok), h)
  <1> DEFINE i == Min(findmount(s, devname))
             r == vfs_mount(s, devname, ok)
             fs == OnDisk[devname]
  <1>1. CASE findmount(s, devname) = {}
    BY <1>1, FailLeaves DEF vfs_mount
  <1>2. CASE findmount(s, devname) # {}
    <2>1. i \in Devs /\ fs \in FS
      BY <1>2, MountFound
    <2>2. \/ r = Fail(s, "EBUSY")
          \/ r = Fail(s, "EIO")
          \/ r = Ok([s EXCEPT !.knowndevs[i].fs = fs], NULL)
      BY <1>2 DEF vfs_mount
    <2> HIDE DEF i, fs
    <2>3. Good([s EXCEPT !.knowndevs[i].fs = fs], h)
      BY <2>1, DevFsGood
    <2> QED
      BY <2>2, <2>3, FailLeaves, OkLeaves
  <1> QED
    BY <1>1, <1>2

\* FSOP_UNMOUNT leaves the references as they are.
LEMMA DropLeaves ==
  ASSUME NEW h \in Hand, NEW s, Good(s, h), NEW i \in Devs
  PROVE  Leaves(Drop(s, i), h)
  <1>1. Good([s EXCEPT !.knowndevs[i].fs = NoFS], h)
    BY DevFsGood
  <1>2. \/ Drop(s, i) = Fail(s, "EBUSY")
        \/ Drop(s, i) = Ok([s EXCEPT !.knowndevs[i].fs = NoFS], NULL)
    BY DEF Drop
  <1> QED
    BY <1>1, <1>2, FailLeaves, OkLeaves

\* vfs_unmount() leaves the references as they are.
LEMMA UnmountLeaves ==
  ASSUME VfsConstants, NEW h \in Hand, NEW s, Good(s, h), NEW devname, NEW ok
  PROVE  Leaves(vfs_unmount(s, devname, ok), h)
  <1> DEFINE i == Min(findmount(s, devname))
             r == vfs_unmount(s, devname, ok)
  <1>1. CASE findmount(s, devname) = {}
    BY <1>1, FailLeaves DEF vfs_unmount
  <1>2. CASE findmount(s, devname) # {}
    <2>1. i \in Devs
      BY <1>2, MountFound
    <2>2. r = Fail(s, "EINVAL") \/ r = Fail(s, "EIO") \/ r = Drop(s, i)
      BY <1>2 DEF vfs_unmount
    <2> HIDE DEF i
    <2> QED
      BY <2>1, <2>2, FailLeaves, DropLeaves
  <1> QED
    BY <1>1, <1>2

\* vfs_unmountall() leaves the references as they are.
LEMMA UnmountallGood ==
  ASSUME NEW h \in Hand, NEW s, Good(s, h), NEW failing
  PROVE  Good(vfs_unmountall(s, failing), h)
  <1> DEFINE old == s.knowndevs
             stays(i) == old[i].rawname = NULL \/ old[i].fs = NoFS \/ i \in failing
             kds == [i \in DOMAIN old |-> IF stays(i) THEN old[i] ELSE Drop(s, i).s.knowndevs[i]]
  <1>1. vfs_unmountall(s, failing) = [s EXCEPT !.knowndevs = kds]
    BY DEF vfs_unmountall
  <1>2. DOMAIN old = Devs /\ \A i \in Devs : IsEntry(old[i])
    BY DEF Good, IsState
  <1>3. ASSUME NEW i \in Devs PROVE IsEntry(Drop(s, i).s.knowndevs[i])
    <2>1. Good(Drop(s, i).s, h)
      BY DropLeaves DEF Leaves
    <2> QED
      BY <2>1 DEF Good, IsState
  <1>4. DOMAIN kds = Devs /\ \A i \in Devs : IsEntry(kds[i])
    BY <1>2, <1>3
  <1> HIDE DEF kds
  <1> QED
    BY <1>1, <1>4, KnowndevsGood

----------------------------------------------------------------------------
(* The operations. *)

\* An operation that failed to hand back a vnode leaves them as they are.
LEMMA GivesLeaves == ASSUME NEW h, NEW r, Gives(r, h), r.err # "ok" PROVE Leaves(r, h)
  BY DEF Gives, Leaves

\* The part of vfs_open() after the lookup keeps or gives back the reference.
LEMMA OpenFoundGood ==
  ASSUME VfsConstants, NEW h \in Hand, NEW r, Gives(r, h), NEW flags
  PROVE  Good(OpenFound(r, flags).s, h)
  <1> DEFINE v == r.val
             q == OpenFound(r, flags)
             back == vnode_decopen(vnode_incopen(r.s, v), v)
  <1>1. CASE r.err # "ok"
    BY <1>1 DEF OpenFound, Gives
  <1>2. CASE r.err = "ok"
    <2>1. v \in Vnode /\ Good(r.s, Plus(h, v))
      BY <1>2 DEF Gives
    <2>2. \/ q = Fail(vnode_decref(r.s, v), VOP_OPEN(v, flags))
          \/ q = Fail(vnode_decref(back, v), "EINVAL")
          \/ q = Ok([vnode_incopen(r.s, v) EXCEPT !.open[v] = @ + 1], v)
      BY <1>2 DEF OpenFound
    <2> HIDE DEF v
    <2>3. Plus(h, v) \in Hand /\ Plus(h, v)[v] >= 1 /\ Minus(Plus(h, v), v) = h
      BY <2>1, HandPlus
    <2>4. Good(vnode_decref(r.s, v), h)
      BY <2>1, <2>3, DecrefGood
    <2>5. Good(back, Plus(h, v))
      BY <2>1, <2>3, OpenBack
    <2> HIDE DEF back
    <2>6. Good(vnode_decref(back, v), h)
      BY <2>1, <2>3, <2>5, DecrefGood
    <2>7. Good([vnode_incopen(r.s, v) EXCEPT !.open[v] = @ + 1], h)
      BY <2>1, OpenPlus
    <2> HIDE DEF q
    <2>8. Good(q.s, h)
      <3>1. CASE q = Fail(vnode_decref(r.s, v), VOP_OPEN(v, flags))
        BY <2>4, <3>1 DEF Fail
      <3>2. CASE q = Fail(vnode_decref(back, v), "EINVAL")
        BY <2>6, <3>2 DEF Fail
      <3>3. CASE q = Ok([vnode_incopen(r.s, v) EXCEPT !.open[v] = @ + 1], v)
        <4> DEFINE o == [vnode_incopen(r.s, v) EXCEPT !.open[v] = @ + 1]
        <4>1. Good(o, h) /\ q = Ok(o, v)
          BY <2>7, <3>3
        <4> HIDE DEF o
        <4> QED
          BY <4>1 DEF Ok
      <3> QED
        BY <2>2, <3>1, <3>2, <3>3
    <2> QED
      BY <2>8 DEF q
  <1> QED
    BY <1>1, <1>2

\* vfs_open(), with and without O_CREAT, leaves nothing in hand.
LEMMA OpenGood ==
  ASSUME VfsConstants, NEW s, Good(s, Empty), NEW t \in Proc, NEW path \in Path, NEW flags
  PROVE  Good(vfs_open(s, t, path, flags).s, Empty)
  <1> DEFINE h == Empty
             p == vfs_lookparent(s, t, path)
             d == p.val
             c == VOP_CREAT(p.s, d, path.sub, "EXCL" \in flags)
             q == vfs_open(s, t, path, flags)
  <1>0. h \in Hand
    BY DEF Empty, Hand
  <1> HIDE DEF h
  <1>1. CASE "CREAT" \notin flags
    <2>1. q = OpenFound(vfs_lookup(s, t, path), flags)
      BY <1>1 DEF vfs_open
    <2>2. Gives(vfs_lookup(s, t, path), h)
      BY <1>0, FoundGives DEF h
    <2> QED
      BY <1>0, <2>1, <2>2, OpenFoundGood DEF h
  <1>2. CASE "CREAT" \in flags
    <2>1. Gives(p, h) /\ (p.err = "ok" => d.kind = "root")
      BY <1>0, LookparentGives DEF h
    <2>2. CASE p.err # "ok"
      BY <1>2, <2>1, <2>2 DEF vfs_open, Gives, h
    <2>3. CASE p.err = "ok"
      <3>1. q = OpenFound(Decref(c, d), flags)
        BY <1>2, <2>3 DEF vfs_open
      <3>2. d \in Vnode /\ d.kind = "root" /\ Good(p.s, Plus(h, d)) /\ Plus(h, d) \in Hand
        BY <1>0, <2>1, <2>3, HandPlus DEF Gives
      <3> HIDE DEF d, p
      <3>3. Gives(c, Plus(h, d))
        BY <3>2, CreatGives
      <3> HIDE DEF c
      <3>4. Gives(Decref(c, d), h)
        BY <1>0, <3>2, <3>3, DecrefGives
      <3> QED
        BY <1>0, <3>1, <3>4, OpenFoundGood DEF h
    <2> QED
      BY <2>2, <2>3
  <1> QED
    BY <1>1, <1>2

\* vfs_close() leaves nothing more in hand.
LEMMA CloseGood ==
  ASSUME VfsConstants, NEW h \in Hand, NEW s, Good(s, h), NEW v \in Vnode, s.open[v] > 0
  PROVE  Good(vfs_close(s, v), h)
  <1> DEFINE u == [vnode_decopen(s, v) EXCEPT !.open[v] = @ - 1]
  <1>1. Good(u, Plus(h, v))
    BY OpenMinus
  <1>2. vfs_close(s, v) = vnode_decref(u, v)
    BY DEF vfs_close
  <1>3. Plus(h, v) \in Hand /\ Plus(h, v)[v] >= 1 /\ Minus(Plus(h, v), v) = h
    BY HandPlus
  <1> HIDE DEF u
  <1> QED
    BY <1>1, <1>2, <1>3, DecrefGood
\* vfs_remove(), vfs_symlink(), vfs_mkdir() and vfs_rmdir() leave nothing more in hand.
LEMMA UnlinkLeaves ==
  ASSUME VfsConstants, NEW h \in Hand, NEW s, Good(s, h), NEW t \in Proc, NEW path \in Path
  PROVE  Leaves(vfs_remove(s, t, path), h) /\ Leaves(vfs_nameop(s, t, path), h)
  <1> DEFINE p == vfs_lookparent(s, t, path)
             d == p.val
  <1>1. Gives(p, h) /\ (p.err = "ok" => d.kind = "root")
    BY LookparentGives
  <1>2. CASE p.err # "ok"
    <2>1. Leaves(p, h)
      BY <1>1, <1>2, GivesLeaves
    <2> QED
      BY <1>2, <2>1 DEF vfs_remove, vfs_nameop
  <1>3. CASE p.err = "ok"
    <2>1. /\ vfs_remove(s, t, path) = Decref(VOP_REMOVE(p.s, d, path.sub), d)
          /\ vfs_nameop(s, t, path) = Decref(Fail(p.s, "EUNIMP"), d)
      BY <1>3 DEF vfs_remove, vfs_nameop
    <2>2. d \in Vnode /\ d.kind = "root" /\ Good(p.s, Plus(h, d)) /\ Plus(h, d) \in Hand
      BY <1>1, <1>3, HandPlus DEF Gives
    <2> HIDE DEF d, p
    <2>3. Leaves(VOP_REMOVE(p.s, d, path.sub), Plus(h, d)) /\ Leaves(Fail(p.s, "EUNIMP"), Plus(h, d))
      BY <2>2, RemoveLeaves, FailLeaves
    <2> QED
      BY <2>1, <2>2, <2>3, DecrefLeaves
  <1> QED
    BY <1>2, <1>3

\* vfs_readlink() leaves nothing more in hand.
LEMMA ReadlinkLeaves ==
  ASSUME VfsConstants, NEW h \in Hand, NEW s, Good(s, h), NEW t \in Proc, NEW path \in Path
  PROVE  Leaves(vfs_readlink(s, t, path), h)
  <1> DEFINE l == vfs_lookup(s, t, path)
             v == l.val
  <1>1. Gives(l, h)
    BY FoundGives
  <1>2. CASE l.err # "ok"
    <2>1. Leaves(l, h)
      BY <1>1, <1>2, GivesLeaves
    <2> QED
      BY <1>2, <2>1 DEF vfs_readlink
  <1>3. CASE l.err = "ok"
    <2>1. vfs_readlink(s, t, path) = Decref(Fail(l.s, "EINVAL"), v)
      BY <1>3 DEF vfs_readlink
    <2>2. v \in Vnode /\ Good(l.s, Plus(h, v))
      BY <1>1, <1>3 DEF Gives
    <2> HIDE DEF v, l
    <2> QED
      BY <2>1, <2>2, FailLeaves, DecrefLeaves
  <1> QED
    BY <1>2, <1>3

\* vfs_rename() and vfs_link(): what was looked up first is dropped on every
\* path, and so is what was looked up second.
LEMMA TwoLookups ==
  ASSUME VfsConstants, NEW h \in Hand, NEW o, NEW n, NEW r, NEW res,
         Gives(o, h), o.err = "ok" => Gives(n, Plus(h, o.val)),
         o.err = "ok" /\ n.err = "ok" => Leaves(r, Plus(Plus(h, o.val), n.val)),
         res = IF o.err # "ok" THEN o
               ELSE IF n.err # "ok" THEN Decref(n, o.val)
               ELSE Decref(Decref(r, n.val), o.val)
  PROVE  Leaves(res, h)
  <1> DEFINE v == o.val
             w == n.val
  <1>1. CASE o.err # "ok"
    BY <1>1, GivesLeaves
  <1>2. CASE o.err = "ok"
    <2>1. v \in Vnode /\ Plus(h, v) \in Hand /\ Gives(n, Plus(h, v))
      BY <1>2, HandPlus DEF Gives
    <2>2. CASE n.err # "ok"
      <3>1. res = Decref(n, v) /\ Leaves(n, Plus(h, v))
        BY <1>2, <2>1, <2>2, GivesLeaves
      <3> HIDE DEF v
      <3> QED
        BY <2>1, <3>1, DecrefLeaves
    <2>3. CASE n.err = "ok"
      <3>1. res = Decref(Decref(r, w), v) /\ Leaves(r, Plus(Plus(h, v), w)) /\ w \in Vnode
        BY <1>2, <2>1, <2>3 DEF Gives
      <3> HIDE DEF v, w
      <3>2. Leaves(Decref(r, w), Plus(h, v))
        BY <2>1, <3>1, DecrefLeaves
      <3> QED
        BY <2>1, <3>1, <3>2, DecrefLeaves
    <2> QED
      BY <2>2, <2>3
  <1> QED
    BY <1>1, <1>2

\* vfs_rename() gives back both of its directories on every path.
LEMMA RenamesLeaves ==
  ASSUME VfsConstants, NEW h \in Hand, NEW s, Good(s, h), NEW t \in Proc,
         NEW old \in Path, NEW new \in Path
  PROVE  Leaves(vfs_rename(s, t, old, new), h)
  <1> DEFINE o == vfs_lookparent(s, t, old)
             n == vfs_lookparent(o.s, t, new)
             r == IF o.val.of # n.val.of THEN Fail(n.s, "EXDEV")
                  ELSE VOP_RENAME(n.s, o.val, old.sub, new.sub)
             res == vfs_rename(s, t, old, new)
  <1>1. Gives(o, h) /\ (o.err = "ok" => o.val.kind = "root")
    BY LookparentGives
  <1>2. res = IF o.err # "ok" THEN o
              ELSE IF n.err # "ok" THEN Decref(n, o.val)
              ELSE Decref(Decref(r, n.val), o.val)
    BY DEF vfs_rename
  <1> HIDE DEF o
  <1>3. ASSUME o.err = "ok"
        PROVE  o.val \in Vnode /\ Plus(h, o.val) \in Hand /\ Gives(n, Plus(h, o.val))
    <2>1. o.val \in Vnode /\ Good(o.s, Plus(h, o.val)) /\ Plus(h, o.val) \in Hand
      BY <1>1, <1>3, HandPlus DEF Gives
    <2> QED
      BY <2>1, LookparentGives
  <1> HIDE DEF n
  <1>4. ASSUME o.err = "ok", n.err = "ok"
        PROVE  Leaves(r, Plus(Plus(h, o.val), n.val))
    <2>1. /\ Plus(Plus(h, o.val), n.val) \in Hand /\ Good(n.s, Plus(Plus(h, o.val), n.val))
          /\ o.val \in Vnode /\ o.val.kind = "root"
      BY <1>1, <1>3, <1>4, HandPlus DEF Gives
    <2> QED
      BY <2>1, RenameLeaves, FailLeaves
  <1> HIDE DEF r, res
  <1>5. Leaves(res, h)
    BY <1>1, <1>2, <1>3, <1>4, TwoLookups
  <1> QED
    BY <1>5 DEF res

\* vfs_link() gives back the file and the directory on every path.
LEMMA LinksLeaves ==
  ASSUME VfsConstants, NEW h \in Hand, NEW s, Good(s, h), NEW t \in Proc,
         NEW old \in Path, NEW new \in Path
  PROVE  Leaves(vfs_link(s, t, old, new), h)
  <1> DEFINE o == vfs_lookup(s, t, old)
             n == vfs_lookparent(o.s, t, new)
             r == IF vn_fs(o.val) # n.val.of THEN Fail(n.s, "EXDEV")
                  ELSE VOP_LINK(n.s, n.val, new.sub, o.val)
             res == vfs_link(s, t, old, new)
  <1>1. Gives(o, h)
    BY FoundGives
  <1>2. res = IF o.err # "ok" THEN o
              ELSE IF n.err # "ok" THEN Decref(n, o.val)
              ELSE Decref(Decref(r, n.val), o.val)
    BY DEF vfs_link
  <1> HIDE DEF o
  <1>3. ASSUME o.err = "ok"
        PROVE  /\ o.val \in Vnode /\ Plus(h, o.val) \in Hand /\ Gives(n, Plus(h, o.val))
               /\ (n.err = "ok" => n.val.kind = "root")
    <2>1. o.val \in Vnode /\ Good(o.s, Plus(h, o.val)) /\ Plus(h, o.val) \in Hand
      BY <1>1, <1>3, HandPlus DEF Gives
    <2> QED
      BY <2>1, LookparentGives
  <1> HIDE DEF n
  <1>4. ASSUME o.err = "ok", n.err = "ok"
        PROVE  Leaves(r, Plus(Plus(h, o.val), n.val))
    <2>1. /\ Plus(Plus(h, o.val), n.val) \in Hand /\ Good(n.s, Plus(Plus(h, o.val), n.val))
          /\ n.val \in Vnode /\ n.val.kind = "root" /\ o.val \in Vnode
      BY <1>1, <1>3, <1>4, HandPlus DEF Gives
    <2> QED
      BY <2>1, LinkLeaves, FailLeaves
  <1> HIDE DEF r, res
  <1>5. Leaves(res, h)
    BY <1>1, <1>2, <1>3, <1>4, TwoLookups
  <1> QED
    BY <1>5 DEF res

\* vfs_chdir() leaves nothing more in hand.
LEMMA ChdirLeaves ==
  ASSUME VfsConstants, NEW h \in Hand, NEW s, Good(s, h), NEW t \in Proc, NEW path,
         path.kind \in {"plain", "dev", "slash", "colon"}
  PROVE  Leaves(vfs_chdir(s, t, path), h)
  <1> DEFINE l == vfs_lookup(s, t, path)
             v == l.val
  <1>1. Gives(l, h)
    BY PathGives
  <1>2. CASE l.err # "ok"
    <2>1. Leaves(l, h)
      BY <1>1, <1>2, GivesLeaves
    <2> QED
      BY <1>2, <2>1 DEF vfs_chdir
  <1>3. CASE l.err = "ok"
    <2>1. vfs_chdir(s, t, path) = Decref(vfs_setcurdir(l.s, t, v), v)
      BY <1>3 DEF vfs_chdir
    <2>2. v \in Vnode /\ Good(l.s, Plus(h, v)) /\ Plus(h, v) \in Hand
      BY <1>1, <1>3, HandPlus DEF Gives
    <2> HIDE DEF v, l
    <2> QED
      BY <2>1, <2>2, SetcurdirLeaves, DecrefLeaves
  <1> QED
    BY <1>2, <1>3

\* vfs_getcwd() leaves nothing more in hand.
LEMMA GetcwdGood ==
  ASSUME VfsConstants, NEW h \in Hand, NEW s, Good(s, h), NEW t \in Proc
  PROVE  Good(vfs_getcwd(s, t).s, h)
  <1> DEFINE cur == vfs_getcurdir(s, t)
             v == cur.val
             fs == vn_fs(v)
             name == IF VolName[fs] # NULL THEN VolName[fs] ELSE vfs_getdevname(cur.s, fs)
             r == vfs_getcwd(s, t)
  <1>1. Gives(cur, h)
    BY CurdirGives
  <1>2. CASE cur.err # "ok"
    BY <1>1, <1>2 DEF vfs_getcwd, Gives
  <1>3. CASE cur.err = "ok"
    <2>1. r = Fail(Panic(s), "panic") \/ r = Ok(vnode_decref(cur.s, v), name)
      BY <1>3 DEF vfs_getcwd
    <2>2. v \in Vnode /\ Good(cur.s, Plus(h, v))
      BY <1>1, <1>3 DEF Gives
    <2> HIDE DEF v, cur, name, fs
    <2>3. Good(vnode_decref(cur.s, v), h)
      BY <2>2, HandPlus, DecrefGood
    <2>4. Good(Panic(s), h)
      BY PanicGood, Zenon DEF Good
    <2>5. Leaves(r, h)
      BY <2>1, <2>3, <2>4, FailLeaves, OkLeaves
    <2> QED
      BY <2>5 DEF Leaves
  <1> QED
    BY <1>2, <1>3

\* vfs_setbootfs() leaves nothing more in hand.
LEMMA SetbootGood ==
  ASSUME VfsConstants, NEW h \in Hand, NEW s, Good(s, h), NEW t \in Proc, NEW fsname
  PROVE  Good(vfs_setbootfs(s, t, fsname).s, h)
  <1> DEFINE path == [kind |-> "dev", dev |-> fsname, sub |-> NULL]
             c == vfs_chdir(s, t, path)
             g == vfs_getcurdir(c.s, t)
             v == g.val
             r == vfs_setbootfs(s, t, fsname)
  <1>1. Leaves(c, h)
    <2>1. path.kind \in {"plain", "dev", "slash", "colon"}
      OBVIOUS
    <2> HIDE DEF path
    <2> QED
      BY <2>1, ChdirLeaves
  <1>2. r = IF c.err # "ok" THEN c ELSE IF g.err # "ok" THEN g ELSE Ok(change_bootfs(g.s, v), NULL)
    BY DEF vfs_setbootfs
  <1> HIDE DEF c
  <1>3. Gives(g, h)
    BY <1>1, CurdirGives DEF Leaves
  <1>4. CASE c.err = "ok" /\ g.err = "ok"
    <2>1. v \in Vnode /\ Good(g.s, Plus(h, v)) /\ NULL \notin Vnode
      BY <1>3, <1>4 DEF Gives, VfsConstants
    <2> HIDE DEF v, g
    <2>2. Good(change_bootfs(g.s, v), h)
      BY <2>1, HandPlus, BootfsGood
    <2> QED
      BY <1>2, <1>4, <2>2 DEF Ok
  <1> HIDE DEF g
  <1> QED
    BY <1>1, <1>2, <1>3, <1>4 DEF Gives, Leaves

\* At boot nothing is held but the devices.
LEMMA VfsInit == ASSUME VfsConstants PROVE Init => VfsInv
  <1> SUFFICES ASSUME Init PROVE VfsInv
    OBVIOUS
  <1>1. /\ Record(vfs) /\ vfs.knowndevs = KnownDevs
        /\ vfs.refcount = [v \in Vnode |-> IF v.kind = "dev" THEN 1 ELSE 0]
        /\ vfs.opencount = [v \in Vnode |-> 0] /\ vfs.open = [v \in Vnode |-> 0]
        /\ vfs.names = [fs \in FS |-> <<>>] /\ vfs.cwd = [t \in Proc |-> NULL]
        /\ vfs.bootfs = NULL /\ vfs.leaked = {} /\ vfs.panic = FALSE
    BY DEF Init, Record
  <1>2. \A i \in Devs : IsEntry(vfs.knowndevs[i])
    BY <1>1, DevsAreNumbered
  <1>3. /\ vfs.refcount \in [Vnode -> Nat] /\ vfs.opencount \in [Vnode -> Nat]
        /\ vfs.open \in [Vnode -> Nat]
    BY <1>1
  <1>4. DOMAIN vfs.names = FS /\ \A fs \in FS : \A name \in DOMAIN vfs.names[fs] : vfs.names[fs][name] \in 0..MaxIno
    <2>1. DOMAIN <<>> = {}
      OBVIOUS
    <2> QED
      BY <1>1, <2>1
  <1>5. IsState(vfs)
    BY <1>1, <1>2, <1>3, <1>4, Zenon DEF IsState, Devs
  <1>6. ASSUME NEW v \in Vnode
        PROVE  vfs.refcount[v] = Hold(vfs, v) + Empty[v] /\ vfs.opencount[v] = vfs.open[v]
    <2> DEFINE C == {t \in Proc : vfs.cwd[t] = v}
    <2>1. C = {} /\ vfs.bootfs # v
      BY <1>1 DEF VfsConstants
    <2> HIDE DEF C
    <2>2. Cardinality(C) = 0
      BY <2>1, ThreadSets
    <2>3. Hold(vfs, v) = 0 + 0 + 0 + (IF v.kind = "dev" THEN 1 ELSE 0)
      BY <1>1, <2>1, <2>2 DEF Hold, C
    <2> QED
      BY <1>1, <2>3 DEF Empty
  <1> QED
    BY <1>1, <1>5, <1>6 DEF VfsInv, Good, Exact

\* Every operation keeps the counts exact.
LEMMA VfsStep == ASSUME VfsConstants PROVE VfsInv /\ [Next]_vfs => VfsInv'
  <1> SUFFICES ASSUME VfsInv, [Next]_vfs PROVE VfsInv'
    OBVIOUS
  <1> DEFINE h == Empty
  <1>0. h \in Hand /\ h' = h
    BY DEF Empty, Hand
  <1> HIDE DEF h
  <1>1. Good(vfs, h)
    BY DEF VfsInv, h
  <1> SUFFICES Good(vfs', h)
    BY <1>0, Zenon DEF VfsInv, Good, IsState, Record, Exact, Hold, h
  <1>2. ASSUME NEW t \in Proc, NEW path \in Path PROVE path.kind \in {"plain", "dev", "slash", "colon"}
    BY DEF VfsConstants
  <1>3. ASSUME NEW t \in Proc, NEW path \in Path, NEW flags, Open(t, path, flags) PROVE Good(vfs', h)
    BY <1>1, <1>3, OpenGood DEF Open, h
  <1>4. ASSUME NEW t \in Proc, NEW path \in Path, Unlink(t, path) \/ Other(t, path) PROVE Good(vfs', h)
    BY <1>0, <1>1, <1>4, UnlinkLeaves, ReadlinkLeaves DEF Unlink, Other, Leaves
  <1>5. ASSUME NEW t \in Proc, NEW path \in Path, Chdir(t, path) PROVE Good(vfs', h)
    BY <1>0, <1>1, <1>2, <1>5, ChdirLeaves DEF Chdir, Leaves
  <1>6. ASSUME NEW t \in Proc, NEW path \in Path, NEW new \in Path,
               Rename(t, path, new) \/ Link(t, path, new)
        PROVE  Good(vfs', h)
    BY <1>0, <1>1, <1>6, RenamesLeaves, LinksLeaves DEF Rename, Link, Leaves
  <1>7. ASSUME NEW t \in Proc, NEW fsname, SetBoot(t, fsname) PROVE Good(vfs', h)
    BY <1>0, <1>1, <1>7, SetbootGood DEF SetBoot
  <1>8. ASSUME NEW t \in Proc, Getcwd(t) \/ Exit(t) PROVE Good(vfs', h)
    BY <1>0, <1>1, <1>8, GetcwdGood, ClearcurdirGood DEF Getcwd, Exit
  <1>9. ASSUME NEW t \in Proc, NEW failing, Shutdown(t, failing) PROVE Good(vfs', h)
    <2> DEFINE a == change_bootfs(vfs, NULL)
               b == vfs_clearcurdir(a, t)
    <2>1. vfs' = vfs_unmountall(b, failing)
      BY <1>9 DEF Shutdown
    <2>2. NULL \notin Vnode
      BY DEF VfsConstants
    <2>3. Good(a, h)
      BY <1>0, <1>1, <2>2, BootfsGood
    <2> HIDE DEF a
    <2>4. Good(b, h)
      BY <1>0, <2>3, ClearcurdirGood
    <2> HIDE DEF b
    <2> QED
      BY <1>0, <2>1, <2>4, UnmountallGood
  <1>10. ASSUME NEW v \in Vnode, Close(v) PROVE Good(vfs', h)
    BY <1>0, <1>1, <1>10, CloseGood DEF Close
  <1>11. ASSUME NEW dev, NEW ok, Mount(dev, ok) \/ Unmount(dev, ok) PROVE Good(vfs', h)
    BY <1>0, <1>1, <1>11, MountLeaves, UnmountLeaves DEF Mount, Unmount, Leaves
  <1>12. CASE UNCHANGED vfs
    BY <1>1, <1>12
  <1>14. CASE Disks
    <2> DEFINE t == [vfs EXCEPT !.failing = ~@]
    <2>1. /\ Record(t) /\ t.knowndevs = vfs.knowndevs /\ t.refcount = vfs.refcount
          /\ t.names = vfs.names /\ t.opencount = vfs.opencount /\ t.bootfs = vfs.bootfs
          /\ t.leaked = vfs.leaked /\ t.panic = vfs.panic /\ t.open = vfs.open /\ t.cwd = vfs.cwd
      BY <1>1 DEF Good, IsState, Record
    <2>2. vfs' = t
      BY <1>14 DEF Disks
    <2> HIDE DEF t
    <2>3. IsState(t)
      BY <1>1, <2>1 DEF Good, IsState
    <2>4. Good(t, h)
      BY <1>0, <1>1, <2>1, <2>3, KeepGood, Zenon
    <2> QED
      BY <2>2, <2>4
  <1>13. CASE Next
    <2>1. CASE \E t \in Proc :
                 \/ \E path \in Path :
                      \/ \E flags \in Flags : Open(t, path, flags)
                      \/ Unlink(t, path)
                      \/ Chdir(t, path)
                      \/ Other(t, path)
                      \/ \E new \in Path : Rename(t, path, new) \/ Link(t, path, new)
                 \/ \E fsname \in DevNames : SetBoot(t, fsname)
                 \/ Getcwd(t)
                 \/ Exit(t)
                 \/ \E failing \in SUBSET DOMAIN KnownDevs : Shutdown(t, failing)
      BY <1>3, <1>4, <1>5, <1>6, <1>7, <1>8, <1>9, <2>1
    <2>2. CASE \E v \in Vnode : Close(v)
      BY <1>10, <2>2
    <2>3. CASE \E dev \in Mountable, ok \in BOOLEAN : Mount(dev, ok) \/ Unmount(dev, ok)
      BY <1>11, <2>3
    <2> QED
      BY <1>13, <1>14, <2>1, <2>2, <2>3 DEF Next
  <1> QED
    BY <1>12, <1>13

\* At the end of every operation of the VFS layer vn_refcount counts the
\* holders of a vnode and vn_opencount its opens, exactly: no error path of
\* vfs_lookparent(), vfs_open(), vfs_rename(), vfs_link(), vfs_chdir() and the
\* others drops one too many or too few, and each vnode loses at most one to
\* a VOP_RECLAIM that fails, however often it is used afterwards.
THEOREM VfsCountsStayExact == Spec => []VfsCountsAreExact
  <1>1. VfsInv => VfsCountsAreExact
    <2> SUFFICES ASSUME VfsInv, ~vfs.panic, NEW v \in Vnode
                 PROVE  vfs.refcount[v] = Holders(v) /\ vfs.opencount[v] = vfs.open[v]
      BY DEF VfsCountsAreExact
    <2>1. vfs.panic = FALSE
      BY DEF VfsInv, Good, IsState
    <2>2. /\ vfs.refcount[v] = Hold(vfs, v) + Empty[v] /\ vfs.opencount[v] = vfs.open[v]
          /\ vfs.open[v] \in Nat
      BY <2>1 DEF VfsInv, Good, Exact, IsState
    <2>3. Empty[v] = 0 /\ Hold(vfs, v) = Holders(v)
      BY DEF Empty, Hold, Holders
    <2>4. Hold(vfs, v) \in Nat
      BY VfsAssumption, HoldIsNat DEF VfsInv, Good
    <2> QED
      BY <2>2, <2>3, <2>4
  <1> QED
    BY VfsAssumption, VfsInit, VfsStep, <1>1, PTL DEF Spec
=============================================================================
