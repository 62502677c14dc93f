---------------------------- MODULE ThreadsProof ----------------------------
(***************************************************************************)
(* Proofs about Threads.tla, for any finite set of threads, any set of     *)
(* semaphores and any bounds.                                              *)
(***************************************************************************)
EXTENDS Threads, FiniteSetTheorems, TLAPS

(***************************************************************************)
(* The inductive invariant.  OnePlace and NoLostWakeup are not inductive   *)
(* by themselves: a thread that comes out of the switch is put back where  *)
(* its continuation says, so the continuation must agree with the address  *)
(* it slept on, and the count of threads with the threads there are.       *)
(***************************************************************************)
Continuations ==
  /\ curthread # NULL => pc[curthread] = "run"
  /\ \A t \in Thread :
       /\ pc[t] = "P" => t_sleepaddr[t] \in Sem
       /\ pc[t] = "clock" => t_sleepaddr[t] = LBOLT /\ num_secs[t] > 0
  /\ \A t \in Range(sleepers) : pc[t] \in {"P", "clock"}
  /\ waking.addr = NULL => waking = NotWaking

Inv == TypeOK /\ OnePlace /\ CountsThreads /\ Continuations /\ NoLostWakeup

(* What the operations on the lists do to the set of threads on them. *)

\* Adding at the tail, as q_addtail() and array_add() do.
LEMMA AppendRange ==
  ASSUME NEW S, NEW s \in Seq(S), NEW e \in S
  PROVE  /\ Append(s, e) \in Seq(S)
         /\ Range(Append(s, e)) = Range(s) \cup {e}
         /\ IsInjective(s) /\ e \notin Range(s) => IsInjective(Append(s, e))
  <1> DEFINE a == Append(s, e)
             n == Len(s)
  <1>1. /\ n \in Nat /\ DOMAIN s = 1..n
        /\ a \in Seq(S) /\ DOMAIN a = 1..(n + 1)
        /\ a[n + 1] = e /\ \A i \in 1..n : a[i] = s[i]
    OBVIOUS
  <1> HIDE DEF a, n
  <1>2. Range(a) \subseteq Range(s) \cup {e}
    BY <1>1 DEF Range
  <1>3. Range(s) \cup {e} \subseteq Range(a)
    BY <1>1 DEF Range
  <1>4. IsInjective(s) /\ e \notin Range(s) => IsInjective(a)
    BY <1>1 DEF Range, IsInjective
  <1> QED
    BY <1>1, <1>2, <1>3, <1>4 DEF a

\* Taking the head, as q_remhead() does.
LEMMA TailRange ==
  ASSUME NEW S, NEW s \in Seq(S), s # <<>>, IsInjective(s)
  PROVE  /\ Head(s) \in S /\ Head(s) \in Range(s)
         /\ Tail(s) \in Seq(S)
         /\ Range(Tail(s)) = Range(s) \ {Head(s)}
         /\ IsInjective(Tail(s))
  <1>1. /\ Len(s) \in Nat \ {0}
        /\ Head(s) = s[1] /\ Tail(s) \in Seq(S) /\ Len(Tail(s)) = Len(s) - 1
        /\ \A i \in 1..(Len(s) - 1) : Tail(s)[i] = s[i + 1]
    OBVIOUS
  <1>2. /\ DOMAIN s = 1..Len(s) /\ DOMAIN Tail(s) = 1..(Len(s) - 1)
    BY <1>1
  <1>3. Range(Tail(s)) \subseteq Range(s) \ {Head(s)}
    BY <1>1, <1>2 DEF Range, IsInjective
  <1>4. ASSUME NEW x \in Range(s) \ {Head(s)}
        PROVE  x \in Range(Tail(s))
    <2>1. PICK i \in 1..Len(s) : s[i] = x
      BY <1>2 DEF Range
    <2>2. i # 1 /\ i - 1 \in 1..(Len(s) - 1)
      BY <1>1, <2>1
    <2>3. Tail(s)[i - 1] = x
      BY <1>1, <2>1, <2>2
    <2> QED
      BY <1>2, <2>2, <2>3, Zenon DEF Range
  <1>5. IsInjective(Tail(s))
    BY <1>1, <1>2 DEF IsInjective
  <1>6. Head(s) \in S /\ Head(s) \in Range(s)
    BY <1>1, <1>2 DEF Range
  <1> QED
    BY <1>1, <1>3, <1>4, <1>5, <1>6

\* Closing the gap at index i, as array_remove() does.
LEMMA RemoveRange ==
  ASSUME NEW S, NEW s \in Seq(S), NEW i \in DOMAIN s, IsInjective(s)
  PROVE  /\ array_remove(s, i) \in Seq(S)
         /\ Range(array_remove(s, i)) = Range(s) \ {s[i]}
         /\ IsInjective(array_remove(s, i))
  <1> DEFINE r == array_remove(s, i)
             n == Len(s)
  <1>1. n \in Nat /\ i \in 1..n /\ DOMAIN s = 1..n
    OBVIOUS
  <1>2. \A k \in 1..n : s[k] \in S
    OBVIOUS
  <1>3. n - 1 \in Nat /\ r = [k \in 1..(n - 1) |-> IF k < i THEN s[k] ELSE s[k + 1]]
    BY <1>1 DEF array_remove
  <1> HIDE DEF r, n
  <1>4. /\ r \in Seq(S) /\ DOMAIN r = 1..(n - 1)
        /\ \A k \in 1..(n - 1) : r[k] = IF k < i THEN s[k] ELSE s[k + 1]
    BY <1>1, <1>2, <1>3
  <1>5. ASSUME NEW x \in Range(r)
        PROVE  x \in Range(s) \ {s[i]}
    <2>1. PICK k \in 1..(n - 1) : r[k] = x
      BY <1>4 DEF Range
    <2>2. PICK l \in 1..n : l # i /\ s[l] = x
      BY <1>1, <1>4, <2>1
    <2> QED
      BY <1>1, <2>2 DEF Range, IsInjective
  <1>6. ASSUME NEW x \in Range(s) \ {s[i]}
        PROVE  x \in Range(r)
    <2>1. PICK k \in 1..n : s[k] = x
      BY <1>1 DEF Range
    <2>2. CASE k < i
      <3>1. k \in 1..(n - 1) /\ r[k] = x
        BY <1>1, <1>4, <2>1, <2>2
      <3> QED
        BY <1>4, <3>1 DEF Range
    <2>3. CASE k > i
      <3>1. k - 1 \in 1..(n - 1) /\ r[k - 1] = x
        BY <1>1, <1>4, <2>1, <2>3
      <3> QED
        BY <1>4, <3>1 DEF Range
    <2> QED
      BY <1>1, <2>1, <2>2, <2>3
  <1>7. IsInjective(r)
    <2> SUFFICES ASSUME NEW k \in 1..(n - 1), NEW l \in 1..(n - 1), r[k] = r[l]
                 PROVE  k = l
      BY <1>4 DEF IsInjective
    <2>1. \A p, q \in 1..n : s[p] = s[q] => p = q
      BY <1>1 DEF IsInjective
    <2> QED
      BY <1>1, <1>4, <2>1
  <1> QED
    BY <1>4, <1>5, <1>6, <1>7 DEF r

\* thread_bootstrap() sets the invariant up.
LEMMA InitInv == Init => Inv
  <1> SUFFICES ASSUME Init PROVE Inv
    OBVIOUS
  <1> USE ThreadsAssumption DEF Init, Addr, PC, NotWaking
  <1>1. TypeOK
    <2>1. count \in [Sem -> Nat]
      BY Zenon DEF TypeOK
    <2>2. <<>> \in Seq(Thread)
      OBVIOUS
    <2> QED
      BY <2>1, <2>2 DEF TypeOK
  <1>2. Live = {Boot}
    BY DEF Live
  <1>3. Range(<<>>) = {} /\ IsInjective(<<>>)
    BY DEF Range, IsInjective
  <1>4. OnePlace
    BY <1>2, <1>3 DEF OnePlace
  <1>5. CountsThreads
    BY <1>2, FS_Singleton, Zenon DEF CountsThreads
  <1>6. Continuations /\ NoLostWakeup
    BY <1>3 DEF Continuations, NoLostWakeup
  <1> QED
    BY <1>1, <1>4, <1>5, <1>6 DEF Inv

\* The number of threads is a number, and a thread that is added or taken
\* away changes it by one.
LEMMA LiveCount ==
  ASSUME TypeOK
  PROVE  /\ IsFiniteSet(Live) /\ Cardinality(Live) \in Nat
         /\ \A t \in Thread \ Live :
              Cardinality(Live \cup {t}) = Cardinality(Live) + 1
         /\ \A t \in Live : /\ Cardinality(Live \ {t}) = Cardinality(Live) - 1
                            /\ Cardinality(Live) > 0
  <1>1. IsFiniteSet(Live)
    BY ThreadsAssumption, FS_Subset DEF Live
  <1>2. Cardinality(Live) \in Nat
    BY <1>1, FS_CardinalityType
  <1>3. \A t \in Live : Cardinality(Live) # 0
    BY <1>1, FS_EmptySet
  <1> QED
    BY <1>1, <1>2, <1>3, FS_AddElement, FS_RemoveElement

\* thread_fork() keeps the invariant.
LEMMA ForkInv ==
  ASSUME Inv, NEW newguy \in Thread, thread_fork(newguy)
  PROVE  Inv'
  <1> USE ThreadsAssumption DEF Inv, thread_fork, make_runnable, Running
  <1>1. /\ runqueue' \in Seq(Thread)
        /\ Range(runqueue') = Range(runqueue) \cup {newguy}
        /\ newguy \notin Live
        /\ IsInjective(runqueue')
    BY AppendRange DEF TypeOK, OnePlace, Live
  <1>2. TypeOK'
    BY <1>1 DEF TypeOK, PC
  <1>3. Live' = Live \cup {newguy}
    BY DEF TypeOK, Live
  <1>4. OnePlace'
    BY <1>1, <1>3 DEF OnePlace, TypeOK, Live
  <1>5. CountsThreads'
    BY <1>1, <1>3, LiveCount DEF CountsThreads
  <1>6. Continuations'
    BY <1>1 DEF Continuations, TypeOK, OnePlace, Live
  <1>7. NoLostWakeup'
    BY <1>1 DEF NoLostWakeup, TypeOK, OnePlace, Live
  <1> QED
    BY <1>2, <1>4, <1>5, <1>6, <1>7

\* mi_switch(S_READY) moves the current thread, if there is one, from the CPU
\* to the run queue.
LEMMA SwitchReady ==
  ASSUME Inv, mi_switch_ready, UNCHANGED <<sleepers, zombies, pc>>
  PROVE  /\ runqueue' \in Seq(Thread) /\ curthread' = NULL
         /\ Live' = Live /\ OnePlace'
  <1>1. CASE curthread = NULL
    BY <1>1 DEF Inv, TypeOK, OnePlace, Live, mi_switch_ready
  <1>2. CASE curthread # NULL
    <2>1. /\ curthread \in Thread /\ curthread \notin Range(runqueue)
          /\ runqueue \in Seq(Thread) /\ IsInjective(runqueue)
      BY <1>2 DEF Inv, TypeOK, OnePlace
    <2>2. runqueue' = Append(runqueue, curthread) /\ curthread' = NULL
      BY <1>2 DEF mi_switch_ready, make_runnable
    <2>3. /\ runqueue' \in Seq(Thread)
          /\ Range(runqueue') = Range(runqueue) \cup {curthread}
          /\ IsInjective(runqueue')
      BY <2>1, <2>2, AppendRange
    <2>4. Live' = Live
      BY DEF Live
    <2>5. NULL \notin Live
      BY ThreadsAssumption DEF Live
    <2>6. OnePlace'
      BY <1>2, <2>1, <2>2, <2>3, <2>4, <2>5 DEF Inv, OnePlace
    <2> QED
      BY <2>2, <2>3, <2>4, <2>6
  <1> QED
    BY <1>1, <1>2

\* thread_yield() keeps the invariant.
LEMMA YieldInv ==
  ASSUME Inv, thread_yield
  PROVE  Inv'
  <1>1. /\ runqueue' \in Seq(Thread) /\ curthread' = NULL
        /\ Live' = Live /\ OnePlace'
    BY SwitchReady DEF thread_yield
  <1> QED
    BY <1>1 DEF Inv, thread_yield, TypeOK, CountsThreads, Continuations,
                NoLostWakeup

\* thread_exit() keeps the invariant.
LEMMA ExitInv ==
  ASSUME Inv, thread_exit
  PROVE  Inv'
  <1> USE ThreadsAssumption DEF Inv, thread_exit, Running
  <1>1. /\ curthread \in Thread /\ pc[curthread] = "run"
        /\ curthread \in Live /\ curthread \notin Range(zombies)
    BY DEF TypeOK, Continuations, OnePlace, Live
  <1>2. /\ zombies' \in Seq(Thread)
        /\ Range(zombies') = Range(zombies) \cup {curthread}
        /\ IsInjective(zombies')
    BY <1>1, AppendRange DEF TypeOK, OnePlace
  <1>3. Live' = Live \ {curthread}
    BY <1>1 DEF TypeOK, Live
  <1>4. CountsThreads' /\ numthreads' \in Nat
    BY <1>1, <1>3, LiveCount DEF CountsThreads
  <1>5. TypeOK'
    BY <1>1, <1>2, <1>4 DEF TypeOK, PC
  <1>6. OnePlace'
    <2>1. /\ IsInjective(runqueue') /\ IsInjective(sleepers')
          /\ IsInjective(zombies')
      BY <1>2 DEF OnePlace
    <2>2. curthread' \notin Range(runqueue') \cup Range(sleepers')
      BY DEF OnePlace, Live
    <2>3. Live' = Range(runqueue') \cup Range(sleepers')
                    \cup ({curthread'} \ {NULL'})
      BY <1>1, <1>3 DEF OnePlace
    <2>4. Range(zombies') = {t \in Thread : pc'[t] = "zombie"}
      BY <1>1, <1>2 DEF OnePlace, TypeOK
    <2> QED
      BY <2>1, <2>2, <2>3, <2>4 DEF OnePlace
  <1>7. Continuations'
    BY <1>1 DEF Continuations, TypeOK, OnePlace
  <1>8. NoLostWakeup'
    BY DEF NoLostWakeup
  <1> QED
    BY <1>4, <1>5, <1>6, <1>7, <1>8

\* thread_sleep() moves the running thread to the sleepers.
LEMMA SleepPlace ==
  ASSUME Inv, Running, NEW addr \in Addr, NEW where \in {"P", "clock"},
         thread_sleep(curthread, addr, where), UNCHANGED <<runqueue, zombies>>
  PROVE  /\ curthread \in Thread /\ pc[curthread] = "run" /\ curthread' = NULL
         /\ sleepers' \in Seq(Thread)
         /\ Range(sleepers') = Range(sleepers) \cup {curthread}
         /\ curthread \notin Range(sleepers)
         /\ pc' \in [Thread -> PC]
         /\ t_sleepaddr' \in [Thread -> Addr \cup {NULL}]
         /\ pc'[curthread] = where /\ t_sleepaddr'[curthread] = addr
         /\ \A t \in Thread : t # curthread =>
              pc'[t] = pc[t] /\ t_sleepaddr'[t] = t_sleepaddr[t]
         /\ Range(sleepers) \subseteq Thread
         /\ Live' = Live /\ OnePlace'
  <1> USE ThreadsAssumption DEF Inv, thread_sleep, Running, PC
  <1>1. /\ curthread \in Thread /\ pc[curthread] = "run"
        /\ curthread \in Live /\ curthread' = NULL
    BY DEF TypeOK, Continuations, Live
  <1>2. /\ sleepers' \in Seq(Thread)
        /\ Range(sleepers') = Range(sleepers) \cup {curthread}
        /\ curthread \notin Range(sleepers)
        /\ IsInjective(sleepers')
    BY <1>1, AppendRange DEF TypeOK, OnePlace
  <1>3. /\ pc' \in [Thread -> PC]
        /\ t_sleepaddr' \in [Thread -> Addr \cup {NULL}]
    BY <1>1 DEF TypeOK
  <1>4. /\ Live' = Live
        /\ {t \in Thread : pc'[t] = "zombie"} = {t \in Thread : pc[t] = "zombie"}
    BY <1>1 DEF TypeOK, Live
  <1>5. OnePlace'
    BY <1>1, <1>2, <1>4 DEF OnePlace, Live
  <1>6. /\ pc'[curthread] = where /\ t_sleepaddr'[curthread] = addr
        /\ \A t \in Thread : t # curthread =>
             pc'[t] = pc[t] /\ t_sleepaddr'[t] = t_sleepaddr[t]
    BY <1>1 DEF TypeOK
  <1>7. Range(sleepers) \subseteq Thread
    BY DEF TypeOK, Range
  <1> QED
    BY <1>1, <1>2, <1>3, <1>4, <1>5, <1>6, <1>7

\* P() keeps the invariant: it sleeps only while the count is zero.
LEMMA PInv ==
  ASSUME Inv, NEW s \in Sem, P(s)
  PROVE  Inv'
  <1> USE ThreadsAssumption DEF Inv
  <1>1. CASE count[s] = 0
    <2>1. thread_sleep(curthread, s, "P")
      BY <1>1 DEF P
    <2>2. /\ curthread \in Thread /\ pc[curthread] = "run" /\ curthread' = NULL
          /\ sleepers' \in Seq(Thread)
          /\ Range(sleepers') = Range(sleepers) \cup {curthread}
          /\ curthread \notin Range(sleepers)
          /\ pc' \in [Thread -> PC]
          /\ t_sleepaddr' \in [Thread -> Addr \cup {NULL}]
          /\ pc'[curthread] = "P" /\ t_sleepaddr'[curthread] = s
          /\ \A t \in Thread : t # curthread =>
               pc'[t] = pc[t] /\ t_sleepaddr'[t] = t_sleepaddr[t]
          /\ Range(sleepers) \subseteq Thread
          /\ Live' = Live /\ OnePlace'
      BY <2>1, SleepPlace DEF P, Addr
    <2>3. TypeOK' /\ CountsThreads'
      BY <1>1, <2>2 DEF P, TypeOK, CountsThreads
    <2>u. UNCHANGED <<num_secs, count, waking>>
      BY <1>1 DEF P
    <2>4. Continuations'
      BY <2>2, <2>u DEF Continuations
    <2>5. NoLostWakeup'
      BY <1>1, <2>2, <2>u DEF NoLostWakeup
    <2> QED
      BY <2>2, <2>3, <2>4, <2>5
  <1>2. CASE count[s] # 0
    <2>1. TypeOK'
      <3>1. count[s] - 1 \in Nat
        BY <1>2 DEF TypeOK
      <3>2. count' = [count EXCEPT ![s] = count[s] - 1]
        BY <1>2 DEF P
      <3>3. count' \in [Sem -> Nat]
        BY <3>1, <3>2 DEF TypeOK
      <3> QED
        BY <1>2, <3>3 DEF P, TypeOK
    <2>2. OnePlace' /\ CountsThreads' /\ Continuations'
      BY <1>2 DEF P, OnePlace, CountsThreads, Continuations, Live
    <2>3. NoLostWakeup'
      BY <1>2 DEF P, NoLostWakeup, TypeOK, Running, NotWaking
    <2> QED
      BY <2>1, <2>2, <2>3
  <1> QED
    BY <1>1, <1>2

\* V() keeps the invariant: the wakeup it owes is in waking.
LEMMA VInv ==
  ASSUME Inv, NEW s \in Sem, V(s)
  PROVE  Inv'
  <1> USE ThreadsAssumption DEF Inv, V
  <1>1. count' \in [Sem -> Nat]
    BY DEF TypeOK
  <1>2. TypeOK'
    BY <1>1 DEF TypeOK, Addr
  <1>3. OnePlace' /\ CountsThreads'
    BY DEF OnePlace, CountsThreads, Live
  <1>4. Continuations'
    BY DEF Continuations, NotWaking
  <1>5. NoLostWakeup'
    BY DEF NoLostWakeup, TypeOK, Interrupts, Running, Idle, NotWaking
  <1> QED
    BY <1>2, <1>3, <1>4, <1>5

\* clocksleep() keeps the invariant.
LEMMA ClocksleepInv ==
  ASSUME Inv, NEW n \in 1..MaxSecs, clocksleep(n)
  PROVE  Inv'
  <1> USE ThreadsAssumption DEF Inv
  <1>1. thread_sleep(curthread, LBOLT, "clock")
    BY DEF clocksleep
  <1>2. /\ curthread \in Thread /\ pc[curthread] = "run" /\ curthread' = NULL
        /\ sleepers' \in Seq(Thread)
        /\ Range(sleepers') = Range(sleepers) \cup {curthread}
        /\ curthread \notin Range(sleepers)
        /\ pc' \in [Thread -> PC]
        /\ t_sleepaddr' \in [Thread -> Addr \cup {NULL}]
        /\ pc'[curthread] = "clock" /\ t_sleepaddr'[curthread] = LBOLT
        /\ \A t \in Thread : t # curthread =>
             pc'[t] = pc[t] /\ t_sleepaddr'[t] = t_sleepaddr[t]
        /\ Range(sleepers) \subseteq Thread
        /\ Live' = Live /\ OnePlace'
    BY <1>1, SleepPlace DEF clocksleep, Addr
  <1>3. TypeOK' /\ CountsThreads'
    <2>1. num_secs' \in [Thread -> Nat]
      BY <1>2 DEF clocksleep, TypeOK
    <2> QED
      BY <1>2, <2>1 DEF clocksleep, TypeOK, CountsThreads
  <1>u. /\ UNCHANGED <<count, waking>> /\ num_secs'[curthread] > 0
        /\ \A t \in Thread : t # curthread => num_secs'[t] = num_secs[t]
    BY <1>2 DEF clocksleep, TypeOK
  <1>4. Continuations'
    BY <1>2, <1>u DEF Continuations
  <1>5. NoLostWakeup'
    BY <1>2, <1>u DEF NoLostWakeup
  <1> QED
    BY <1>2, <1>3, <1>4, <1>5

\* hardclock() keeps the invariant.
LEMMA HardclockInv ==
  ASSUME Inv, hardclock
  PROVE  Inv'
  <1> USE ThreadsAssumption DEF Inv, hardclock
  <1>0. waking = NotWaking
    BY DEF Interrupts, Running, Idle
  <1>1. CASE lbolt_counter + 1 >= HZ
    <2>1. /\ lbolt_counter' = 0 /\ waking' = [addr |-> LBOLT, then |-> "yield"]
          /\ UNCHANGED <<curthread, runqueue>>
      BY <1>1
    <2>2. TypeOK'
      BY <2>1 DEF TypeOK, Addr
    <2>3. OnePlace' /\ CountsThreads' /\ Continuations'
      BY <2>1 DEF OnePlace, CountsThreads, Continuations, Live
    <2>4. NoLostWakeup'
      BY <1>0, <2>1 DEF NoLostWakeup, NotWaking
    <2> QED
      BY <2>2, <2>3, <2>4
  <1>2. CASE ~(lbolt_counter + 1 >= HZ)
    <2>1. /\ runqueue' \in Seq(Thread) /\ curthread' = NULL
          /\ Live' = Live /\ OnePlace'
      BY <1>2, SwitchReady
    <2>2. lbolt_counter' \in 0..(HZ - 1) /\ waking' = waking
      BY <1>2 DEF TypeOK
    <2> QED
      BY <2>1, <2>2 DEF TypeOK, CountsThreads, Continuations, NoLostWakeup
  <1> QED
    BY <1>1, <1>2

\* thread_wakeup() keeps the invariant: when it ends, no sleeper is left on
\* the address, so none is left on a semaphore with a count.
LEMMA WakeupInv ==
  ASSUME Inv, thread_wakeup
  PROVE  Inv'
  <1> USE ThreadsAssumption DEF Inv
  <1>0. UNCHANGED <<zombies, numthreads, t_sleepaddr, pc, num_secs, count,
                    lbolt_counter>>
    BY DEF thread_wakeup
  <1>1. ASSUME NEW i \in DOMAIN sleepers,
               sleepers' = array_remove(sleepers, i), make_runnable(sleepers[i]),
               UNCHANGED <<curthread, waking>>
        PROVE  Inv'
    <2> DEFINE t == sleepers[i]
    <2>0. t \in Thread /\ t \in Range(sleepers)
      BY DEF TypeOK, Range
    <2>1. t \in Thread /\ t \in Range(sleepers) /\ t \notin Range(runqueue)
      BY <2>0 DEF OnePlace
    <2>2. /\ sleepers' \in Seq(Thread) /\ IsInjective(sleepers')
          /\ Range(sleepers') = Range(sleepers) \ {t}
      BY <1>1, RemoveRange DEF TypeOK, OnePlace
    <2>3. runqueue' = Append(runqueue, t)
      BY <1>1 DEF make_runnable
    <2>4. /\ runqueue' \in Seq(Thread) /\ IsInjective(runqueue')
          /\ Range(runqueue') = Range(runqueue) \cup {t}
      BY <2>1, <2>3, AppendRange DEF TypeOK, OnePlace
    <2> HIDE DEF t
    <2>5. Live' = Live
      BY <1>0 DEF Live
    <2>6. OnePlace'
      <3>1. curthread' \notin Range(runqueue') \cup Range(sleepers')
        BY <1>1, <2>1, <2>2, <2>4 DEF OnePlace
      <3>2. Range(runqueue') \cap Range(sleepers') = {}
        BY <2>2, <2>4 DEF OnePlace
      <3>3. Range(runqueue') \cup Range(sleepers') = Range(runqueue) \cup Range(sleepers)
        BY <2>1, <2>2, <2>4
      <3>4. /\ IsInjective(zombies') /\ Range(zombies') = {x \in Thread : pc'[x] = "zombie"}
            /\ Live' = Range(runqueue') \cup Range(sleepers') \cup ({curthread'} \ {NULL})
        BY <1>0, <1>1, <2>5, <3>3 DEF OnePlace
      <3> HIDE DEF Inv
      <3> QED
        BY <2>2, <2>4, <3>1, <3>2, <3>4 DEF OnePlace
    <2> QED
      BY <1>0, <1>1, <2>2, <2>4, <2>5, <2>6
      DEF TypeOK, CountsThreads, Continuations, NoLostWakeup
  <1>2. ASSUME \A i \in DOMAIN sleepers : t_sleepaddr[sleepers[i]] # waking.addr,
               waking' = NotWaking,
               IF waking.then = "yield" THEN mi_switch_ready
                                        ELSE UNCHANGED <<curthread, runqueue>>,
               UNCHANGED sleepers
        PROVE  Inv'
    <2>1. /\ runqueue' \in Seq(Thread) /\ curthread' \in {curthread, NULL}
          /\ Live' = Live /\ OnePlace'
      <3>1. CASE waking.then = "yield"
        BY <1>0, <1>2, <3>1, SwitchReady
      <3>2. CASE waking.then # "yield"
        BY <1>0, <1>2, <3>2 DEF TypeOK, OnePlace, Live
      <3> QED
        BY <3>1, <3>2
    <2>2. \A t \in Range(sleepers) : t_sleepaddr[t] # waking.addr
      BY <1>2 DEF Range
    <2>3. TypeOK' /\ CountsThreads' /\ Continuations'
      BY <1>0, <1>2, <2>1
      DEF TypeOK, CountsThreads, Continuations, NotWaking, Addr
    <2>4. NoLostWakeup'
      BY <1>0, <1>2, <2>2 DEF NoLostWakeup
    <2> QED
      BY <2>1, <2>3, <2>4
  <1> QED
    BY <1>1, <1>2 DEF thread_wakeup

\* What every way out of the switch does: the head of the run queue leaves
\* it, the zombies are destroyed or kept.  A thread that goes on with a
\* continuation of its own is on the CPU or among the sleepers.
LEMMA SwitchPlace ==
  ASSUME Inv, NEW next \in Thread, scheduler(next)
  PROVE  /\ runqueue' \in Seq(Thread) /\ IsInjective(runqueue')
         /\ Range(runqueue') = Range(runqueue) \ {next}
         /\ next \in Range(runqueue) /\ next \notin Range(sleepers)
         /\ next \notin Range(zombies) /\ next \in Live
         /\ curthread = NULL /\ waking = NotWaking
         /\ Range(runqueue) \cup Range(sleepers) = Live
  <1>1. /\ next = Head(runqueue) /\ runqueue' = Tail(runqueue)
        /\ runqueue # <<>> /\ curthread = NULL /\ waking = NotWaking
    BY DEF scheduler
  <1>2. runqueue \in Seq(Thread) /\ IsInjective(runqueue)
    BY DEF Inv, TypeOK, OnePlace
  <1>3. /\ runqueue' \in Seq(Thread) /\ IsInjective(runqueue')
        /\ Range(runqueue') = Range(runqueue) \ {next}
        /\ next \in Range(runqueue)
    BY <1>1, <1>2, TailRange
  <1>4. Range(runqueue) \cup Range(sleepers) = Live
    BY <1>1 DEF Inv, OnePlace
  <1>5. next \in Live /\ next \notin Range(sleepers) /\ pc[next] # "zombie"
    BY <1>3, <1>4 DEF Inv, OnePlace, Live
  <1>6. next \notin Range(zombies)
    BY <1>5 DEF Inv, OnePlace
  <1> QED
    BY <1>1, <1>3, <1>4, <1>5, <1>6

\* exorcise() destroys exactly the zombies, and no live thread.
LEMMA ExorciseLive ==
  ASSUME Inv, NEW next \in Thread, next \in Live, NEW c \in {"run", pc[next]},
         exorcise([pc EXCEPT ![next] = c])
  PROVE  /\ pc' \in [Thread -> PC] /\ Live' = Live
         /\ zombies' \in Seq(Thread) /\ IsInjective(zombies')
         /\ Range(zombies') = {t \in Thread : pc'[t] = "zombie"}
         /\ pc'[next] = c
         /\ \A t \in Live : t # next => pc'[t] = pc[t]
         /\ \A t \in Thread \ Live : pc'[t] = "free"
  <1> USE DEF Inv, exorcise
  <1>1. /\ c \in PC \ {"free", "zombie"}
        /\ Range(zombies) = {t \in Thread : pc[t] = "zombie"}
        /\ pc \in [Thread -> PC]
    BY Zenon DEF Live, PC, TypeOK, OnePlace
  <1>2. zombies' \in Seq(Thread) /\ Range(zombies') = {} /\ IsInjective(zombies')
    BY DEF Range, IsInjective
  <1>3. /\ pc' \in [Thread -> PC] /\ pc'[next] = c
        /\ \A t \in Live : t # next => pc'[t] = pc[t]
        /\ \A t \in Thread \ Live : pc'[t] = "free"
    BY <1>1 DEF Live, PC
  <1>4. Live' = Live
    BY <1>1, <1>3 DEF Live, PC
  <1>5. {t \in Thread : pc'[t] = "zombie"} = {}
    BY <1>1, <1>3 DEF Live, PC
  <1> QED
    BY <1>2, <1>3, <1>4, <1>5

\* mi_threadstart() keeps the invariant.
LEMMA ThreadstartInv ==
  ASSUME Inv, NEW next \in Thread, mi_threadstart(next)
  PROVE  Inv'
  <1> USE ThreadsAssumption DEF Inv, mi_threadstart
  <1>1. /\ runqueue' \in Seq(Thread) /\ IsInjective(runqueue')
        /\ Range(runqueue') = Range(runqueue) \ {next}
        /\ next \in Range(runqueue) /\ next \notin Range(sleepers)
        /\ next \notin Range(zombies) /\ next \in Live
        /\ curthread = NULL /\ waking = NotWaking
        /\ Range(runqueue) \cup Range(sleepers) = Live
    BY SwitchPlace
  <1>2. TypeOK'
    BY <1>1 DEF TypeOK, PC
  <1>3. /\ Live' = Live
        /\ {t \in Thread : pc'[t] = "zombie"} = {t \in Thread : pc[t] = "zombie"}
    BY DEF Live, TypeOK
  <1>4. OnePlace'
    BY <1>1, <1>3 DEF OnePlace
  <1>5. Continuations'
    BY <1>1 DEF Continuations, TypeOK
  <1>6. CountsThreads' /\ NoLostWakeup'
    BY <1>3 DEF CountsThreads, NoLostWakeup
  <1> QED
    BY <1>2, <1>4, <1>5, <1>6

\* A thread that comes out of the switch and goes on running.
LEMMA ResumeRuns ==
  ASSUME Inv, NEW next \in Thread, scheduler(next),
         exorcise([pc EXCEPT ![next] = "run"]), curthread' = next,
         UNCHANGED <<sleepers, numthreads, waking>>,
         \A t \in Thread : t # next => t_sleepaddr'[t] = t_sleepaddr[t]
                                      /\ num_secs'[t] = num_secs[t]
  PROVE  /\ runqueue' \in Seq(Thread) /\ zombies' \in Seq(Thread)
         /\ pc' \in [Thread -> PC] /\ next \notin Range(sleepers)
         /\ waking = NotWaking
         /\ OnePlace' /\ CountsThreads' /\ Continuations'
  <1> USE DEF Inv
  <1>1. /\ runqueue' \in Seq(Thread) /\ IsInjective(runqueue')
        /\ Range(runqueue') = Range(runqueue) \ {next}
        /\ next \in Range(runqueue) /\ next \notin Range(sleepers)
        /\ next \notin Range(zombies) /\ next \in Live
        /\ curthread = NULL /\ waking = NotWaking
        /\ Range(runqueue) \cup Range(sleepers) = Live
    BY SwitchPlace
  <1>2. /\ pc' \in [Thread -> PC] /\ Live' = Live
        /\ zombies' \in Seq(Thread) /\ IsInjective(zombies')
        /\ Range(zombies') = {t \in Thread : pc'[t] = "zombie"}
        /\ pc'[next] = "run"
        /\ \A t \in Live : t # next => pc'[t] = pc[t]
        /\ \A t \in Thread \ Live : pc'[t] = "free"
    BY <1>1, ExorciseLive, Zenon
  <1>3. OnePlace'
    <2>1. /\ curthread' = next /\ next # NULL
          /\ sleepers' = sleepers /\ IsInjective(sleepers)
      BY ThreadsAssumption DEF OnePlace
    <2>2. next \notin Range(runqueue') \cup Range(sleepers')
      BY <1>1, <2>1
    <2>3. Range(runqueue') \cap Range(sleepers') = {}
      BY <1>1, <2>1 DEF OnePlace
    <2>4. Live' = Range(runqueue') \cup Range(sleepers') \cup ({next} \ {NULL})
      BY <1>1, <1>2, <2>1
    <2> HIDE DEF Inv
    <2> QED
      BY <1>1, <1>2, <2>1, <2>2, <2>3, <2>4 DEF OnePlace
  <1>4. Continuations'
    BY <1>1, <1>2 DEF Continuations, Live
  <1> QED
    BY <1>1, <1>2, <1>3, <1>4 DEF CountsThreads

\* A thread that comes out of the switch and sleeps again on its address.
LEMMA ResumeSleeps ==
  ASSUME Inv, NEW next \in Thread, scheduler(next), exorcise(pc),
         pc[next] \in {"P", "clock"},
         sleepers' = Append(sleepers, next),
         UNCHANGED <<curthread, numthreads, waking, t_sleepaddr>>,
         \A t \in Thread : t # next => num_secs'[t] = num_secs[t],
         pc[next] = "clock" => num_secs'[next] > 0
  PROVE  /\ runqueue' \in Seq(Thread) /\ zombies' \in Seq(Thread)
         /\ sleepers' \in Seq(Thread) /\ pc' \in [Thread -> PC]
         /\ Range(sleepers') = Range(sleepers) \cup {next}
         /\ waking = NotWaking
         /\ OnePlace' /\ CountsThreads' /\ Continuations'
  <1> USE DEF Inv
  <1>1. /\ runqueue' \in Seq(Thread) /\ IsInjective(runqueue')
        /\ Range(runqueue') = Range(runqueue) \ {next}
        /\ next \in Range(runqueue) /\ next \notin Range(sleepers)
        /\ next \notin Range(zombies) /\ next \in Live
        /\ curthread = NULL /\ waking = NotWaking
        /\ Range(runqueue) \cup Range(sleepers) = Live
    BY SwitchPlace
  <1>2. [pc EXCEPT ![next] = pc[next]] = pc
    BY DEF TypeOK
  <1>3. /\ pc' \in [Thread -> PC] /\ Live' = Live
        /\ zombies' \in Seq(Thread) /\ IsInjective(zombies')
        /\ Range(zombies') = {t \in Thread : pc'[t] = "zombie"}
        /\ pc'[next] = pc[next]
        /\ \A t \in Live : t # next => pc'[t] = pc[t]
        /\ \A t \in Thread \ Live : pc'[t] = "free"
    BY <1>1, <1>2, ExorciseLive, Zenon
  <1>4. /\ sleepers' \in Seq(Thread) /\ IsInjective(sleepers')
        /\ Range(sleepers') = Range(sleepers) \cup {next}
    BY <1>1, AppendRange DEF TypeOK, OnePlace
  <1>5. NULL \notin Live
    BY ThreadsAssumption DEF Live
  <1>6. OnePlace'
    <2>1. curthread' = NULL
      BY <1>1
    <2>2. curthread' \notin Range(runqueue') \cup Range(sleepers')
      BY <1>1, <1>4, <1>5, <2>1
    <2>3. Range(runqueue') \cap Range(sleepers') = {}
      BY <1>1, <1>4 DEF OnePlace
    <2>4. Live' = Range(runqueue') \cup Range(sleepers') \cup ({curthread'} \ {NULL})
      BY <1>1, <1>3, <1>4, <2>1
    <2> HIDE DEF Inv
    <2> QED
      BY <1>1, <1>3, <1>4, <2>2, <2>3, <2>4 DEF OnePlace
  <1>7. Continuations'
    BY <1>1, <1>3, <1>4, Zenon DEF Continuations, Live
  <1> QED
    BY <1>1, <1>3, <1>4, <1>6, <1>7 DEF CountsThreads

\* A thread that comes back to its program keeps the invariant.
LEMMA ResumeRunInv ==
  ASSUME Inv, NEW next \in Thread, resume_run(next)
  PROVE  Inv'
  <1> USE DEF Inv, resume_run
  <1>1. [pc EXCEPT ![next] = "run"] = pc
    BY DEF TypeOK
  <1>2. /\ runqueue' \in Seq(Thread) /\ zombies' \in Seq(Thread)
        /\ pc' \in [Thread -> PC]
        /\ OnePlace' /\ CountsThreads' /\ Continuations'
    BY <1>1, ResumeRuns, Zenon
  <1> QED
    BY <1>2 DEF TypeOK, NoLostWakeup

\* A thread woken in P() keeps the invariant: it takes the count, or sleeps
\* again because there is none.
LEMMA ResumePInv ==
  ASSUME Inv, NEW next \in Thread, resume_P(next)
  PROVE  Inv'
  <1> USE ThreadsAssumption DEF Inv
  <1> DEFINE s == t_sleepaddr[next]
  <1>0. s \in Sem /\ pc[next] = "P" /\ scheduler(next)
    BY DEF Continuations, resume_P
  <1>u. UNCHANGED <<numthreads, num_secs, lbolt_counter, waking>>
    BY DEF resume_P
  <1>1. CASE count[s] = 0
    <2>1. /\ exorcise(pc) /\ sleepers' = Append(sleepers, next)
          /\ UNCHANGED <<curthread, t_sleepaddr, count>>
      BY <1>1 DEF resume_P
    <2>2. /\ runqueue' \in Seq(Thread) /\ zombies' \in Seq(Thread)
          /\ sleepers' \in Seq(Thread) /\ pc' \in [Thread -> PC]
          /\ Range(sleepers') = Range(sleepers) \cup {next}
          /\ waking = NotWaking
          /\ OnePlace' /\ CountsThreads' /\ Continuations'
      BY <1>0, <1>u, <2>1, ResumeSleeps
    <2>3. TypeOK'
      BY <1>u, <2>1, <2>2 DEF TypeOK
    <2>4. NoLostWakeup'
      BY <1>0, <1>1, <1>u, <2>1, <2>2 DEF NoLostWakeup
    <2> QED
      BY <2>2, <2>3, <2>4
  <1>2. CASE count[s] # 0
    <2>1. /\ exorcise([pc EXCEPT ![next] = "run"])
          /\ count' = [count EXCEPT ![s] = count[s] - 1]
          /\ t_sleepaddr' = [t_sleepaddr EXCEPT ![next] = NULL]
          /\ curthread' = next /\ UNCHANGED sleepers
      BY <1>2 DEF resume_P
    <2>2. \A t \in Thread : t # next => t_sleepaddr'[t] = t_sleepaddr[t]
                                       /\ num_secs'[t] = num_secs[t]
      BY <1>u, <2>1 DEF TypeOK
    <2>3. /\ runqueue' \in Seq(Thread) /\ zombies' \in Seq(Thread)
          /\ pc' \in [Thread -> PC] /\ next \notin Range(sleepers)
          /\ waking = NotWaking
          /\ OnePlace' /\ CountsThreads' /\ Continuations'
      BY <1>0, <1>u, <2>1, <2>2, ResumeRuns
    <2>4. count[s] - 1 \in Nat
      BY <1>0, <1>2 DEF TypeOK
    <2>5. /\ count' \in [Sem -> Nat]
          /\ t_sleepaddr' \in [Thread -> Addr \cup {NULL}]
      BY <1>0, <2>1, <2>4 DEF TypeOK
    <2>6. TypeOK'
      BY <1>u, <2>1, <2>3, <2>5 DEF TypeOK
    <2>7. NoLostWakeup'
      <3>1. \A t \in Range(sleepers) : t_sleepaddr'[t] = t_sleepaddr[t]
        BY <2>1, <2>3 DEF TypeOK
      <3>2. \A a \in Sem : count[a] = 0 => count'[a] = 0
        BY <1>2, <2>1 DEF TypeOK
      <3>3. waking.addr = NULL
        BY <2>3 DEF NotWaking
      <3> QED
        BY <1>u, <2>1, <3>1, <3>2, <3>3 DEF NoLostWakeup
    <2> QED
      BY <2>3, <2>6, <2>7
  <1> QED
    BY <1>1, <1>2, Zenon

\* A thread woken in clocksleep() keeps the invariant.
LEMMA ResumeClocksleepInv ==
  ASSUME Inv, NEW next \in Thread, resume_clocksleep(next)
  PROVE  Inv'
  <1> USE ThreadsAssumption DEF Inv
  <1> DEFINE left == num_secs[next] - 1
  <1>0. /\ scheduler(next) /\ pc[next] = "clock" /\ left \in Nat
        /\ num_secs' = [num_secs EXCEPT ![next] = left]
        /\ UNCHANGED <<numthreads, count, lbolt_counter, waking>>
    BY DEF Continuations, TypeOK, resume_clocksleep
  <1> HIDE DEF left
  <1>1. /\ num_secs' \in [Thread -> Nat] /\ num_secs'[next] = left
        /\ \A t \in Thread : t # next => num_secs'[t] = num_secs[t]
    BY <1>0 DEF TypeOK
  <1>2. CASE left > 0
    <2>1. /\ exorcise(pc) /\ sleepers' = Append(sleepers, next)
          /\ UNCHANGED <<curthread, t_sleepaddr>>
      BY <1>2 DEF resume_clocksleep, left
    <2>2. /\ runqueue' \in Seq(Thread) /\ zombies' \in Seq(Thread)
          /\ sleepers' \in Seq(Thread) /\ pc' \in [Thread -> PC]
          /\ Range(sleepers') = Range(sleepers) \cup {next}
          /\ waking = NotWaking
          /\ OnePlace' /\ CountsThreads' /\ Continuations'
      BY <1>0, <1>1, <1>2, <2>1, ResumeSleeps
    <2>3. TypeOK'
      BY <1>0, <1>1, <2>1, <2>2 DEF TypeOK
    <2>4. t_sleepaddr[next] = LBOLT
      BY <1>0 DEF Continuations
    <2>5. NoLostWakeup'
      BY <1>0, <2>1, <2>2, <2>4 DEF NoLostWakeup
    <2> QED
      BY <2>2, <2>3, <2>5
  <1>3. CASE ~(left > 0)
    <2>1. /\ exorcise([pc EXCEPT ![next] = "run"])
          /\ t_sleepaddr' = [t_sleepaddr EXCEPT ![next] = NULL]
          /\ curthread' = next /\ UNCHANGED sleepers
      BY <1>3 DEF resume_clocksleep, left
    <2>2. /\ t_sleepaddr' \in [Thread -> Addr \cup {NULL}]
          /\ \A t \in Thread : t # next => t_sleepaddr'[t] = t_sleepaddr[t]
      BY <2>1 DEF TypeOK
    <2>3. /\ runqueue' \in Seq(Thread) /\ zombies' \in Seq(Thread)
          /\ pc' \in [Thread -> PC] /\ next \notin Range(sleepers)
          /\ waking = NotWaking
          /\ OnePlace' /\ CountsThreads' /\ Continuations'
      BY <1>0, <1>1, <2>1, <2>2, ResumeRuns
    <2>4. TypeOK'
      BY <1>0, <1>1, <2>1, <2>2, <2>3 DEF TypeOK
    <2>5. \A t \in Range(sleepers) : t_sleepaddr'[t] = t_sleepaddr[t]
      BY <2>1, <2>3 DEF TypeOK
    <2>6. NoLostWakeup'
      BY <1>0, <2>1, <2>5 DEF NoLostWakeup
    <2> QED
      BY <2>3, <2>4, <2>6
  <1> QED
    BY <1>2, <1>3

\* Every step keeps the invariant.
LEMMA NextInv == Inv /\ [Next]_vars => Inv'
  <1> SUFFICES ASSUME Inv, [Next]_vars PROVE Inv'
    OBVIOUS
  <1>1. CASE UNCHANGED vars
    BY <1>1 DEF vars, Inv, TypeOK, OnePlace, CountsThreads, Continuations,
                NoLostWakeup, Live
  <1>2. CASE Program
    BY <1>2, YieldInv, ExitInv, PInv, VInv, ClocksleepInv DEF Program
  <1>3. CASE mi_switch_in
    BY <1>3, ThreadstartInv, ResumeRunInv, ResumePInv, ResumeClocksleepInv
    DEF mi_switch_in
  <1> QED
    BY <1>1, <1>2, <1>3, ForkInv, HardclockInv, WakeupInv DEF Next, Fork

\* The invariant holds in every reachable state.
THEOREM Invariance == Spec => []Inv
  BY InitInv, NextInv, PTL DEF Spec

\* The variables keep their types; in particular no count goes below zero
\* and numthreads does not either (the assert of thread_exit()).
THEOREM TypeCorrect == Spec => []TypeOK
  <1>1. Inv => TypeOK
    BY DEF Inv
  <1> QED
    BY <1>1, Invariance, PTL

\* Every thread is in exactly one place, whatever the number of threads and
\* the order of interrupts.
THEOREM ThreadsInOnePlace == Spec => []OnePlace
  <1>1. Inv => OnePlace
    BY DEF Inv
  <1> QED
    BY <1>1, Invariance, PTL

\* numthreads counts the threads that have not exited.
THEOREM NumthreadsCounts == Spec => []CountsThreads
  <1>1. Inv => CountsThreads
    BY DEF Inv
  <1> QED
    BY <1>1, Invariance, PTL

\* No thread is left sleeping on a semaphore that can be taken.
THEOREM WakeupsNotLost == Spec => []NoLostWakeup
  <1>1. Inv => NoLostWakeup
    BY DEF Inv
  <1> QED
    BY <1>1, Invariance, PTL

\* When one_thread_only() says so, the caller is alone: no other thread is
\* ready or sleeping.
THEOREM AloneWhenOneThread == Spec => []OneThreadOnly
  <1>1. Inv => OneThreadOnly
    <2> SUFFICES ASSUME Inv, curthread # NULL, numthreads = 1
                 PROVE  runqueue = <<>> /\ sleepers = <<>>
      BY DEF OneThreadOnly
    <2>1. curthread \in Live /\ IsFiniteSet(Live) /\ Cardinality(Live) = 1
      BY LiveCount DEF Inv, OnePlace, CountsThreads
    <2>2. Live = {curthread}
      BY <2>1, FS_Singleton
    <2>3. Range(runqueue) = {} /\ Range(sleepers) = {}
      BY <2>2 DEF Inv, OnePlace
    <2>4. ASSUME NEW q \in Seq(Thread), q # <<>>
          PROVE  Range(q) # {}
      <3>1. 1 \in DOMAIN q
        BY <2>4
      <3> QED
        BY <3>1 DEF Range
    <2> QED
      BY <2>3, <2>4 DEF Inv, TypeOK
  <1> QED
    BY <1>1, Invariance, PTL

(* The action properties *)

\* Of the three things a step may do to the run queue - leave it alone, add at
\* the tail, take the head - none lets a thread overtake another.
LEMMA QueueSteps ==
  ASSUME Inv, [Next]_vars
  PROVE  \/ runqueue' = runqueue
         \/ \E t \in Thread : runqueue' = Append(runqueue, t)
         \/ runqueue # <<>> /\ runqueue' = Tail(runqueue)
  <1> USE DEF Inv
  <1>1. CASE UNCHANGED vars
    BY <1>1 DEF vars
  <1>2. CASE Fork
    BY <1>2 DEF Fork, thread_fork, make_runnable
  <1>6. CASE Program
    <2>2. CASE thread_yield
      BY <2>2 DEF thread_yield, mi_switch_ready, make_runnable, TypeOK
    <2>3. CASE thread_exit \/ (\E s \in Sem : P(s) \/ V(s))
                 \/ (\E n \in 1..MaxSecs : clocksleep(n))
      BY <2>3 DEF thread_exit, P, V, clocksleep
    <2> QED
      BY <1>6, <2>2, <2>3 DEF Program
  <1>3. CASE hardclock
    BY <1>3, Zenon DEF hardclock, mi_switch_ready, make_runnable, TypeOK
  <1>4. CASE thread_wakeup
    <2>1. \A i \in DOMAIN sleepers : sleepers[i] \in Thread
      BY DEF TypeOK
    <2> QED
      BY <1>4, <2>1 DEF thread_wakeup, mi_switch_ready, make_runnable, TypeOK
  <1>5. CASE mi_switch_in
    BY <1>5 DEF mi_switch_in, mi_threadstart, resume_run, resume_P,
                resume_clocksleep, scheduler
  <1> QED
    BY <1>1, <1>2, <1>3, <1>4, <1>5, <1>6 DEF Next

\* The run queue is first in, first out in every step of the system.
THEOREM FirstInFirstOut == Spec => NoOvertaking
  <1>1. Inv /\ [Next]_vars => [KeepsOrder]_vars
    <2> SUFFICES ASSUME Inv, [Next]_vars,
                        NEW i \in DOMAIN runqueue, runqueue[i] \in Range(runqueue')
                 PROVE  \E k \in DOMAIN runqueue' :
                          /\ runqueue'[k] = runqueue[i]
                          /\ \A j \in (i + 1)..Len(runqueue) :
                               \E l \in (k + 1)..Len(runqueue') :
                                 runqueue'[l] = runqueue[j]
                          /\ \A l \in DOMAIN runqueue' :
                               runqueue'[l] \notin Range(runqueue) => k < l
      BY DEF KeepsOrder
    <2> DEFINE q == runqueue
               n == Len(runqueue)
    <2>1. q \in Seq(Thread) /\ IsInjective(q) /\ n \in Nat /\ i \in 1..n
      BY DEF Inv, TypeOK, OnePlace
    <2>2. \A j \in 1..n : q[j] \in Range(q)
      BY <2>1 DEF Range
    <2>3. CASE runqueue' = q
      BY <2>1, <2>2, <2>3
    <2>4. ASSUME NEW t \in Thread, runqueue' = Append(q, t)
          PROVE  /\ Len(runqueue') = n + 1 /\ DOMAIN runqueue' = 1..(n + 1)
                 /\ \A j \in 1..n : runqueue'[j] = q[j]
      BY <2>1, <2>4
    <2>5. CASE \E t \in Thread : runqueue' = Append(q, t)
      BY <2>1, <2>2, <2>4, <2>5
    <2>6. CASE q # <<>> /\ runqueue' = Tail(q)
      <3>1. q[i] # Head(q)
        BY <2>1, <2>6, TailRange
      <3>2. /\ i - 1 \in 1..(n - 1) /\ Len(runqueue') = n - 1
            /\ DOMAIN runqueue' = 1..(n - 1)
            /\ \A j \in 1..(n - 1) : runqueue'[j] = q[j + 1]
        BY <2>1, <2>6, <3>1
      <3>3. \A l \in DOMAIN runqueue' : runqueue'[l] \in Range(q)
        BY <2>1, <2>2, <3>2
      <3>4. ASSUME NEW j \in (i + 1)..n
            PROVE  /\ j - 1 \in ((i - 1) + 1)..Len(runqueue')
                   /\ runqueue'[j - 1] = q[j]
        BY <2>1, <3>2
      <3> QED
        BY <2>1, <3>2, <3>3, <3>4
    <2> QED
      BY <2>3, <2>5, <2>6, QueueSteps
  <1> QED
    BY <1>1, Invariance, PTL DEF Spec, NoOvertaking

(* Threads.tla implements SemaphoreSpec.tla *)

\* A step that leaves the counts, the continuations in P() and the addresses
\* slept on alone is not a step of the semaphores.
LEMMA OutsideP ==
  ASSUME TypeOK, TypeOK', UNCHANGED count,
         \A t \in Thread :
           (IF pc'[t] = "P" THEN t_sleepaddr'[t] ELSE NULL)
             = (IF pc[t] = "P" THEN t_sleepaddr[t] ELSE NULL)
  PROVE  UNCHANGED Semaphores!vars
  BY DEF Semaphores!vars

\* P() that blocks is Block, P() that takes the count - at once, or after it
\* was woken and scheduled - is Take, V() is V; every other step of the
\* thread system changes nothing the semaphores show.
LEMMA SemaphoreStep ==
  ASSUME Inv, Inv', [Next]_vars
  PROVE  [Semaphores!Next]_(Semaphores!vars)
  <1> DEFINE W == [t \in Thread |-> IF pc[t] = "P" THEN t_sleepaddr[t] ELSE NULL]
  <1> USE ThreadsAssumption
  <1>t. TypeOK /\ TypeOK'
    BY DEF Inv
  <1>c. Continuations
    BY DEF Inv
  <1>n. \A s \in Sem : count[s] \in Nat
    BY <1>t DEF TypeOK
  <1>1. CASE UNCHANGED vars
    BY <1>1, <1>t, OutsideP DEF vars
  <1>f. ASSUME NEW t \in Thread, thread_fork(t)
        PROVE  UNCHANGED Semaphores!vars
    BY <1>t, <1>f, OutsideP DEF thread_fork, TypeOK
  <1>2. CASE Program
    <2>2. CASE thread_yield
      BY <1>t, <2>2, OutsideP DEF thread_yield
    <2>3. CASE thread_exit
      BY <1>c, <1>t, <2>3, OutsideP DEF thread_exit, TypeOK, Continuations, Running
    <2>4. ASSUME NEW s \in Sem, P(s)
          PROVE  Semaphores!Block(curthread, s) \/ Semaphores!Take(curthread, s)
      <3>1. curthread \in Thread /\ pc[curthread] = "run" /\ W[curthread] = NULL
        BY <1>t, <1>c, <2>4 DEF P, Running, TypeOK, Continuations
      <3>2. CASE count[s] = 0
        <4>1. /\ pc' = [pc EXCEPT ![curthread] = "P"]
              /\ t_sleepaddr' = [t_sleepaddr EXCEPT ![curthread] = s]
              /\ count' = count
          BY <2>4, <3>2 DEF P, thread_sleep
        <4>2. /\ pc'[curthread] = "P" /\ t_sleepaddr'[curthread] = s
              /\ \A t \in Thread : t # curthread =>
                   pc'[t] = pc[t] /\ t_sleepaddr'[t] = t_sleepaddr[t]
          BY <1>t, <3>1, <4>1 DEF TypeOK
        <4>3. W' = [W EXCEPT ![curthread] = s]
          BY <3>1, <4>2, Zenon
        <4> QED
          BY <3>1, <3>2, <4>1, <4>3 DEF Semaphores!Block
      <3>3. CASE count[s] # 0
        <4>1. W' = [W EXCEPT ![curthread] = NULL] /\ W[curthread] = NULL
          BY <2>4, <3>1, <3>3, Zenon DEF P
        <4>2. count[s] > 0 /\ count' = [count EXCEPT ![s] = count[s] - 1]
          BY <1>t, <2>4, <3>3 DEF P, TypeOK
        <4> QED
          BY <4>1, <4>2 DEF Semaphores!Take
      <3> QED
        BY <3>2, <3>3
    <2>5. ASSUME NEW s \in Sem, V(s)
          PROVE  Semaphores!V(s)
      BY <2>5 DEF V, Semaphores!V
    <2>6. ASSUME NEW n \in 1..MaxSecs, clocksleep(n)
          PROVE  UNCHANGED Semaphores!vars
      <3>1. /\ curthread \in Thread /\ pc[curthread] = "run"
            /\ pc' = [pc EXCEPT ![curthread] = "clock"]
            /\ t_sleepaddr' = [t_sleepaddr EXCEPT ![curthread] = LBOLT]
            /\ UNCHANGED count
        BY <1>t, <1>c, <2>6, Zenon DEF clocksleep, thread_sleep, TypeOK, Continuations, Running
      <3>2. /\ pc'[curthread] = "clock"
            /\ \A t \in Thread : t # curthread =>
                 pc'[t] = pc[t] /\ t_sleepaddr'[t] = t_sleepaddr[t]
        BY <1>t, <3>1 DEF TypeOK
      <3> QED
        BY <1>t, <3>1, <3>2, OutsideP
    <2> QED
      BY <1>t, <1>2, <2>2, <2>3, <2>4, <2>5, <2>6
      DEF Program, Semaphores!Next, Running, P, TypeOK
  <1>3. CASE hardclock \/ thread_wakeup
    BY <1>t, <1>3, OutsideP DEF hardclock, thread_wakeup
  <1>4. CASE mi_switch_in
    <2>0. PICK next \in Thread : \/ mi_threadstart(next) \/ resume_run(next)
                                 \/ resume_P(next) \/ resume_clocksleep(next)
      BY <1>4 DEF mi_switch_in
    <2>1. CASE mi_threadstart(next)
      BY <1>t, <2>1, OutsideP DEF mi_threadstart, TypeOK
    <2>2. scheduler(next) => next \in Live
      BY SwitchPlace
    <2>3. ASSUME scheduler(next), NEW c \in {"run", pc[next]},
                 exorcise([pc EXCEPT ![next] = c])
          PROVE  /\ pc'[next] = c
                 /\ \A t \in Thread : t # next => (pc'[t] = "P" <=> pc[t] = "P")
      <3>1. /\ pc'[next] = c
            /\ \A t \in Live : t # next => pc'[t] = pc[t]
            /\ \A t \in Thread \ Live : pc'[t] = "free"
        BY <2>2, <2>3, ExorciseLive, Zenon
      <3> QED
        BY <3>1 DEF Live
    <2>4. [pc EXCEPT ![next] = pc[next]] = pc
      BY <1>t DEF TypeOK
    <2>5. CASE resume_run(next)
      <3>1. /\ pc'[next] = pc[next]
            /\ \A t \in Thread : t # next => (pc'[t] = "P" <=> pc[t] = "P")
        BY <2>3, <2>4, <2>5 DEF resume_run
      <3> QED
        BY <1>t, <2>5, <3>1, OutsideP DEF resume_run
    <2>6. CASE resume_clocksleep(next)
      <3>1. /\ scheduler(next) /\ pc[next] = "clock" /\ UNCHANGED count
            /\ \/ exorcise(pc) /\ UNCHANGED t_sleepaddr
               \/ /\ exorcise([pc EXCEPT ![next] = "run"])
                  /\ t_sleepaddr' = [t_sleepaddr EXCEPT ![next] = NULL]
        BY <2>6 DEF resume_clocksleep
      <3>2. /\ pc'[next] # "P"
            /\ \A t \in Thread : t # next => (pc'[t] = "P" <=> pc[t] = "P")
        BY <2>3, <2>4, <3>1, Zenon
      <3>3. \A t \in Thread : t # next => t_sleepaddr'[t] = t_sleepaddr[t]
        BY <1>t, <3>1 DEF TypeOK
      <3> QED
        BY <1>t, <3>1, <3>2, <3>3, OutsideP
    <2>7. CASE resume_P(next)
      <3>0. PICK s \in Sem : s = t_sleepaddr[next]
        BY <1>c, <2>7 DEF resume_P, Continuations
      <3>1. scheduler(next) /\ pc[next] = "P" /\ W[next] = s
        BY <2>7, <3>0 DEF resume_P
      <3>2. CASE count[s] = 0
        <4>1. exorcise(pc) /\ UNCHANGED <<t_sleepaddr, count>>
          BY <2>7, <3>0, <3>2 DEF resume_P
        <4>2. /\ pc'[next] = pc[next]
              /\ \A t \in Thread : t # next => (pc'[t] = "P" <=> pc[t] = "P")
          BY <2>3, <2>4, <3>1, <4>1, Zenon
        <4> QED
          BY <1>t, <4>1, <4>2, OutsideP
      <3>3. CASE count[s] # 0
        <4>1. /\ exorcise([pc EXCEPT ![next] = "run"])
              /\ t_sleepaddr' = [t_sleepaddr EXCEPT ![next] = NULL]
              /\ count' = [count EXCEPT ![s] = count[s] - 1]
          BY <2>7, <3>0, <3>3 DEF resume_P
        <4>2. /\ pc'[next] = "run"
              /\ \A t \in Thread : t # next => (pc'[t] = "P" <=> pc[t] = "P")
          BY <2>3, <3>1, <4>1
        <4>3. W' = [W EXCEPT ![next] = NULL]
          BY <1>t, <4>1, <4>2, Zenon DEF TypeOK
        <4>4. count[s] > 0
          BY <1>n, <3>3
        <4>5. Semaphores!Take(next, s)
          BY <3>1, <4>1, <4>3, <4>4, Zenon DEF Semaphores!Take
        <4> QED
          BY <4>5 DEF Semaphores!Next
      <3> QED
        BY <3>2, <3>3
    <2> QED
      BY <2>0, <2>1, <2>5, <2>6, <2>7
  <1> QED
    BY <1>1, <1>f, <1>2, <1>3, <1>4 DEF Next, Fork

\* P() and V(), run by any number of threads under preemption and
\* interrupts, are the semaphores synch.h describes.
THEOREM SemaphoresCorrect == Spec => ImplementsSemaphores
  <1>1. Init => Semaphores!Init
    BY DEF Init, Semaphores!Init
  <1>2. Inv /\ Inv' /\ [Next]_vars => [Semaphores!Next]_(Semaphores!vars)
    BY SemaphoreStep
  <1> QED
    BY <1>1, <1>2, Invariance, PTL DEF Spec, ImplementsSemaphores, Semaphores!Spec
=============================================================================
