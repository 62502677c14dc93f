------------------------------ MODULE Threads ------------------------------
(***************************************************************************)
(* The thread system: kern/thread/thread.c, scheduler.c, hardclock.c and   *)
(* the semaphores of synch.c, on the one CPU OS/161 runs on.               *)
(*                                                                         *)
(* Code between splhigh() and splx() is atomic except where it calls       *)
(* mi_switch(), so an action is what the CPU does from one point where     *)
(* interrupts are on, or the scheduler is entered, to the next:            *)
(*   - curthread # NULL: curthread runs with interrupts on, any operation  *)
(*     of its program or any interrupt may come next;                      *)
(*   - curthread = NULL: the CPU is in scheduler(), on the stack of the    *)
(*     thread that called mi_switch().  Interrupts are off unless the run  *)
(*     queue is empty, when cpu_idle() opens the window for them.          *)
(* thread_wakeup() moves one sleeper per step; while it runs, interrupts   *)
(* are off and nothing else happens.                                       *)
(*                                                                         *)
(* The room of the three lists, and what happens when growing one fails,   *)
(* is ThreadSpace.tla.                                                     *)
(***************************************************************************)
EXTENDS Integers, Sequences, FiniteSets, Functions

CONSTANTS
  Thread,      \* thread structures that may exist at one time
  Boot,        \* the one thread_bootstrap() makes
  Sem,         \* semaphores
  InitCounts,  \* what sem_create() is given for an initial_count
  NULL,
  LBOLT,       \* the address &lbolt
  HZ,          \* clock ticks per second
  MaxCount,    \* bound: V is not taken on a semaphore that has reached it
  MaxSecs      \* bound: longest clocksleep()

ASSUME ThreadsAssumption ==
  /\ IsFiniteSet(Thread) /\ Boot \in Thread /\ NULL \notin Thread
  /\ LBOLT \notin Sem /\ NULL \notin Sem \cup {LBOLT}
  /\ HZ \in Nat \ {0} /\ MaxCount \in Nat /\ MaxSecs \in Nat
  /\ InitCounts \subseteq Nat

Addr == Sem \cup {LBOLT}

VARIABLES
  curthread,     \* the running thread, NULL while in scheduler()
  runqueue,      \* ready threads, in order
  sleepers,      \* sleeping threads, in order
  zombies,       \* threads that have exited and are not yet destroyed
  numthreads,    \* outstanding threads, zombies not counted
  t_sleepaddr,   \* per thread: address it sleeps on
  pc,            \* per thread: where it continues when it gets the CPU
  num_secs,      \* per thread: seconds clocksleep() has still to sleep
  count,         \* per semaphore
  lbolt_counter, \* ticks since the last second
  waking         \* thread_wakeup() in progress: its address, and what
                 \*   follows it

vars == <<curthread, runqueue, sleepers, zombies, numthreads,
          t_sleepaddr, pc, num_secs, count, lbolt_counter, waking>>

(***************************************************************************)
(* Continuations.  "free": no thread structure; "start": not yet run, will *)
(* enter mi_threadstart(); "run": in its program; "P", "clock": inside     *)
(* thread_sleep() called by P() or clocksleep(); "zombie": gone through    *)
(* thread_exit().                                                          *)
(***************************************************************************)
PC == {"free", "start", "run", "P", "clock", "zombie"}

NotWaking == [addr |-> NULL, then |-> "return"]

\* array_remove(): the elements behind index move down one.
array_remove(a, index) ==
  [k \in 1..(Len(a) - 1) |-> IF k < index THEN a[k] ELSE a[k + 1]]

Live == {t \in Thread : pc[t] \notin {"free", "zombie"}}

Running     == curthread # NULL /\ waking = NotWaking
Idle        == curthread = NULL /\ runqueue = <<>> /\ waking = NotWaking
Interrupts  == Running \/ Idle

----------------------------------------------------------------------------
\* thread_bootstrap(): the boot thread runs, alone.
Init ==
  /\ curthread = Boot
  /\ runqueue = <<>> /\ sleepers = <<>> /\ zombies = <<>>
  /\ numthreads = 1
  /\ t_sleepaddr = [t \in Thread |-> NULL]
  /\ pc = [t \in Thread |-> IF t = Boot THEN "run" ELSE "free"]
  /\ num_secs = [t \in Thread |-> 0]
  /\ count \in [Sem -> InitCounts]
  /\ lbolt_counter = 0
  /\ waking = NotWaking

\* The definitions called bug_... are not part of the model: each is a
\* mistake in the definition that follows it, and shows that a property
\* notices it.
bug_make_runnable(t) == runqueue' = <<t>> \o runqueue

\* make_runnable(): to the tail of the run queue.
make_runnable(t) == runqueue' = Append(runqueue, t)

\* thread_fork(): a structure that is not in use is made runnable.  (Its
\* failures leave the lists as they were and are steps that change nothing.)
thread_fork(newguy) ==
  /\ Running
  /\ pc[newguy] = "free"
  /\ make_runnable(newguy)
  /\ pc' = [pc EXCEPT ![newguy] = "start"]
  /\ t_sleepaddr' = [t_sleepaddr EXCEPT ![newguy] = NULL]
  /\ numthreads' = numthreads + 1
  /\ UNCHANGED <<curthread, sleepers, zombies, num_secs, count,
                 lbolt_counter, waking>>

bug_mi_switch_noop == UNCHANGED <<curthread, runqueue>>

\* mi_switch(S_READY), from thread_yield().  With no current thread (a tick
\* in the idle loop) it returns at once.
mi_switch_ready ==
  IF curthread = NULL
  THEN UNCHANGED <<curthread, runqueue>>
  ELSE make_runnable(curthread) /\ curthread' = NULL

thread_yield ==
  /\ Running
  /\ mi_switch_ready
  /\ UNCHANGED <<sleepers, zombies, numthreads, t_sleepaddr, pc, num_secs,
                 count, lbolt_counter, waking>>

\* thread_exit() and mi_switch(S_ZOMB).  The boot thread is in menu(), which
\* does not return.
thread_exit ==
  /\ Running
  /\ curthread # Boot
  /\ numthreads' = numthreads - 1
  /\ zombies' = Append(zombies, curthread)
  /\ pc' = [pc EXCEPT ![curthread] = "zombie"]
  /\ curthread' = NULL
  /\ UNCHANGED <<runqueue, sleepers, t_sleepaddr, num_secs, count,
                 lbolt_counter, waking>>

bug_thread_sleep(t, addr, where) ==   \* address set too late, after the switch
  /\ pc' = [pc EXCEPT ![t] = where]
  /\ sleepers' = Append(sleepers, t)
  /\ curthread' = NULL
  /\ UNCHANGED t_sleepaddr

\* thread_sleep(addr) by thread t, up to the switch: mi_switch(S_SLEEP).
\* where is the function it will return to.
thread_sleep(t, addr, where) ==
  /\ t_sleepaddr' = [t_sleepaddr EXCEPT ![t] = addr]
  /\ pc' = [pc EXCEPT ![t] = where]
  /\ sleepers' = Append(sleepers, t)
  /\ curthread' = NULL

\* P(), entered by the current thread.
P(s) ==
  /\ Running
  /\ IF count[s] = 0
     THEN thread_sleep(curthread, s, "P") /\ UNCHANGED count
     ELSE /\ count' = [count EXCEPT ![s] = @ - 1]
          /\ UNCHANGED <<t_sleepaddr, pc, sleepers, curthread>>
  /\ UNCHANGED <<runqueue, zombies, numthreads, num_secs, lbolt_counter,
                 waking>>

bug_V(s) ==                  \* wakeup forgotten
  /\ Interrupts
  /\ count[s] < MaxCount
  /\ count' = [count EXCEPT ![s] = @ + 1]
  /\ UNCHANGED <<curthread, runqueue, sleepers, zombies, numthreads,
                 t_sleepaddr, pc, num_secs, lbolt_counter, waking>>

\* V(), by the current thread or by an interrupt handler; thread_wakeup()
\* follows.
V(s) ==
  /\ Interrupts
  /\ count[s] < MaxCount
  /\ count' = [count EXCEPT ![s] = @ + 1]
  /\ waking' = [addr |-> s, then |-> "return"]
  /\ UNCHANGED <<curthread, runqueue, sleepers, zombies, numthreads,
                 t_sleepaddr, pc, num_secs, lbolt_counter>>

\* clocksleep(n), n > 0.
clocksleep(n) ==
  /\ Running
  /\ num_secs' = [num_secs EXCEPT ![curthread] = n]
  /\ thread_sleep(curthread, LBOLT, "clock")
  /\ UNCHANGED <<runqueue, zombies, numthreads, count, lbolt_counter, waking>>

\* hardclock(), from the timer interrupt.
hardclock ==
  /\ Interrupts
  /\ IF lbolt_counter + 1 >= HZ
     THEN /\ lbolt_counter' = 0
          /\ waking' = [addr |-> LBOLT, then |-> "yield"]
          /\ UNCHANGED <<curthread, runqueue>>
     ELSE /\ lbolt_counter' = lbolt_counter + 1
          /\ mi_switch_ready
          /\ UNCHANGED waking
  /\ UNCHANGED <<sleepers, zombies, numthreads, t_sleepaddr, pc, num_secs,
                 count>>

\* One turn of the loop of thread_wakeup(): the first sleeper on the address
\* becomes runnable; when there is none left the caller goes on.
thread_wakeup ==
  /\ waking # NotWaking
  /\ \/ \E i \in DOMAIN sleepers :
          /\ t_sleepaddr[sleepers[i]] = waking.addr
          /\ \A j \in 1..(i - 1) : t_sleepaddr[sleepers[j]] # waking.addr
          /\ sleepers' = array_remove(sleepers, i)
          /\ make_runnable(sleepers[i])
          /\ UNCHANGED <<curthread, waking>>
     \/ /\ \A i \in DOMAIN sleepers : t_sleepaddr[sleepers[i]] # waking.addr
        /\ waking' = NotWaking
        /\ IF waking.then = "yield"
           THEN mi_switch_ready
           ELSE UNCHANGED <<curthread, runqueue>>
        /\ UNCHANGED sleepers
  /\ UNCHANGED <<zombies, numthreads, t_sleepaddr, pc, num_secs, count,
                 lbolt_counter>>

bug_scheduler(next) ==       \* the head is not taken off the queue
  /\ curthread = NULL /\ waking = NotWaking
  /\ runqueue # <<>>
  /\ next = Head(runqueue)
  /\ UNCHANGED runqueue

\* scheduler() returns the head of the run queue and mi_switch() switches to
\* it.
scheduler(next) ==
  /\ curthread = NULL /\ waking = NotWaking
  /\ runqueue # <<>>
  /\ next = Head(runqueue)
  /\ runqueue' = Tail(runqueue)

\* exorcise() destroys the zombies.  p has the continuations the switch
\* leaves to the other threads.
exorcise(p) ==
  /\ zombies' = <<>>
  /\ pc' = [t \in Thread |-> IF t \in Range(zombies) THEN "free" ELSE p[t]]

\* A new thread comes out of the switch in mi_threadstart(), which does not
\* exorcise().
mi_threadstart(next) ==
  /\ scheduler(next)
  /\ pc[next] = "start"
  /\ curthread' = next
  /\ pc' = [pc EXCEPT ![next] = "run"]
  /\ UNCHANGED <<sleepers, zombies, numthreads, t_sleepaddr, num_secs, count,
                 lbolt_counter, waking>>

\* A thread that had yielded, or was preempted, goes on in its program.
resume_run(next) ==
  /\ scheduler(next)
  /\ pc[next] = "run"
  /\ exorcise(pc)
  /\ curthread' = next
  /\ UNCHANGED <<sleepers, numthreads, t_sleepaddr, num_secs, count,
                 lbolt_counter, waking>>

\* A thread woken up in P() tests the count again: it takes it, or sleeps
\* again without having been seen to run.
resume_P(next) ==
  LET s == t_sleepaddr[next] IN
  /\ scheduler(next)
  /\ pc[next] = "P"
  /\ IF count[s] = 0
     THEN /\ exorcise(pc)
          /\ sleepers' = Append(sleepers, next)
          /\ UNCHANGED <<curthread, t_sleepaddr, count>>
     ELSE /\ exorcise([pc EXCEPT ![next] = "run"])
          /\ count' = [count EXCEPT ![s] = @ - 1]
          /\ t_sleepaddr' = [t_sleepaddr EXCEPT ![next] = NULL]
          /\ curthread' = next
          /\ UNCHANGED sleepers
  /\ UNCHANGED <<numthreads, num_secs, lbolt_counter, waking>>

\* A thread woken up in clocksleep() counts a second and sleeps again if
\* there are more.
resume_clocksleep(next) ==
  /\ scheduler(next)
  /\ pc[next] = "clock"
  /\ num_secs' = [num_secs EXCEPT ![next] = @ - 1]
  /\ IF num_secs[next] - 1 > 0
     THEN /\ exorcise(pc)
          /\ sleepers' = Append(sleepers, next)
          /\ UNCHANGED <<curthread, t_sleepaddr>>
     ELSE /\ exorcise([pc EXCEPT ![next] = "run"])
          /\ t_sleepaddr' = [t_sleepaddr EXCEPT ![next] = NULL]
          /\ curthread' = next
          /\ UNCHANGED sleepers
  /\ UNCHANGED <<numthreads, count, lbolt_counter, waking>>

mi_switch_in ==
  \E next \in Thread :
    mi_threadstart(next) \/ resume_run(next) \/ resume_P(next)
      \/ resume_clocksleep(next)

Fork == \E t \in Thread : thread_fork(t)

Program ==
  \/ thread_yield
  \/ thread_exit
  \/ \E s \in Sem : P(s)
  \/ \E s \in Sem : V(s)
  \/ \E n \in 1..MaxSecs : clocksleep(n)

Next == Fork \/ Program \/ hardclock \/ thread_wakeup \/ mi_switch_in

Spec == Init /\ [][Next]_vars

(***************************************************************************)
(* Fairness.  In scheduler() and thread_wakeup() the CPU just goes on.     *)
(* The timer reloads itself (config_ltimer) and its interrupt line stays   *)
(* up until taken, so a tick that can be taken again and again is taken:   *)
(* strong fairness.  Nothing is assumed of the programs.                   *)
(***************************************************************************)
Fairness == WF_vars(mi_switch_in) /\ WF_vars(thread_wakeup) /\ SF_vars(hardclock)

FairSpec == Spec /\ Fairness

----------------------------------------------------------------------------
(* Properties *)

\* The variables keep their types: no list holds anything but threads (not
\* the NULL of an idle CPU), no count or counter goes below zero, and
\* hardclock() keeps its tick counter below HZ.
TypeOK ==
  /\ curthread \in Thread \cup {NULL}
  /\ runqueue \in Seq(Thread) /\ sleepers \in Seq(Thread)
  /\ zombies \in Seq(Thread)
  /\ numthreads \in Nat
  /\ t_sleepaddr \in [Thread -> Addr \cup {NULL}]
  /\ pc \in [Thread -> PC]
  /\ num_secs \in [Thread -> Nat]
  /\ count \in [Sem -> Nat]
  /\ lbolt_counter \in 0..(HZ - 1)
  /\ waking \in [addr : Addr \cup {NULL}, then : {"return", "yield"}]

\* A thread that has not exited is at one place of exactly one of: the CPU,
\* the run queue, the sleepers; one that has exited is once in zombies, and
\* a structure that was destroyed is nowhere.  This is what mi_switch(),
\* thread_wakeup() and exorcise() need of each other: a thread made runnable
\* twice would run on two CPUs' worth of one stack, one left on no list
\* never runs again, and exorcise() must not destroy a thread that can run
\* (its assert(z != curthread)).
OnePlace ==
  /\ IsInjective(runqueue) /\ IsInjective(sleepers) /\ IsInjective(zombies)
  /\ curthread \notin Range(runqueue) \cup Range(sleepers)
  /\ Range(runqueue) \cap Range(sleepers) = {}
  /\ Live = Range(runqueue) \cup Range(sleepers) \cup ({curthread} \ {NULL})
  /\ Range(zombies) = {t \in Thread : pc[t] = "zombie"}

\* numthreads is the number of threads that have not exited, which is what
\* thread_fork() preallocates the lists for.
CountsThreads == numthreads = Cardinality(Live)

\* one_thread_only(): "if the return value is 1 (true), then the calling
\* thread is the only thread in the system" (thread.c:176).  The menu relies
\* on it before it reuses the argument strings a program thread was given.
OneThreadOnly ==
  curthread # NULL /\ numthreads = 1 => runqueue = <<>> /\ sleepers = <<>>

\* No wakeup is lost: no thread is left sleeping in P() on a semaphore that
\* can be taken, unless thread_wakeup() is just about to reach it; nor on no
\* address at all.
NoLostWakeup ==
  \A t \in Range(sleepers) :
    /\ t_sleepaddr[t] # NULL
    /\ t_sleepaddr[t] \in Sem =>
         count[t_sleepaddr[t]] = 0 \/ waking.addr = t_sleepaddr[t]

\* The run queue is first in, first out whatever the interrupts do: a thread
\* that stays on it stays in front of the threads that were behind it, and in
\* front of the ones that come.
KeepsOrder ==
  \A i \in DOMAIN runqueue :
    runqueue[i] \in Range(runqueue')
    => \E k \in DOMAIN runqueue' :
         /\ runqueue'[k] = runqueue[i]
         /\ \A j \in (i + 1)..Len(runqueue) :
              \E l \in (k + 1)..Len(runqueue') : runqueue'[l] = runqueue[j]
         /\ \A l \in DOMAIN runqueue' :
              runqueue'[l] \notin Range(runqueue) => k < l

NoOvertaking == [][KeepsOrder]_vars

\* P() and V() are the semaphores SemaphoreSpec.tla describes, although P()
\* gives the CPU away in the middle and takes the count only when it is
\* scheduled again: synch.h's "if the count is 0, block until the count is 1
\* again before decrementing".
Semaphores ==
  INSTANCE SemaphoreSpec
  WITH wait <- [t \in Thread |-> IF pc[t] = "P" THEN t_sleepaddr[t] ELSE NULL]

ImplementsSemaphores == Semaphores!Spec

\* The same with the promise that a count that stays there is taken by one
\* of the threads that wait for it.
ImplementsFairSemaphores == Semaphores!FairSpec

\* Every ready thread gets the CPU: preemption by hardclock() and the round
\* robin reach it, whatever the running threads do.
ReadyRuns ==
  \A t \in Thread : t \in Range(runqueue) ~> t \notin Range(runqueue)

\* clocksleep() comes to an end: every second of it is woken by hardclock().
ClocksleepReturns == \A t \in Thread : pc[t] = "clock" ~> pc[t] = "run"
============================================================================
