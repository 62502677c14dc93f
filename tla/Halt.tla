--------------------------------- MODULE Halt ---------------------------------
(***************************************************************************)
(* The two ways the system stops: panic() (kern/lib/kprintf.c) and         *)
(* sys_reboot() with shutdown() (kern/main/main.c), with what they do to   *)
(* the other threads (thread.c, scheduler.c) and to the disk.              *)
(*                                                                         *)
(* Threads use the disk as lhd_io() does: lh_clear is the semaphore that   *)
(* gives the disk to one of them, lh_done the one the interrupt handler    *)
(* raises.  A file system that is dirty is written back by vfs_sync() and  *)
(* vfs_unmountall().  Anything panic() calls may panic again.              *)
(***************************************************************************)
EXTENDS Base, Integers, FiniteSets

CONSTANT MaxNested      \* bound: panics beyond the first

ASSUME HaltAssumption == NULL \notin Thread \cup {"clear", "done"}

VARIABLES
  owner,         \* who has lh_clear, or NULL
  done,          \* lh_done
  busy,          \* whether the disk works
  dirty,         \* whether there is something to write back
  state,         \* per thread: what it is doing
  asleep,        \* per thread: the semaphore it sleeps on, or NULL
  dropped,       \* threads taken off the run queue and the list of sleepers
  halting,       \* the thread in shutdown(), or NULL
  off,           \* the power is off
  evil,          \* the counter of panic()
  stage,         \* per thread in panic(): the value its next test has for evil
  interrupted,   \* threads whose panic() was called by a handler
  high,          \* threads in panic() that have turned interrupts off
  nested         \* panics beyond the first

disk == <<owner, done, busy, dirty>>
threads == <<state, asleep, dropped, halting, off>>
panics == <<evil, stage, interrupted, high, nested>>
halt_vars == <<disk, threads, panics>>

HaltInit ==
  /\ owner = NULL /\ done = 0 /\ busy = FALSE /\ dirty = FALSE
  /\ state = [t \in Thread |-> "run"] /\ asleep = [t \in Thread |-> NULL]
  /\ dropped = {} /\ halting = NULL /\ off = FALSE
  /\ evil = 0 /\ stage = [t \in Thread |-> 0]
  /\ interrupted = {} /\ high = {} /\ nested = 0

----------------------------------------------------------------------------
(* Threads and the disk *)

\* A thread may run: the power is on, it was not dropped and does not sleep,
\* and no other thread runs with interrupts off.  shutdown() turns them off
\* once it has unmounted everything.
Alone == {t \in Thread : (t \in high \/ state[t] = "dropping") /\ asleep[t] = NULL}
CanRun(t) ==
  /\ ~off /\ t \notin dropped /\ asleep[t] = NULL /\ Alone \subseteq {t}

HaltGoto(t, where) == state' = [state EXCEPT ![t] = where]
Sleep(t, on) == asleep' = [asleep EXCEPT ![t] = on]
Wake(on) == asleep' = [t \in Thread |->
                         IF asleep[t] = on /\ t \notin dropped THEN NULL ELSE asleep[t]]

\* lhd_io(), called at io by a thread that goes on at back: P(lh_clear) and
\* the request, P(lh_done), V(lh_clear).
lhd_io(t, io, waiting, back) ==
  \/ /\ state[t] = io
     /\ IF owner # NULL THEN Sleep(t, "clear") /\ UNCHANGED <<owner, busy, state>>
        ELSE owner' = t /\ busy' = TRUE /\ HaltGoto(t, waiting) /\ UNCHANGED asleep
     /\ UNCHANGED <<done, dirty>>
  \/ /\ state[t] = waiting
     /\ IF done = 0 THEN Sleep(t, "done") /\ UNCHANGED <<owner, done, dirty, state>>
        ELSE /\ done' = 0 /\ owner' = NULL /\ Wake("clear") /\ HaltGoto(t, back)
             /\ dirty' = (dirty /\ io = "io")
     /\ UNCHANGED busy

\* The disk has finished: lhd_irq().
lhd_irq ==
  /\ ~off /\ busy /\ busy' = FALSE /\ done' = done + 1 /\ Wake("done")
  /\ UNCHANGED <<owner, dirty, state, dropped, halting, off, panics>>

\* A thread writes to a file, or reads from the disk.
Work(t) ==
  /\ CanRun(t)
  /\ \/ state[t] = "run" /\ dirty' = TRUE /\ UNCHANGED <<owner, done, busy, state, asleep>>
     \/ state[t] = "run" /\ HaltGoto(t, "io") /\ UNCHANGED <<disk, asleep>>
     \/ lhd_io(t, "io", "waiting", "run")
  /\ UNCHANGED <<dropped, halting, off, panics>>

----------------------------------------------------------------------------
(* shutdown() *)

\* sys_reboot(), up to vfs_unmountall().
sys_reboot(t) ==
  /\ CanRun(t) /\ state[t] = "run" /\ halting = NULL
  /\ halting' = t /\ HaltGoto(t, "unmounting")
  /\ UNCHANGED <<disk, asleep, dropped, off, panics>>

bug_vfs_unmountall(t) ==        \* the other threads are stopped first
  /\ CanRun(t)
  /\ \/ /\ state[t] = "unmounting" /\ HaltGoto(t, IF dirty THEN "sync" ELSE "dropping")
        /\ dropped' = Thread \ {t} /\ UNCHANGED <<disk, asleep>>
     \/ lhd_io(t, "sync", "syncing", "dropping") /\ UNCHANGED dropped
  /\ UNCHANGED <<halting, off, panics>>

\* vfs_unmountall() writes back what is dirty, then interrupts go off.
vfs_unmountall(t) ==
  /\ CanRun(t)
  /\ \/ /\ state[t] = "unmounting" /\ HaltGoto(t, IF dirty THEN "sync" ELSE "dropping")
        /\ UNCHANGED <<disk, asleep>>
     \/ lhd_io(t, "sync", "syncing", "dropping")
  /\ UNCHANGED <<dropped, halting, off, panics>>

\* scheduler_shutdown(), thread_shutdown() and md_poweroff().
shutdown(t) ==
  /\ CanRun(t) /\ state[t] = "dropping"
  /\ dropped' = Thread \ {t} /\ off' = TRUE
  /\ UNCHANGED <<disk, state, asleep, halting, panics>>

----------------------------------------------------------------------------
(* panic() *)

Panicking ==
  {t \in Thread : state[t] \in {"panic", "passed", "begun", "psync", "psyncing", "forever"}}

\* A thread, or a handler that has interrupted it, finds something wrong; a
\* second one may do so until the first has stopped it.
panic(t) ==
  /\ CanRun(t) /\ t \notin Panicking
  /\ Panicking = {} \/ nested < MaxNested
  /\ nested' = IF Panicking = {} THEN nested ELSE nested + 1
  /\ interrupted' \in {interrupted, interrupted \cup {t}} /\ HaltGoto(t, "panic")
  /\ UNCHANGED <<disk, asleep, dropped, halting, off, evil, stage, high>>

\* if (evil==n), for the n that is next; after the last of them, for (;;).
Test(t) ==
  /\ CanRun(t) /\ state[t] = "panic"
  /\ IF stage[t] > 4 THEN HaltGoto(t, "forever") /\ UNCHANGED stage
     ELSE IF evil = stage[t] THEN HaltGoto(t, "passed") /\ UNCHANGED stage
     ELSE stage' = [stage EXCEPT ![t] = @ + 1] /\ UNCHANGED state
  /\ UNCHANGED <<disk, asleep, dropped, halting, off, evil, interrupted, high, nested>>

\* evil = n+1, a step of its own: until interrupts are off another thread may
\* have passed the same test.
Assign(t) ==
  /\ CanRun(t) /\ state[t] = "passed" /\ HaltGoto(t, "begun") /\ evil' = stage[t] + 1
  /\ UNCHANGED <<disk, asleep, dropped, halting, off, stage, interrupted, high, nested>>

Begun(t, n) == CanRun(t) /\ state[t] = "begun" /\ stage[t] = n

\* The body of an if is through: the next test.
After(t) == HaltGoto(t, "panic") /\ stage' = [stage EXCEPT ![t] = @ + 1]

\* What panic() has called panics in its turn: panic() runs again, from its
\* first test.
Again(t) ==
  /\ nested' = nested + 1 /\ HaltGoto(t, "panic") /\ stage' = [stage EXCEPT ![t] = 0]

PanicSpl(t) ==
  /\ Begun(t, 0) /\ high' = high \cup {t} /\ After(t)
  /\ UNCHANGED <<disk, asleep, dropped, halting, off, evil, interrupted, nested>>

\* thread_panic(): thread_killall() and scheduler_killall().  It asserts
\* that interrupts are off, and may panic before the first, or between the
\* two.
thread_panic(t) ==
  /\ Begun(t, 1)
  /\ \/ t \in high /\ dropped' = Thread \ {t} /\ After(t) /\ UNCHANGED nested
     \/ t \notin high /\ Again(t) /\ UNCHANGED dropped
     \/ /\ t \in high /\ nested < MaxNested /\ Again(t)
        /\ dropped' \in {dropped, dropped \cup {u \in Thread : asleep[u] # NULL}}
  /\ UNCHANGED <<disk, asleep, halting, off, evil, interrupted, high>>

\* The message, with the console polled.
Message(t) ==
  /\ Begun(t, 2)
  /\ \/ After(t) /\ UNCHANGED nested
     \/ nested < MaxNested /\ Again(t)
  /\ UNCHANGED <<disk, asleep, dropped, halting, off, evil, interrupted, high>>

\* vfs_sync(): writes back what is dirty.  In an interrupt P() asserts, and
\* so panics again.
vfs_sync(t) ==
  /\ Begun(t, 3)
  /\ \/ ~dirty /\ After(t) /\ UNCHANGED nested
     \/ dirty /\ t \notin interrupted /\ HaltGoto(t, "psync") /\ UNCHANGED <<stage, nested>>
     \/ dirty /\ t \in interrupted /\ Again(t)
     \/ nested < MaxNested /\ Again(t)
  /\ UNCHANGED <<disk, asleep, dropped, halting, off, evil, interrupted, high>>

SyncIO(t) ==
  /\ CanRun(t) /\ lhd_io(t, "psync", "psyncing", "panic")
  /\ UNCHANGED <<dropped, halting, off, panics>>

md_panic(t) ==
  /\ Begun(t, 4) /\ off' = TRUE
  /\ UNCHANGED <<disk, state, asleep, dropped, halting, panics>>

PanicStep(t) ==
  \/ Test(t) \/ Assign(t) \/ PanicSpl(t) \/ thread_panic(t) \/ Message(t) \/ vfs_sync(t)
  \/ SyncIO(t) \/ md_panic(t)

HaltNext ==
  \/ lhd_irq
  \/ \E t \in Thread :
       \/ Work(t) \/ sys_reboot(t) \/ vfs_unmountall(t) \/ shutdown(t) \/ panic(t) \/ PanicStep(t)

HaltSpec == HaltInit /\ [][HaltNext]_halt_vars

----------------------------------------------------------------------------
\* Until a panic has begun or the power is off, whoever sleeps for the disk is
\* served: a thread in P(lh_done) has the disk and the disk is at work for it,
\* and one in P(lh_clear) waits for another thread that still runs and does
\* not itself wait for the disk.  shutdown() keeps to it because it writes
\* back while the other threads still run, and drops them last.  (panic()
\* drops them first: the disk may belong to one of them when vfs_sync() wants
\* it.)
StopSleepersAreServed ==
  evil > 0 \/ off \/ \A t \in Thread \ dropped :
    /\ asleep[t] = "done" => owner = t /\ busy
    /\ asleep[t] = "clear" => /\ owner \in Thread \ (dropped \cup {t})
                              /\ asleep[owner] # "clear"
=============================================================================
