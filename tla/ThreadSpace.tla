---------------------------- MODULE ThreadSpace ----------------------------
(***************************************************************************)
(* The room of the three lists of Threads.tla.  sleepers and zombies are   *)
(* arrays of lib/array.c, the run queue is the ring of lib/queue.c (in     *)
(* full in RunQueue.tla); thread_fork() makes them large enough in         *)
(* advance, so that mi_switch() and thread_wakeup(), which can not report  *)
(* an error, need not allocate.  Every step is a step of Threads.tla with  *)
(* what it does to the room; kmalloc() may fail at any call.               *)
(***************************************************************************)
EXTENDS Threads

CONSTANTS
  QueueSlots,  \* size scheduler_bootstrap() makes the ring with (32)
  KeepMax      \* array_setsize() to 0 frees the storage above this (16)

VARIABLES
  q_size,      \* slots of the ring: it holds one element less
  sl_max,      \* room of sleepers
  zo_max,      \* room of zombies
  failed       \* the list an assert(result==0) failed for, or "none"

space == <<q_size, sl_max, zo_max, failed>>

\* The room array_preallocate() and q_grow() ask for.
AtLeast(max, n) ==
  LET next[m \in Nat] == IF n > m THEN next[(m + 1) * 2] ELSE m IN next[max]
Doubled(size, n) ==
  LET next[m \in Nat] == IF m < n THEN next[m * 2] ELSE m IN next[size]

\* The room of an array after array_add() and array_setsize(a, 0).
array_add(max, num) == IF num + 1 > max THEN AtLeast(max, num + 1) ELSE max
array_empty(max) == IF max > KeepMax THEN 0 ELSE max

\* The room of the ring after q_preallocate() and q_addtail().
q_preallocate(size, n) == IF n > size THEN Doubled(size, n) ELSE size
q_addtail(size, num) == IF num + 1 = size THEN Doubled(size, size + 1) ELSE size

SpaceInit ==
  /\ Init
  /\ q_size = QueueSlots /\ sl_max = 0 /\ zo_max = 0
  /\ failed = "none"

bug_fork_space ==            \* room for the threads there are, not one more
  /\ sl_max' = AtLeast(sl_max, numthreads)
  /\ zo_max' = AtLeast(zo_max, numthreads)
  /\ q_size' = q_addtail(q_preallocate(q_size, numthreads + 1), Len(runqueue))

\* The room thread_fork() makes before the new thread is queued.
fork_space ==
  /\ sl_max' = AtLeast(sl_max, numthreads + 1)
  /\ zo_max' = AtLeast(zo_max, numthreads + 1)
  /\ q_size' = q_addtail(q_preallocate(q_size, numthreads + 1), Len(runqueue))

\* A thread_fork() that runs out of memory returns ENOMEM; the lists it had
\* enlarged so far stay enlarged.  (The first kmalloc()s, of the thread and
\* its stack, come before any of them.)
thread_fork_fails ==
  /\ Running
  /\ \E t \in Thread : pc[t] = "free"
  /\ \/ UNCHANGED <<sl_max, zo_max, q_size>>
     \/ /\ sl_max' = AtLeast(sl_max, numthreads + 1)
        /\ UNCHANGED <<zo_max, q_size>>
     \/ /\ sl_max' = AtLeast(sl_max, numthreads + 1)
        /\ zo_max' = AtLeast(zo_max, numthreads + 1)
        /\ q_size' = q_size \/ q_size' = q_preallocate(q_size, numthreads + 1)
  /\ UNCHANGED <<vars, failed>>

\* What mi_switch() and thread_wakeup() do to the room when they put a thread
\* on a list.  A list that has no room is enlarged; when kmalloc() fails,
\* assert(result==0) does.  zo is the room of zombies before.
list_space(zo) ==
  LET q == IF Len(runqueue') > Len(runqueue)
           THEN q_addtail(q_size, Len(runqueue)) ELSE q_size
      sl == IF Len(sleepers') > Len(sleepers)
            THEN array_add(sl_max, Len(sleepers)) ELSE sl_max
      z == IF Len(zombies') > Len(zombies)
           THEN array_add(zo, Len(zombies)) ELSE zo
      short == {l \in {"runqueue", "sleepers", "zombies"} :
                  \/ l = "runqueue" /\ q # q_size
                  \/ l = "sleepers" /\ sl # sl_max
                  \/ l = "zombies" /\ z # zo}
  IN \/ /\ q_size' = q /\ sl_max' = sl /\ zo_max' = z
        /\ UNCHANGED failed
     \/ /\ failed' \in short
        /\ zo_max' = zo
        /\ UNCHANGED <<q_size, sl_max>>

\* A step of Threads.tla without exorcise(), and one with it: exorcise()
\* calls array_setsize(zombies, 0) even when there is none.
switch_space ==
  /\ Program \/ hardclock \/ thread_wakeup \/ (\E t \in Thread : mi_threadstart(t))
  /\ list_space(zo_max)

exorcise_space ==
  /\ \E t \in Thread : resume_run(t) \/ resume_P(t) \/ resume_clocksleep(t)
  /\ list_space(array_empty(zo_max))

SpaceNext ==
  /\ failed = "none"
  /\ \/ Fork /\ fork_space /\ UNCHANGED failed
     \/ thread_fork_fails
     \/ switch_space
     \/ exorcise_space

SpaceSpec == SpaceInit /\ [][SpaceNext]_<<vars, space>>

----------------------------------------------------------------------------
(* Properties *)

\* Once there is any room for sleepers at all there is room for every thread
\* to sleep, so mi_switch(S_SLEEP) does not allocate ("Because we preallocate
\* sleepers[] during thread_fork, this should never fail", thread.c:419).
RoomForSleepers ==
  /\ sl_max # 0 => sl_max >= numthreads
  /\ failed = "sleepers" => sl_max = 0

\* The ring of the run queue has a slot for every thread.
SlotForEveryThread == q_size >= numthreads

\* thread.c:411 says of all three lists "Because we preallocate during
\* thread_fork, this should not fail", and scheduler.c:36 that the
\* preallocation is there "to ensure that make_runnable() does not fail".
\* For the run queue:
MakeRunnableNeverFails == failed # "runqueue"

\* The same for the threads that exit.
ZombiesNeverFail == failed # "zombies"
============================================================================
