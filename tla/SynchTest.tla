------------------------------ MODULE SynchTest ------------------------------
(***************************************************************************)
(* The kernel tests of synchronisation, kern/test/synchtest.c: semtest(),  *)
(* locktest() and cvtest(), run one after another from the menu.           *)
(*                                                                         *)
(* A step is a statement that other threads can see.  Semaphores are those *)
(* of Threads.  lock_acquire(), lock_release(), cv_wait() and              *)
(* cv_broadcast() are those of kern/thread/synch.c, which do nothing: a    *)
(* thread goes through them at any time, and they are no steps here.       *)
(***************************************************************************)
EXTENDS Integers, Sequences

CONSTANTS
  NTHREADS,
  NLOCKLOOPS,
  NCVLOOPS,
  MaxRuns      \* bound: tests run

Num == 0..(NTHREADS - 1)

VARIABLES
  testsem, donesem,     \* counts
  val,                  \* testval1, testval2, testval3
  menu,                 \* the thread in semtest(), locktest() or cvtest()
  th,                   \* per thread of the test: where it is and its i
  printed,              \* the numbers printed by cvtestthread()
  failed                \* the tests in which a thread has reported a failure

vars == <<testsem, donesem, val, menu, th, printed, failed>>

Off == [pc |-> "off", i |-> 0, check |-> 1]

\* inititems().
Init ==
  /\ testsem = 2 /\ donesem = 0
  /\ val = <<0, 0, 0>>
  /\ menu = [pc |-> "idle", test |-> "none", i |-> 0, runs |-> 0]
  /\ th = [n \in Num |-> Off]
  /\ printed = <<>> /\ failed = {}

At(n, pc) == th[n].pc = pc
Goto(n, pc) == th' = [th EXCEPT ![n].pc = pc]

----------------------------------------------------------------------------
(* The menu thread *)

MenuTo(pc, i) == menu' = [menu EXCEPT !.pc = pc, !.i = i]

\* What a test does before it forks: semtest() takes testsem twice, and
\* cvtest() says who is first.
Begin(test) ==
  /\ menu.pc = "idle" /\ menu.runs < MaxRuns
  /\ (test = "sem") => testsem >= 2
  /\ menu' = [menu EXCEPT !.pc = "fork", !.test = test, !.i = 0, !.runs = @ + 1]
  /\ testsem' = IF test = "sem" THEN testsem - 2 ELSE testsem
  /\ val' = IF test = "cv" THEN <<NTHREADS - 1, val[2], val[3]>> ELSE val
  /\ printed' = <<>>
  /\ UNCHANGED <<donesem, th, failed>>

Fork ==
  /\ menu.pc = "fork"
  /\ th' = [th EXCEPT ![menu.i] = [Off EXCEPT !.pc = menu.test]]
  /\ IF menu.i + 1 < NTHREADS THEN MenuTo("fork", menu.i + 1) ELSE MenuTo("let", 0)
  /\ UNCHANGED <<testsem, donesem, val, printed, failed>>

\* The loop of semtest() lets one thread print, the others only wait.
Let ==
  /\ menu.pc = "let" /\ MenuTo("wait", menu.i)
  /\ testsem' = IF menu.test = "sem" THEN testsem + 1 ELSE testsem
  /\ UNCHANGED <<donesem, val, th, printed, failed>>

Wait ==
  /\ menu.pc = "wait" /\ donesem > 0 /\ donesem' = donesem - 1
  /\ IF menu.i + 1 < NTHREADS THEN MenuTo("let", menu.i + 1) ELSE MenuTo("end", 0)
  /\ UNCHANGED <<testsem, val, th, printed, failed>>

bug_End ==                        \* one V() where there are two
  /\ menu.pc = "end" /\ MenuTo("idle", 0)
  /\ testsem' = IF menu.test = "sem" THEN testsem + 1 ELSE testsem
  /\ UNCHANGED <<donesem, val, th, printed, failed>>

\* "so we can run it again".
End ==
  /\ menu.pc = "end" /\ MenuTo("idle", 0)
  /\ testsem' = IF menu.test = "sem" THEN testsem + 2 ELSE testsem
  /\ UNCHANGED <<donesem, val, th, printed, failed>>

----------------------------------------------------------------------------
(* semtestthread() *)

SemTake(n) ==
  /\ At(n, "sem") /\ testsem > 0 /\ testsem' = testsem - 1 /\ Goto(n, "printing")
  /\ UNCHANGED <<donesem, val, menu, printed, failed>>

\* V(donesem) at the end of every thread.
Done(n) ==
  /\ th[n].pc \in {"printing", "done"}
  /\ donesem' = donesem + 1 /\ th' = [th EXCEPT ![n] = Off]
  /\ UNCHANGED <<testsem, val, menu, printed, failed>>

----------------------------------------------------------------------------
(* locktestthread() *)

Set(n, k, v, next) ==
  /\ val' = [val EXCEPT ![k] = v] /\ Goto(n, next)
  /\ UNCHANGED <<testsem, donesem, menu, printed, failed>>

SetVals(n) ==
  \/ At(n, "lock") /\ Set(n, 1, n, "set2")
  \/ At(n, "set2") /\ Set(n, 2, n * n, "set3")
  \/ At(n, "set3") /\ Set(n, 3, n % 3, "check")

\* The six comparisons, in their order.
Comparison(n, k) ==
  CASE k = 1 -> val[2] = val[1] * val[1]
    [] k = 2 -> val[2] % 3 = (val[3] * val[3]) % 3
    [] k = 3 -> val[3] = val[1] % 3
    [] k = 4 -> val[1] = n
    [] k = 5 -> val[2] = n * n
    [] k = 6 -> val[3] = n % 3

Report(n, test) == failed' = failed \cup {test} /\ Goto(n, "done")

\* A comparison, after the last of them the next round; or fail().
Check(n) ==
  LET k == th[n].check
      last == k = 6 /\ th[n].i + 1 = NLOCKLOOPS
  IN  /\ At(n, "check")
      /\ \/ ~Comparison(n, k) /\ Report(n, "lock")
         \/ /\ Comparison(n, k)
            /\ th' = [th EXCEPT ![n].check = (k % 6) + 1,
                        ![n].i = IF k = 6 THEN @ + 1 ELSE @,
                        ![n].pc = IF last THEN "done" ELSE IF k = 6 THEN "lock" ELSE @]
            /\ UNCHANGED failed
      /\ UNCHANGED <<testsem, donesem, val, menu, printed>>

----------------------------------------------------------------------------
(* cvtestthread() *)

\* The test of the loop; cv_wait() returns at once, and the time measured is
\* too short, or long enough because the thread was preempted in between.
CvWait(n) ==
  /\ At(n, "cv")
  /\ \/ val[1] = n /\ Goto(n, "turn") /\ UNCHANGED failed
     \/ val[1] # n /\ UNCHANGED <<th, failed>>
     \/ val[1] # n /\ Report(n, "cv")
  /\ UNCHANGED <<testsem, donesem, val, menu, printed>>

\* The number is printed, and it is the next thread's turn.
Turn(n) ==
  /\ At(n, "turn")
  /\ printed' = Append(printed, n) /\ Goto(n, "pass")
  /\ UNCHANGED <<testsem, donesem, val, menu, failed>>

Pass(n) ==
  /\ At(n, "pass")
  /\ val' = [val EXCEPT ![1] = (val[1] + NTHREADS - 1) % NTHREADS]
  /\ th' = [th EXCEPT ![n].i = @ + 1, ![n].pc = IF th[n].i + 1 = NCVLOOPS THEN "done" ELSE "cv"]
  /\ UNCHANGED <<testsem, donesem, menu, printed, failed>>

----------------------------------------------------------------------------
semtestthread(n) == SemTake(n) \/ Done(n)
locktestthread(n) == SetVals(n) \/ Check(n) \/ Done(n)
cvtestthread(n) == CvWait(n) \/ Turn(n) \/ Pass(n) \/ Done(n)
ThreadStep(n) == semtestthread(n) \/ locktestthread(n) \/ cvtestthread(n)

MenuStep == Fork \/ Let \/ Wait \/ End
semtest == Begin("sem") \/ (menu.test = "sem" /\ MenuStep)
locktest == Begin("lock") \/ (menu.test = "lock" /\ MenuStep)
cvtest == Begin("cv") \/ (menu.test = "cv" /\ MenuStep)

Next ==
  \/ semtest \/ locktest \/ cvtest
  \/ \E n \in Num : ThreadStep(n)

Spec == Init /\ [][Next]_vars

----------------------------------------------------------------------------
\* Whatever the threads of a test report, each of them is counted once in
\* donesem: between tests no thread of one is left, and the semaphores are as
\* inititems() left them, so that any test can be run again.
CanRunAgain ==
  menu.pc = "idle" => testsem = 2 /\ donesem = 0 /\ \A n \in Num : At(n, "off")

\* "Only one thread can hold the lock at the same time" (synch.h), which is
\* what locktestthread() relies on when it finds its own values again.
LocksExclude == "lock" \notin failed
=============================================================================
