------------------------------ MODULE ThreadTest ------------------------------
(***************************************************************************)
(* The kernel tests of threads: kern/test/threadtest.c (tt1, tt2) and      *)
(* kern/test/tt3.c, run one after another from the menu.                   *)
(*                                                                         *)
(* tsem is the only semaphore of the first two tests, wakersem and donesem *)
(* are those of the third.  The characters printed and the matrices        *)
(* multiplied are left out; what is seen of them is putch(), thread_yield() *)
(* and the memory that is held.                                            *)
(***************************************************************************)
EXTENDS Integers, FiniteSets

CONSTANTS
  Loud,             \* threads of tt1 and tt2
  Sleeper,          \* sleepalot threads of tt3
  Computer,         \* compute threads of tt3
  WAITADDRS,
  SLEEPS,           \* SLEEPALOT_PRINTS * SLEEPALOT_ITERS
  WAKER_WAKES,
  COMPUTE_ITERS,
  Waker, NULL,
  MaxRuns           \* bound: tests run

TestThread == Loud \cup Sleeper \cup Computer \cup {Waker}

VARIABLES
  sem,              \* counts of tsem, donesem and wakersem
  wakerdone,
  menu,             \* where the menu thread is, what it has to fork, and await
  th,               \* per thread: where it is, iterations left, its address
  heap              \* matrices allocated

vars == <<sem, wakerdone, menu, th, heap>>

Off == [pc |-> "off", n |-> 0, addr |-> NULL]

Init ==
  /\ sem = [tsem |-> 0, donesem |-> 0, wakersem |-> 1]
  /\ wakerdone = FALSE
  /\ menu = [pc |-> "idle", test |-> "none", todo |-> {}, await |-> 0, runs |-> 0]
  /\ th = [t \in TestThread |-> Off]
  /\ heap = 0

P(s) == sem[s] > 0 /\ sem' = [sem EXCEPT ![s] = @ - 1]
V(s) == sem' = [sem EXCEPT ![s] = @ + 1]

At(t, pc) == th[t].pc = pc
Goto(t, pc) == th' = [th EXCEPT ![t].pc = pc]
MenuAt(pc) == menu.pc = pc
MenuTo(pc) == menu' = [menu EXCEPT !.pc = pc]

----------------------------------------------------------------------------
(* The menu thread *)

\* threadtest(), threadtest2(): init_sem() has made tsem.
threadtest(test) ==
  /\ MenuAt("idle") /\ menu.runs < MaxRuns
  /\ menu' = [pc |-> "fork", test |-> test, todo |-> Loud, await |-> Cardinality(Loud),
              runs |-> menu.runs + 1]
  /\ UNCHANGED <<sem, wakerdone, th, heap>>

\* runtest3(): setup(), and the threads that make_sleepalots() and
\* make_computes() are to fork.
runtest3 ==
  /\ MenuAt("idle") /\ menu.runs < MaxRuns
  /\ wakerdone' = FALSE
  /\ menu' = [pc |-> "fork", test |-> "tt3", todo |-> Sleeper \cup Computer \cup {Waker},
              await |-> Cardinality(Sleeper \cup Computer), runs |-> menu.runs + 1]
  /\ UNCHANGED <<sem, th, heap>>

First(t) ==
  IF t \in Loud THEN [pc |-> menu.test, n |-> 0, addr |-> NULL]
  ELSE IF t \in Sleeper THEN [pc |-> "sleepalot", n |-> SLEEPS, addr |-> NULL]
  ELSE IF t \in Computer THEN [pc |-> "compute", n |-> COMPUTE_ITERS, addr |-> NULL]
  ELSE [pc |-> "waker", n |-> 0, addr |-> NULL]

\* The sleepers first, then the waker, then the others.
Order(t, u) ==
  \/ t \in Sleeper /\ u \notin Sleeper
  \/ t = Waker /\ u \in Computer

Fork ==
  /\ MenuAt("fork")
  /\ \E t \in menu.todo :
       /\ \A u \in menu.todo : ~Order(u, t)
       /\ th' = [th EXCEPT ![t] = First(t)]
       /\ menu' = [menu EXCEPT !.todo = @ \ {t},
                    !.pc = IF menu.todo = {t} THEN "wait" ELSE "fork"]
  /\ UNCHANGED <<sem, wakerdone, heap>>

bug_Wait ==                       \* one P(), no loop
  /\ MenuAt("wait") /\ P(IF menu.test = "tt3" THEN "donesem" ELSE "tsem")
  /\ menu' = [menu EXCEPT !.await = @ - 1, !.pc = IF menu.test = "tt3" THEN "lock" ELSE "idle"]
  /\ UNCHANGED <<wakerdone, th, heap>>

\* The loop of P()s in runthreads() or finish().
Wait ==
  /\ MenuAt("wait") /\ P(IF menu.test = "tt3" THEN "donesem" ELSE "tsem")
  /\ menu' = [menu EXCEPT !.await = @ - 1,
               !.pc = IF menu.await > 1 THEN "wait"
                      ELSE IF menu.test = "tt3" THEN "lock" ELSE "idle"]
  /\ UNCHANGED <<wakerdone, th, heap>>

\* The rest of finish(): wakerdone under wakersem, and the waker's V().
finish ==
  \/ MenuAt("lock") /\ P("wakersem") /\ MenuTo("tell") /\ UNCHANGED <<wakerdone, th, heap>>
  \/ /\ MenuAt("tell") /\ V("wakersem") /\ wakerdone' = TRUE /\ MenuTo("last")
     /\ UNCHANGED <<th, heap>>
  \/ MenuAt("last") /\ P("donesem") /\ MenuTo("idle") /\ UNCHANGED <<wakerdone, th, heap>>

----------------------------------------------------------------------------
(* The threads.  V() is the last thing each of them does. *)

Done(t, s) == V(s) /\ th' = [th EXCEPT ![t] = Off]

\* loudthread() and quietthread() after their output.
loudthread(t) ==
  /\ th[t].pc \in {"tt1", "tt2"} /\ Done(t, "tsem")
  /\ UNCHANGED <<wakerdone, menu, heap>>

\* thread_sleep() on a random address; V() once all sleeps are over.
sleepalot_thread(t) ==
  /\ At(t, "sleepalot")
  /\ IF th[t].n = 0 THEN Done(t, "donesem")
     ELSE /\ \E a \in WAITADDRS : th' = [th EXCEPT ![t] = [pc |-> "asleep", n |-> @.n - 1, addr |-> a]]
          /\ UNCHANGED sem
  /\ UNCHANGED <<wakerdone, menu, heap>>

thread_wakeup(a) ==
  [t \in TestThread |-> IF At(t, "asleep") /\ th[t].addr = a
                    THEN [th[t] EXCEPT !.pc = "sleepalot", !.addr = NULL] ELSE th[t]]

waker_thread ==
  \/ At(Waker, "waker") /\ P("wakersem") /\ Goto(Waker, "read") /\ UNCHANGED <<wakerdone, menu, heap>>
  \/ /\ At(Waker, "read") /\ V("wakersem")
     /\ th' = [th EXCEPT ![Waker] = [pc |-> IF wakerdone THEN "last" ELSE "wakes", n |-> WAKER_WAKES, addr |-> NULL]]
     /\ UNCHANGED <<wakerdone, menu, heap>>
  \/ /\ At(Waker, "wakes")
     /\ \E a \in WAITADDRS :
          th' = [thread_wakeup(a) EXCEPT
                   ![Waker] = [@ EXCEPT !.n = @ - 1, !.pc = IF th[Waker].n = 1 THEN "waker" ELSE "wakes"]]
     /\ UNCHANGED <<sem, wakerdone, menu, heap>>
  \/ At(Waker, "last") /\ Done(Waker, "donesem") /\ UNCHANGED <<wakerdone, menu, heap>>

\* Three matrices, COMPUTE_ITERS products with a yield after each, and the
\* matrices are freed.
compute_thread(t) ==
  \/ /\ At(t, "compute") /\ heap' = heap + 3 /\ Goto(t, "multiply")
     /\ UNCHANGED <<sem, wakerdone, menu>>
  \/ /\ At(t, "multiply") /\ th[t].n > 0 /\ th' = [th EXCEPT ![t].n = @ - 1]
     /\ UNCHANGED <<sem, wakerdone, menu, heap>>
  \/ /\ At(t, "multiply") /\ th[t].n = 0 /\ heap' = heap - 3 /\ Done(t, "donesem")
     /\ UNCHANGED <<wakerdone, menu>>

Step ==
  \/ Fork \/ Wait \/ finish
  \/ \E t \in Loud : loudthread(t)
  \/ \E t \in Sleeper : sleepalot_thread(t)
  \/ \E t \in Computer : compute_thread(t)
  \/ waker_thread

Next ==
  \/ \E test \in {"tt1", "tt2"} : threadtest(test)
  \/ runtest3
  \/ Step

Spec == Init /\ [][Next]_vars

----------------------------------------------------------------------------
\* The waker ends only when no thread can need it: whoever is asleep on a
\* wait address has a waker that is still in its loop (finish()).
WakerOutlivesSleepers ==
  (\E t \in Sleeper : At(t, "asleep")) =>
    ~wakerdone /\ (~At(Waker, "off") \/ Waker \in menu.todo)

\* Between tests every thread of one is over, its memory is freed and the
\* semaphores are as they were at first: any test can be run again.
CanRunAgain ==
  MenuAt("idle") =>
    /\ \A t \in TestThread : At(t, "off")
    /\ sem = [tsem |-> 0, donesem |-> 0, wakersem |-> 1] /\ heap = 0

\* Until a test has ended somebody can go on: the P()s of the menu thread and
\* the V()s of the threads fit together.
NoHang == ~MenuAt("idle") => ENABLED Step
=============================================================================
