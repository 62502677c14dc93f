--------------------------- MODULE SemaphoreSpec ---------------------------
(***************************************************************************)
(* What a set of semaphores promises (kern/include/synch.h): P blocks      *)
(* while the count is zero and otherwise takes one from it in one          *)
(* indivisible step, V adds one, and a semaphore that stays positive while *)
(* threads wait for it is taken by one of them.  Who runs when is not said *)
(* here; Threads.tla says it and is shown to keep this promise.            *)
(***************************************************************************)
EXTENDS Naturals

CONSTANTS Thread, Sem, InitCounts, NULL

VARIABLES
  count,   \* per semaphore
  wait     \* per thread: the semaphore it waits for, or NULL

vars == <<count, wait>>

Init == count \in [Sem -> InitCounts] /\ wait = [t \in Thread |-> NULL]

\* P(s) finds the count at zero.
Block(t, s) ==
  /\ count[s] = 0 /\ wait[t] = NULL
  /\ wait' = [wait EXCEPT ![t] = s]
  /\ UNCHANGED count

\* P(s) takes one, at once or after waiting.
Take(t, s) ==
  /\ count[s] > 0 /\ wait[t] \in {NULL, s}
  /\ count' = [count EXCEPT ![s] = @ - 1]
  /\ wait' = [wait EXCEPT ![t] = NULL]

V(s) == count' = [count EXCEPT ![s] = @ + 1] /\ UNCHANGED wait

Next ==
  \/ \E t \in Thread, s \in Sem : Block(t, s) \/ Take(t, s)
  \/ \E s \in Sem : V(s)

Spec == Init /\ [][Next]_vars

WaiterTakes(s) == \E t \in Thread : wait[t] = s /\ Take(t, s)

FairSpec == Spec /\ \A s \in Sem : WF_vars(WaiterTakes(s))
============================================================================
