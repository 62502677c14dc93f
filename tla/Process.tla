------------------------------- MODULE Process -------------------------------
(***************************************************************************)
(* The table of process numbers of kern/userprog/process_syscall.c: the    *)
(* numbers in use with what keeps them, the numbers to be used again, and  *)
(* the first one never used.                                               *)
(*                                                                         *)
(* Nothing in the kernel asks for numbers yet.  The callers here are those *)
(* the comments on PID_FREE, PID_PARENT, PID_EXITED and PID_NEW speak of:  *)
(* a number has two sides, "running" (the process has not exited) and      *)
(* "parent" (neither has its parent, nor waited), and each side gives it   *)
(* up once, in any order, or both do with pid_free().  Every function runs *)
(* with interrupts off, and memory suffices.                               *)
(***************************************************************************)
EXTENDS Integers, Sequences, SequencesExt

CONSTANTS
  MIN_PID,
  MaxPids       \* bound: numbers in use at once

VARIABLES
  unused_pids, recycled_pids, unavailable_pids,
  sides,        \* per number given out: the sides that have not given it up
  crash         \* an assertion has failed or a null pointer was followed

vars == <<unused_pids, recycled_pids, unavailable_pids, sides, crash>>

PID_NEW == {"running", "parent"}
PID_PARENT == {"running"}
PID_EXITED == {"parent"}
PID_FREE == {}

Init ==
  /\ unused_pids = MIN_PID /\ recycled_pids = <<>> /\ unavailable_pids = <<>>
  /\ sides = [x \in MIN_PID..(MIN_PID + MaxPids - 1) |-> {}]
  /\ crash = FALSE

----------------------------------------------------------------------------
Give(x) ==
  /\ unavailable_pids' = <<[pid |-> x, status |-> PID_NEW]>> \o unavailable_pids
  /\ sides' = [sides EXCEPT ![x] = PID_NEW]
  /\ UNCHANGED crash

\* A recycled number if there is one, the next one otherwise.
new_pid ==
  \/ /\ recycled_pids = <<>> /\ unused_pids < MIN_PID + MaxPids
     /\ Give(unused_pids)
     /\ unused_pids' = unused_pids + 1 /\ UNCHANGED recycled_pids
  \/ /\ recycled_pids # <<>> /\ Give(Head(recycled_pids))
     /\ recycled_pids' = Tail(recycled_pids) /\ UNCHANGED unused_pids

\* An entry whose status becomes PID_FREE moves to the recycled numbers.
\* After taking away an entry other than the first, the loop goes to the one
\* behind it, and follows a null pointer when there is none; an assertion
\* fails when the number is not there.
pid_change_status(x, and_mask) ==
  LET found == {i \in 1..Len(unavailable_pids) : unavailable_pids[i].pid = x}
      At(i) ==
        LET status == unavailable_pids[i].status \cap and_mask
        IN  IF status # PID_FREE
            THEN /\ unavailable_pids' = [unavailable_pids EXCEPT ![i].status = status]
                 /\ UNCHANGED <<recycled_pids, crash>>
            ELSE /\ unavailable_pids' = RemoveAt(unavailable_pids, i)
                 /\ recycled_pids' = <<x>> \o recycled_pids
                 /\ crash' = (i > 1 /\ i = Len(unavailable_pids))
  IN  /\ IF found = {} THEN crash' = TRUE /\ UNCHANGED <<recycled_pids, unavailable_pids>>
                      ELSE \E i \in found : At(i)
      /\ UNCHANGED unused_pids

bug_pid_process_exit(x) ==          \* whether its parent is interested or not
  pid_change_status(x, PID_FREE)

pid_parent_done(x) == pid_change_status(x, PID_PARENT)
pid_process_exit(x) == pid_change_status(x, PID_EXITED)
pid_free(x) == pid_change_status(x, PID_FREE)

pid_claimed(x) == \E i \in 1..Len(unavailable_pids) : unavailable_pids[i].pid = x

----------------------------------------------------------------------------
(* The callers *)

ParentDone(x) ==
  "parent" \in sides[x] /\ pid_parent_done(x) /\ sides' = [sides EXCEPT ![x] = @ \ {"parent"}]
ProcessExits(x) ==
  "running" \in sides[x] /\ pid_process_exit(x) /\ sides' = [sides EXCEPT ![x] = @ \ {"running"}]
Freed(x) ==
  sides[x] # {} /\ pid_free(x) /\ sides' = [sides EXCEPT ![x] = {}]

Next ==
  /\ ~crash
  /\ new_pid \/ \E x \in DOMAIN sides : ParentDone(x) \/ ProcessExits(x) \/ Freed(x)

Spec == Init /\ [][Next]_vars

----------------------------------------------------------------------------
Numbers == [i \in 1..Len(unavailable_pids) |-> unavailable_pids[i].pid]

\* A number is kept for exactly as long as one of its sides has not given it
\* up, with that side in its status, whatever the order in which processes
\* and parents finish: it is not given to a second process before, and after
\* that it can be used again.  No number is in the table twice, and none that
\* was ever given out is lost.
PidIsKept ==
  /\ \A x \in DOMAIN sides : pid_claimed(x) <=> sides[x] # {}
  /\ \A e \in ToSet(unavailable_pids) : e.status = sides[e.pid]
  /\ IsInjective(Numbers \o recycled_pids)
  /\ ToSet(Numbers \o recycled_pids) = MIN_PID..(unused_pids - 1)
=============================================================================
