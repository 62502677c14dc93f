-------------------------------- MODULE FIFO --------------------------------
(***************************************************************************)
(* What lib/queue.c promises (kern/include/queue.h): a first-in first-out  *)
(* queue whose operations that need memory may fail, and change nothing    *)
(* when they do.                                                           *)
(***************************************************************************)
EXTENDS Sequences

CONSTANTS Elem, ENOMEM

VARIABLES
  q,      \* the elements, oldest first
  ret     \* what the last operation returned

Init == q = <<>> /\ ret = 0

Fails == ret' = ENOMEM /\ UNCHANGED q

AddTail(x) == (q' = Append(q, x) /\ ret' = 0) \/ Fails

RemHead == q # <<>> /\ q' = Tail(q) /\ ret' = Head(q)

Preallocate == (ret' = 0 /\ UNCHANGED q) \/ Fails

Next == (\E x \in Elem : AddTail(x)) \/ RemHead \/ Preallocate

Spec == Init /\ [][Next]_<<q, ret>>
=============================================================================
