-------------------------------- MODULE Base --------------------------------
(***************************************************************************)
(* What the parts of the kernel have in common: the threads that run in it *)
(* and the null pointer.                                                   *)
(***************************************************************************)
CONSTANTS Thread, NULL
=============================================================================
