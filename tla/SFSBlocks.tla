------------------------------ MODULE SFSBlocks ------------------------------
(***************************************************************************)
(* Block transfers and block allocation of the simple file system          *)
(* (sfs_io.c, sfs_vnode.c), shared by the models of its files and of its   *)
(* directory.                                                              *)
(*                                                                         *)
(* Every function works on the file system s, a record with at least       *)
(*   freemap, mapdirty  the blocks in use; whether that differs from disk  *)
(*   disk               what the blocks hold                               *)
(*   fault              which of the next transfers fails (0: none)        *)
(*   hurt               the transfer that has failed: "no", a "read", or a *)
(*                      "write"                                            *)
(* and hands back the s it leaves, an error ("ok": none) and a result.     *)
(***************************************************************************)
EXTENDS Integers, FiniteSets, FiniteSetsExt

CONSTANT NBlocks     \* blocks that can be allocated

Block == 1..NBlocks

Ok(s, v) == [s |-> s, err |-> "ok", val |-> v]
Fail(s, e) == [s |-> s, err |-> e, val |-> 0]

\* if (result) return result; otherwise go on from what r leaves.
Then(r, Continue(_, _)) == IF r.err # "ok" THEN r ELSE Continue(r.s, r.val)

\* sfs_rwblock(): the next transfer, which fails or not.
Fails(s) == s.fault = 1
Passed(s, rw) == [s EXCEPT !.fault = IF @ = 0 THEN 0 ELSE @ - 1,
                           !.hurt = IF Fails(s) THEN rw ELSE @]

\* A read that fails eleven times in a row is given up.
sfs_rblock(s, data) ==
  IF Fails(s) THEN Fail(Passed(s, "read"), "EIO") ELSE Ok(Passed(s, "read"), data)

\* lhd_io() empties the uio of a write before it knows whether the disk takes
\* the data.  The retry after an error is then a write of nothing, which
\* succeeds: new takes the place of s or not, and the result is 0.
sfs_wblock(s, new) == Ok(Passed(IF Fails(s) THEN s ELSE new, "write"), 0)

\* The lowest block whose bit is clear, marked, and cleared on the disk.
sfs_balloc(s, zero) ==
  LET free == Block \ s.freemap
      b == Min(free)
  IN  IF free = {} THEN Fail(s, "ENOSPC")
      ELSE LET t == [s EXCEPT !.freemap = @ \cup {b}, !.mapdirty = TRUE]
           IN  Ok(sfs_wblock(t, [t EXCEPT !.disk[b] = zero]).s, b)

\* sfs_bfree() of the blocks in B.
sfs_bfree(s, B) ==
  IF B = {} THEN s ELSE [s EXCEPT !.freemap = @ \ B, !.mapdirty = TRUE]
=============================================================================
