--------------------------------- MODULE Lhd ---------------------------------
(***************************************************************************)
(* The disk driver, kern/dev/lamebus/lhd.c: one controller with one buffer *)
(* and one operation at a time, shared by the threads that do I/O.         *)
(*                                                                         *)
(* lhd_io() is taken apart at the points where it can sleep, or where its  *)
(* interrupt can come in.  What is on a sector is the thread that wrote it *)
(* last.  Positions are in half sectors, so that some are not aligned.     *)
(***************************************************************************)
EXTENDS Base, Integers, FiniteSets

CONSTANTS
  Offsets,      \* bound: positions, which may be negative
  MaxLen,       \* bound: half sectors asked for
  NSect,        \* sectors of the disk
  Width,        \* sector numbers are Width bits wide
  MaxFaults     \* bound: errors of the medium, and faults of uiomove()

LHD_SECTSIZE == 2
Sector == 0..NSect - 1
Word(n) == n % 2^Width

ASSUME DiskAssumption == Offsets \subseteq Int /\ MaxLen \in Nat

VARIABLES
  lh_clear, lh_done,   \* counts of the semaphores
  lh_result,           \* the last result and whose it is
  lh_buf,              \* what is in the on-card buffer
  status,              \* LHD_REG_STAT: IDLE, WORKING, or a result
  regs,                \* LHD_REG_SECT, whether it is a write, and for whom
  disk,                \* what is on every sector
  io,                \* per thread: where it is in lhd_io()
  faults

disk_vars == <<lh_clear, lh_done, lh_result, lh_buf, status, regs, disk, io, faults>>

DiskIdle == [at |-> "idle", write |-> FALSE, sector |-> 0, len |-> 0, i |-> 0]

DiskInit ==
  /\ lh_clear = 1 /\ lh_done = 0              \* config_lhd()
  /\ lh_result = [err |-> "ok", of |-> NULL] /\ lh_buf = NULL
  /\ status = "IDLE" /\ regs = [sector |-> 0, write |-> FALSE, of |-> NULL]
  /\ disk = [k \in Sector |-> NULL]
  /\ io = [t \in Thread |-> DiskIdle]
  /\ faults = 0

DiskReturn(t) == io' = [io EXCEPT ![t] = DiskIdle]
DiskGoto(t, where) == io' = [io EXCEPT ![t].at = where]

\* The start of lhd_io(): nothing unaligned, nothing past the end.
Begin(t, write, offset, resid) ==
  LET sector == Word(offset \div LHD_SECTSIZE)
      len == resid \div LHD_SECTSIZE
      bad == \/ offset % LHD_SECTSIZE # 0 \/ resid % LHD_SECTSIZE # 0
             \/ Word(sector + len) > NSect
  IN  /\ io[t].at = "idle"
      /\ IF bad \/ len = 0 THEN DiskReturn(t)
         ELSE io' = [io EXCEPT ![t] = [at |-> "clear", write |-> write, sector |-> sector,
                                           len |-> len, i |-> 0]]
      /\ UNCHANGED <<lh_clear, lh_done, lh_result, lh_buf, status, regs, disk, faults>>

bug_Clear(t) ==                         \* without waiting for the others
  /\ io[t].at = "clear"
  /\ DiskGoto(t, IF io[t].write THEN "fill" ELSE "start")
  /\ UNCHANGED <<lh_clear, lh_done, lh_result, lh_buf, status, regs, disk, faults>>

\* P(lh_clear).
Clear(t) ==
  /\ io[t].at = "clear" /\ lh_clear > 0
  /\ lh_clear' = lh_clear - 1
  /\ DiskGoto(t, IF io[t].write THEN "fill" ELSE "start")
  /\ UNCHANGED <<lh_done, lh_result, lh_buf, status, regs, disk, faults>>

\* uiomove() into the buffer.
Fill(t) ==
  /\ io[t].at = "fill"
  /\ lh_buf' = t /\ DiskGoto(t, "start")
  /\ UNCHANGED <<lh_clear, lh_done, lh_result, status, regs, disk, faults>>

FillFails(t) ==
  /\ io[t].at = "fill" /\ faults < MaxFaults
  /\ faults' = faults + 1
  /\ lh_clear' = lh_clear + 1 /\ DiskReturn(t)
  /\ UNCHANGED <<lh_done, lh_result, lh_buf, status, regs, disk>>

\* The sector register, then the status register.
StartIO(t) ==
  /\ io[t].at = "start"
  /\ regs' = [sector |-> Word(io[t].sector + io[t].i), write |-> io[t].write, of |-> t]
  /\ status' = "WORKING"
  /\ DiskGoto(t, "done")
  /\ UNCHANGED <<lh_clear, lh_done, lh_result, lh_buf, disk, faults>>

\* The disk carries the operation out.
Work ==
  /\ status = "WORKING"
  /\ \/ /\ regs.sector \notin Sector /\ status' = "INVSECT" /\ UNCHANGED <<disk, lh_buf, faults>>
     \/ /\ regs.sector \in Sector /\ status' = "OK" /\ UNCHANGED faults
        /\ IF regs.write
           THEN disk' = [disk EXCEPT ![regs.sector] = lh_buf] /\ UNCHANGED lh_buf
           ELSE lh_buf' = disk[regs.sector] /\ UNCHANGED disk
     \/ /\ faults < MaxFaults /\ faults' = faults + 1
        /\ status' = "MEDIA" /\ UNCHANGED <<disk, lh_buf>>
  /\ UNCHANGED <<lh_clear, lh_done, lh_result, regs, io>>

lhd_code_to_errno(code) ==
  CASE code = "OK" -> "ok" [] code = "INVSECT" -> "EINVAL" [] code = "MEDIA" -> "EIO"

bug_lhd_iodone(err) == lh_result' = [err |-> err, of |-> regs.of] /\ UNCHANGED lh_done

lhd_iodone(err) == lh_result' = [err |-> err, of |-> regs.of] /\ lh_done' = lh_done + 1

lhd_irq ==
  /\ status \in {"OK", "INVSECT", "MEDIA"}
  /\ status' = "IDLE"
  /\ lhd_iodone(lhd_code_to_errno(status))
  /\ UNCHANGED <<lh_clear, lh_buf, regs, disk, io, faults>>

\* P(lh_done).
Done(t) ==
  /\ io[t].at = "done" /\ lh_done > 0
  /\ lh_done' = lh_done - 1
  /\ DiskGoto(t, "result")
  /\ UNCHANGED <<lh_clear, lh_result, lh_buf, status, regs, disk, faults>>

\* The end of the loop: the result, uiomove() out of the buffer, which may
\* fail, and V(lh_clear).
Finish(t) ==
  LET c == io[t]
      ok == lh_result.err = "ok"
  IN  /\ c.at = "result"
      /\ lh_clear' = lh_clear + 1
      /\ \/ /\ IF ~ok \/ c.i + 1 = c.len THEN DiskReturn(t)
               ELSE io' = [io EXCEPT ![t] = [c EXCEPT !.i = c.i + 1, !.at = "clear"]]
            /\ UNCHANGED faults
         \/ /\ ok /\ ~c.write /\ faults < MaxFaults
            /\ faults' = faults + 1 /\ DiskReturn(t)
      /\ UNCHANGED <<lh_done, lh_result, lh_buf, status, regs, disk>>

lhd_io(t) == Clear(t) \/ Fill(t) \/ FillFails(t) \/ StartIO(t) \/ Done(t) \/ Finish(t)

DiskNext ==
  \/ Work \/ lhd_irq
  \/ \E t \in Thread :
       \/ lhd_io(t)
       \/ \E write \in BOOLEAN, offset \in Offsets, resid \in 0..MaxLen :
            Begin(t, write, offset, resid)

\* The disk works, its interrupt is taken, and a thread that can run does.
DiskFairness ==
  WF_disk_vars(Work) /\ WF_disk_vars(lhd_irq) /\ \A t \in Thread : WF_disk_vars(lhd_io(t))

DiskSpec == DiskInit /\ [][DiskNext]_disk_vars
DiskFairSpec == DiskSpec /\ DiskFairness

----------------------------------------------------------------------------
\* The thread that takes the result and the data finds those of its own
\* operation: nobody else starts one, or fills the buffer, before it has
\* given the disk back.
DiskOwnData ==
  \A t \in Thread : io[t].at = "result" =>
     /\ lh_result.of = t /\ status = "IDLE"
     /\ lh_result.err = "ok" => lh_buf = disk[regs.sector]

\* The disk belongs to at most one thread, and it is never lost: it is free,
\* or a thread is on its way to give it back, also after an error.
DiskIsNotLost ==
  LET using == {t \in Thread : io[t].at \notin {"idle", "clear"}}
  IN  /\ lh_clear = IF using = {} THEN 1 ELSE 0
      /\ \A t, u \in using : t = u

\* The completions counted in lh_done are of operations somebody still waits
\* for: none is left over for the next thread to mistake for its own.
NoStrayCompletion ==
  LET waiting == {t \in Thread : io[t].at = "done"}
  IN  /\ lh_done + (IF status = "IDLE" THEN 0 ELSE 1) = IF waiting = {} THEN 0 ELSE 1
      /\ \A t, u \in waiting : t = u

\* What lhd_io() is asked to do past the end of the disk is not done: a
\* position that passes the check because the sum wraps around is refused by
\* the disk, before any sector is touched.
NothingPastEnd ==
  \A t \in Thread : (io[t].i > 0 => io[t].sector + io[t].i <= NSect)

Waits(t) == io[t].at = "done"

\* Every I/O comes back: lhd_iodone() wakes the thread that waits for it.
IOReturns == \A t \in Thread : Waits(t) ~> ~Waits(t)
=============================================================================
