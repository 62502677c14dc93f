--------------------------------- MODULE Emu ---------------------------------
(***************************************************************************)
(* The emulator passthrough file system, kern/dev/lamebus/emu.c: requests  *)
(* through the registers of the device, its interrupt, and the vnodes for  *)
(* the handles it gives out.                                               *)
(*                                                                         *)
(* A call of the driver sets registers, starts the operation and sleeps on *)
(* e_sem until the interrupt.  e_lock is meant to keep the registers and   *)
(* ef_vnodes to one thread at a time, but lock_acquire() and               *)
(* lock_release() of kern/thread/synch.c do nothing, so nothing keeps two  *)
(* threads from being between them.  What the card does with a request on  *)
(* top of another one is not known here: a behaviour ends when two calls   *)
(* overlap (HostOverlap), and what the module says holds up to then.       *)
(***************************************************************************)
EXTENDS Base, Integers, FiniteSets, FiniteSetsExt, Functions, TLC

CONSTANTS
  EMU_MAXIO,
  RETRIES,       \* attempts at a close after the first
  FileSize,      \* bound: units in every file
  MaxHandle,     \* bound: handles the device has
  MaxResid,      \* bound: units of one read or write
  MaxErrors      \* bound: errors of the device, of the medium and of memory

ROOTHANDLE == 0                    \* EMU_ROOTHANDLE
Handle == 0..MaxHandle

VARIABLES
  e_sem,      \* count of the semaphore
  e_result,   \* the last result, put there by the interrupt handler
  reg,        \* REG_HANDLE, REG_IOLEN and REG_OFFSET
  pending,    \* the operation the device performs, or NULL
  opened,     \* handles open in the device
  vnodes,     \* ef_vnodes: per handle, vn_refcount
  call,       \* per thread: where it is, and its variables
  held,       \* per thread: the vnode it holds a reference to, or NULL
  errors,     \* errors so far
  panic

host_vars == <<e_sem, e_result, reg, pending, opened, vnodes, call, held, errors, panic>>
device == <<e_sem, e_result, reg, pending, opened>>

HostIdle == [at |-> "idle", op |-> NULL, handle |-> 0, resid |-> 0, offset |-> 0, retries |-> 0]

\* The vnodes after emufs_addtovfs(): ef_root, which stays.
emufs_addtovfs == vnodes = (ROOTHANDLE :> 1)

HostInit ==
  /\ e_sem = 0 /\ e_result = NULL
  /\ reg = [handle |-> 0, iolen |-> 0, offset |-> 0]
  /\ pending = NULL /\ opened = {ROOTHANDLE}
  /\ emufs_addtovfs
  /\ call = [t \in Thread |-> HostIdle]
  /\ held = [t \in Thread |-> NULL]
  /\ errors = 0 /\ panic = FALSE

HostGoto(t, where) == call' = [call EXCEPT ![t].at = where]
HostReturn(t) == call' = [call EXCEPT ![t] = HostIdle]

\* The threads between lock_acquire() and lock_release() of e_lock.
Inside == {t \in Thread : call[t].at \in {"registers", "start", "wait", "loading"}}
HostOverlap == Cardinality(Inside) > 1

----------------------------------------------------------------------------
(* What threads ask for *)

\* emu_open() on the root, then emufs_loadvnode(): emufs_lookup(), and
\* emufs_creat(), which differ in what they ask the device for.
emufs_lookup(t) ==
  /\ call[t].at = "idle" /\ held[t] = NULL
  /\ call' = [call EXCEPT ![t] = [HostIdle EXCEPT !.at = "acquire", !.op = "open", !.handle = ROOTHANDLE]]
  /\ UNCHANGED <<device, vnodes, held, errors, panic>>

\* FSOP_GETROOT; emufs_lookparent() does the same for a name that has no
\* directory part, and looks up the directory for one that has.
emufs_getroot(t) ==
  /\ call[t].at = "idle" /\ held[t] = NULL
  /\ vnodes' = [vnodes EXCEPT ![ROOTHANDLE] = @ + 1]
  /\ held' = [held EXCEPT ![t] = ROOTHANDLE]
  /\ UNCHANGED <<device, call, errors, panic>>

emufs_lookparent(t) == emufs_getroot(t) \/ emufs_lookup(t)

\* The operations of a vnode that go to the device; the others of the two
\* tables answer at once.  Of the directories there is only the root.
emufs_fileops == {"read", "write", "getsize", "trunc"}
emufs_dirops == {"readdir", "getsize"}
Operations(h) == IF h = ROOTHANDLE THEN emufs_dirops ELSE emufs_fileops

\* A call on the file or directory that t has, from the start of it.
emufs_io(t, op, resid) ==
  /\ call[t].at = "idle" /\ held[t] # NULL /\ op \in Operations(held[t])
  /\ call' = [call EXCEPT ![t] = [HostIdle EXCEPT !.at = "acquire", !.op = op, !.handle = held[t],
                                              !.resid = resid]]
  /\ UNCHANGED <<device, vnodes, held, errors, panic>>

emufs_read(t, resid) == emufs_io(t, "read", resid)
emufs_write(t, resid) == emufs_io(t, "write", resid)
emufs_getdirentry(t, resid) == emufs_io(t, "readdir", resid)
emufs_stat(t) == emufs_io(t, "getsize", 0)
emufs_truncate(t) == emufs_io(t, "trunc", 0)

\* Another thread gets a reference, as a child does from its parent.
incref(t, u) ==
  /\ call[t].at = "idle" /\ held[t] # NULL /\ held[u] = NULL /\ call[u].at = "idle"
  /\ vnodes' = [vnodes EXCEPT ![held[t]] = @ + 1]
  /\ held' = [held EXCEPT ![u] = held[t]]
  /\ UNCHANGED <<device, call, errors, panic>>

\* vnode_decref(): the last reference is dropped by emufs_reclaim().
decref(t) ==
  /\ call[t].at = "idle" /\ held[t] # NULL
  /\ held' = [held EXCEPT ![t] = NULL]
  /\ IF vnodes[held[t]] > 1
     THEN vnodes' = [vnodes EXCEPT ![held[t]] = @ - 1] /\ UNCHANGED call
     ELSE /\ call' = [call EXCEPT ![t] = [HostIdle EXCEPT !.at = "acquire", !.op = "reclaim",
                                                      !.handle = held[t]]]
          /\ UNCHANGED vnodes
  /\ UNCHANGED <<device, errors, panic>>

----------------------------------------------------------------------------
(* One request to the device *)

\* The lock, which is no lock.  emufs_reclaim() goes on only with the last
\* reference.
Acquire(t) ==
  LET c == call[t]
      busy == c.op = "reclaim" /\ vnodes[c.handle] # 1
  IN  /\ c.at = "acquire"
      /\ IF busy THEN HostReturn(t) ELSE HostGoto(t, "registers")
      /\ UNCHANGED <<device, vnodes, held, errors, panic>>

SetRegisters(t) ==
  LET c == call[t]
  IN  /\ c.at = "registers"
      /\ reg' = [handle |-> c.handle, iolen |-> Min({c.resid, EMU_MAXIO}), offset |-> c.offset]
      /\ HostGoto(t, "start")
      /\ UNCHANGED <<e_sem, e_result, pending, opened, vnodes, held, errors, panic>>

\* REG_OPER is written.
Start(t) ==
  /\ call[t].at = "start"
  /\ pending' = call[t].op
  /\ HostGoto(t, "wait")
  /\ UNCHANGED <<e_sem, e_result, reg, opened, vnodes, held, errors, panic>>

\* emu_irq(): code is what is in REG_RESULT.
emu_irq(code) ==
  e_result' = code /\ pending' = NULL /\ e_sem' = e_sem + 1

\* The device: opens give a handle that is not in use; operations on one
\* that is not open are refused.
HostDevice ==
  /\ pending # NULL
  /\ \/ /\ errors < MaxErrors /\ errors' = errors + 1
        /\ emu_irq("MEDIA") /\ UNCHANGED <<reg, opened>>
     \/ /\ pending = "open"
        /\ emu_irq(IF Handle \subseteq opened THEN "NOHANDLES" ELSE "BADPATH")
        /\ UNCHANGED <<reg, opened, errors>>
     \/ /\ reg.handle \notin opened /\ emu_irq("BADHANDLE")
        /\ UNCHANGED <<reg, opened, errors>>
     \/ /\ reg.handle \in opened
        /\ CASE pending = "open" ->
                  \E h \in Handle \ opened :
                    /\ reg' = [reg EXCEPT !.handle = h] /\ opened' = opened \cup {h}
             [] pending = "read" ->
                  LET n == Min({reg.iolen, FileSize - reg.offset})
                  IN  reg' = [reg EXCEPT !.iolen = n, !.offset = @ + n] /\ UNCHANGED opened
             [] pending \in {"close", "reclaim"} ->
                  opened' = opened \ {reg.handle} /\ UNCHANGED reg
             [] OTHER -> UNCHANGED <<reg, opened>>
        /\ emu_irq("SUCCESS") /\ UNCHANGED errors
  /\ UNCHANGED <<vnodes, call, held, panic>>

\* translate_err(): "on cases that indicate a programming error in emu.c,
\* panic".
translate_err(code) ==
  CASE code = "SUCCESS" -> "ok" [] code = "BADPATH" -> "ENOENT" [] code = "MEDIA" -> "EIO"
    [] code = "NOHANDLES" -> "ENFILE" [] code = "BADHANDLE" -> "panic"

\* What emu_waitdone() returns.
Result == translate_err(e_result)

\* emu_waitdone(): P(e_sem), and the result is translated.
emu_waitdone(t) ==
  /\ call[t].at = "wait" /\ e_sem > 0
  /\ e_sem' = e_sem - 1
  /\ panic' = (panic \/ Result = "panic")
  /\ UNCHANGED <<e_result, reg, pending, opened, errors>>

\* The end of emu_open(): the handle is in the register.
HostOpened(t) ==
  /\ call[t].op = "open"
  /\ emu_waitdone(t)
  /\ IF Result = "ok" THEN call' = [call EXCEPT ![t].at = "load", ![t].handle = reg.handle]
                      ELSE HostReturn(t)
  /\ UNCHANGED <<vnodes, held>>

\* emufs_loadvnode() is between its calls of the lock ...
Load(t) ==
  /\ call[t].at = "load" /\ HostGoto(t, "loading")
  /\ UNCHANGED <<device, vnodes, held, errors, panic>>

\* ... and finds the vnode in the pool or puts one there.
emufs_loadvnode(t) ==
  LET h == call[t].handle
  IN  /\ call[t].at = "loading"
      /\ IF h \in DOMAIN vnodes
         THEN vnodes' = [vnodes EXCEPT ![h] = @ + 1]
         ELSE vnodes' = vnodes @@ (h :> 1)
      /\ held' = [held EXCEPT ![t] = h] /\ HostReturn(t)
      /\ UNCHANGED <<device, errors, panic>>

bug_LoadFails(t) ==                     \* the handle stays open
  /\ call[t].at = "loading"
  /\ errors < MaxErrors /\ errors' = errors + 1 /\ HostReturn(t)
  /\ UNCHANGED <<device, vnodes, held, panic>>

\* It runs out of memory: the handle is closed again.
LoadFails(t) ==
  /\ call[t].at = "loading"
  /\ errors < MaxErrors /\ errors' = errors + 1
  /\ call' = [call EXCEPT ![t] = [HostIdle EXCEPT !.at = "acquire", !.op = "close",
                                              !.handle = call[t].handle]]
  /\ UNCHANGED <<device, vnodes, held, panic>>

\* The loops of emufs_read() and emufs_write(): until all is moved, or
\* nothing more is.
Moved(t, n) ==
  /\ emu_waitdone(t)
  /\ IF Result # "ok" \/ n \in {0, call[t].resid} THEN HostReturn(t)
     ELSE call' = [call EXCEPT ![t].at = "acquire", ![t].resid = @ - n, ![t].offset = @ + n]
  /\ UNCHANGED <<vnodes, held>>

\* The end of emu_readdir(), emu_getsize() and emu_trunc(), and of a read
\* whose uiomove() fails.
Told(t) ==
  /\ emu_waitdone(t) /\ HostReturn(t)
  /\ UNCHANGED <<vnodes, held>>

\* emu_close(), tried again after an I/O error, then the end of
\* emufs_reclaim(): the vnode leaves the pool, unless the close failed.
Closed(t) ==
  LET c == call[t]
  IN  /\ c.op \in {"close", "reclaim"}
      /\ emu_waitdone(t)
      /\ IF Result = "EIO" /\ c.retries < RETRIES
         THEN /\ call' = [call EXCEPT ![t].at = "registers", ![t].retries = @ + 1]
              /\ UNCHANGED vnodes
         ELSE /\ HostReturn(t)
              /\ vnodes' = IF c.op = "reclaim" /\ Result = "ok"
                           THEN Restrict(vnodes, DOMAIN vnodes \ {c.handle}) ELSE vnodes
      /\ UNCHANGED held

\* uiomove() fails in emu_write(): nothing is asked of the device.
CopyFails(t) ==
  /\ call[t].at = "start" /\ HostReturn(t)
  /\ UNCHANGED <<device, vnodes, held, errors, panic>>

\* What all calls begin with.
Request(t) == Acquire(t) \/ SetRegisters(t) \/ Start(t)

emu_open(t) == call[t].op = "open" /\ (Request(t) \/ HostOpened(t))
emu_doread(t) == call[t].op = "read" /\ (Request(t) \/ Moved(t, reg.iolen) \/ Told(t))
emu_write(t) ==
  /\ call[t].op = "write"
  /\ Request(t) \/ CopyFails(t) \/ Moved(t, Min({call[t].resid, EMU_MAXIO}))
emu_readdir(t) == call[t].op = "readdir" /\ (Request(t) \/ Told(t))
emu_getsize(t) == call[t].op = "getsize" /\ (Request(t) \/ Told(t))
emu_trunc(t) == call[t].op = "trunc" /\ (Request(t) \/ Told(t))
emu_close(t) == call[t].op = "close" /\ (Request(t) \/ Closed(t))
emufs_reclaim(t) == call[t].op = "reclaim" /\ (Request(t) \/ Closed(t))

HostStep(t) ==
  \/ emu_open(t) \/ Load(t) \/ emufs_loadvnode(t) \/ LoadFails(t)
  \/ emu_doread(t) \/ emu_readdir(t) \/ emu_write(t) \/ emu_getsize(t) \/ emu_trunc(t)
  \/ emu_close(t) \/ emufs_reclaim(t)

HostNext ==
  /\ ~panic /\ ~HostOverlap
  /\ \/ HostDevice
     \/ \E t \in Thread :
          \/ HostStep(t) \/ emufs_lookparent(t) \/ decref(t)
          \/ \E resid \in 1..MaxResid :
               emufs_read(t, resid) \/ emufs_write(t, resid) \/ emufs_getdirentry(t, resid)
          \/ emufs_stat(t) \/ emufs_truncate(t)
          \/ \E u \in Thread : incref(t, u)

HostSpec == HostInit /\ [][HostNext]_host_vars

----------------------------------------------------------------------------
\* As long as no two calls overlap and no more has gone wrong than emu_close()
\* retries, then whenever no call is under way the handles open in the device
\* are those of the vnodes in ef_vnodes, and each vnode has as many references
\* as threads hold it, with one more for ef_root: opens that run out of
\* memory, transfers that fail half way and errors at a close leave no handle
\* open behind them and none closed that is in use.
HostHandlesAccounted ==
  (errors <= RETRIES /\ \A t \in Thread : call[t].at = "idle") =>
     /\ opened = DOMAIN vnodes /\ ~panic
     /\ \A h \in DOMAIN vnodes :
          vnodes[h] = Cardinality({t \in Thread : held[t] = h}) + (IF h = ROOTHANDLE THEN 1 ELSE 0)
=============================================================================
