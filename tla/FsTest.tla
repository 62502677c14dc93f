-------------------------------- MODULE FsTest --------------------------------
(***************************************************************************)
(* The kernel tests of file systems, kern/test/fstest.c: fstest(),         *)
(* readstress(), writestress(), writestress2() and createstress(), run one *)
(* after another from the menu.                                            *)
(*                                                                         *)
(* The menu thread and the threads of a test work through a list of the    *)
(* operations fstest_write(), fstest_read() and fstest_remove(); a failed  *)
(* one ends the list.  A line of a file is a number, how far SLOGAN is     *)
(* rotated.  Of the file system there is what the tests see: names, files  *)
(* that live while they are open, lines written one at a time, and errors. *)
(***************************************************************************)
EXTENDS Integers, Sequences, FiniteSets, FiniteSetsExt, Functions, TLC

CONSTANTS
  NTHREADS,
  NCHUNKS,
  NCREATES,
  LETTERS,       \* 26
  BIAS,          \* 2600
  MaxIno,        \* bound: files at once
  MaxRuns,       \* bound: tests run
  MaxErrors      \* bound: operations of the file system that fail

Num == 0..(NTHREADS - 1)
Menu == NTHREADS
Ino == 1..MaxIno

VARIABLES
  names,         \* the directory: name -> file
  lines,         \* per file: its lines; -1 for one nobody has written
  threadsem,
  actor,         \* per thread and for the menu thread: see Idle
  run,           \* the tests so far, whether one fails, and the errors in it
  errors

vars == <<names, lines, threadsem, actor, run, errors>>

Idle == [ops |-> <<>>, pc |-> "off", i |-> 0, ino |-> 0]

Init ==
  /\ names = <<>> /\ lines = [f \in Ino |-> <<>>] /\ threadsem = 0
  /\ actor = [a \in Num \cup {Menu} |-> Idle]
  /\ run = [test |-> "none", n |-> 0, failed |-> FALSE, errors |-> 0, left |-> 0]
  /\ errors = 0

----------------------------------------------------------------------------
(* What an operation does to a name.  stride and pos are those of           *)
(* fstest_write().                                                         *)

WriteOp(name, stride, pos) == [op |-> "write", name |-> name, stride |-> stride, pos |-> pos]
ReadOp(name) == [op |-> "read", name |-> name, stride |-> 1, pos |-> 0]
RemoveOp(name) == [op |-> "remove", name |-> name, stride |-> 1, pos |-> 0]
Other(op) == [op |-> op, name |-> <<>>, stride |-> 1, pos |-> 0]

Whole(name) == <<WriteOp(name, 1, 0), ReadOp(name), RemoveOp(name)>>

\* The threads: readstress_thread(), writestress_thread(),
\* writestress2_thread(), createstress_thread().
readstress_thread == <<ReadOp(<<>>)>>

bug_writestress_thread(n) == Whole(<<>>)      \* every thread the same file

writestress_thread(n) == Whole(<<n>>)

writestress2_thread(n) == <<WriteOp(<<>>, NTHREADS, n)>>

createstress_thread(n) ==
  [k \in 1..(3 * NCREATES) |-> Whole(<<n, (k - 1) \div 3>>)[((k - 1) % 3) + 1]]

ThreadOps(test, n) ==
  CASE test = "readstress"   -> readstress_thread
    [] test = "writestress"  -> writestress_thread(n)
    [] test = "writestress2" -> writestress2_thread(n)
    [] test = "createstress" -> createstress_thread(n)

\* The menu thread: dofstest(), doreadstress(), and so on.
dofstest == Whole(<<>>)

doreadstress == <<WriteOp(<<>>, 1, 0), Other("fork"), Other("wait"), RemoveOp(<<>>)>>
dowritestress == <<Other("fork"), Other("wait")>>
dowritestress2 ==
  <<Other("create"), Other("fork"), Other("wait"), ReadOp(<<>>), RemoveOp(<<>>)>>
docreatestress == <<Other("fork"), Other("wait")>>

MenuOps ==
  [fstest |-> dofstest, readstress |-> doreadstress, writestress |-> dowritestress,
   writestress2 |-> dowritestress2, createstress |-> docreatestress]

----------------------------------------------------------------------------
(* The file system *)

IsOpen(f) == \E a \in DOMAIN actor : actor[a].ino = f
FreeIno == {f \in Ino : f \notin Range(names) /\ ~IsOpen(f)}

Unnamed(name) == [m \in DOMAIN names \ {name} |-> names[m]]

\* The line at n of a file that is not that long yet leaves a hole.
Put(file, n, v) ==
  [k \in 1..Max({Len(file), n + 1}) |->
     IF k = n + 1 THEN v ELSE IF k <= Len(file) THEN file[k] ELSE -1]

rotate(v, amt) == (v + ((amt + BIAS) % LETTERS)) % LETTERS

----------------------------------------------------------------------------
(* Steps of an actor *)

Op(a) == Head(actor[a].ops)
Doing(a, op, pc) == actor[a].ops # <<>> /\ Op(a).op \in op /\ actor[a].pc = pc
Now(a, pc, i, ino) == [actor EXCEPT ![a] = [@ EXCEPT !.pc = pc, !.i = i, !.ino = ino]]

\* The operation is over, and the next one begins.
Succeeds(a) ==
  actor' = [actor EXCEPT ![a] = [Idle EXCEPT !.ops = Tail(actor[a].ops), !.pc = "start"]]
\* The actor gives up: what is open is closed.
Fails(a) ==
  /\ actor' = [actor EXCEPT ![a] = [Idle EXCEPT !.pc = "start"]]
  /\ run' = [run EXCEPT !.failed = TRUE]

\* An operation of the file system returns an error.
Error == /\ errors < MaxErrors /\ errors' = errors + 1

Trouble(a) ==
  /\ actor' = [actor EXCEPT ![a] = [Idle EXCEPT !.pc = "start"]]
  /\ run' = [run EXCEPT !.failed = TRUE, !.errors = @ + 1]

\* O_TRUNC is left out when threads share the file.
Flags(op) == IF op.stride = 1 THEN {"CREAT", "TRUNC"} ELSE {"CREAT"}

\* vfs_open() in fstest_write() and, in dowritestress2(), the whole of what
\* creates the file.
OpenForWrite(a) ==
  LET op == Op(a)
      new == op.name \notin DOMAIN names
      f == IF new THEN Min(FreeIno) ELSE names[op.name]
  IN  /\ Doing(a, {"write", "create"}, "start")
      /\ \/ /\ new => FreeIno # {}
            /\ names' = (op.name :> f) @@ names
            /\ lines' = [lines EXCEPT ![f] = IF new \/ "TRUNC" \in Flags(op) THEN <<>> ELSE @]
            /\ IF op.op = "create" THEN Succeeds(a) ELSE actor' = Now(a, "loop", 0, f)
            /\ UNCHANGED <<threadsem, run, errors>>
         \/ Error /\ Trouble(a) /\ UNCHANGED <<names, lines, threadsem>>

\* One turn of the loop of fstest_write(); an error closes and removes the
\* file.
WriteChunk(a) ==
  LET op == Op(a)
      i == actor[a].i
      f == actor[a].ino
  IN  /\ Doing(a, {"write"}, "loop") /\ i < NCHUNKS
      /\ IF i % op.stride # op.pos
         THEN actor' = Now(a, "loop", i + 1, f) /\ UNCHANGED <<names, lines, threadsem, run, errors>>
         ELSE \/ /\ lines' = [lines EXCEPT ![f] = Put(@, i, rotate(0, i))]
                 /\ actor' = Now(a, "loop", i + 1, f)
                 /\ UNCHANGED <<names, threadsem, run, errors>>
              \/ Error /\ Trouble(a) /\ names' = Unnamed(op.name) /\ UNCHANGED <<lines, threadsem>>

OpenForRead(a) ==
  LET name == Op(a).name
  IN  /\ Doing(a, {"read"}, "start")
      /\ \/ /\ name \in DOMAIN names /\ actor' = Now(a, "loop", 0, names[name])
            /\ UNCHANGED <<run, errors>>
         \/ name \notin DOMAIN names /\ Fails(a) /\ UNCHANGED errors
         \/ Error /\ Trouble(a)
      /\ UNCHANGED <<names, lines, threadsem>>

\* Short: the file ends before the line.  Wrong: it is another line.
Short(a) == Len(lines[actor[a].ino]) <= actor[a].i
Wrong(a) ==
  LET line == lines[actor[a].ino][actor[a].i + 1]
  IN  line = -1 \/ rotate(line, 0 - actor[a].i) # 0

ReadChunk(a) ==
  /\ Doing(a, {"read"}, "loop") /\ actor[a].i < NCHUNKS
  /\ \/ /\ ~Short(a) /\ ~Wrong(a) /\ actor' = Now(a, "loop", actor[a].i + 1, actor[a].ino)
        /\ UNCHANGED <<run, errors>>
     \/ (Short(a) \/ Wrong(a)) /\ Fails(a) /\ UNCHANGED errors
     \/ Error /\ Trouble(a)
  /\ UNCHANGED <<names, lines, threadsem>>

\* vfs_close() after the last line.
CloseFile(a) ==
  /\ Doing(a, {"write", "read"}, "loop") /\ actor[a].i = NCHUNKS /\ Succeeds(a)
  /\ UNCHANGED <<names, lines, threadsem, run, errors>>

fstest_write(a) == OpenForWrite(a) \/ WriteChunk(a) \/ CloseFile(a)
fstest_read(a) == OpenForRead(a) \/ ReadChunk(a) \/ CloseFile(a)

fstest_remove(a) ==
  LET name == Op(a).name
  IN  /\ Doing(a, {"remove"}, "start")
      /\ \/ name \in DOMAIN names /\ Succeeds(a) /\ names' = Unnamed(name) /\ UNCHANGED <<run, errors>>
         \/ name \notin DOMAIN names /\ Fails(a) /\ UNCHANGED <<names, errors>>
         \/ Error /\ Trouble(a) /\ UNCHANGED names
      /\ UNCHANGED <<lines, threadsem>>

----------------------------------------------------------------------------
\* A test is chosen; checkfilesystem() has accepted its argument.
Begin(test) ==
  /\ actor[Menu].pc = "off" /\ run.n < MaxRuns
  /\ run' = [test |-> test, n |-> run.n + 1, failed |-> FALSE, errors |-> 0, left |-> NTHREADS]
  /\ actor' = [actor EXCEPT ![Menu] = [Idle EXCEPT !.ops = MenuOps[test], !.pc = "start"]]
  /\ UNCHANGED <<names, lines, threadsem, errors>>

ForkOne ==
  LET i == actor[Menu].i
      forked == [Idle EXCEPT !.ops = ThreadOps(run.test, i), !.pc = "start"]
  IN  /\ Doing(Menu, {"fork"}, "start")
      /\ actor' = [actor EXCEPT ![i] = forked,
                     ![Menu] = IF i + 1 < NTHREADS THEN [@ EXCEPT !.i = i + 1]
                               ELSE [Idle EXCEPT !.ops = Tail(actor[Menu].ops), !.pc = "start"]]
      /\ UNCHANGED <<names, lines, threadsem, run, errors>>

WaitOne ==
  /\ Doing(Menu, {"wait"}, "start") /\ threadsem > 0 /\ threadsem' = threadsem - 1
  /\ run' = [run EXCEPT !.left = @ - 1]
  /\ IF run.left > 1 THEN UNCHANGED actor ELSE Succeeds(Menu)
  /\ UNCHANGED <<names, lines, errors>>

\* The list is at its end: V(threadsem), or back to the menu.
Over(a) ==
  /\ actor[a].pc = "start" /\ actor[a].ops = <<>>
  /\ actor' = [actor EXCEPT ![a].pc = "off"]
  /\ threadsem' = IF a = Menu THEN threadsem ELSE threadsem + 1
  /\ UNCHANGED <<names, lines, run, errors>>

Next ==
  \/ \E test \in DOMAIN MenuOps : Begin(test)
  \/ ForkOne \/ WaitOne
  \/ \E a \in Num \cup {Menu} :
       \/ fstest_write(a) \/ fstest_read(a) \/ fstest_remove(a) \/ Over(a)

Spec == Init /\ [][Next]_vars

----------------------------------------------------------------------------
Between == actor[Menu].pc = "off"

\* A test complains only if the file system has returned an error in that
\* test: the files of its threads do not interfere, strided writes leave no
\* hole behind, and what an earlier test left does no harm.
NoFalseAlarm == run.failed => run.errors > 0

\* Between tests every thread of one is over, the semaphore is at zero and
\* no file is open, whatever failed (V() and vfs_close() on every path).
CanRunAgain ==
  Between => /\ threadsem = 0 /\ ~\E f \in Ino : IsOpen(f)
             /\ \A n \in Num : actor[n].pc = "off"

\* Unless something failed a test leaves no file behind.
NothingLeft == (Between /\ errors = 0) => names = <<>>
=============================================================================
