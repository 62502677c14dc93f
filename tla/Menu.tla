--------------------------------- MODULE Menu ---------------------------------
(***************************************************************************)
(* The kernel's menu, kern/main/menu.c, and what becomes of the system     *)
(* around it, kern/main/main.c: boot(), the commands of the boot loader's  *)
(* line and of the lines typed, programs started by "p" and "s" in a       *)
(* thread of their own, kernel tests that leave threads behind, and        *)
(* reboot, from the menu or by a program.                                  *)
(*                                                                         *)
(* A line is a sequence of commands, a command a sequence of words.  The   *)
(* words of a command lie in the buffer of the line and the array args in  *)
(* the frame of cmd_dispatch(): both are the menu thread's, and the thread *)
(* of a program reads them.                                                *)
(***************************************************************************)
EXTENDS Integers, Sequences, FiniteSets, TLC

CONSTANTS
  BootLines,     \* bound: what the boot loader may pass
  Lines,         \* bound: what may be typed
  MAXMENUARGS,
  Shell,         \* _PATH_SHELL
  NULL,
  MaxLines,      \* bound: lines typed
  MaxTests,      \* bound: threads that kernel tests leave running
  MaxFail        \* bound: calls and programs that fail

VARIABLES
  menu,          \* the menu thread: pc, commands left of the line, isargs
  args,          \* args[] and the words they point to, of the command at hand
  prog,          \* the thread of a program: pc, and the words it is to be given
  tests,         \* threads left by kernel tests
  numthreads,
  system,        \* "up", "off" or "panic"
  used           \* lines typed and failures so far

vars == <<menu, args, prog, tests, numthreads, system, used>>

NoProg == [pc |-> "none", given |-> <<>>, seen |-> <<>>]

\* boot(), and menu() with the boot loader's line.
Init ==
  /\ \E line \in BootLines : menu = [pc |-> "next", line |-> line, isargs |-> TRUE]
  /\ args = <<>> /\ prog = NoProg /\ tests = 0 /\ numthreads = 1
  /\ system = "up" /\ used = [lines |-> 0, fails |-> 0]

MenuTo(pc) == menu' = [menu EXCEPT !.pc = pc]
Running == system = "up"
CanFail == used.fails < MaxFail
Failure == used' = [used EXCEPT !.fails = @ + 1]

----------------------------------------------------------------------------
(* Lines and commands *)

\* The end of the line: a new one is read into the same buffer.
ReadLine ==
  /\ Running /\ menu.pc = "next" /\ menu.line = <<>> /\ used.lines < MaxLines
  /\ \E line \in Lines : menu' = [pc |-> "next", line |-> line, isargs |-> FALSE]
  /\ args' = <<>>
  /\ used' = [used EXCEPT !.lines = @ + 1]
  /\ UNCHANGED <<prog, tests, numthreads, system>>

\* A command that fails is reported; one of the boot loader's is fatal.
Result(ok) ==
  /\ menu' = [menu EXCEPT !.pc = "next", !.line = Tail(@)]
  /\ system' = IF ok \/ ~menu.isargs THEN system ELSE "panic"

(* The commands that ask one thing of another part of the kernel: how many
   words they take, and whether what they ask for may fail. *)
AnyNumber == 1..MAXMENUARGS
cmd_chdir == [nargs |-> {2}, fails |-> TRUE]
cmd_pwd == [nargs |-> AnyNumber, fails |-> TRUE]
cmd_sync == [nargs |-> AnyNumber, fails |-> FALSE]
cmd_mount == [nargs |-> {3}, fails |-> TRUE]
cmd_unmount == [nargs |-> {2}, fails |-> TRUE]
cmd_bootfs == [nargs |-> {2}, fails |-> TRUE]
cmd_kheapstats == [nargs |-> AnyNumber, fails |-> FALSE]
cmd_mainmenu == [nargs |-> AnyNumber, fails |-> FALSE]
cmd_opsmenu == [nargs |-> AnyNumber, fails |-> FALSE]
cmd_testmenu == [nargs |-> AnyNumber, fails |-> FALSE]

\* The rows of the command table for these, and all it has.
Asking ==
  [cd |-> cmd_chdir, pwd |-> cmd_pwd, sync |-> cmd_sync, mount |-> cmd_mount,
   unmount |-> cmd_unmount, bootfs |-> cmd_bootfs, kh |-> cmd_kheapstats, help |-> cmd_mainmenu]
    @@ ("?o" :> cmd_opsmenu) @@ ("?t" :> cmd_testmenu)
Commands == {"p", "s", "q", "panic", "tests"} \cup DOMAIN Asking

\* The file systems cmd_mount() knows.
mounttable == {"sfs"}
Accepted(words) ==
  /\ Len(words) \in Asking[words[1]].nargs
  /\ words[1] = "mount" => words[2] \in mounttable

\* strtok_r() into args[], the command table, and the commands of Asking.
cmd_dispatch ==
  LET words == Head(menu.line)
      fits == Len(words) <= MAXMENUARGS
      found == words # <<>> /\ fits /\ words[1] \in Commands
      asked == found /\ words[1] \in DOMAIN Asking
  IN  /\ Running /\ menu.pc = "next" /\ menu.line # <<>>
      /\ args' = IF fits THEN words ELSE SubSeq(words, 1, MAXMENUARGS)
      /\ \/ found /\ ~asked /\ MenuTo(words[1]) /\ UNCHANGED <<system, used>>
         \/ ~found /\ Result(words = <<>>) /\ UNCHANGED used
         \/ asked /\ Result(Accepted(words)) /\ UNCHANGED used
         \/ /\ asked /\ Accepted(words) /\ Asking[words[1]].fails
            /\ CanFail /\ Result(FALSE) /\ Failure
      /\ UNCHANGED <<prog, tests, numthreads>>

\* "User requested panic".
cmd_panic ==
  /\ Running /\ menu.pc = "panic" /\ system' = "panic"
  /\ UNCHANGED <<menu, args, prog, tests, numthreads, used>>

\* cmd_prog() drops the first word, cmd_shell() replaces it.
ProgArgs ==
  IF menu.pc = "s" THEN <<Shell>> ELSE Tail(args)
Usage ==
  IF menu.pc = "s" THEN Len(args) = 1 ELSE Len(args) >= 2

----------------------------------------------------------------------------
(* Programs *)

bug_common_prog ==              \* the menu does not wait
  /\ Running /\ menu.pc \in {"p", "s"}
  /\ \/ ~Usage /\ Result(FALSE) /\ UNCHANGED <<args, prog, numthreads, used>>
     \/ /\ Usage /\ prog.pc = "none"
        /\ args' = ProgArgs /\ numthreads' = numthreads + 1
        /\ prog' = [pc |-> "start", given |-> ProgArgs, seen |-> <<>>]
        /\ Result(TRUE) /\ UNCHANGED used
  /\ UNCHANGED tests

\* common_prog() up to its loop.
common_prog ==
  /\ Running /\ menu.pc \in {"p", "s"}
  /\ \/ ~Usage /\ Result(FALSE) /\ UNCHANGED <<args, prog, numthreads, used>>
     \/ Usage /\ CanFail /\ Failure /\ Result(FALSE) /\ UNCHANGED <<args, prog, numthreads>>
     \/ /\ Usage /\ args' = ProgArgs /\ numthreads' = numthreads + 1
        /\ prog' = [pc |-> "start", given |-> ProgArgs, seen |-> <<>>]
        /\ MenuTo("wait") /\ UNCHANGED <<system, used>>
  /\ UNCHANGED tests

one_thread_only == numthreads = 1

\* The loop: clocksleep() until nobody else is left.
WaitAlone ==
  /\ Running /\ menu.pc = "wait" /\ one_thread_only
  /\ Result(TRUE) /\ UNCHANGED <<args, prog, tests, numthreads, used>>

\* cmd_progthread() copies the name; runprogram() copies the arguments when
\* the program is loaded, and its failure is reported with the name.
cmd_progthread ==
  /\ Running
  /\ \/ /\ prog.pc = "start" /\ prog' = [prog EXCEPT !.pc = "load", !.seen = <<args>>]
        /\ UNCHANGED <<numthreads, used>>
     \/ /\ prog.pc = "load" /\ prog' = [prog EXCEPT !.pc = "user", !.seen = Append(@, args)]
        /\ UNCHANGED <<numthreads, used>>
     \/ /\ prog.pc = "load" /\ CanFail /\ Failure
        /\ prog' = [prog EXCEPT !.pc = "exiting", !.seen = Append(@, args)]
        /\ UNCHANGED numthreads
     \/ prog.pc = "user" /\ prog' = [prog EXCEPT !.pc = "exiting"] /\ UNCHANGED <<numthreads, used>>
     \/ /\ prog.pc = "exiting" /\ prog' = NoProg /\ numthreads' = numthreads - 1
        /\ UNCHANGED used
  /\ UNCHANGED <<menu, args, tests, system>>

----------------------------------------------------------------------------
(* Kernel tests that fork threads and return, as createcars() *)

RunTests ==
  /\ Running /\ menu.pc = "tests" /\ Result(TRUE)
  /\ IF tests < MaxTests THEN tests' = tests + 1 /\ numthreads' = numthreads + 1
                         ELSE UNCHANGED <<tests, numthreads>>
  /\ UNCHANGED <<args, prog, used>>

TestEnds ==
  /\ Running /\ tests > 0 /\ tests' = tests - 1 /\ numthreads' = numthreads - 1
  /\ UNCHANGED <<menu, args, prog, system, used>>

----------------------------------------------------------------------------
(* Reboot: cmd_quit(), or the system call of a program *)

\* What shutdown() does to the other threads is in Halt.
sys_reboot ==
  /\ Running
  /\ menu.pc = "q" \/ prog.pc = "user"
  /\ system' = "off"
  /\ UNCHANGED <<menu, args, prog, tests, numthreads, used>>

Next ==
  \/ ReadLine \/ cmd_dispatch \/ cmd_panic \/ common_prog \/ WaitAlone
  \/ cmd_progthread \/ RunTests \/ TestEnds \/ sys_reboot

Spec == Init /\ [][Next]_vars

----------------------------------------------------------------------------
\* "there will be a race condition between the subprogram and the menu input
\* code if the menu thread is not made to wait": whatever a program's thread
\* reads of args[] is what its command said, also when tests still run.
ArgsIntact == \A k \in 1..Len(prog.seen) : prog.seen[k] = prog.given

\* While a program is there the menu thread waits or the system is going
\* down: no command runs beside a program.
MenuWaits == (Running /\ prog.pc # "none") => menu.pc = "wait"
=============================================================================
