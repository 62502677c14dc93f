------------------------------ MODULE MCKernel ------------------------------
(***************************************************************************)
(* One run for what is left of the kernel: copying from and to user        *)
(* memory, traps, the console, processes, program loading and arguments,   *)
(* the menu, panics and shutdown, printing, the clock, and what is built   *)
(* on threads (traffic, tests).  Two more specifications are checked by    *)
(* themselves: what the devices eventually do, DevicesSpec, and what is in *)
(* the pages of which the file of a program has nothing, ZerosSpec.        *)
(*                                                                         *)
(* A behaviour is one of the specification that subject names; the state   *)
(* spaces of the specifications add up and do not multiply.  CopyInOut,    *)
(* Trap, Console and Halt have their own variables, and stay in an initial *)
(* state while another specification is the subject; each other            *)
(* specification has as many of x1, x2, ... for its variables as it needs, *)
(* and those that a subject has no use for stay NULL.                      *)
(***************************************************************************)
EXTENDS CopyInOut, Trap, Console, Halt, TLC

CONSTANTS c1, c2, c3, t1, t2, l1, l2, s1, s2, w1, z1, z2, k1, Zero, JUNK

VARIABLES subject, x1, x2, x3, x4, x5, x6, x7, x8, x9, x10, x11, x12, x13, x14

shared == <<x1, x2, x3, x4, x5, x6, x7, x8, x9, x10, x11, x12, x13, x14>>
own == <<vars, trap_vars, port_vars, halt_vars>>
allvars == <<subject, own, shared>>

Cars ==
  INSTANCE Stoplight WITH Car <- {c1, c2, c3}, LIMIT <- 1, Direction <- {"north", "east"},
    flag <- x1, limit <- x2, count <- x3, queue <- x4, car <- x5, panicked <- x6
Pids ==
  INSTANCE Process WITH MIN_PID <- 1, MaxPids <- 4, unused_pids <- x1, recycled_pids <- x2,
    unavailable_pids <- x3, sides <- x4, crash <- x5

\* Executables of two segments with a header that is skipped in between, whole
\* and cut off, and such that cannot be loaded.
Phdrs ==
  {ph \in [type : {"PT_LOAD"}, vaddr : {0, 4, 6}, memsz : {1, 4, 9}, offset : {2},
           filesz : {0, 1, 4, 5}] :
     ph.filesz <= ph.memsz /\ (ph.filesz = 0 \/ ph.vaddr % 4 = 0)}
Above(ph) == [ph EXCEPT !.vaddr = 4 * (@ \div 4) + 16, !.filesz = 1]
Executable(phdrs) == [good |-> TRUE, len |-> 8, phdrs |-> phdrs]
Short(phdrs) == [good |-> TRUE, len |-> 4, phdrs |-> phdrs]
Executables ==
  {Executable(<<ph, [type |-> "skip"], Above(ph)>>) : ph \in Phdrs}
  \cup {Short(<<ph, [type |-> "skip"], Above(ph)>>) : ph \in Phdrs}
  \cup {Executable(<<ph, ph, ph>>) : ph \in Phdrs}
  \cup {Executable(<<[type |-> "unknown"]>>), [good |-> FALSE, len |-> 0, phdrs |-> <<>>]}
\* The program that is run: its loading and its arguments are two subjects.
Program ==
  INSTANCE RunProgram WITH PAGE_SIZE <- 4, NSegments <- 2, Files <- Executables, ZEROS <- 2,
    WORD <- 16, Garbage <- {0, 7, 14}, ZERO <- Zero, TOP <- 64, Lens <- {0, 1, 3, 4},
    MaxArgs <- 3, file <- x1, i <- x2, segments <- x3, err <- x4, loading <- x5, frame <- x6,
    image <- x7, panicked <- x8, call <- x1, args <- x2, as <- x3, at <- x4, argno <- x5,
    stackptr <- x6, location <- x7, mem <- x8

\* Segments that end in pages of which the file has nothing.
Tails ==
  {ph \in [type : {"PT_LOAD"}, vaddr : {0, 4}, memsz : {5, 8, 9}, offset : {2},
           filesz : {0, 1, 4}] : ph.filesz <= ph.memsz}
Zeros ==
  INSTANCE RunProgram WITH PAGE_SIZE <- 4, NSegments <- 2,
    Files <- {Executable(<<ph>>) : ph \in Tails}, ZEROS <- 2, WORD <- 16, Garbage <- {0, 7, 14},
    ZERO <- Zero, TOP <- 0, Lens <- {}, MaxArgs <- 0, file <- x1, i <- x2, segments <- x3,
    err <- x4, loading <- x5, frame <- x6, image <- x7, panicked <- x8, call <- x1, args <- x2,
    as <- x3, at <- x4, argno <- x5, stackptr <- x6, location <- x7, mem <- x8
Commands ==
  INSTANCE Menu WITH MAXMENUARGS <- 4, Shell <- "sh", MaxLines <- 3,
    MaxTests <- 2, MaxFail <- 2,
    BootLines <- {<<>>, <<<<"cd", "x">>>>, <<<<"bad">>, <<"q">>>>,
                  <<<<"p", "a">>, <<"p", "b", "c">>>>},
    Lines <- {<<<<"p", "a">>>>, <<<<"s">>, <<"p", "b", "c">>>>, <<<<"tests">>, <<"p", "b">>>>,
              <<<<>>, <<"p">>>>, <<<<"cd", "x">>, <<"?o">>>>, <<<<"p", "a", "b", "c", "d">>>>,
              <<<<"mount", "sfs", "x">>, <<"mount", "x", "x">>, <<"panic">>>>, <<<<"q">>>>},
    menu <- x1, args <- x2, prog <- x3, tests <- x4, numthreads <- x5, system <- x6, used <- x7
Synch ==
  INSTANCE SynchTest WITH NTHREADS <- 3, NLOCKLOOPS <- 1, NCVLOOPS <- 2, MaxRuns <- 2,
    testsem <- x1, donesem <- x2, val <- x3, menu <- x4, th <- x5, printed <- x6, failed <- x7
Wakes ==
  INSTANCE ThreadTest WITH Loud <- {l1, l2}, Sleeper <- {s1, s2}, Computer <- {k1},
    WAITADDRS <- {z1, z2}, SLEEPS <- 2, WAKER_WAKES <- 2, COMPUTE_ITERS <- 1, Waker <- w1,
    MaxRuns <- 2, sem <- x1, wakerdone <- x2, menu <- x3, th <- x4, heap <- x5
Format ==
  INSTANCE Printf WITH W <- 4, Nums <- {0, 5, 8, 15}, StrLens <- {0, 2}, BufLens <- {0, 1, 4},
    Chars <- {"%", "-", "#", "0", "2", "l", "d", "o", "x", "p", "s", "c", "u"}, MaxFormat <- 5,
    pf <- x1, out <- x2, snp <- x3, seen <- x4, field <- x5
Time ==
  INSTANCE Clock WITH Thread <- {t1, t2}, SECOND <- 5, SMALL <- 2, MaxGap <- 2,
    MULTIPLIER <- 3, MODULUS <- 13, WORD <- 16, MaxTime <- 6, MaxCalls <- 1,
    now <- x1, call <- x2, result <- x3, seed <- x4, loaded <- x5, drawn <- x6, calls <- x7

\* The disk and the console, smaller than those of MCStorage and above, and
\* the bus.
D ==
  INSTANCE Lhd WITH Thread <- {t1, t2}, Offsets <- {-2, 0, 1}, MaxLen <- 2, NSect <- 2,
    Width <- 4, MaxFaults <- 1, lh_clear <- x1, lh_done <- x2, lh_result <- x3, lh_buf <- x4,
    status <- x5, regs <- x6, disk <- x7, io <- x8, faults <- x9
C == INSTANCE Console WITH MaxCalls <- 1
B ==
  INSTANCE LameBus WITH Thread <- {t1, t2}, Slot <- 0..2,
    Card <- (0 :> "ltimer") @@ (1 :> "lhd") @@ (2 :> "ltimer"),
    Revision <- (0 :> 1) @@ (1 :> 2) @@ (2 :> 1), Boot <- t1, DUDS <- 2,
    MaxFail <- 1, MaxGlitch <- 1, ls_slotsinuse <- x1, ls_irqfuncs <- x2, unit <- x3,
    nextunit <- x4, theone <- x5, hardclock <- x6, boot <- x7, lines <- x8, handling <- x9,
    cpu <- x10, duds <- x11, budget <- x12, spurious <- x13, panicked <- x14

From11 == x11 = NULL /\ x12 = NULL /\ x13 = NULL /\ x14 = NULL
From9 == x9 = NULL /\ x10 = NULL /\ From11
From8 == x8 = NULL /\ From9
From7 == x7 = NULL /\ From8
From6 == x6 = NULL /\ From7
From1 == x1 = NULL /\ x2 = NULL /\ x3 = NULL /\ x4 = NULL /\ x5 = NULL /\ From6

CopyIdle ==
  /\ call = NULL /\ nul = NULL /\ mapped = NULL /\ at = NULL /\ stoplen = NULL /\ i = NULL
  /\ badfaultfunc = NULL /\ touched = {} /\ result = NULL /\ gotlen = NULL

OwnIdle == CopyIdle /\ TrapInit /\ PortInit /\ HaltInit

MCInit ==
  \/ subject = "copy" /\ Init /\ TrapInit /\ PortInit /\ HaltInit /\ From1
  \/ /\ OwnIdle
     /\ \/ subject \in {"traps", "port", "halt"} /\ From1
        \/ subject = "cars" /\ Cars!Init /\ From7
        \/ subject = "pids" /\ Pids!Init /\ From6
        \/ subject = "elf" /\ Program!Init /\ From9
        \/ subject = "args" /\ Program!ArgsInit /\ From9
        \/ subject = "menu" /\ Commands!Init /\ From8
        \/ subject = "synch" /\ Synch!Init /\ From8
        \/ subject = "wakes" /\ Wakes!Init /\ From6
        \/ subject = "format" /\ Format!Init /\ From6
        \/ subject = "time" /\ Time!Init /\ From8

still11 == <<x11, x12, x13, x14>>
still9 == <<x9, x10, still11>>
still8 == <<x8, still9>>
still7 == <<x7, still8>>
still6 == <<x6, still7>>

MCNext ==
  \/ subject = "copy" /\ Next /\ UNCHANGED <<subject, trap_vars, port_vars, halt_vars, shared>>
  \/ subject = "traps" /\ TrapNext /\ UNCHANGED <<subject, vars, port_vars, halt_vars, shared>>
  \/ subject = "port" /\ PortNext /\ UNCHANGED <<subject, vars, trap_vars, halt_vars, shared>>
  \/ subject = "halt" /\ HaltNext /\ UNCHANGED <<subject, vars, trap_vars, port_vars, shared>>
  \/ subject = "cars" /\ Cars!Next /\ UNCHANGED <<subject, own, still7>>
  \/ subject = "pids" /\ Pids!Next /\ UNCHANGED <<subject, own, still6>>
  \/ subject = "elf" /\ Program!Next /\ UNCHANGED <<subject, own, still9>>
  \/ subject = "args" /\ Program!ArgsNext /\ UNCHANGED <<subject, own, still9>>
  \/ subject = "menu" /\ Commands!Next /\ UNCHANGED <<subject, own, still8>>
  \/ subject = "synch" /\ Synch!Next /\ UNCHANGED <<subject, own, still8>>
  \/ subject = "wakes" /\ Wakes!Next /\ UNCHANGED <<subject, own, still6>>
  \/ subject = "format" /\ Format!Next /\ UNCHANGED <<subject, own, still6>>
  \/ subject = "time" /\ Time!Next /\ UNCHANGED <<subject, own, still8>>

MCSpec == MCInit /\ [][MCNext]_allvars

ZerosSpec ==
  /\ subject = "zeros" /\ OwnIdle /\ Zeros!Init /\ From9
  /\ [][Zeros!Next /\ UNCHANGED <<subject, own, still9>>]_allvars

DevicesInit ==
  /\ OwnIdle
  /\ \/ subject = "disk" /\ D!DiskInit /\ x10 = NULL /\ From11
     \/ subject = "console" /\ From1
     \/ subject = "bus" /\ B!Init

asDisk == <<subject, own, x10, still11>>
asConsole == <<subject, vars, trap_vars, halt_vars, shared>>
asBus == <<subject, own>>

DevicesNext ==
  \/ subject = "disk" /\ D!DiskNext /\ UNCHANGED asDisk
  \/ subject = "console" /\ C!PortNext /\ UNCHANGED asConsole
  \/ subject = "bus" /\ B!Next /\ UNCHANGED asBus

\* The fairness of each specification, for the behaviours that are its own.
DevicesFairness ==
  /\ WF_allvars(subject = "disk" /\ D!Work /\ UNCHANGED asDisk)
  /\ WF_allvars(subject = "disk" /\ D!lhd_irq /\ UNCHANGED asDisk)
  /\ \A t \in Thread : WF_allvars(subject = "disk" /\ D!lhd_io(t) /\ UNCHANGED asDisk)
  /\ WF_allvars(subject = "console" /\ C!PolledStep /\ UNCHANGED asConsole)
  /\ WF_allvars(subject = "console" /\ C!Sent /\ UNCHANGED asConsole)
  /\ WF_allvars(subject = "console" /\ C!lser_irq /\ UNCHANGED asConsole)
  /\ \A t \in Thread : WF_allvars(subject = "console" /\ C!PortStep(t) /\ UNCHANGED asConsole)
  /\ WF_allvars(subject = "bus" /\ B!Dispatches /\ UNCHANGED asBus)
  /\ \A t \in Thread : SF_allvars(subject = "bus" /\ B!SwitchTo(t) /\ UNCHANGED asBus)

DevicesSpec == DevicesInit /\ [][DevicesNext]_allvars /\ DevicesFairness

\* The cars are interchangeable.
AnyCar == Permutations({c1, c2, c3})

----------------------------------------------------------------------------
\* The counts are those of the cars asleep, so that a car that leaves and finds
\* 0 forgets nobody: Stoplight.tla.
CarsCountsSleepers == subject = "cars" => Cars!CountsSleepers

\* A number is kept while a process or its parent needs it: Process.tla.
PidsKept == subject = "pids" => Pids!PidIsKept

\* A page the file has a part of, and that was read, holds it, then zeros:
\* RunProgram.tla.
ElfImageIsExact == subject = "elf" => Program!ImageIsExact

\* A page that the file has nothing of is zero: RunProgram.tla.
ZeroFilled == Zeros!ZeroFilled

\* main() finds the arguments that were given: RunProgram.tla.
ArgsAllArrive == subject = "args" => Program!ArgsArrive

\* The arguments a program reads are the ones that were typed: Menu.tla.
MenuArgsIntact == subject = "menu" => Commands!ArgsIntact

\* The menu waits for the program it has started: Menu.tla.
MenuWaitsForProgram == subject = "menu" => Commands!MenuWaits

\* The synchronisation tests can be run again: SynchTest.tla.
SynchCanRunAgain == subject = "synch" => Synch!CanRunAgain

\* The waker goes on while a thread sleeps: ThreadTest.tla.
WakesWakerOutlivesSleepers == subject = "wakes" => Wakes!WakerOutlivesSleepers

\* The thread tests can be run again: ThreadTest.tla.
WakesCanRunAgain == subject = "wakes" => Wakes!CanRunAgain

\* The thread tests come to an end: ThreadTest.tla.
WakesNoHang == subject = "wakes" => Wakes!NoHang

\* A number that was printed can be read back: Printf.tla.
FormatNumbersReadBack == subject = "format" => Format!NumbersReadBack

\* The digits of a number fit into their buffer: Printf.tla.
FormatNumberFits == subject = "format" => Format!NumberFits

\* snprintf() leaves the beginning of what printf() would print: Printf.tla.
FormatBufferIsPrefix == subject = "format" => Format!BufferIsPrefix

\* A field is as wide as was asked for: Printf.tla.
FormatWidthIsMet == subject = "format" => Format!WidthIsMet

\* The time that is read is a time there was: Clock.tla.
TimeIsCorrect == subject = "time" => Time!TimeIsTrue

\* The random numbers are those of the generator: Clock.tla.
TimeSeedIsExact == subject = "time" => Time!SeedIsExact

\* Every I/O comes back: Lhd.tla.
DiskIOReturns ==
  \A t \in Thread : (subject = "disk" /\ D!Waits(t)) ~> ~(subject = "disk" /\ D!Waits(t))

\* Every character that putch_intr() is given is printed: Console.tla.
ConsolePutchReturns ==
  \A t \in Thread : (subject = "console" /\ C!Puts(t)) ~> (subject = "console" /\ C!HasPut(t))

\* What holds of the bus all along: LameBus.tla.
BusNoSpuriousCall == subject = "bus" => B!NoSpuriousCall
BusAttachedOnce == subject = "bus" => B!AttachedOnce
BusAllAttached == subject = "bus" => B!AllAttached

\* A card with a driver that interrupts gets its handler called: LameBus.tla.
BusAttended ==
  \A s \in 0..2 : (subject = "bus" /\ B!Asks(s)) ~> (subject = "bus" /\ (s \notin x8 \/ x14))
=============================================================================
