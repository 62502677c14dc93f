-------------------------- MODULE KernelProof --------------------------
(***************************************************************************)
(* Proofs about traps (Trap) and the way the kernel stops (Halt), for every *)
(* value of the constants.                                                 *)
(***************************************************************************)
EXTENDS Trap, Halt, TLAPS

----------------------------------------------------------------------------
(* Stopping *)

Moving == {"waiting", "syncing"}
Before == {"run", "io", "waiting", "unmounting", "sync", "syncing", "dropping", "panic", "passed"}

\* What is true of a thread t before the first panic has done anything: what it
\* may be doing, that it has the disk exactly while it is in lhd_io() or has
\* panicked there, that the disk works for it or has finished, and what it
\* sleeps for.
Calm(t) ==
  /\ state[t] \in Before /\ stage[t] = 0
  /\ owner = t => state[t] \in Moving \cup {"panic", "passed"}
  /\ state[t] \in Moving => owner = t /\ (busy \/ done > 0)
  /\ asleep[t] = "clear" => owner \in Thread /\ state[t] \in {"io", "sync"}
  /\ asleep[t] = "done" => busy /\ state[t] \in Moving

StopTypes ==
  /\ DOMAIN state = Thread /\ DOMAIN asleep = Thread /\ stage \in [Thread -> Nat]
  /\ evil \in Nat /\ done \in Nat /\ owner \in Thread \cup {NULL}

\* The inductive invariant.
StopInv ==
  /\ StopTypes
  /\ evil > 0 \/ off \/ (dropped = {} /\ \A t \in Thread : Calm(t))

\* The invariant holds when the kernel has booted.
LEMMA StopInit == HaltInit => StopInv
  BY HaltAssumption DEF HaltInit, StopInv, StopTypes, Calm, Before, Moving

\* Every step keeps the types.
LEMMA StopTypesStep == ASSUME StopTypes, [HaltNext]_halt_vars PROVE StopTypes'
  <1> USE DEF StopTypes, panics, threads, disk
  <1>1. ASSUME NEW t \in Thread, NEW io, NEW waiting, NEW back, lhd_io(t, io, waiting, back),
               UNCHANGED <<evil, stage>>
        PROVE  StopTypes'
    BY <1>1 DEF lhd_io, HaltGoto, Sleep, Wake
  <1>2. ASSUME lhd_irq PROVE StopTypes'
    BY <1>2 DEF lhd_irq, Wake
  <1>3. ASSUME NEW t \in Thread, Work(t) \/ vfs_unmountall(t) \/ SyncIO(t) PROVE StopTypes'
    <2>1. CASE lhd_io(t, "io", "waiting", "run") \/ lhd_io(t, "sync", "syncing", "dropping")
               \/ lhd_io(t, "psync", "psyncing", "panic")
      BY <1>1, <1>3, <2>1 DEF Work, vfs_unmountall, SyncIO
    <2>2. CASE UNCHANGED <<owner, done, busy, asleep>>
      BY <1>3, <2>2 DEF Work, vfs_unmountall, SyncIO, HaltGoto, lhd_io, Sleep, Wake
    <2> QED
      BY <1>3, <2>1, <2>2 DEF Work, vfs_unmountall, SyncIO
  <1>4. ASSUME NEW t \in Thread, sys_reboot(t) \/ shutdown(t) \/ panic(t) PROVE StopTypes'
    BY <1>4 DEF sys_reboot, shutdown, panic, HaltGoto
  <1>5. ASSUME NEW t \in Thread, Test(t) \/ Assign(t) \/ PanicSpl(t) \/ md_panic(t) PROVE StopTypes'
    BY <1>5 DEF Test, Assign, PanicSpl, md_panic, HaltGoto, After
  <1>6. ASSUME NEW t \in Thread, thread_panic(t) \/ Message(t) \/ vfs_sync(t) PROVE StopTypes'
    BY <1>6 DEF thread_panic, Message, vfs_sync, HaltGoto, After, Again
  <1>7. CASE UNCHANGED halt_vars
    BY <1>7 DEF halt_vars
  <1> QED
    BY <1>2, <1>3, <1>4, <1>5, <1>6, <1>7 DEF HaltNext, PanicStep

\* Before the first panic does anything, using the disk keeps everyone served.
LEMMA StopDisk ==
  ASSUME StopTypes, dropped = {}, \A u \in Thread : Calm(u), NEW t \in Thread, asleep[t] = NULL,
         NEW io \in {"io", "sync"}, NEW waiting \in Moving, NEW back \in {"run", "dropping"},
         lhd_io(t, io, waiting, back), UNCHANGED stage
  PROVE  \A u \in Thread : Calm(u)'
  <1> USE DEF StopTypes, Moving, Before
  <1> SUFFICES ASSUME NEW u \in Thread PROVE Calm(u)'
    OBVIOUS
  <1>0. Calm(t) /\ Calm(u)
    OBVIOUS
  <1>1. CASE state[t] = io /\ owner # NULL /\ Sleep(t, "clear") /\ UNCHANGED <<owner, busy, state, done>>
    BY <1>0, <1>1, HaltAssumption DEF Calm, Sleep
  <1>2. CASE /\ state[t] = io /\ owner = NULL /\ owner' = t /\ busy' = TRUE /\ HaltGoto(t, waiting)
             /\ UNCHANGED <<asleep, done>>
    BY <1>0, <1>2, HaltAssumption DEF Calm, HaltGoto
  <1>3. CASE state[t] = waiting /\ done = 0 /\ Sleep(t, "done") /\ UNCHANGED <<owner, done, state, busy>>
    BY <1>0, <1>3 DEF Calm, Sleep
  <1>4. CASE /\ state[t] = waiting /\ done' = 0 /\ owner' = NULL /\ Wake("clear")
             /\ HaltGoto(t, back) /\ UNCHANGED busy
    <2>1. asleep'[u] = IF asleep[u] = "clear" THEN NULL ELSE asleep[u]
      BY <1>4 DEF Wake
    <2>2. owner = t /\ (state[u] \in Moving => u = t)
      BY <1>0, <1>4 DEF Calm
    <2>3. state'[u] = IF u = t THEN back ELSE state[u]
      BY <1>4 DEF HaltGoto
    <2> QED
      BY <1>0, <1>4, <2>1, <2>2, <2>3, HaltAssumption DEF Calm
  <1> QED
    BY <1>1, <1>2, <1>3, <1>4 DEF lhd_io

\* A step of a thread that has nothing to do with the disk.
LEMMA StopElsewhere ==
  ASSUME StopTypes, \A u \in Thread : Calm(u), NEW t \in Thread, asleep[t] = NULL,
         NEW where, state[t] \in {"run", "unmounting"} \/ where \in {"panic", "passed"},
         where \in Before \ Moving, HaltGoto(t, where), UNCHANGED <<owner, done, busy, asleep, stage>>
  PROVE  \A u \in Thread : Calm(u)'
  <1> SUFFICES ASSUME NEW u \in Thread PROVE Calm(u)'
    OBVIOUS
  <1>1. Calm(t) /\ Calm(u)
    OBVIOUS
  <1>2. state'[u] = IF u = t THEN where ELSE state[u]
    BY DEF HaltGoto, StopTypes
  <1> QED
    BY <1>1, <1>2, HaltAssumption DEF Calm, Moving, Before

\* Every step of shutdown(), panic() and the threads keeps the invariant.
LEMMA StopStep == StopInv /\ [HaltNext]_halt_vars => StopInv'
  <1> SUFFICES ASSUME StopInv, [HaltNext]_halt_vars PROVE StopInv'
    OBVIOUS
  <1> USE DEF panics, threads, disk
  <1>1. StopTypes'
    BY StopTypesStep DEF StopInv
  <1> DEFINE Quiet == dropped = {} /\ \A t \in Thread : Calm(t)
  <1>2. ASSUME Quiet' PROVE StopInv'
    BY <1>1, <1>2 DEF StopInv
  <1>3. ASSUME evil' > 0 \/ off' PROVE StopInv'
    BY <1>1, <1>3 DEF StopInv
  <1>4. CASE evil > 0 \/ off
    <2>1. UNCHANGED evil \/ \E t \in Thread : evil' = stage[t] + 1
      BY DEF HaltNext, lhd_irq, Work, sys_reboot, vfs_unmountall, shutdown, panic, PanicStep, Test,
             Assign, PanicSpl, thread_panic, Message, vfs_sync, SyncIO, md_panic, halt_vars
    <2>2. UNCHANGED off \/ off' = TRUE
      BY DEF HaltNext, lhd_irq, Work, sys_reboot, vfs_unmountall, shutdown, panic, PanicStep, Test,
             Assign, PanicSpl, thread_panic, Message, vfs_sync, SyncIO, md_panic, halt_vars
    <2> QED
      BY <1>3, <1>4, <2>1, <2>2 DEF StopInv, StopTypes
  <1>5. CASE ~(evil > 0 \/ off)
    <2>1. StopTypes /\ dropped = {} /\ \A t \in Thread : Calm(t)
      BY <1>5 DEF StopInv
    <2>2. ASSUME lhd_irq PROVE Quiet'
      <3>1. dropped' = {} /\ UNCHANGED <<owner, state, stage>> /\ busy' = FALSE /\ done' = done + 1
        BY <2>1, <2>2 DEF lhd_irq
      <3>2. \A t \in Thread : asleep'[t] = IF asleep[t] = "done" THEN NULL ELSE asleep[t]
        BY <2>1, <2>2 DEF lhd_irq, Wake
      <3>3. done' > 0
        BY <2>1, <3>1 DEF StopTypes
      <3> QED
        BY <2>1, <3>1, <3>2, <3>3, HaltAssumption DEF Calm
    <2>3. ASSUME NEW t \in Thread, Work(t) PROVE Quiet'
      <3>1. dropped' = {} /\ asleep[t] = NULL /\ UNCHANGED stage
        BY <2>1, <2>3 DEF Work, CanRun
      <3>2. CASE UNCHANGED <<owner, done, busy, state, asleep>>
        BY <2>1, <3>1, <3>2 DEF Calm
      <3>3. CASE state[t] = "run" /\ HaltGoto(t, "io") /\ UNCHANGED <<disk, asleep>>
        BY <2>1, <3>1, <3>3, StopElsewhere DEF Before, Moving
      <3>4. CASE lhd_io(t, "io", "waiting", "run")
        BY <2>1, <3>1, <3>4, StopDisk DEF Moving
      <3> QED
        BY <2>3, <3>2, <3>3, <3>4 DEF Work
    <2>4. ASSUME NEW t \in Thread, sys_reboot(t) PROVE Quiet'
      <3>1. /\ dropped' = {} /\ asleep[t] = NULL /\ state[t] = "run" /\ HaltGoto(t, "unmounting")
            /\ UNCHANGED <<owner, done, busy, asleep, stage>>
        BY <2>1, <2>4 DEF sys_reboot, CanRun
      <3> QED
        BY <2>1, <3>1, StopElsewhere DEF Before, Moving
    <2>5. ASSUME NEW t \in Thread, vfs_unmountall(t) PROVE Quiet'
      <3>1. dropped' = {} /\ asleep[t] = NULL /\ UNCHANGED stage
        BY <2>1, <2>5 DEF vfs_unmountall, CanRun
      <3>2. CASE /\ state[t] = "unmounting" /\ HaltGoto(t, IF dirty THEN "sync" ELSE "dropping")
                 /\ UNCHANGED <<disk, asleep>>
        <4>1. PICK where \in {"sync", "dropping"} : HaltGoto(t, where)
          BY <3>2, Zenon
        <4> QED
          BY <2>1, <3>1, <3>2, <4>1, StopElsewhere DEF Before, Moving
      <3>3. CASE lhd_io(t, "sync", "syncing", "dropping")
        BY <2>1, <3>1, <3>3, StopDisk DEF Moving
      <3> QED
        BY <2>5, <3>2, <3>3 DEF vfs_unmountall
    <2>6. ASSUME NEW t \in Thread, shutdown(t) \/ md_panic(t) PROVE off'
      BY <2>6 DEF shutdown, md_panic
    <2>7. ASSUME NEW t \in Thread, panic(t) PROVE Quiet'
      <3>1. /\ dropped' = {} /\ asleep[t] = NULL /\ HaltGoto(t, "panic")
            /\ UNCHANGED <<owner, done, busy, asleep, stage>>
        BY <2>1, <2>7 DEF panic, CanRun
      <3> QED
        BY <2>1, <3>1, StopElsewhere DEF Before, Moving
    <2>8. ASSUME NEW t \in Thread, Test(t) PROVE Quiet'
      <3>1. stage[t] = 0 /\ evil = 0
        BY <1>5, <2>1 DEF Calm, StopTypes
      <3>2. /\ dropped' = {} /\ asleep[t] = NULL /\ HaltGoto(t, "passed")
            /\ UNCHANGED <<owner, done, busy, asleep, stage>>
        BY <2>1, <2>8, <3>1 DEF Test, CanRun
      <3> QED
        BY <2>1, <3>2, StopElsewhere DEF Before, Moving
    <2>9. ASSUME NEW t \in Thread, Assign(t) PROVE evil' > 0
      BY <2>1, <2>9 DEF Assign, Calm
    <2>10. ASSUME NEW t \in Thread
           PROVE  ~PanicSpl(t) /\ ~thread_panic(t) /\ ~Message(t) /\ ~vfs_sync(t) /\ ~SyncIO(t)
      <3>1. state[t] \notin {"begun", "psync", "psyncing"}
        BY <2>1 DEF Calm, Before
      <3> QED
        BY <3>1 DEF PanicSpl, thread_panic, Message, vfs_sync, SyncIO, Begun, lhd_io
    <2>11. CASE UNCHANGED halt_vars
      BY <1>2, <2>1, <2>11 DEF halt_vars, Calm
    <2> QED
      BY <1>2, <1>3, <2>2, <2>3, <2>4, <2>5, <2>6, <2>7, <2>8, <2>9, <2>10, <2>11
         DEF HaltNext, PanicStep
  <1> QED
    BY <1>4, <1>5

\* For any number of threads: until a panic has begun its work or the power is
\* off, whoever sleeps in lhd_io() has the disk working for it, or waits for a
\* thread that was not dropped and does not itself wait for the disk; also
\* while shutdown() writes back what is dirty.
THEOREM StopServesSleepers == HaltSpec => []StopSleepersAreServed
  <1>1. StopInv => StopSleepersAreServed
    <2> SUFFICES ASSUME StopInv, ~(evil > 0 \/ off), NEW t \in Thread \ dropped
                 PROVE  /\ asleep[t] = "done" => owner = t /\ busy
                        /\ asleep[t] = "clear" => /\ owner \in Thread \ (dropped \cup {t})
                                                  /\ asleep[owner] # "clear"
      BY DEF StopSleepersAreServed
    <2>1. dropped = {} /\ \A u \in Thread : Calm(u)
      BY DEF StopInv
    <2>2. asleep[t] = "done" => owner = t /\ busy
      BY <2>1 DEF Calm
    <2>3. ASSUME asleep[t] = "clear"
          PROVE  owner \in Thread /\ owner # t /\ asleep[owner] # "clear"
      <3>1. owner \in Thread /\ state[t] \in {"io", "sync"}
        BY <2>1, <2>3 DEF Calm
      <3>2. state[owner] \in Moving \cup {"panic", "passed"}
        BY <2>1, <3>1 DEF Calm
      <3> QED
        BY <2>1, <3>1, <3>2 DEF Calm, Moving
    <2> QED
      BY <2>1, <2>2, <2>3
  <1> QED
    BY <1>1, StopInit, StopStep, PTL DEF HaltSpec

----------------------------------------------------------------------------
(* Traps *)

Frames ==
  [kind : {"irq", "sys", "fault"}, mode : {"user", "kernel"}, ie : BOOLEAN,
   savespl : {0, 1}, old_in : BOOLEAN]
  \cup [kind : {"spl"}, old : {0, 1}] \cup [kind : {"sched"}, sleeping : BOOLEAN]
  \cup [kind : {"copy", "start", "exited", "free"}]

TopOf(s) == IF s = <<>> THEN "none" ELSE Last(s).kind

\* The curspl of code that runs on top of such a frame.
Level(k) == IF k \in {"irq", "spl"} THEN 1 ELSE 0

NoIrq(s) == \A j \in DOMAIN s : s[j].kind # "irq"

\* Frame f on the stack s, of a thread that runs.
FrameOK(s, f) ==
  \/ f.kind = "sys" /\ s = <<>> /\ f.mode = "user" /\ f.savespl = 0 /\ f.ie
  \/ f.kind = "copy" /\ TopOf(s) = "sys"
  \/ /\ f.kind = "fault" /\ f.savespl = 0 /\ f.ie
     /\ \/ s = <<>> /\ f.mode = "user"
        \/ TopOf(s) = "copy" /\ f.mode = "kernel"
  \/ /\ f.kind = "irq" /\ f.savespl = 0 /\ f.ie /\ ~f.old_in
     /\ NoIrq(s) /\ Level(TopOf(s)) = 0 /\ (f.mode = "user" => s = <<>>)
  \/ f.kind = "spl" /\ f.old = Level(TopOf(s))

Running(s) ==
  /\ s \in Seq(Frames)
  /\ \A j \in 1..Len(s) : FrameOK(SubSeq(s, 1, j - 1), s[j])

\* The stack of a thread in mi_switch().
Switching(s) ==
  /\ s \in Seq(Frames) /\ Len(s) >= 2 /\ Last(s).kind = "sched"
  /\ Running(Front(s)) /\ Level(TopOf(Front(s))) = 1
  /\ Last(s).sleeping => NoIrq(Front(s))

\* That of one that has called thread_exit().
Exited(s) == s = <<Frame("exited"), [kind |-> "sched", sleeping |-> TRUE]>>

\* The frame of an interrupt taken in cpu_idle().
IdleIrq(f) == f.kind = "irq" /\ f.savespl = 1 /\ ~f.ie /\ ~f.old_in /\ f.mode = "kernel"

Idle(s) ==
  \/ Switching(s) \/ Exited(s)
  \/ /\ s \in Seq(Frames) /\ Len(s) >= 2 /\ IdleIrq(Last(s))
     /\ Last(Front(s)).sleeping
     /\ Switching(Front(s)) \/ Exited(Front(s))

TrapTypes ==
  /\ cur \in Thread /\ curkstack = cur /\ mode \in {"user", "kernel"}
  /\ IEc \in BOOLEAN /\ idle \in BOOLEAN /\ in_interrupt \in BOOLEAN /\ panicked = FALSE
  /\ curspl \in {0, 1} /\ stack \in [Thread -> Seq(Frames)]
  /\ pcb \in [Thread -> [kstack : Thread, ininterrupt : BOOLEAN, badfaultfunc : BOOLEAN]]
  /\ \A t \in Thread : pcb[t].kstack = t

\* The thread that runs, or whose stack the processor idles on.
TrapCur ==
  /\ IEc <=> curspl = 0
  /\ in_interrupt <=> ~NoIrq(stack[cur])
  /\ ~idle => Running(stack[cur]) /\ curspl = Level(TopOf(stack[cur]))
  /\ idle => Idle(stack[cur]) /\ curspl = 1 /\ mode = "kernel"
  /\ mode = "user" => stack[cur] = <<>>

\* The others.
TrapOther ==
  \A t \in Thread \ {cur} :
    \/ stack[t] = Free
    \/ stack[t] = <<Frame("start")>> /\ ~pcb[t].ininterrupt
    \/ Switching(stack[t]) /\ (pcb[t].ininterrupt <=> ~NoIrq(stack[t]))

TrapInv == TrapTypes /\ TrapCur /\ TrapOther

(* Stacks *)

\* What Append, Last and Front make of a stack of frames when one is added.
LEMMA StackPush ==
  ASSUME NEW s \in Seq(Frames), NEW f \in Frames
  PROVE  /\ Append(s, f) \in Seq(Frames) /\ Len(Append(s, f)) = Len(s) + 1
         /\ Append(s, f) # <<>>
         /\ Last(Append(s, f)) = f /\ Front(Append(s, f)) = s
         /\ TopOf(Append(s, f)) = f.kind
         /\ NoIrq(Append(s, f)) <=> NoIrq(s) /\ f.kind # "irq"
  <1> DEFINE a == Append(s, f)
  <1>1. /\ a \in Seq(Frames) /\ Len(a) = Len(s) + 1 /\ a[Len(s) + 1] = f /\ a # <<>>
        /\ \A j \in 1..Len(s) : a[j] = s[j]
    OBVIOUS
  <1>2. DOMAIN a = 1..(Len(s) + 1) /\ DOMAIN s = 1..Len(s) /\ Len(s) \in Nat
    BY <1>1
  <1> HIDE DEF a
  <1>3. Last(a) = f /\ TopOf(a) = f.kind
    BY <1>1 DEF Last, TopOf
  <1>4. Front(a) = s
    <2>1. SubSeq(a, 1, Len(s)) \in Seq(Frames) /\ Len(SubSeq(a, 1, Len(s))) = Len(s)
      BY <1>1, <1>2
    <2>2. \A j \in 1..Len(s) : SubSeq(a, 1, Len(s))[j] = s[j]
      BY <1>1, <1>2
    <2>3. Front(a) = SubSeq(a, 1, Len(s))
      BY <1>1, <1>2 DEF Front
    <2> QED
      BY <2>1, <2>2, <2>3
  <1>5. NoIrq(a) <=> NoIrq(s) /\ f.kind # "irq"
    <2>1. NoIrq(s) /\ f.kind # "irq" => NoIrq(a)
      BY <1>1, <1>2 DEF NoIrq
    <2>2. ASSUME NoIrq(a) PROVE NoIrq(s) /\ f.kind # "irq"
      <3>1. a[Len(s) + 1].kind # "irq" /\ \A j \in 1..Len(s) : a[j].kind # "irq"
        BY <1>2, <2>2 DEF NoIrq
      <3> QED
        BY <1>1, <1>2, <3>1 DEF NoIrq
    <2> QED
      BY <2>1, <2>2
  <1> QED
    BY <1>1, <1>3, <1>4, <1>5 DEF a

\* A stack of frames is its top on the rest of it.
LEMMA StackPop ==
  ASSUME NEW s \in Seq(Frames), s # <<>>
  PROVE  /\ Front(s) \in Seq(Frames) /\ Last(s) \in Frames
         /\ Len(Front(s)) = Len(s) - 1 /\ s = Append(Front(s), Last(s))
         /\ \A j \in 1..(Len(s) - 1) : Front(s)[j] = s[j]
         /\ TopOf(s) = Last(s).kind
  <1> DEFINE n == Len(s)
  <1>1. n \in Nat /\ n >= 1 /\ s[n] \in Frames
    OBVIOUS
  <1>2. /\ Front(s) \in Seq(Frames) /\ Len(Front(s)) = n - 1
        /\ \A j \in 1..(n - 1) : Front(s)[j] = s[j]
    <2> DEFINE m == n - 1
               g == SubSeq(s, 1, m)
    <2>1. m \in Nat /\ \A j \in 1..m : s[j] \in Frames
      BY <1>1
    <2> HIDE DEF m
    <2>2. g \in Seq(Frames) /\ Len(g) = (IF 1 <= m THEN m - 1 + 1 ELSE 0)
          /\ \A j \in 1..(m - 1 + 1) : g[j] = s[1 + j - 1]
      BY <2>1
    <2>3. g \in Seq(Frames) /\ Len(g) = m /\ \A j \in 1..m : g[j] = s[j]
      BY <2>1, <2>2
    <2> QED
      BY <2>3 DEF Front, m
  <1>3. Last(s) = s[n]
    BY DEF Last
  <1>4. s = Append(Front(s), s[n])
    <2> DEFINE g == Front(s)
    <2> HIDE DEF g
    <2>1. Append(g, s[n]) \in Seq(Frames) /\ Len(Append(g, s[n])) = n
      BY <1>1, <1>2 DEF g
    <2>2. \A j \in 1..n : Append(g, s[n])[j] = s[j]
      BY <1>1, <1>2 DEF g
    <2>3. s = Append(g, s[n])
      BY <2>1, <2>2
    <2> QED
      BY <2>3 DEF g
  <1> QED
    BY <1>1, <1>2, <1>3, <1>4 DEF TopOf

\* A frame that fits on a stack of a running thread makes another one.
LEMMA RunPush ==
  ASSUME NEW s, Running(s), NEW f \in Frames, FrameOK(s, f)
  PROVE  Running(Append(s, f))
  <1> DEFINE a == Append(s, f)
  <1>0. s \in Seq(Frames)
    BY DEF Running
  <1>1. /\ a \in Seq(Frames) /\ Len(a) = Len(s) + 1 /\ a[Len(s) + 1] = f
        /\ \A j \in 1..Len(s) : a[j] = s[j]
    BY <1>0
  <1>2. Len(s) \in Nat
    BY <1>0
  <1> HIDE DEF a
  <1>3. ASSUME NEW j \in 1..Len(a) PROVE FrameOK(SubSeq(a, 1, j - 1), a[j])
    <2>1. SubSeq(a, 1, j - 1) = SubSeq(s, 1, j - 1)
      BY <1>0, <1>1, <1>2
    <2>2. CASE j \in 1..Len(s)
      BY <2>1, <2>2, <1>1, Zenon DEF Running
    <2>3. CASE j = Len(s) + 1
      <3>1. SubSeq(s, 1, j - 1) = s
        BY <2>3, <1>0, <1>2
      <3> QED
        BY <2>1, <2>3, <3>1, <1>1, Zenon
    <2> QED
      BY <2>2, <2>3, <1>1, <1>2
  <1> QED
    BY <1>1, <1>3 DEF Running, a

\* Without its top frame it is one still, and the top fitted on it.
LEMMA RunPop ==
  ASSUME NEW s, Running(s), s # <<>>
  PROVE  /\ Running(Front(s)) /\ Last(s) \in Frames
         /\ FrameOK(Front(s), Last(s))
         /\ s = Append(Front(s), Last(s)) /\ TopOf(s) = Last(s).kind
  <1> DEFINE g == Front(s)
             n == Len(s)
  <1>0. s \in Seq(Frames) /\ n \in Nat /\ n >= 1
    BY DEF Running
  <1>1. g \in Seq(Frames) /\ Len(g) = n - 1 /\ \A j \in 1..(n - 1) : g[j] = s[j]
    BY <1>0, StackPop
  <1>2. g = SubSeq(s, 1, n - 1) /\ Last(s) = s[n]
    BY DEF Front, Last
  <1>3. FrameOK(g, Last(s))
    BY <1>0, <1>2 DEF Running
  <1> HIDE DEF g
  <1>4. ASSUME NEW j \in 1..(n - 1) PROVE FrameOK(SubSeq(g, 1, j - 1), g[j])
    <2>1. SubSeq(g, 1, j - 1) = SubSeq(s, 1, j - 1)
      BY <1>0, <1>1
    <2>2. g[j] = s[j] /\ j \in 1..Len(s)
      BY <1>0, <1>1
    <2>3. FrameOK(SubSeq(s, 1, j - 1), s[j])
      BY <2>2 DEF Running
    <2> QED
      BY <2>1, <2>2, <2>3, Zenon
  <1>5. Running(g)
    BY <1>1, <1>4 DEF Running
  <1> QED
    BY <1>0, <1>3, <1>5, StackPop DEF g

\* A thread that is in the kernel without a trap has no frames.
LEMMA RunEmpty == Running(<<>>) /\ NoIrq(<<>>) /\ TopOf(<<>>) = "none" /\ Level("none") = 0
  BY DEF Running, NoIrq, TopOf, Level

\* A running thread's stack, taken apart: what is on top, and what is below it.
LEMMA RunApart ==
  ASSUME NEW s, Running(s), s # <<>>
  PROVE  \E g \in Seq(Frames), f \in Frames :
           /\ g = Front(s) /\ f = Last(s)
           /\ Running(g) /\ FrameOK(g, f) /\ s = Append(g, f) /\ TopOf(s) = f.kind
           /\ NoIrq(s) <=> NoIrq(g) /\ f.kind # "irq"
  <1> DEFINE g == Front(s)
             f == Last(s)
  <1>1. Running(g) /\ f \in Frames /\ FrameOK(g, f) /\ s = Append(g, f) /\ TopOf(s) = f.kind
    BY RunPop
  <1>2. g \in Seq(Frames)
    BY <1>1 DEF Running
  <1>3. NoIrq(Append(g, f)) <=> NoIrq(g) /\ f.kind # "irq"
    BY <1>1, <1>2, StackPush
  <1>4. g = Front(s) /\ f = Last(s)
    OBVIOUS
  <1> HIDE DEF g, f
  <1> QED
    BY <1>1, <1>2, <1>3, <1>4

\* A system call was made from user mode: nothing is below its frame.
LEMMA RunSys == ASSUME NEW s, Running(s), TopOf(s) = "sys" PROVE NoIrq(s) /\ Front(s) = <<>>
  <1>1. s # <<>>
    BY DEF TopOf
  <1>2. PICK g \in Seq(Frames), f \in Frames :
          /\ g = Front(s) /\ FrameOK(g, f) /\ TopOf(s) = f.kind
          /\ NoIrq(s) <=> NoIrq(g) /\ f.kind # "irq"
    BY <1>1, RunApart
  <1>3. g = <<>>
    BY <1>2 DEF FrameOK
  <1> QED
    BY <1>2, <1>3, RunEmpty

\* copyin() and copyout() run in a system call, with interrupts on.
LEMMA RunCopy ==
  ASSUME NEW s, Running(s), TopOf(s) = "copy"
  PROVE  NoIrq(s) /\ Running(Front(s)) /\ TopOf(Front(s)) = "sys"
  <1>1. s # <<>>
    BY DEF TopOf
  <1>2. PICK g \in Seq(Frames), f \in Frames :
          /\ g = Front(s) /\ Running(g) /\ FrameOK(g, f) /\ TopOf(s) = f.kind
          /\ NoIrq(s) <=> NoIrq(g) /\ f.kind # "irq"
    BY <1>1, RunApart
  <1>3. TopOf(g) = "sys"
    BY <1>2 DEF FrameOK
  <1> QED
    BY <1>2, <1>3, RunSys

\* What is on top says of the rest.
LEMMA RunTop ==
  ASSUME NEW s, Running(s)
  PROVE  /\ TopOf(s) \in {"none", "sys", "copy", "fault", "irq", "spl"}
         /\ TopOf(s) = "none" => s = <<>>
         /\ Level(TopOf(s)) = 0 => NoIrq(s)
  <1>1. CASE s = <<>>
    BY <1>1, RunEmpty
  <1>2. CASE s # <<>>
    <2>1. PICK g \in Seq(Frames), f \in Frames :
            /\ Running(g) /\ FrameOK(g, f) /\ TopOf(s) = f.kind
            /\ NoIrq(s) <=> NoIrq(g) /\ f.kind # "irq"
      BY <1>2, RunApart, Zenon
    <2>2. f.kind \in {"sys", "copy", "fault", "irq", "spl"}
      BY <2>1 DEF FrameOK
    <2>3. ASSUME f.kind = "fault" PROVE NoIrq(g)
      <3>1. g = <<>> \/ TopOf(g) = "copy"
        BY <2>1, <2>3 DEF FrameOK
      <3> QED
        BY <2>1, <3>1, RunEmpty, RunCopy
    <2> QED
      BY <2>1, <2>2, <2>3, RunSys, RunCopy DEF Level
  <1> QED
    BY <1>1, <1>2

\* A step of the current thread on its own stack.
LEMMA TrapStays ==
  ASSUME TrapInv, NEW s \in Seq(Frames), stack' = [stack EXCEPT ![cur] = s],
         UNCHANGED <<cur, curkstack>>, panicked' = FALSE,
         pcb' \in [Thread -> [kstack : Thread, ininterrupt : BOOLEAN, badfaultfunc : BOOLEAN]],
         \A t \in Thread : pcb'[t].kstack = pcb[t].kstack /\ pcb'[t].ininterrupt = pcb[t].ininterrupt,
         mode' \in {"user", "kernel"}, IEc' \in BOOLEAN, idle' \in BOOLEAN,
         in_interrupt' \in BOOLEAN, curspl' \in {0, 1},
         IEc' <=> curspl' = 0,
         in_interrupt' <=> ~NoIrq(s),
         ~idle' => Running(s) /\ curspl' = Level(TopOf(s)),
         idle' => Idle(s) /\ curspl' = 1 /\ mode' = "kernel",
         mode' = "user" => s = <<>>
  PROVE  TrapInv'
  <1>1. stack'[cur] = s /\ \A t \in Thread \ {cur} : stack'[t] = stack[t]
    BY DEF TrapInv, TrapTypes
  <1>2. stack' \in [Thread -> Seq(Frames)]
    BY DEF TrapInv, TrapTypes
  <1>3. TrapTypes'
    BY <1>2 DEF TrapInv, TrapTypes
  <1>4. stack'[cur'] = s
    BY <1>1
  <1>5. TrapCur'
    BY <1>4 DEF TrapCur
  <1>6. TrapOther'
    <2> SUFFICES ASSUME NEW t \in Thread \ {cur}
                 PROVE  \/ stack'[t] = Free
                        \/ stack'[t] = <<Frame("start")>> /\ ~pcb'[t].ininterrupt
                        \/ Switching(stack'[t]) /\ (pcb'[t].ininterrupt <=> ~NoIrq(stack'[t]))
      BY DEF TrapOther, Free, Frame
    <2>1. stack'[t] = stack[t] /\ pcb'[t].ininterrupt = pcb[t].ininterrupt
      BY <1>1
    <2> QED
      BY <2>1 DEF TrapInv, TrapOther
  <1> QED
    BY <1>3, <1>5, <1>6 DEF TrapInv

\* What TrapInv says of a current thread that runs.
LEMMA TrapNow ==
  ASSUME TrapInv
  PROVE  /\ cur \in Thread /\ curkstack = cur /\ stack[cur] \in Seq(Frames) /\ panicked = FALSE
         /\ Top = TopOf(stack[cur])
         /\ mode \in {"user", "kernel"} /\ IEc \in BOOLEAN /\ idle \in BOOLEAN
         /\ in_interrupt \in BOOLEAN /\ curspl \in {0, 1}
         /\ (IEc <=> curspl = 0) /\ (in_interrupt <=> ~NoIrq(stack[cur]))
         /\ mode = "user" => stack[cur] = <<>> /\ ~idle
         /\ ~idle => Running(stack[cur]) /\ curspl = Level(TopOf(stack[cur]))
         /\ idle => Idle(stack[cur]) /\ curspl = 1 /\ mode = "kernel"
         /\ pcb \in [Thread -> [kstack : Thread, ininterrupt : BOOLEAN, badfaultfunc : BOOLEAN]]
  BY DEF TrapInv, TrapTypes, TrapCur, Top, TopOf

\* Setting badfaultfunc leaves the rest of the pcb alone.
LEMMA TrapBadfault ==
  ASSUME TrapInv, NEW b \in BOOLEAN, pcb' = [pcb EXCEPT ![cur].badfaultfunc = b]
  PROVE  /\ pcb' \in [Thread -> [kstack : Thread, ininterrupt : BOOLEAN, badfaultfunc : BOOLEAN]]
         /\ \A t \in Thread : pcb'[t].kstack = pcb[t].kstack /\ pcb'[t].ininterrupt = pcb[t].ininterrupt
  <1> DEFINE P == [kstack : Thread, ininterrupt : BOOLEAN, badfaultfunc : BOOLEAN]
             r == [pcb[cur] EXCEPT !.badfaultfunc = b]
  <1>1. cur \in Thread /\ pcb \in [Thread -> P]
    BY DEF TrapInv, TrapTypes
  <1>2. r \in P /\ r.kstack = pcb[cur].kstack /\ r.ininterrupt = pcb[cur].ininterrupt
    BY <1>1
  <1>3. pcb' = [pcb EXCEPT ![cur] = r]
    OBVIOUS
  <1> HIDE DEF P, r
  <1>4. pcb' \in [Thread -> P] /\ \A t \in Thread : pcb'[t] = IF t = cur THEN r ELSE pcb[t]
    BY <1>1, <1>2, <1>3
  <1> QED
    BY <1>2, <1>4 DEF P

\* While the processor idles: on top is mi_switch(), or an interrupt around which
\* it is.
LEMMA TrapIdleTop ==
  ASSUME NEW s \in Seq(Frames), Idle(s)
  PROVE  /\ s # <<>> /\ TopOf(s) \in {"sched", "irq"}
         /\ TopOf(s) = "sched" => (Switching(s) \/ Exited(s))
         /\ TopOf(s) = "sched" /\ Last(s).sleeping => NoIrq(s)
         /\ TopOf(s) = "irq" => /\ IdleIrq(Last(s)) /\ Idle(Front(s))
                                /\ NoIrq(Front(s))
  <1>1. ASSUME NEW u \in Seq(Frames), Switching(u) \/ Exited(u)
        PROVE  u # <<>> /\ TopOf(u) = "sched" /\ (Last(u).sleeping => NoIrq(u))
    <2>1. CASE Switching(u)
      <3>1. u # <<>> /\ Last(u).kind = "sched" /\ (Last(u).sleeping => NoIrq(Front(u)))
        BY <2>1 DEF Switching
      <3>2. u = Append(Front(u), Last(u)) /\ Front(u) \in Seq(Frames) /\ Last(u) \in Frames
        BY <3>1, StackPop
      <3>3. NoIrq(u) <=> NoIrq(Front(u)) /\ Last(u).kind # "irq"
        <4> DEFINE g == Front(u)
                   f == Last(u)
        <4>1. NoIrq(Append(g, f)) <=> NoIrq(g) /\ f.kind # "irq"
          BY <3>2, StackPush
        <4> QED
          BY <3>2, <4>1, Zenon
      <3> QED
        BY <3>1, <3>3 DEF TopOf
    <2>2. CASE Exited(u)
      BY <2>2 DEF Exited, TopOf, Last, Frame, NoIrq
    <2> QED
      BY <1>1, <2>1, <2>2
  <1>2. CASE Switching(s) \/ Exited(s)
    BY <1>1, <1>2
  <1>3. CASE /\ Len(s) >= 2 /\ IdleIrq(Last(s))
             /\ Last(Front(s)).sleeping
             /\ Switching(Front(s)) \/ Exited(Front(s))
    <2>1. s # <<>> /\ TopOf(s) = "irq"
      BY <1>3 DEF TopOf, IdleIrq
    <2>2. Front(s) \in Seq(Frames)
      BY <2>1, StackPop
    <2>3. NoIrq(Front(s))
      BY <1>1, <1>3, <2>2
    <2> QED
      BY <1>3, <2>1, <2>3 DEF Idle
  <1> QED
    BY <1>2, <1>3 DEF Idle

(* Traps *)

\* A trap from a thread that runs.
LEMMA TrapPush ==
  ASSUME TrapInv, ~idle, NEW f \in Frames, FrameOK(stack[cur], f), f.kind # "spl",
         stack' = [stack EXCEPT ![cur] = Append(stack[cur], f)],
         mode' = "kernel", IEc' \in BOOLEAN, IEc' <=> curspl' = 0, curspl' = Level(f.kind),
         in_interrupt' \in BOOLEAN, in_interrupt' <=> in_interrupt \/ f.kind = "irq", idle' = FALSE,
         UNCHANGED <<cur, curkstack, pcb>>, panicked' = FALSE
  PROVE  TrapInv'
  <1> DEFINE s == Append(stack[cur], f)
  <1>1. Running(stack[cur]) /\ stack[cur] \in Seq(Frames)
    BY TrapNow
  <1>2. Running(s)
    BY <1>1, RunPush
  <1>3. s \in Seq(Frames) /\ TopOf(s) = f.kind /\ (NoIrq(s) <=> NoIrq(stack[cur]) /\ f.kind # "irq")
    BY <1>1, StackPush
  <1>4. curspl' \in {0, 1}
    BY DEF Level
  <1>5. in_interrupt' <=> ~NoIrq(s)
    BY <1>3, TrapNow
  <1>6. /\ pcb' \in [Thread -> [kstack : Thread, ininterrupt : BOOLEAN, badfaultfunc : BOOLEAN]]
        /\ \A t \in Thread : pcb'[t].kstack = pcb[t].kstack /\ pcb'[t].ininterrupt = pcb[t].ininterrupt
    BY TrapNow
  <1> HIDE DEF s
  <1>7. stack' = [stack EXCEPT ![cur] = s]
    BY DEF s
  <1> QED
    BY <1>2, <1>3, <1>4, <1>5, <1>6, <1>7, TrapStays, Zenon

\* mips_trap() of an interrupt keeps the invariant.
LEMMA TrapInterrupt == ASSUME TrapInv, Interrupt PROVE TrapInv'
  <1> DEFINE f == [kind |-> "irq", mode |-> mode, ie |-> IEc, savespl |-> curspl, old_in |-> in_interrupt]
  <1>1. f \in Frames
    BY TrapNow DEF Frames
  <1>2. /\ stack' = [stack EXCEPT ![cur] = Append(stack[cur], f)]
        /\ mode' = "kernel" /\ ~IEc' /\ IEc' \in BOOLEAN /\ curspl' = 1
        /\ in_interrupt' /\ in_interrupt' \in BOOLEAN
        /\ UNCHANGED <<cur, curkstack, idle, panicked, pcb>>
    BY TrapNow, Zenon DEF Interrupt, TrapFrame, Push, switched, SPL_HIGH
  <1>3. f.kind = "irq" /\ f.mode = mode /\ f.ie = IEc /\ f.savespl = curspl /\ f.old_in = in_interrupt
    OBVIOUS
  <1> HIDE DEF f
  <1>4. CASE IEc
    <2>1. ~idle /\ curspl = 0 /\ Running(stack[cur]) /\ Level(TopOf(stack[cur])) = 0
      BY <1>4, TrapNow
    <2>2. NoIrq(stack[cur]) /\ ~in_interrupt
      BY <2>1, RunTop, TrapNow
    <2>3. FrameOK(stack[cur], f)
      BY <1>3, <1>4, <2>1, <2>2, TrapNow DEF FrameOK
    <2>4. curspl' = Level(f.kind) /\ f.kind # "spl" /\ panicked' = FALSE /\ idle' = FALSE
      BY <1>2, <1>3, <2>1, TrapNow DEF Level
    <2>5. /\ IEc' \in BOOLEAN /\ (IEc' <=> curspl' = 0)
          /\ in_interrupt' \in BOOLEAN /\ (in_interrupt' <=> in_interrupt \/ f.kind = "irq")
      BY <1>2, <1>3
    <2> QED
      BY <1>1, <1>2, <2>1, <2>3, <2>4, <2>5, TrapPush, Zenon
  <1>5. CASE ~IEc
    <2> DEFINE s == stack[cur]
    <2>1. idle /\ TopOf(s) = "sched" /\ Last(s).sleeping
      BY <1>5, TrapNow DEF Interrupt
    <2>2. s \in Seq(Frames) /\ Idle(s) /\ curspl = 1 /\ mode = "kernel"
      BY <2>1, TrapNow
    <2>3. (Switching(s) \/ Exited(s)) /\ NoIrq(s) /\ s # <<>>
      BY <2>1, <2>2, TrapIdleTop
    <2>4. IdleIrq(f)
      BY <1>3, <1>5, <2>2, <2>3, TrapNow DEF IdleIrq
    <2> DEFINE a == Append(s, f)
    <2>5. /\ a \in Seq(Frames) /\ Len(a) = Len(s) + 1 /\ Last(a) = f /\ Front(a) = s
          /\ ~NoIrq(a)
      BY <1>1, <1>3, <2>2, StackPush
    <2>6. Len(s) >= 1
      BY <2>2, <2>3
    <2>61. Len(a) >= 2
      BY <2>2, <2>5, <2>6
    <2>7. Idle(a)
      BY <2>1, <2>3, <2>4, <2>5, <2>61 DEF Idle
    <2>8. stack' = [stack EXCEPT ![cur] = a]
      BY <1>2
    <2> HIDE DEF a
    <2>9. /\ pcb' \in [Thread -> [kstack : Thread, ininterrupt : BOOLEAN, badfaultfunc : BOOLEAN]]
          /\ \A t \in Thread : pcb'[t].kstack = pcb[t].kstack /\ pcb'[t].ininterrupt = pcb[t].ininterrupt
      BY <1>2, TrapNow
    <2>10. panicked' = FALSE /\ idle' = TRUE
      BY <1>2, <2>1, TrapNow
    <2>11. /\ mode' \in {"user", "kernel"} /\ IEc' \in BOOLEAN /\ idle' \in BOOLEAN
           /\ in_interrupt' \in BOOLEAN /\ curspl' \in {0, 1} /\ (IEc' <=> curspl' = 0)
           /\ (in_interrupt' <=> ~NoIrq(a))
      BY <1>2, <2>5, <2>10
    <2>12. /\ idle' => Idle(a) /\ curspl' = 1 /\ mode' = "kernel"
           /\ ~idle' => Running(a) /\ curspl' = Level(TopOf(a))
           /\ mode' = "user" => a = <<>>
      BY <1>2, <2>7, <2>10
    <2> QED
      BY <1>2, <2>5, <2>8, <2>9, <2>10, <2>11, <2>12, TrapStays, Zenon
  <1> QED
    BY <1>4, <1>5, TrapNow

\* mips_trap() of a system call or of a TLB fault keeps the invariant.
LEMMA TrapEnter ==
  ASSUME TrapInv, Syscall \/ Fault PROVE TrapInv'
  <1> DEFINE F(k) == [kind |-> k, mode |-> mode, ie |-> IEc, savespl |-> curspl, old_in |-> in_interrupt]
  <1>1. \A k \in {"sys", "fault"} : Enter(k) =>
          /\ stack' = [stack EXCEPT ![cur] = Append(stack[cur], F(k))]
          /\ mode' = "kernel" /\ curspl' = curspl /\ IEc' = (curspl = 0)
          /\ UNCHANGED <<in_interrupt, cur, curkstack, idle, pcb>>
    BY TrapNow DEF Enter, TrapFrame, Push, splx, interrupts
  <1>2. PICK k \in {"sys", "fault"} :
          /\ Enter(k)
          /\ mode = "user" \/ (k = "fault" /\ mode = "kernel" /\ ~idle /\ TopOf(stack[cur]) = "copy")
    BY TrapNow, Zenon DEF Syscall, Fault, Kernel
  <1>3. F(k) \in Frames
    BY TrapNow DEF Frames
  <1>4. ~idle /\ Running(stack[cur]) /\ curspl = 0 /\ IEc
    BY <1>2, TrapNow, RunEmpty DEF Level
  <1>5. panicked' = FALSE
    BY <1>4, TrapNow, Zenon DEF Syscall, Fault
  <1> DEFINE f == F(k)
  <1>6. f.kind = k /\ f.mode = mode /\ f.ie = IEc /\ f.savespl = curspl
    OBVIOUS
  <1>7. /\ stack' = [stack EXCEPT ![cur] = Append(stack[cur], f)]
        /\ mode' = "kernel" /\ curspl' = curspl /\ IEc' = (curspl = 0)
        /\ UNCHANGED <<in_interrupt, cur, curkstack, idle, pcb>>
    BY <1>1, <1>2
  <1>8. f \in Frames
    BY <1>3
  <1> HIDE DEF f, F
  <1>9. FrameOK(stack[cur], f)
    <2>1. CASE mode = "user"
      BY <1>4, <1>6, <2>1, TrapNow DEF FrameOK
    <2>2. CASE k = "fault" /\ mode = "kernel" /\ TopOf(stack[cur]) = "copy"
      BY <1>4, <1>6, <2>2, RunCopy DEF FrameOK
    <2> QED
      BY <1>2, <2>1, <2>2
  <1>10. /\ curspl' = Level(f.kind) /\ f.kind # "spl" /\ f.kind # "irq"
         /\ IEc' \in BOOLEAN /\ (IEc' <=> curspl' = 0)
    BY <1>4, <1>6, <1>7, Zenon DEF Level
  <1>11. /\ in_interrupt' \in BOOLEAN /\ (in_interrupt' <=> in_interrupt \/ f.kind = "irq")
         /\ idle' = FALSE
    BY <1>4, <1>7, <1>10, TrapNow
  <1> QED
    BY <1>4, <1>5, <1>7, <1>8, <1>9, <1>10, <1>11, TrapPush, Zenon

\* The end of a trap or of a piece of kernel code: s is what is left, and the
\* thread still runs.
LEMMA TrapLeft ==
  ASSUME TrapInv, ~idle, NEW s, Running(s), stack' = [stack EXCEPT ![cur] = s],
         mode' \in {"user", "kernel"}, mode' = "user" => s = <<>>,
         IEc' \in BOOLEAN, IEc' <=> curspl' = 0, curspl' = Level(TopOf(s)),
         in_interrupt' \in BOOLEAN, in_interrupt' <=> ~NoIrq(s), idle' = idle,
         UNCHANGED <<cur, curkstack>>, panicked' = FALSE,
         \/ UNCHANGED pcb
         \/ \E b \in BOOLEAN : pcb' = [pcb EXCEPT ![cur].badfaultfunc = b]
  PROVE  TrapInv'
  <1>1. curspl' \in {0, 1} /\ s \in Seq(Frames)
    BY DEF Level, Running
  <1>2. /\ pcb' \in [Thread -> [kstack : Thread, ininterrupt : BOOLEAN, badfaultfunc : BOOLEAN]]
        /\ \A t \in Thread : pcb'[t].kstack = pcb[t].kstack /\ pcb'[t].ininterrupt = pcb[t].ininterrupt
    BY TrapNow, TrapBadfault
  <1>3. idle' \in BOOLEAN /\ ~idle'
    BY TrapNow
  <1> QED
    BY <1>1, <1>2, <1>3, TrapStays, Zenon

\* The end of mips_trap() keeps the invariant.
LEMMA TrapReturnKeeps == ASSUME TrapInv, TrapReturn PROVE TrapInv'
  <1> DEFINE s == stack[cur]
             g == Front(s)
             f == Last(s)
  <1>1. /\ TopOf(s) \in {"irq", "sys", "fault"} /\ mode = "kernel"
        /\ curspl' = f.savespl /\ mode' = f.mode /\ IEc' = (f.ie /\ ~idle)
        /\ stack' = [stack EXCEPT ![cur] = g]
        /\ in_interrupt' = (IF f.kind = "irq" THEN f.old_in ELSE in_interrupt)
        /\ panicked' = (curkstack # cur \/ (f.kind = "sys" /\ curspl # 0))
        /\ UNCHANGED <<cur, curkstack, idle, pcb>>
    BY TrapNow DEF TrapReturn, TrapDone, Pop
  <1>2. s # <<>> /\ s \in Seq(Frames) /\ TopOf(s) = f.kind
    BY <1>1, TrapNow DEF TopOf
  <1>3. CASE ~idle
    <2>0. Running(s) /\ curspl = Level(TopOf(s))
      BY <1>3, TrapNow
    <2>1. /\ Running(g) /\ FrameOK(g, f) /\ f \in Frames /\ (NoIrq(s) <=> NoIrq(g) /\ f.kind # "irq")
      BY <2>0, <1>2, RunApart
    <2> HIDE DEF g, f
    <2>2. /\ f.savespl = 0 /\ f.ie /\ f.ie \in BOOLEAN /\ f.mode \in {"user", "kernel"}
          /\ f.mode = "user" => g = <<>>
      BY <1>1, <1>2, <2>1 DEF FrameOK, Frames
    <2>3. Level(TopOf(g)) = 0
      BY <1>1, <1>2, <2>1, RunEmpty DEF FrameOK, Level
    <2>4. in_interrupt' \in BOOLEAN /\ (in_interrupt' <=> ~NoIrq(g))
      <3>1. CASE f.kind = "irq"
        BY <1>1, <2>1, <3>1 DEF FrameOK, Frames
      <3>2. CASE f.kind # "irq"
        BY <1>1, <2>1, <3>2, TrapNow
      <3> QED
        BY <3>1, <3>2
    <2>5. panicked' = FALSE
      BY <1>1, <1>2, <2>0, TrapNow DEF Level
    <2>6. IEc' \in BOOLEAN /\ (IEc' <=> curspl' = 0) /\ curspl' = Level(TopOf(g))
      BY <1>1, <1>3, <2>2, <2>3, Zenon
    <2> QED
      BY <1>1, <1>3, <2>1, <2>2, <2>4, <2>5, <2>6, TrapLeft, Zenon
  <1>4. CASE idle
    <2>0. Idle(s) /\ TopOf(s) \in {"sched", "irq"}
      BY <1>2, <1>4, TrapNow, TrapIdleTop
    <2>1. TopOf(s) = "irq"
      BY <2>0, <1>1
    <2>2. IdleIrq(f) /\ Idle(g) /\ NoIrq(g)
      BY <1>2, <2>0, <2>1, TrapIdleTop
    <2>3. g \in Seq(Frames) /\ f \in Frames
      BY <1>2, StackPop
    <2> HIDE DEF g, f
    <2>4. /\ curspl' = 1 /\ mode' = "kernel" /\ ~in_interrupt'
          /\ f.old_in \in BOOLEAN /\ f.ie \in BOOLEAN
      BY <1>1, <2>2, <2>3 DEF IdleIrq, Frames
    <2>5. in_interrupt' \in BOOLEAN /\ (in_interrupt' <=> ~NoIrq(g)) /\ curspl' \in {0, 1}
      BY <1>1, <2>2, <2>4 DEF IdleIrq
    <2>6. IEc' \in BOOLEAN /\ (IEc' <=> curspl' = 0)
      <3>1. IEc' \in BOOLEAN /\ ~IEc'
        BY <1>1, <1>4, Zenon
      <3> QED
        BY <2>4, <3>1
    <2>7. panicked' = FALSE
      BY <1>1, <2>2, TrapNow DEF IdleIrq
    <2>8. /\ pcb' \in [Thread -> [kstack : Thread, ininterrupt : BOOLEAN, badfaultfunc : BOOLEAN]]
          /\ \A t \in Thread : pcb'[t].kstack = pcb[t].kstack /\ pcb'[t].ininterrupt = pcb[t].ininterrupt
      BY <1>1, TrapNow
    <2>9. idle' \in BOOLEAN /\ idle'
      BY <1>1, <1>4, TrapNow
    <2>10. UNCHANGED <<cur, curkstack>> /\ stack' = [stack EXCEPT ![cur] = g] /\ mode' \in {"user", "kernel"}
      BY <1>1, <2>4
    <2> QED
      BY <2>2, <2>3, <2>4, <2>5, <2>6, <2>7, <2>8, <2>9, <2>10, TrapStays, Zenon
  <1> QED
    BY <1>3, <1>4

\* A fault that copyin() or copyout() recovers from keeps the invariant.
LEMMA TrapBadFault == ASSUME TrapInv, BadFault PROVE TrapInv'
  <1> DEFINE s == stack[cur]
             g == Front(s)
             f == Last(s)
             h == Front(g)
  <1>1. /\ TopOf(s) = "fault" /\ mode = "kernel" /\ ~idle /\ f.mode = "kernel"
        /\ curspl' = f.savespl /\ mode' = f.mode /\ IEc' = (f.ie /\ ~idle)
        /\ stack' = [stack EXCEPT ![cur] = h]
        /\ pcb' = [pcb EXCEPT ![cur].badfaultfunc = FALSE]
        /\ UNCHANGED <<in_interrupt, cur, curkstack, idle, panicked>>
    BY TrapNow DEF BadFault, TrapDone, Kernel, switched
  <1>2. s # <<>> /\ Running(s) /\ curspl = Level(TopOf(s))
    BY <1>1, TrapNow DEF TopOf
  <1>3. /\ Running(g) /\ FrameOK(g, f) /\ f \in Frames /\ f.kind = "fault"
    BY <1>1, <1>2, RunApart
  <1>4. NoIrq(s)
    BY <1>1, <1>2, RunTop DEF Level
  <1> HIDE DEF f, g
  <1>5. TopOf(g) = "copy" /\ f.savespl = 0 /\ f.ie
    BY <1>1, <1>3 DEF FrameOK
  <1>6. Running(h) /\ TopOf(h) = "sys"
    BY <1>3, <1>5, RunCopy
  <1>7. NoIrq(h)
    BY <1>6, RunSys
  <1> HIDE DEF h
  <1>8. /\ curspl' = Level(TopOf(h)) /\ IEc' \in BOOLEAN /\ (IEc' <=> curspl' = 0)
        /\ mode' = "kernel" /\ panicked' = FALSE
    BY <1>1, <1>5, <1>6, TrapNow, Zenon DEF Level
  <1>9. in_interrupt' \in BOOLEAN /\ (in_interrupt' <=> ~NoIrq(h))
    BY <1>1, <1>4, <1>7, TrapNow
  <1> QED
    BY <1>1, <1>6, <1>8, <1>9, TrapLeft, Zenon

(* What kernel code does *)

\* mips_usermode() keeps the invariant.
LEMMA TrapUsermode == ASSUME TrapInv, mips_usermode PROVE TrapInv'
  <1>1. /\ ~idle /\ TopOf(stack[cur]) \in {"none", "sys"} /\ stack' = [stack EXCEPT ![cur] = <<>>]
        /\ mode' = "user" /\ curspl' = 0 /\ IEc' = TRUE /\ panicked' = (curkstack # cur)
        /\ UNCHANGED <<in_interrupt, cur, curkstack, idle, pcb>>
    BY TrapNow DEF mips_usermode, Kernel
  <1>2. NoIrq(stack[cur])
    BY <1>1, TrapNow, RunTop DEF Level
  <1>3. in_interrupt' \in BOOLEAN /\ (in_interrupt' <=> ~NoIrq(<<>>)) /\ panicked' = FALSE
    BY <1>1, <1>2, RunEmpty, TrapNow
  <1>4. Running(<<>>) /\ curspl' = Level(TopOf(<<>>)) /\ IEc' \in BOOLEAN /\ (IEc' <=> curspl' = 0)
    BY <1>1, RunEmpty
  <1> QED
    BY <1>1, <1>3, <1>4, TrapLeft, Zenon

\* A frame that is no trap is put on the stack.
LEMMA TrapCall ==
  ASSUME TrapInv, ~idle, NEW f \in Frames, FrameOK(stack[cur], f), f.kind \in {"spl", "copy"},
         stack' = [stack EXCEPT ![cur] = Append(stack[cur], f)],
         mode = "kernel", UNCHANGED <<mode, in_interrupt, idle, cur, curkstack, panicked>>,
         IEc' \in BOOLEAN, IEc' <=> curspl' = 0, curspl' = Level(f.kind),
         \/ UNCHANGED pcb
         \/ \E b \in BOOLEAN : pcb' = [pcb EXCEPT ![cur].badfaultfunc = b]
  PROVE  TrapInv'
  <1> DEFINE s == Append(stack[cur], f)
  <1>1. Running(stack[cur]) /\ stack[cur] \in Seq(Frames)
    BY TrapNow
  <1>2. Running(s)
    BY <1>1, RunPush
  <1>3. TopOf(s) = f.kind /\ (NoIrq(s) <=> NoIrq(stack[cur]) /\ f.kind # "irq")
    BY <1>1, StackPush
  <1> HIDE DEF s
  <1>4. in_interrupt' \in BOOLEAN /\ (in_interrupt' <=> ~NoIrq(s)) /\ panicked' = FALSE
    BY <1>3, TrapNow
  <1>5. stack' = [stack EXCEPT ![cur] = s]
    BY DEF s
  <1> QED
    BY <1>2, <1>3, <1>4, <1>5, TrapLeft, Zenon

\* splhigh() keeps the invariant.
LEMMA TrapSplhigh == ASSUME TrapInv, splhigh PROVE TrapInv'
  <1> DEFINE f == [kind |-> "spl", old |-> curspl]
  <1>1. /\ ~idle /\ mode = "kernel" /\ stack' = [stack EXCEPT ![cur] = Append(stack[cur], f)]
        /\ curspl' = 1 /\ IEc' = (1 = 0) /\ UNCHANGED <<mode, in_interrupt, cur, curkstack, idle, panicked, pcb>>
    BY DEF splhigh, Kernel, Push, splx, interrupts, SPL_HIGH, switched
  <1>2. f \in Frames /\ f.kind = "spl" /\ f.old = curspl
    BY TrapNow DEF Frames
  <1> HIDE DEF f
  <1>3. FrameOK(stack[cur], f)
    BY <1>1, <1>2, TrapNow DEF FrameOK
  <1>4. IEc' \in BOOLEAN /\ (IEc' <=> curspl' = 0) /\ curspl' = Level(f.kind)
    BY <1>1, <1>2, Zenon DEF Level
  <1> QED
    BY <1>1, <1>2, <1>3, <1>4, TrapCall, Zenon

\* splx() to the level from before keeps the invariant.
LEMMA TrapSplx == ASSUME TrapInv, SplxBack PROVE TrapInv'
  <1> DEFINE s == stack[cur]
             g == Front(s)
             f == Last(s)
  <1>1. /\ TopOf(s) = "spl" /\ mode = "kernel" /\ ~idle /\ stack' = [stack EXCEPT ![cur] = g]
        /\ curspl' = f.old /\ IEc' = (f.old = 0)
        /\ UNCHANGED <<mode, in_interrupt, cur, curkstack, idle, panicked, pcb>>
    BY TrapNow DEF SplxBack, Kernel, Pop, splx, interrupts, switched
  <1>2. s # <<>> /\ Running(s)
    BY <1>1, TrapNow DEF TopOf
  <1>3. Running(g) /\ FrameOK(g, f) /\ f.kind = "spl" /\ (NoIrq(s) <=> NoIrq(g))
    BY <1>1, <1>2, RunApart
  <1> HIDE DEF f, g
  <1>4. curspl' = Level(TopOf(g)) /\ IEc' \in BOOLEAN /\ (IEc' <=> curspl' = 0)
    BY <1>1, <1>3, Zenon DEF FrameOK
  <1>5. in_interrupt' \in BOOLEAN /\ (in_interrupt' <=> ~NoIrq(g)) /\ panicked' = FALSE
    BY <1>1, <1>3, TrapNow
  <1> QED
    BY <1>1, <1>3, <1>4, <1>5, TrapLeft, Zenon

\* Entering and leaving copyin() or copyout() keeps the invariant.
LEMMA TrapCopy == ASSUME TrapInv, CopyStart \/ CopyEnd PROVE TrapInv'
  <1> DEFINE s == stack[cur]
  <1>1. CASE CopyStart
    <2> DEFINE f == Frame("copy")
    <2>1. /\ TopOf(s) = "sys" /\ ~idle /\ mode = "kernel" /\ stack' = [stack EXCEPT ![cur] = Append(stack[cur], f)]
          /\ pcb' = [pcb EXCEPT ![cur].badfaultfunc = TRUE]
          /\ UNCHANGED <<mode, IEc, curspl, in_interrupt, cur, curkstack, idle, panicked>>
      BY <1>1, TrapNow DEF CopyStart, Kernel, Push, switched
    <2>2. f \in Frames /\ f.kind = "copy"
      BY DEF Frames, Frame
    <2> HIDE DEF f
    <2>3. FrameOK(stack[cur], f)
      BY <2>1, <2>2 DEF FrameOK
    <2>4. IEc' \in BOOLEAN /\ (IEc' <=> curspl' = 0) /\ curspl' = Level(f.kind)
      BY <2>1, <2>2, TrapNow DEF Level
    <2> QED
      BY <2>1, <2>2, <2>3, <2>4, TrapCall, Zenon
  <1>2. CASE CopyEnd
    <2> DEFINE g == Front(s)
    <2>1. /\ TopOf(s) = "copy" /\ ~idle /\ mode = "kernel" /\ stack' = [stack EXCEPT ![cur] = g]
          /\ pcb' = [pcb EXCEPT ![cur].badfaultfunc = FALSE]
          /\ UNCHANGED <<mode, IEc, curspl, in_interrupt, cur, curkstack, idle, panicked>>
      BY <1>2, TrapNow DEF CopyEnd, Kernel, Pop, switched
    <2>2. Running(s) /\ NoIrq(s) /\ Running(g) /\ TopOf(g) = "sys"
      BY <2>1, TrapNow, RunCopy
    <2>3. NoIrq(g)
      BY <2>2, RunSys
    <2> HIDE DEF g
    <2>4. IEc' \in BOOLEAN /\ (IEc' <=> curspl' = 0) /\ curspl' = Level(TopOf(g))
      BY <2>1, <2>2, TrapNow DEF Level
    <2>5. in_interrupt' \in BOOLEAN /\ (in_interrupt' <=> ~NoIrq(g)) /\ panicked' = FALSE
      BY <2>1, <2>2, <2>3, TrapNow
    <2> QED
      BY <2>1, <2>2, <2>4, <2>5, TrapLeft, Zenon
  <1> QED
    BY <1>1, <1>2

\* The current thread enters the scheduler: s is its stack there.
LEMMA TrapIdles ==
  ASSUME TrapInv, NEW s \in Seq(Frames), Switching(s) \/ Exited(s), in_interrupt <=> ~NoIrq(s),
         stack' = [stack EXCEPT ![cur] = s], mode = "kernel", curspl' = 1, idle' = TRUE,
         IEc' \in BOOLEAN, ~IEc', UNCHANGED <<cur, curkstack, panicked, mode, in_interrupt, pcb>>
  PROVE  TrapInv'
  <1>1. /\ pcb' \in [Thread -> [kstack : Thread, ininterrupt : BOOLEAN, badfaultfunc : BOOLEAN]]
        /\ \A t \in Thread : pcb'[t].kstack = pcb[t].kstack /\ pcb'[t].ininterrupt = pcb[t].ininterrupt
    BY TrapNow
  <1>2. Idle(s)
    BY Zenon DEF Idle
  <1>3. in_interrupt' \in BOOLEAN /\ (in_interrupt' <=> ~NoIrq(s)) /\ panicked' = FALSE
    BY TrapNow, Zenon
  <1>4. mode' \in {"user", "kernel"} /\ mode' # "user"
    OBVIOUS
  <1>5. curspl' \in {0, 1} /\ (IEc' <=> curspl' = 0)
    OBVIOUS
  <1> QED
    BY <1>1, <1>2, <1>3, <1>4, <1>5, TrapStays, Zenon

\* mi_switch(), to sleep or to yield, keeps the invariant.
LEMMA TrapSwitch == ASSUME TrapInv, NEW sleeping \in BOOLEAN, mi_switch(sleeping) PROVE TrapInv'
  <1> DEFINE f == [kind |-> "sched", sleeping |-> sleeping]
             b == stack[cur]
             s == Append(b, f)
  <1>1. /\ ~idle /\ mode = "kernel" /\ curspl > 0 /\ TopOf(b) \in {"spl", "irq"}
        /\ sleeping => ~in_interrupt
        /\ stack' = [stack EXCEPT ![cur] = s] /\ idle' = TRUE
        /\ UNCHANGED <<cur, curkstack, panicked, mode, IEc, curspl, in_interrupt, pcb>>
    BY TrapNow DEF mi_switch, Kernel, Push
  <1>2. f \in Frames /\ f.kind = "sched" /\ f.sleeping = sleeping
    BY DEF Frames
  <1>3. b \in Seq(Frames) /\ Running(b) /\ b # <<>> /\ Level(TopOf(b)) = 1 /\ curspl = 1
    BY <1>1, TrapNow DEF Level, TopOf
  <1> HIDE DEF f
  <1>4. /\ s \in Seq(Frames) /\ Len(s) = Len(b) + 1 /\ Last(s) = f /\ Front(s) = b
        /\ (NoIrq(s) <=> NoIrq(b))
    BY <1>2, <1>3, StackPush
  <1>5. Len(s) >= 2
    BY <1>3, <1>4, SMTT(20)
  <1>6. (sleeping => NoIrq(b)) /\ (in_interrupt <=> ~NoIrq(b))
    BY <1>1, TrapNow
  <1> HIDE DEF s
  <1>7. Switching(s)
    BY <1>2, <1>3, <1>4, <1>5, <1>6 DEF Switching
  <1>8. IEc' \in BOOLEAN /\ ~IEc' /\ curspl' = 1
    BY <1>1, <1>3, TrapNow
  <1> QED
    BY <1>1, <1>4, <1>6, <1>7, <1>8, TrapIdles, Zenon

\* thread_exit() keeps the invariant.
LEMMA TrapExit == ASSUME TrapInv, thread_exit PROVE TrapInv'
  <1> DEFINE s == <<Frame("exited"), [kind |-> "sched", sleeping |-> TRUE]>>
  <1>1. /\ ~idle /\ mode = "kernel" /\ TopOf(stack[cur]) \in {"none", "sys"}
        /\ curspl' = 1 /\ IEc' = (1 = 0) /\ idle' = TRUE /\ stack' = [stack EXCEPT ![cur] = s]
        /\ UNCHANGED <<cur, curkstack, panicked, mode, in_interrupt, pcb>>
    BY TrapNow DEF thread_exit, Kernel, splx, interrupts, SPL_HIGH
  <1>2. NoIrq(stack[cur])
    BY <1>1, TrapNow, RunTop DEF Level
  <1>3. s \in Seq(Frames) /\ Exited(s) /\ NoIrq(s)
    BY DEF Exited, NoIrq, Frames, Frame
  <1>4. (in_interrupt <=> ~NoIrq(s)) /\ IEc' \in BOOLEAN /\ ~IEc'
    BY <1>1, <1>2, <1>3, TrapNow
  <1> HIDE DEF s
  <1> QED
    BY <1>1, <1>3, <1>4, TrapIdles, Zenon

\* thread_fork() keeps the invariant.
LEMMA TrapFork == ASSUME TrapInv, NEW u \in Thread, thread_fork(u) PROVE TrapInv'
  <1>1. /\ ~idle /\ stack[u] = Free
        /\ stack' = [stack EXCEPT ![u] = <<Frame("start")>>]
        /\ pcb' = [pcb EXCEPT ![u] = NewPcb(u)]
        /\ UNCHANGED <<mode, IEc, curspl, in_interrupt, cur, curkstack, idle, panicked>>
    BY DEF thread_fork, Kernel, switched
  <1>2. u # cur
    <2>1. TopOf(Free) = "free"
      BY DEF TopOf, Free, Last
    <2> QED
      BY <1>1, <2>1, TrapNow, RunTop
  <1>3. <<Frame("start")>> \in Seq(Frames)
    BY DEF Frames, Frame
  <1>4. /\ NewPcb(u) \in [kstack : Thread, ininterrupt : BOOLEAN, badfaultfunc : BOOLEAN]
        /\ NewPcb(u).kstack = u /\ ~NewPcb(u).ininterrupt
    BY DEF NewPcb
  <1>5. TrapTypes'
    <2>1. stack' \in [Thread -> Seq(Frames)]
      BY <1>1, <1>3 DEF TrapInv, TrapTypes
    <2>2. pcb' \in [Thread -> [kstack : Thread, ininterrupt : BOOLEAN, badfaultfunc : BOOLEAN]]
      BY <1>1, <1>4 DEF TrapInv, TrapTypes
    <2>3. \A t \in Thread : pcb'[t].kstack = t
      BY <1>1, <1>4 DEF TrapInv, TrapTypes
    <2> QED
      BY <1>1, <2>1, <2>2, <2>3 DEF TrapInv, TrapTypes
  <1>6. stack'[cur'] = stack[cur]
    BY <1>1, <1>2 DEF TrapInv, TrapTypes
  <1>7. TrapCur'
    BY <1>1, <1>6, Zenon DEF TrapInv, TrapCur
  <1>8. TrapOther'
    <2> SUFFICES ASSUME NEW t \in Thread \ {cur}
                 PROVE  \/ stack'[t] = Free
                        \/ stack'[t] = <<Frame("start")>> /\ ~pcb'[t].ininterrupt
                        \/ Switching(stack'[t]) /\ (pcb'[t].ininterrupt <=> ~NoIrq(stack'[t]))
      BY <1>1 DEF TrapOther, Free, Frame
    <2>1. CASE t = u
      BY <1>1, <1>4, <2>1 DEF TrapInv, TrapTypes
    <2>2. CASE t # u
      <3>1. stack'[t] = stack[t] /\ pcb'[t] = pcb[t]
        BY <1>1, <2>2 DEF TrapInv, TrapTypes
      <3> QED
        BY <3>1 DEF TrapInv, TrapOther
    <2> QED
      BY <2>1, <2>2
  <1> QED
    BY <1>5, <1>7, <1>8 DEF TrapInv

(* The scheduler has found a thread *)

\* What Resume() finds of the thread that idles, and of the one it goes on with.
LEMMA ResumeFinds ==
  ASSUME TrapInv, idle, TopOf(stack[cur]) = "sched"
  PROVE  \/ Head(stack[cur]).kind = "exited" /\ Exited(stack[cur])
         \/ Head(stack[cur]).kind # "exited" /\ Switching(stack[cur])
  <1> DEFINE s == stack[cur]
             g == Front(s)
  <1>1. s \in Seq(Frames) /\ Idle(s) /\ s # <<>>
    BY TrapNow DEF TopOf
  <1>2. Switching(s) \/ Exited(s)
    BY <1>1, TrapIdleTop
  <1>3. CASE Exited(s)
    BY <1>3 DEF Exited, Frame
  <1>4. CASE Switching(s)
    <2>1. Running(g) /\ Level(TopOf(g)) = 1
      BY <1>4 DEF Switching
    <2>2. g # <<>> /\ g \in Seq(Frames)
      BY <2>1, RunEmpty DEF Running
    <2>3. g[1] = s[1]
      <3>1. 1 \in 1..(Len(s) - 1)
        BY <1>1, <1>4 DEF Switching
      <3> QED
        BY <1>1, <3>1, StackPop
    <2> HIDE DEF g
    <2>4. FrameOK(SubSeq(g, 1, 1 - 1), g[1])
      BY <2>1, <2>2 DEF Running
    <2>5. g[1].kind # "exited"
      BY <2>4 DEF FrameOK
    <2>6. Head(s) = s[1]
      BY <1>1
    <2> QED
      BY <1>4, <2>3, <2>5, <2>6
  <1> QED
    BY <1>2, <1>3, <1>4

\* A thread that was switched out has the frame of the scheduler on top of what
\* it ran.
LEMMA SwitchingApart ==
  ASSUME NEW s, Switching(s)
  PROVE  /\ s \in Seq(Frames) /\ s # <<>> /\ Last(s).kind = "sched"
         /\ Running(Front(s)) /\ Level(TopOf(Front(s))) = 1
         /\ NoIrq(s) <=> NoIrq(Front(s))
  <1> DEFINE g == Front(s)
             f == Last(s)
  <1>1. s \in Seq(Frames) /\ s # <<>> /\ f.kind = "sched" /\ Running(g) /\ Level(TopOf(g)) = 1
    BY DEF Switching
  <1>2. s = Append(g, f) /\ g \in Seq(Frames) /\ f \in Frames
    BY <1>1, StackPop
  <1>3. NoIrq(Append(g, f)) <=> NoIrq(g) /\ f.kind # "irq"
    BY <1>2, StackPush
  <1> QED
    BY <1>1, <1>2, <1>3, Zenon

\* The scheduler that picks the thread it came from keeps the invariant.
LEMMA ResumeSame == ASSUME TrapInv, Resume(cur) PROVE TrapInv'
  <1> DEFINE s == stack[cur]
             g == Front(s)
  <1>1. idle /\ TopOf(s) = "sched" /\ Head(s).kind # "exited"
    BY TrapNow DEF Resume
  <1>2. Switching(s) /\ curspl = 1 /\ mode = "kernel" /\ s # <<>>
    BY <1>1, ResumeFinds, TrapNow DEF TopOf
  <1>3. /\ s \in Seq(Frames) /\ Last(s).kind = "sched" /\ Running(g) /\ Level(TopOf(g)) = 1
        /\ (NoIrq(s) <=> NoIrq(g))
    BY <1>2, SwitchingApart
  <1>4. /\ cur' = cur /\ idle' = FALSE /\ UNCHANGED <<pcb, curkstack, in_interrupt, mode, panicked>>
    BY DEF Resume, mips_switch
  <1>5. UNCHANGED <<curspl, IEc>>
    BY <1>3 DEF Resume
  <1>6. stack' = [stack EXCEPT ![cur] = g]
    <2>1. stack' = [[stack EXCEPT ![cur] = stack[cur]] EXCEPT ![cur] = Front(@)]
      BY <1>1 DEF Resume, mips_switch
    <2> QED
      BY <2>1, TrapNow, Zenon DEF TrapInv, TrapTypes
  <1>7. /\ pcb' \in [Thread -> [kstack : Thread, ininterrupt : BOOLEAN, badfaultfunc : BOOLEAN]]
        /\ \A t \in Thread : pcb'[t].kstack = pcb[t].kstack /\ pcb'[t].ininterrupt = pcb[t].ininterrupt
    BY <1>4, TrapNow
  <1> HIDE DEF g
  <1>8. /\ g \in Seq(Frames) /\ curspl' = Level(TopOf(g)) /\ curspl' \in {0, 1}
        /\ mode' \in {"user", "kernel"} /\ mode' # "user" /\ panicked' = FALSE /\ idle' \in BOOLEAN /\ ~idle'
    BY <1>2, <1>3, <1>4, <1>5, TrapNow, Zenon DEF Running
  <1>9. /\ IEc' \in BOOLEAN /\ (IEc' <=> curspl' = 0)
        /\ in_interrupt' \in BOOLEAN /\ (in_interrupt' <=> ~NoIrq(g))
    BY <1>3, <1>4, <1>5, TrapNow
  <1>10. curkstack' = curkstack
    BY <1>4
  <1> QED
    BY <1>3, <1>4, <1>6, <1>7, <1>8, <1>9, <1>10, TrapStays, Zenon

\* The scheduler that picks another thread keeps the invariant.
LEMMA ResumeOther == ASSUME TrapInv, NEW nu \in Thread, nu # cur, Resume(nu) PROVE TrapInv'
  <1> DEFINE s == stack[cur]
             gone == Head(s).kind = "exited"
             g == Front(stack[nu])
             P == [kstack : Thread, ininterrupt : BOOLEAN, badfaultfunc : BOOLEAN]
             q == [pcb[cur] EXCEPT !.kstack = curkstack]
             r == [q EXCEPT !.ininterrupt = in_interrupt]
  <1>0. cur \in Thread /\ stack \in [Thread -> Seq(Frames)] /\ pcb \in [Thread -> P] /\ curkstack = cur
    BY DEF TrapInv, TrapTypes
  <1>1. idle /\ TopOf(s) = "sched" /\ curspl = 1 /\ mode = "kernel" /\ ~IEc
    BY TrapNow, SMTT(20) DEF Resume
  <1>2. Last(stack[nu]).kind \in {"sched", "start"}
    BY DEF Resume
  <1>3. /\ cur' = nu /\ idle' = FALSE /\ UNCHANGED <<mode, panicked>>
        /\ curkstack' = pcb[nu].kstack /\ in_interrupt' = pcb[nu].ininterrupt
    BY DEF Resume, mips_switch, md_switch
  <1>4. pcb' = [pcb EXCEPT ![cur] = r]
    BY <1>0, Zenon DEF Resume, md_switch
  <1>5. r \in P /\ r.kstack = cur /\ r.ininterrupt = in_interrupt
    <2>1. pcb[cur] \in P
      BY <1>0
    <2>2. q \in P /\ q.kstack = cur
      BY <1>0, <2>1, Zenon
    <2> HIDE DEF q
    <2> QED
      BY <2>2, TrapNow
  <1> HIDE DEF r, P
  <1>6. pcb' \in [Thread -> P] /\ pcb'[cur] = r /\ \A t \in Thread \ {cur} : pcb'[t] = pcb[t]
    BY <1>0, <1>4, <1>5
  <1>7. /\ stack'[nu] = g /\ stack'[cur] = (IF gone THEN Free ELSE s)
        /\ \A t \in Thread \ {cur, nu} : stack'[t] = stack[t]
        /\ DOMAIN stack' = Thread
    <2> DEFINE was == [stack EXCEPT ![cur] = IF gone THEN Free ELSE s]
    <2>1. stack' = [was EXCEPT ![nu] = Front(was[nu])]
      BY DEF Resume, mips_switch
    <2>2. was[nu] = stack[nu] /\ was[cur] = (IF gone THEN Free ELSE s) /\ DOMAIN was = Thread
          /\ \A t \in Thread \ {cur, nu} : was[t] = stack[t]
      BY <1>0
    <2> HIDE DEF was
    <2> QED
      BY <1>0, <2>1, <2>2
  <1>8. \/ stack[nu] = <<Frame("start")>> /\ ~pcb[nu].ininterrupt
        \/ Switching(stack[nu]) /\ (pcb[nu].ininterrupt <=> ~NoIrq(stack[nu]))
    <2>1. Last(Free).kind = "free"
      BY DEF Free, Last
    <2> QED
      BY <1>2, <2>1 DEF TrapInv, TrapOther
  <1>9. /\ Running(g) /\ g \in Seq(Frames) /\ curspl' \in {0, 1} /\ curspl' = Level(TopOf(g))
        /\ IEc' \in BOOLEAN /\ (IEc' <=> curspl' = 0) /\ (pcb[nu].ininterrupt <=> ~NoIrq(g))
    <2>1. CASE stack[nu] = <<Frame("start")>> /\ ~pcb[nu].ininterrupt
      <3>1. g = <<>> /\ Last(stack[nu]).kind = "start"
        BY <2>1 DEF Front, Last, Frame
      <3>2. curspl' = 0 /\ IEc' = (0 = 0)
        BY <3>1 DEF Resume, splx, interrupts
      <3>3. Running(g) /\ g \in Seq(Frames) /\ curspl' \in {0, 1} /\ curspl' = Level(TopOf(g)) /\ NoIrq(g)
        BY <3>1, <3>2, RunEmpty DEF Running
      <3>4. IEc' \in BOOLEAN /\ (IEc' <=> curspl' = 0)
        BY <3>2, Zenon
      <3> HIDE DEF g
      <3> QED
        BY <2>1, <3>3, <3>4
    <2>2. CASE Switching(stack[nu]) /\ (pcb[nu].ininterrupt <=> ~NoIrq(stack[nu]))
      <3>1. /\ Last(stack[nu]).kind = "sched" /\ Running(g) /\ Level(TopOf(g)) = 1
            /\ (NoIrq(stack[nu]) <=> NoIrq(g))
        BY <2>2, SwitchingApart
      <3>2. UNCHANGED <<curspl, IEc>>
        BY <3>1 DEF Resume
      <3>3. g \in Seq(Frames)
        BY <3>1 DEF Running
      <3> QED
        BY <1>1, <2>2, <3>1, <3>2, <3>3, TrapNow
    <2> QED
      BY <1>8, <2>1, <2>2
  <1> HIDE DEF g
  <1>10. TrapTypes'
    <2>1. stack' \in [Thread -> Seq(Frames)]
      <3>1. Free \in Seq(Frames)
        BY DEF Free, Frames
      <3>2. \A t \in Thread : stack'[t] \in Seq(Frames)
        BY <1>0, <1>7, <1>9, <3>1, Zenon
      <3>3. stack' = [t \in Thread |-> stack'[t]]
        <4> DEFINE was == [stack EXCEPT ![cur] = IF gone THEN Free ELSE s]
        <4>1. stack' = [was EXCEPT ![nu] = Front(was[nu])]
          BY DEF Resume, mips_switch
        <4>2. DOMAIN was = Thread
          BY <1>0
        <4> HIDE DEF was
        <4> QED
          BY <4>1, <4>2, Zenon
      <3> QED
        BY <3>2, <3>3
    <2>2. curkstack' = cur' /\ cur' \in Thread
      BY <1>3 DEF TrapInv, TrapTypes
    <2>3. \A t \in Thread : pcb'[t].kstack = t
      <3>1. \A t \in Thread : pcb[t].kstack = t
        BY Zenon DEF TrapInv, TrapTypes
      <3> QED
        BY <1>5, <1>6, <3>1
    <2>4. in_interrupt' \in BOOLEAN /\ idle' \in BOOLEAN /\ mode' \in {"user", "kernel"} /\ panicked' = FALSE
      <3>1. pcb[nu].ininterrupt \in BOOLEAN
        BY <1>0 DEF P
      <3> QED
        BY <1>3, <3>1, TrapNow, Zenon
    <2> QED
      BY <1>6, <1>9, <2>1, <2>2, <2>3, <2>4 DEF TrapTypes, P
  <1>11. TrapCur'
    <2>1. stack'[cur'] = g
      BY <1>3, <1>7
    <2> QED
      BY <1>1, <1>3, <1>9, <2>1 DEF TrapCur
  <1>12. TrapOther'
    <2> SUFFICES ASSUME NEW t \in Thread \ {nu}
                 PROVE  \/ stack'[t] = Free
                        \/ stack'[t] = <<Frame("start")>> /\ ~pcb'[t].ininterrupt
                        \/ Switching(stack'[t]) /\ (pcb'[t].ininterrupt <=> ~NoIrq(stack'[t]))
      BY <1>3 DEF TrapOther, Free, Frame
    <2>1. CASE t = cur
      <3>1. CASE gone
        BY <1>7, <2>1, <3>1
      <3>2. CASE ~gone
        <4>1. Switching(s) /\ stack'[t] = s
          BY <1>1, <1>7, <2>1, <3>2, ResumeFinds
        <4>2. pcb'[t].ininterrupt <=> ~NoIrq(s)
          BY <1>5, <1>6, <2>1, TrapNow
        <4> QED
          BY <4>1, <4>2
      <3> QED
        BY <3>1, <3>2
    <2>2. CASE t # cur
      <3>1. stack'[t] = stack[t] /\ pcb'[t] = pcb[t]
        BY <1>6, <1>7, <2>2
      <3> QED
        BY <3>1, <2>2 DEF TrapInv, TrapOther
    <2> QED
      BY <2>1, <2>2
  <1> QED
    BY <1>10, <1>11, <1>12 DEF TrapInv

\* The invariant holds when the first thread runs.
LEMMA TrapStarts == ASSUME TrapAssumption PROVE TrapInit => TrapInv
  <1> SUFFICES ASSUME TrapInit PROVE TrapInv
    OBVIOUS
  <1>1. Free \in Seq(Frames) /\ <<>> \in Seq(Frames)
    BY DEF Free, Frames
  <1>2. stack \in [Thread -> Seq(Frames)] /\ stack[Boot] = <<>>
        /\ \A t \in Thread \ {Boot} : stack[t] = Free
    BY <1>1 DEF TrapInit
  <1>3. /\ pcb \in [Thread -> [kstack : Thread, ininterrupt : BOOLEAN, badfaultfunc : BOOLEAN]]
        /\ \A t \in Thread : pcb[t].kstack = t
    BY DEF TrapInit, NewPcb
  <1>4. TrapTypes
    BY <1>2, <1>3, Zenon DEF TrapInit, TrapTypes
  <1>5. TrapCur
    BY <1>2, RunEmpty DEF TrapInit, TrapCur
  <1>6. TrapOther
    BY <1>2, Zenon DEF TrapInit, TrapOther
  <1> QED
    BY <1>4, <1>5, <1>6 DEF TrapInv

\* Every step keeps the invariant.
LEMMA TrapStep == TrapInv /\ [TrapNext]_trap_vars => TrapInv'
  <1> SUFFICES ASSUME TrapInv, [TrapNext]_trap_vars PROVE TrapInv'
    OBVIOUS
  <1>1. CASE UNCHANGED trap_vars
    BY <1>1 DEF trap_vars, TrapInv, TrapTypes, TrapCur, TrapOther, Free, Frame
  <1>2. ASSUME NEW nu \in Thread, Resume(nu) PROVE TrapInv'
    BY <1>2, ResumeSame, ResumeOther
  <1> QED
    BY <1>1, <1>2, TrapInterrupt, TrapEnter, TrapReturnKeeps, TrapBadFault, TrapUsermode,
       TrapSplhigh,
       TrapSplx, TrapCopy, TrapExit, TrapFork, TrapSwitch DEF TrapNext

\* curspl and the processor agree, user mode runs with interrupts on and outside
\* handlers, and the assertions of mips_trap() and mips_syscall() hold, for any
\* number of threads and any nesting of traps, spl and switches.
THEOREM TrapsSplStaysTrue == TrapSpec => []TrapsSplIsTrue
  <1>1. TrapInv => TrapsSplIsTrue
    <2> SUFFICES ASSUME TrapInv PROVE TrapsSplIsTrue
      OBVIOUS
    <2>1. ~panicked /\ (curspl = 0) = IEc
      BY TrapNow
    <2>2. ASSUME mode = "user" PROVE curspl = 0 /\ ~in_interrupt
      BY <2>2, TrapNow, RunEmpty
    <2> QED
      BY <2>1, <2>2 DEF TrapsSplIsTrue
  <1> QED
    BY TrapAssumption, <1>1, TrapStarts, TrapStep, PTL DEF TrapSpec
=============================================================================
