-------------------------------- MODULE Trap --------------------------------
(***************************************************************************)
(* Entering and leaving the kernel: exception.S, trap.c, interrupt.c,      *)
(* spl.c, pcb.c and syscall.c of kern/arch/mips/mips, copyin() and         *)
(* copyout() of kern/lib/copyinout.c, and the ends of mi_switch() and      *)
(* mi_threadstart() in kern/thread/thread.c.                               *)
(*                                                                         *)
(* A kernel stack is the sequence of what is on it, the innermost last:    *)
(*   "irq", "sys", "fault"  a trap frame, with the mode, the interrupt     *)
(*                          enable bit and the curspl of the old context;  *)
(*   "spl"                  code between splhigh() and splx();             *)
(*   "copy"                 copyin() or copyout() touching user memory;    *)
(*   "sched"                mi_switch(), not returned yet;                 *)
(*   "start"                a thread that has not run yet.                 *)
(***************************************************************************)
EXTENDS Base, Integers, Sequences, FiniteSets

CONSTANTS
  Boot,          \* the thread the system boots with
  MaxDepth       \* bound: frames on a stack when another call is made

SPL_HIGH == 1    \* any value above 0

ASSUME TrapAssumption == Boot \in Thread

VARIABLES
  cur,           \* the thread whose stack is in use
  mode,          \* "user" or "kernel"
  IEc,           \* the interrupt enable bit
  curspl,
  in_interrupt,
  curkstack,     \* the thread whose stack the next trap from user mode uses
  idle,          \* whether curthread is NULL
  stack,         \* per thread
  pcb,           \* per thread: pcb_kstack, pcb_ininterrupt, pcb_badfaultfunc
  panicked

trap_vars == <<cur, mode, IEc, curspl, in_interrupt, curkstack, idle, stack, pcb, panicked>>
switched == <<cur, curkstack, idle, panicked>>

\* md_initpcb0() and md_initpcb().
NewPcb(t) == [kstack |-> t, ininterrupt |-> FALSE, badfaultfunc |-> FALSE]

\* What is innermost on a stack, and what is around it.
Last(s) == s[Len(s)]
Front(s) == SubSeq(s, 1, Len(s) - 1)

Free == <<[kind |-> "free"]>>
Frame(k) == [kind |-> k]

\* After boot(): interrupts are on.
TrapInit ==
  /\ cur = Boot /\ curkstack = Boot /\ mode = "kernel"
  /\ IEc = TRUE /\ curspl = 0 /\ in_interrupt = FALSE /\ idle = FALSE
  /\ stack = [t \in Thread |-> IF t = Boot THEN <<>> ELSE Free]
  /\ pcb = [t \in Thread |-> NewPcb(t)]
  /\ panicked = FALSE

Top == IF stack[cur] = <<>> THEN "none" ELSE Last(stack[cur]).kind
Push(t, f) == stack' = [stack EXCEPT ![t] = Append(@, f)]
Pop == stack' = [stack EXCEPT ![cur] = Front(@)]
Kernel == mode = "kernel" /\ ~idle
Room == Len(stack[cur]) < MaxDepth

\* interrupts_on() and interrupts_off(), of the processor.
interrupts(on) == IEc' = on

\* splx().
splx(spl) == curspl' = spl /\ interrupts(spl = 0)

----------------------------------------------------------------------------
(* Traps *)

\* common_exception and the start of mips_trap(): a trap from user mode finds
\* its stack in curkstack, one from the kernel goes on with its own.
TrapFrame(kind) ==
  Push(IF mode = "user" THEN curkstack ELSE cur,
       [kind |-> kind, mode |-> mode, ie |-> IEc, savespl |-> curspl, old_in |-> in_interrupt])

bug_Interrupt ==                        \* curspl stays that of the old context
  /\ IEc \/ (idle /\ Top = "sched" /\ Last(stack[cur]).sleeping)
  /\ TrapFrame("irq")
  /\ mode' = "kernel" /\ IEc' = FALSE /\ in_interrupt' = TRUE
  /\ UNCHANGED <<curspl, switched, pcb>>

\* mips_interrupt(), taken when interrupts are on, or in cpu_idle().
Interrupt ==
  /\ IEc \/ (idle /\ Top = "sched" /\ Last(stack[cur]).sleeping)
  /\ TrapFrame("irq")
  /\ mode' = "kernel" /\ IEc' = FALSE /\ curspl' = SPL_HIGH /\ in_interrupt' = TRUE
  /\ UNCHANGED <<switched, pcb>>

\* A system call or a fault: spl goes back to what it was before.
Enter(kind) ==
  /\ TrapFrame(kind)
  /\ mode' = "kernel" /\ splx(curspl)
  /\ UNCHANGED <<in_interrupt, cur, curkstack, idle, pcb>>

\* mips_syscall() asserts that interrupts were on.
Syscall == mode = "user" /\ Enter("sys") /\ panicked' = (curspl # 0)
Fault == (mode = "user" \/ (Kernel /\ Top = "copy")) /\ Enter("fault") /\ UNCHANGED panicked

\* exception_return, with the curspl that mips_trap() has put back.  In
\* cpu_idle() interrupts go off again at once.
TrapDone(f) ==
  /\ curspl' = f.savespl /\ mode' = f.mode
  /\ IEc' = (f.ie /\ ~idle)

\* The end of mips_trap(): mips_syscall() asserts that spl has been lowered,
\* mips_trap() that the frame is on the stack of curkstack.
TrapReturn ==
  LET f == Last(stack[cur])
  IN  /\ mode = "kernel" /\ Top \in {"irq", "sys", "fault"}
      /\ TrapDone(f) /\ Pop
      /\ in_interrupt' = IF f.kind = "irq" THEN f.old_in ELSE in_interrupt
      /\ panicked' = (curkstack # cur \/ (f.kind = "sys" /\ curspl # 0))
      /\ UNCHANGED <<cur, curkstack, idle, pcb>>

\* A fault vm_fault() cannot handle, while copying: execution resumes in
\* copyfail(), and longjmp() makes copyin() return.
BadFault ==
  LET s == stack[cur]
      f == Last(s)
  IN  /\ Kernel /\ Top = "fault" /\ f.mode = "kernel" /\ pcb[cur].badfaultfunc
      /\ TrapDone(f)
      /\ stack' = [stack EXCEPT ![cur] = Front(Front(s))]
      /\ pcb' = [pcb EXCEPT ![cur].badfaultfunc = FALSE]
      /\ UNCHANGED <<in_interrupt, switched>>

\* mips_usermode(), from a thread that has not been in user mode, or from
\* execv(), which leaves what is on the stack behind.
mips_usermode ==
  /\ Kernel /\ Top \in {"none", "sys"} /\ curspl = 0
  /\ stack' = [stack EXCEPT ![cur] = <<>>]
  /\ mode' = "user" /\ curspl' = 0 /\ IEc' = TRUE
  /\ panicked' = (curkstack # cur)
  /\ UNCHANGED <<in_interrupt, cur, curkstack, idle, pcb>>

----------------------------------------------------------------------------
(* What kernel code does *)

splhigh ==
  /\ Kernel /\ Room /\ Top # "spl"
  /\ Push(cur, [kind |-> "spl", old |-> curspl]) /\ splx(SPL_HIGH)
  /\ UNCHANGED <<mode, in_interrupt, switched, pcb>>

SplxBack ==
  /\ Kernel /\ Top = "spl"
  /\ Pop /\ splx(Last(stack[cur]).old)
  /\ UNCHANGED <<mode, in_interrupt, switched, pcb>>

\* copyin() and copyout(), of a system call.
CopyStart ==
  /\ Kernel /\ Top = "sys" /\ Room
  /\ Push(cur, Frame("copy")) /\ pcb' = [pcb EXCEPT ![cur].badfaultfunc = TRUE]
  /\ UNCHANGED <<mode, IEc, curspl, in_interrupt, switched>>

CopyEnd ==
  /\ Kernel /\ Top = "copy"
  /\ Pop /\ pcb' = [pcb EXCEPT ![cur].badfaultfunc = FALSE]
  /\ UNCHANGED <<mode, IEc, curspl, in_interrupt, switched>>

\* thread_fork() prepares the pcb with md_initpcb().
thread_fork(u) ==
  /\ Kernel /\ stack[u] = Free /\ Top \in {"none", "sys"}
  /\ stack' = [stack EXCEPT ![u] = <<Frame("start")>>]
  /\ pcb' = [pcb EXCEPT ![u] = NewPcb(u)]
  /\ UNCHANGED <<mode, IEc, curspl, in_interrupt, switched>>

\* mi_switch(), from thread_sleep(), which an interrupt handler may not call,
\* or from thread_yield(), which hardclock() does.
mi_switch(sleeping) ==
  /\ Kernel /\ curspl > 0 /\ Top \in {"spl", "irq"}
  /\ sleeping => ~in_interrupt
  /\ Push(cur, [kind |-> "sched", sleeping |-> sleeping]) /\ idle' = TRUE
  /\ UNCHANGED <<cur, curkstack, panicked, mode, IEc, curspl, in_interrupt, pcb>>

thread_exit ==
  /\ Kernel /\ Top \in {"none", "sys"}
  /\ \E u \in Thread \ {cur} : stack[u] # Free
  /\ splx(SPL_HIGH) /\ idle' = TRUE
  /\ stack' = [stack EXCEPT ![cur] = <<Frame("exited"), [kind |-> "sched", sleeping |-> TRUE]>>]
  /\ UNCHANGED <<cur, curkstack, panicked, mode, in_interrupt, pcb>>

\* md_switch(), for two different threads.
md_switch(nu) ==
  /\ pcb' = [pcb EXCEPT ![cur].kstack = curkstack, ![cur].ininterrupt = in_interrupt]
  /\ curkstack' = pcb[nu].kstack /\ in_interrupt' = pcb[nu].ininterrupt

\* mips_switch(): the stack of nu, and what is innermost on it, is returned to;
\* was is what the stacks are before that.
mips_switch(nu, was) == cur' = nu /\ stack' = [was EXCEPT ![nu] = Front(@)]

\* The scheduler has found nu: it continues in mi_switch(), or in
\* mi_threadstart() with spl0().
Resume(nu) ==
  LET gone == Head(stack[cur]).kind = "exited"
      was == [stack EXCEPT ![cur] = IF gone THEN Free ELSE @]
  IN  /\ idle /\ Top = "sched" /\ (gone => nu # cur)
      /\ Last(stack[nu]).kind \in {"sched", "start"}
      /\ idle' = FALSE /\ mips_switch(nu, was)
      /\ IF nu = cur THEN UNCHANGED <<pcb, curkstack, in_interrupt>> ELSE md_switch(nu)
      /\ IF Last(stack[nu]).kind = "start" THEN splx(0) ELSE UNCHANGED <<curspl, IEc>>
      /\ UNCHANGED <<mode, panicked>>

TrapNext ==
  /\ ~panicked
  /\ \/ Interrupt \/ Syscall \/ Fault \/ TrapReturn \/ BadFault \/ mips_usermode
     \/ splhigh \/ SplxBack \/ CopyStart \/ CopyEnd \/ thread_exit
     \/ \E u \in Thread : thread_fork(u)
     \/ \E sleeping \in BOOLEAN : mi_switch(sleeping)
     \/ \E nu \in Thread : stack[nu] # <<>> /\ Resume(nu)

TrapSpec == TrapInit /\ [][TrapNext]_trap_vars

----------------------------------------------------------------------------
Kinds(t, k) == {i \in DOMAIN stack[t] : stack[t][i].kind = k}

\* curspl is what the processor does: 0 exactly when interrupts are on,
\* however traps, switches and splx() are nested; "interrupts should be on
\* while in user mode", and the assertions of mips_syscall() and mips_trap()
\* hold.
TrapsSplIsTrue ==
  /\ ~panicked /\ (curspl = 0) = IEc
  /\ mode = "user" => curspl = 0 /\ ~in_interrupt

\* in_interrupt, a global that "is really meant to be per-thread", is set
\* exactly while the current thread is inside an interrupt handler, and no
\* thread is in two.
InInterruptIsTrue ==
  /\ in_interrupt = (Kinds(cur, "irq") # {})
  /\ \A t \in Thread : Cardinality(Kinds(t, "irq")) <= 1

\* pcb_badfaultfunc is set only while its thread is copying, so that a fault
\* anywhere else in the kernel is not taken for a bad user pointer.
BadFaultOnlyInCopy ==
  \A t \in Thread : pcb[t].badfaultfunc = (Kinds(t, "copy") # {})

\* A trap from user mode starts on the empty kernel stack of its own thread,
\* and a stack holds at most one system call, one copy, one fault and one
\* call of the scheduler.
StacksAreOwn ==
  /\ curkstack = cur
  /\ mode = "user" => stack[cur] = <<>>
  /\ \A t \in Thread : /\ Cardinality(Kinds(t, "sys")) <= 1 /\ Cardinality(Kinds(t, "copy")) <= 1
                       /\ Cardinality(Kinds(t, "fault")) <= 1 /\ Cardinality(Kinds(t, "sched")) <= 1
=============================================================================
