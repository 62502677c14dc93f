------------------------------- MODULE Console -------------------------------
(***************************************************************************)
(* The console, kern/dev/generic/console.c, on the serial port,            *)
(* kern/dev/lamebus/lser.c: characters printed with interrupts, by         *)
(* polling, or before there is a console; characters typed; and the I/O of *)
(* user programs on "con:".                                                *)
(*                                                                         *)
(* A character is "x", "r" (\r) or "n" (\n).  The two locks of con_io()    *)
(* and that of kprintf() do nothing, as lock_acquire() and lock_release()  *)
(* of kern/thread/synch.c are, and are not modelled.                       *)
(***************************************************************************)
EXTENDS Base, Integers, Sequences, FiniteSets

CONSTANTS
  BootThread,     \* the thread that boots the system, one of Thread
  DELAYBUFSIZE,
  MaxCalls,       \* bound: calls of con_io() and kprintf()
  MaxPolled,      \* bound: characters printed by polling
  MaxTyped,       \* bound: characters typed
  MaxChars        \* bound: characters asked for by one call

ASSUME PortAssumption ==
  /\ BootThread \in Thread
  /\ NULL \notin [at : {"first", "send", "last"}, irqpending : BOOLEAN]

VARIABLES
  the_console,         \* whether config_con() has been here
  delayed_outbuf,
  cs_wsem, cs_rsem, cs_gotchar,
  ls_wbusy,
  wirq, rirq,          \* the ACTIVE bits of the interrupt registers
  sending,             \* whether the port is sending a character
  inchar,              \* the character in the input register
  polling,             \* lser_writepolled() under way, or NULL
  con,                \* per thread: where it is in con_io(), putch(), getch()
  typed, got,          \* what was typed, what getch() returned
  count,               \* of calls and polled characters so far
  wrong                \* what must not happen and did: "panic", "lost", "overrun"

port == <<ls_wbusy, wirq, sending>>
input == <<cs_rsem, cs_gotchar, rirq, inchar, typed, got>>
port_vars == <<the_console, delayed_outbuf, cs_wsem, port, input, polling, con, count, wrong>>

\* op: what the call is, "kprintf", "read" or "write", or NULL.
PortIdle == [at |-> "idle", op |-> NULL, resid |-> 0, todo |-> <<>>]
PortReturn(t) == con' = [con EXCEPT ![t] = PortIdle]
PortGoto(t, where) == con' = [con EXCEPT ![t].at = where]

PortInit ==
  /\ the_console = FALSE /\ delayed_outbuf = <<>>
  /\ cs_wsem = 1 /\ cs_rsem = 0 /\ cs_gotchar = NULL
  /\ ls_wbusy = FALSE /\ wirq = FALSE /\ rirq = FALSE      \* config_lser()
  /\ sending = FALSE /\ inchar = NULL /\ polling = NULL
  /\ con = [t \in Thread |-> PortIdle]
  /\ typed = <<>> /\ got = <<>>
  /\ count = [calls |-> 0, polled |-> 0] /\ wrong = {}

----------------------------------------------------------------------------
(* Before there is a console *)

putch_delayed ==
  /\ ~the_console /\ Len(delayed_outbuf) < DELAYBUFSIZE
  /\ delayed_outbuf' = Append(delayed_outbuf, "x")
  /\ UNCHANGED <<the_console, cs_wsem, port, input, polling, con, count, wrong>>

\* config_con(): flush_delay_buf() prints what has accumulated.
config_con ==
  /\ ~the_console /\ the_console' = TRUE
  /\ con' = [con EXCEPT ![BootThread] = [PortIdle EXCEPT !.at = "putch", !.todo = delayed_outbuf]]
  /\ UNCHANGED <<delayed_outbuf, cs_wsem, port, input, polling, count, wrong>>

----------------------------------------------------------------------------
(* Calls.  Interrupts are off while lser_writepolled() runs. *)

Running == the_console /\ polling = NULL

StartCall(t) ==
  /\ Running /\ con[t].at = "idle" /\ count.calls < MaxCalls
  /\ count' = [count EXCEPT !.calls = @ + 1]
  /\ UNCHANGED <<the_console, delayed_outbuf, cs_wsem, port, input, polling, wrong>>

kprintf(t) ==
  /\ StartCall(t)
  /\ con' = [con EXCEPT ![t] = [at |-> "putch", op |-> "kprintf", resid |-> 0, todo |-> <<"x">>]]

con_io(t, rw, resid) ==
  /\ StartCall(t)
  /\ con' = [con EXCEPT ![t] = [at |-> "loop", op |-> rw, resid |-> resid, todo |-> <<>>]]

\* The head of the loop of con_io(), with uiomove() of a character to write,
\* which may fail.
Loop(t) ==
  LET write == con[t].op = "write"
      more == con[t].resid > 0
  IN  /\ Running /\ con[t].at = "loop"
      /\ \/ /\ more /\ write
            /\ \E todo \in {<<"x">>, <<"r", "n">>} :
                 con' = [con EXCEPT ![t].at = "putch", ![t].resid = @ - 1, ![t].todo = todo]
         \/ more /\ ~write /\ PortGoto(t, "getch")
         \/ (~more \/ write) /\ PortReturn(t)
      /\ UNCHANGED <<the_console, delayed_outbuf, cs_wsem, port, input, polling, count, wrong>>

\* putch_intr(): P(cs_wsem) ...
Putch(t) ==
  /\ Running /\ con[t].at = "putch" /\ con[t].todo # <<>> /\ cs_wsem > 0
  /\ cs_wsem' = cs_wsem - 1 /\ PortGoto(t, "send")
  /\ UNCHANGED <<the_console, delayed_outbuf, port, input, polling, count, wrong>>

\* A character is written to the register; one that is still being sent is
\* lost.
SendChar ==
  /\ sending' = TRUE
  /\ wrong' = IF sending THEN wrong \cup {"lost"} ELSE wrong

\* ... and lser_write().
lser_write(t) ==
  /\ Running /\ con[t].at = "send"
  /\ IF ls_wbusy THEN wrong' = wrong \cup {"panic"} /\ UNCHANGED <<ls_wbusy, sending>>
     ELSE ls_wbusy' = TRUE /\ SendChar
  /\ con' = [con EXCEPT ![t].at = "putch", ![t].todo = Tail(@)]
  /\ UNCHANGED <<the_console, delayed_outbuf, cs_wsem, wirq, input, polling, count>>

\* The string is printed.
Printed(t) ==
  /\ Running /\ con[t].at = "putch" /\ con[t].todo = <<>>
  /\ IF con[t].op = "write" THEN PortGoto(t, "loop") ELSE PortReturn(t)
  /\ UNCHANGED <<the_console, delayed_outbuf, cs_wsem, port, input, polling, count, wrong>>

bug_Getch(t) ==                         \* without waiting for a character
  /\ Running /\ con[t].at = "getch" /\ cs_gotchar # NULL /\ PortGoto(t, "char")
  /\ UNCHANGED <<the_console, delayed_outbuf, cs_wsem, port, input, polling, count, wrong>>

\* getch_intr(): P(cs_rsem), and then the character.
Getch(t) ==
  /\ Running /\ con[t].at = "getch" /\ cs_rsem > 0
  /\ cs_rsem' = cs_rsem - 1 /\ PortGoto(t, "char")
  /\ UNCHANGED <<the_console, delayed_outbuf, cs_wsem, port, cs_gotchar, rirq, inchar, typed, got,
                 polling, count, wrong>>

\* con_io() turns \r into \n, and ends with the line.  uiomove() may fail.
Take(t) ==
  LET c == IF cs_gotchar = "r" THEN "n" ELSE cs_gotchar
  IN  /\ Running /\ con[t].at = "char"
      /\ got' = Append(got, cs_gotchar)
      /\ \/ PortReturn(t)
         \/ c # "n" /\ con' = [con EXCEPT ![t].at = "loop", ![t].resid = @ - 1]
      /\ UNCHANGED <<the_console, delayed_outbuf, cs_wsem, port, cs_rsem, cs_gotchar, rirq, inchar,
                     typed, polling, count, wrong>>

----------------------------------------------------------------------------
(* lser_writepolled(), called with interrupts off *)

PolledStart ==
  /\ Running /\ count.polled < MaxPolled
  /\ count' = [count EXCEPT !.polled = @ + 1]
  /\ polling' = [at |-> IF ls_wbusy THEN "first" ELSE "send", irqpending |-> ls_wbusy]
  /\ UNCHANGED <<the_console, delayed_outbuf, cs_wsem, port, input, con, wrong>>

\* It spins until the character before is out, sends its own, and spins
\* until that is out.  If there was one, its interrupt stays pending.
PolledStep ==
  /\ polling # NULL
  /\ \/ /\ polling.at = "first" /\ wirq /\ wirq' = FALSE
        /\ polling' = [polling EXCEPT !.at = "send"] /\ UNCHANGED <<sending, wrong>>
     \/ /\ polling.at = "send" /\ SendChar /\ UNCHANGED wirq
        /\ polling' = [polling EXCEPT !.at = "last"]
     \/ /\ polling.at = "last" /\ wirq /\ wirq' = polling.irqpending
        /\ polling' = NULL /\ UNCHANGED <<sending, wrong>>
  /\ UNCHANGED <<the_console, delayed_outbuf, cs_wsem, ls_wbusy, input, con, count>>

----------------------------------------------------------------------------
(* The port and its interrupt *)

Sent ==
  /\ sending
  /\ sending' = FALSE /\ wirq' = TRUE
  /\ UNCHANGED <<the_console, delayed_outbuf, cs_wsem, ls_wbusy, input, polling, con, count,
                 wrong>>

Type(c) ==
  /\ the_console /\ ~rirq /\ Len(typed) < MaxTyped
  /\ rirq' = TRUE /\ inchar' = c /\ typed' = Append(typed, c)
  /\ UNCHANGED <<the_console, delayed_outbuf, cs_wsem, port, cs_rsem, cs_gotchar, got, polling,
                 con, count, wrong>>

bug_con_start == UNCHANGED cs_wsem

con_start == cs_wsem' = cs_wsem + 1

\* con_input(): a character nobody has taken yet is overwritten.
con_input(c) ==
  /\ cs_gotchar' = c /\ cs_rsem' = cs_rsem + 1
  /\ wrong' = IF cs_rsem > 0 \/ \E t \in Thread : con[t].at = "char"
              THEN wrong \cup {"overrun"} ELSE wrong

lser_irq ==
  /\ Running /\ (wirq \/ rirq)
  /\ wirq' = FALSE /\ rirq' = FALSE
  /\ IF wirq THEN ls_wbusy' = FALSE /\ con_start ELSE UNCHANGED <<ls_wbusy, cs_wsem>>
  /\ IF rirq THEN con_input(inchar) ELSE UNCHANGED <<cs_gotchar, cs_rsem, wrong>>
  /\ UNCHANGED <<the_console, delayed_outbuf, sending, inchar, typed, got, polling, con,
                 count>>

PortStep(t) ==
  Loop(t) \/ Putch(t) \/ lser_write(t) \/ Printed(t) \/ Getch(t) \/ Take(t)

PortNext ==
  \/ putch_delayed \/ config_con \/ PolledStart \/ PolledStep \/ Sent \/ lser_irq
  \/ \E c \in {"x", "r"} : Type(c)
  \/ \E t \in Thread :
       \/ PortStep(t) \/ kprintf(t)
       \/ \E rw \in {"read", "write"}, resid \in 1..MaxChars : con_io(t, rw, resid)

PortFairness ==
  /\ WF_port_vars(PolledStep) /\ WF_port_vars(Sent) /\ WF_port_vars(lser_irq)
  /\ \A t \in Thread : WF_port_vars(PortStep(t))

PortSpec == PortInit /\ [][PortNext]_port_vars
PortFairSpec == PortSpec /\ PortFairness

----------------------------------------------------------------------------
\* "Not clear to write" never happens, and no character is overwritten while
\* it is being sent, whatever mixture of lser_write() and lser_writepolled()
\* there is.
ClearToWrite == wrong \subseteq {"overrun"}

\* The right to send, cs_wsem, is never lost or doubled: it is free, with a
\* thread that is about to write, or with the port until its interrupt, and
\* then the port is sending or has the interrupt pending, so that nobody
\* spins in lser_spin_until_write() for ever.
RightToSend ==
  /\ LET senders == {t \in Thread : con[t].at = "send"}
     IN  /\ cs_wsem + (IF ls_wbusy THEN 1 ELSE 0) + (IF senders = {} THEN 0 ELSE 1) = 1
         /\ \A t, u \in senders : t = u
  /\ ls_wbusy => sending \/ wirq \/ (polling # NULL /\ polling.at = "send")

\* As long as nothing is typed before the last character was taken, readers
\* get what was typed, once and in order.
PortInputIsExact ==
  "overrun" \notin wrong => Len(got) <= Len(typed) /\ got = SubSeq(typed, 1, Len(got))

Puts(t) == con[t].at = "putch"
HasPut(t) == con[t].at \in {"loop", "idle"}

\* Every character that putch_intr() is given is printed.
PutchReturns == \A t \in Thread : Puts(t) ~> HasPut(t)
=============================================================================
