------------------------------- MODULE LameBus -------------------------------
(***************************************************************************)
(* The bus, kern/dev/lamebus/lamebus.c: looking for cards at boot with the *)
(* generated autoconf.c and the attachment code of every driver, and       *)
(* passing interrupts to the drivers.                                      *)
(*                                                                         *)
(* Interrupts are on while devices are attached.  The timer's handler      *)
(* calls hardclock(), which may switch to another thread in the middle of  *)
(* lamebus_interrupt(); that thread may take interrupts of its own before  *)
(* the first one continues.                                                *)
(***************************************************************************)
EXTENDS Integers, Sequences, FiniteSets, FiniteSetsExt, SequencesExt

CONSTANTS
  Slot,         \* the slots of the bus, numbers; the controller is not one
  Card,         \* per slot: the kind of the card, or NULL
  Revision,     \* per slot: the revision of the card
  Thread,
  Boot,         \* the thread that boots the system
  NULL,
  DUDS,         \* dud interrupts in a row that are put up with
  MaxFail,      \* bound: attachments that fail, for lack of memory
  MaxGlitch     \* bound: times that a card without a driver, or none at all, interrupts

\* The drivers of cards: the revisions they support, whether they take
\* interrupts, and whether their config_...() can fail, for lack of memory.
attach_emu_to_lamebus == [kind |-> "emu", vers |-> 1..1, irq |-> TRUE, fails |-> TRUE]
attach_ltrace_to_lamebus == [kind |-> "ltrace", vers |-> 1..1, irq |-> FALSE, fails |-> FALSE]
attach_ltimer_to_lamebus == [kind |-> "ltimer", vers |-> 1..1, irq |-> TRUE, fails |-> FALSE]
attach_lrandom_to_lamebus == [kind |-> "lrandom", vers |-> 1..1, irq |-> FALSE, fails |-> FALSE]
attach_lhd_to_lamebus == [kind |-> "lhd", vers |-> 2..2, irq |-> TRUE, fails |-> TRUE]
attach_lser_to_lamebus == [kind |-> "lser", vers |-> 1..1, irq |-> TRUE, fails |-> FALSE]

\* autoconf_lamebus() looks for their cards in this order.
Drivers ==
  <<attach_emu_to_lamebus, attach_ltrace_to_lamebus, attach_ltimer_to_lamebus,
    attach_lrandom_to_lamebus, attach_lhd_to_lamebus, attach_lser_to_lamebus>>
Kinds == {d.kind : d \in Range(Drivers)}
Interrupting == {d.kind : d \in {d \in Range(Drivers) : d.irq}}

\* What config_...() of a generic device leaves: it is attached, or fails,
\* having made itself known or not.
config_beep == {"attached"}
config_rtclock == {"attached"}
config_random == {"attached", "known"}
config_con == {"attached", "known", "failed"}

\* What is attached to a device in turn.
attach_beep_to_ltimer == [kind |-> "beep", on |-> "ltimer", config |-> config_beep]
attach_rtclock_to_ltimer == [kind |-> "rtclock", on |-> "ltimer", config |-> config_rtclock]
attach_con_to_lser == [kind |-> "con", on |-> "lser", config |-> config_con]
attach_random_to_lrandom == [kind |-> "random", on |-> "lrandom", config |-> config_random]
attach_random_to_pseudorand == [kind |-> "random", on |-> "pseudorand", config |-> config_random]

Attachments ==
  {attach_beep_to_ltimer, attach_rtclock_to_ltimer, attach_con_to_lser,
   attach_random_to_lrandom, attach_random_to_pseudorand}
Generic == {a.kind : a \in Attachments}

VARIABLES
  ls_slotsinuse, ls_irqfuncs,   \* sets of slots
  unit,                         \* per slot: its number among those of its kind
  nextunit,                     \* per kind of device
  theone,                       \* the_console, the_clock, the_beep, the_random: whose it is
  hardclock,                    \* the slot whose lt_hardclock is set, once haveclock is
  boot,                         \* where autoconf_lamebus() is
  lines,                        \* slots that assert an interrupt
  handling,                     \* per thread: lamebus_interrupt() under way, or NULL
  cpu,                          \* the thread that runs
  duds,
  budget,                       \* failures and glitches so far
  spurious, panicked

vars == <<ls_slotsinuse, ls_irqfuncs, unit, nextunit, theone, hardclock, boot, lines, handling,
          cpu, duds, budget, spurious, panicked>>
attached == <<ls_slotsinuse, ls_irqfuncs, unit, nextunit, theone, hardclock, boot>>

Init ==
  /\ ls_slotsinuse = {} /\ ls_irqfuncs = {}                \* lamebus_init()
  /\ unit = [s \in Slot |-> NULL]
  /\ nextunit = [k \in Kinds \cup Generic |-> 0]
  /\ theone = [k \in Generic |-> NULL] /\ hardclock = NULL
  /\ boot = [driver |-> 1, at |-> "probe", slot |-> NULL]
  /\ lines = {} /\ handling = [t \in Thread |-> NULL] /\ cpu = Boot
  /\ duds = 0 /\ budget = [fail |-> 0, glitch |-> 0] /\ spurious = FALSE /\ panicked = FALSE

----------------------------------------------------------------------------
(* autoconf.c.  Driver is the one whose cards are looked for. *)

Driver == Drivers[boot.driver]
Kind == Driver.kind
Booting == boot.driver <= Len(Drivers) /\ cpu = Boot /\ handling[Boot] = NULL
NextKind == [driver |-> boot.driver + 1, at |-> "probe", slot |-> NULL]
still == <<lines, handling, cpu, duds, spurious>>

\* lamebus_probe(): the first of these is taken.
lamebus_probe(driver) ==
  {s \in Slot \ ls_slotsinuse : Card[s] = driver.kind /\ Revision[s] \in driver.vers}

\* attach_..._to_lamebus(): no card, or no memory for its softc, ends the
\* search for this kind.
Probe ==
  LET found == lamebus_probe(Driver)
  IN  /\ Booting /\ boot.at = "probe"
      /\ \/ /\ found = {} /\ boot' = NextKind /\ UNCHANGED budget
         \/ /\ found # {} /\ boot' = [boot EXCEPT !.at = "mark", !.slot = Min(found)]
            /\ UNCHANGED budget
         \/ /\ found # {} /\ budget.fail < MaxFail
            /\ budget' = [budget EXCEPT !.fail = @ + 1] /\ boot' = NextKind
      /\ UNCHANGED <<ls_slotsinuse, ls_irqfuncs, unit, nextunit, theone, hardclock, still, panicked>>

\* lamebus_mark().
Mark ==
  /\ Booting /\ boot.at = "mark"
  /\ panicked' = (boot.slot \in ls_slotsinuse)
  /\ ls_slotsinuse' = ls_slotsinuse \cup {boot.slot}
  /\ boot' = [boot EXCEPT !.at = IF Driver.irq THEN "interrupt" ELSE "config"]
  /\ UNCHANGED <<ls_irqfuncs, unit, nextunit, theone, hardclock, still, budget>>

lamebus_attach_interrupt ==
  /\ Booting /\ boot.at = "interrupt"
  /\ panicked' = (boot.slot \notin ls_slotsinuse \/ boot.slot \in ls_irqfuncs)
  /\ ls_irqfuncs' = ls_irqfuncs \cup {boot.slot}
  /\ boot' = [boot EXCEPT !.at = "config"]
  /\ UNCHANGED <<ls_slotsinuse, unit, nextunit, theone, hardclock, still, budget>>

\* What hangs on a device of this kind, each attached only once: the outcome
\* is res, where what finds no memory fails as well.  Making one known twice
\* is an assertion.
tryattach_generic(on) ==
  LET new == {a \in Attachments : a.on = on /\ nextunit[a.kind] <= 0}
  IN  \E res \in [{a.kind : a \in new} -> {"attached", "known", "failed"}] :
        LET left(r) == {k \in DOMAIN res : res[k] \in r}
            lost == Cardinality(left({"known", "failed"}))
        IN  /\ \A a \in new : res[a.kind] \in a.config \cup {"failed"}
            /\ budget.fail + lost <= MaxFail /\ budget' = [budget EXCEPT !.fail = @ + lost]
            /\ theone' = [k \in Generic |-> IF k \in left({"attached", "known"}) THEN on ELSE theone[k]]
            /\ panicked' = \E k \in left({"attached", "known"}) : theone[k] # NULL
            /\ nextunit' = [k \in DOMAIN nextunit |->
                              nextunit[k] + (IF k \in left({"attached"}) \cup {on} THEN 1 ELSE 0)]

\* The first timer does hardclock().
config_ltimer ==
  hardclock' = IF Kind = "ltimer" /\ hardclock = NULL THEN boot.slot ELSE hardclock

\* config_...(), and autoconf_...() for what hangs on the device.  If the
\* device fails, its slot stays marked and the search for its kind ends.
Config ==
  /\ Booting /\ boot.at = "config"
  /\ \/ /\ unit' = [unit EXCEPT ![boot.slot] = nextunit[Kind]]
        /\ tryattach_generic(Kind) /\ config_ltimer
        /\ boot' = [boot EXCEPT !.at = "probe"]
     \/ /\ Driver.fails
        /\ budget.fail < MaxFail /\ budget' = [budget EXCEPT !.fail = @ + 1]
        /\ boot' = NextKind
        /\ UNCHANGED <<unit, nextunit, theone, hardclock, panicked>>
  /\ UNCHANGED <<ls_slotsinuse, ls_irqfuncs, still>>

tryattach_to_lamebus == Probe \/ Mark \/ lamebus_attach_interrupt \/ Config

\* pseudoconfig(), after the bus: random numbers by software, if there is no
\* card for them.
pseudoconfig ==
  /\ boot.driver = Len(Drivers) + 1 /\ cpu = Boot /\ handling[Boot] = NULL
  /\ boot' = NextKind
  /\ tryattach_generic("pseudorand")
  /\ UNCHANGED <<ls_slotsinuse, ls_irqfuncs, unit, hardclock, still>>

----------------------------------------------------------------------------
(* Interrupts *)

\* A card that is attached wants attention; or, now and then, one that is
\* not, and then it does not stop.
Raise(s) ==
  /\ s \notin lines /\ Card[s] # NULL /\ lines' = lines \cup {s}
  /\ IF s \in ls_irqfuncs THEN UNCHANGED budget
     ELSE budget.glitch < MaxGlitch /\ budget' = [budget EXCEPT !.glitch = @ + 1]
  /\ UNCHANGED <<attached, handling, cpu, duds, spurious, panicked>>

\* lamebus_interrupt() begins: irqs is what the controller says.
Interrupt ==
  /\ handling[cpu] = NULL /\ lines # {}
  /\ handling' = [handling EXCEPT ![cpu] = [slot |-> 0, irqs |-> lines, duds |-> 0, in |-> FALSE]]
  /\ UNCHANGED <<attached, lines, cpu, duds, budget, spurious, panicked>>

\* "stray interrupt": it returns at once.
Stray ==
  /\ handling[cpu] = NULL /\ lines = {} /\ budget.glitch < MaxGlitch
  /\ budget' = [budget EXCEPT !.glitch = @ + 1] /\ duds' = duds + 1
  /\ UNCHANGED <<attached, lines, handling, cpu, spurious, panicked>>

h == handling[cpu]
Pending == {s \in h.irqs : s >= h.slot}
This == Min(Pending)

\* The next slot has no driver, or no handler.
Dud ==
  /\ h # NULL /\ ~h.in /\ Pending # {} /\ This \notin ls_slotsinuse \cap ls_irqfuncs
  /\ duds' = duds + 1
  /\ handling' = [handling EXCEPT ![cpu].slot = This + 1, ![cpu].duds = @ + 1]
  /\ UNCHANGED <<attached, lines, cpu, budget, spurious, panicked>>

\* ltimer_irq(): hardclock() may switch to another thread, once there is one.
ltimer_irq(s) == s = hardclock /\ boot.driver > Len(Drivers) + 1 /\ cpu' \in Thread

\* The handler of the next slot runs.
Call ==
  /\ h # NULL /\ ~h.in /\ Pending # {} /\ This \in ls_slotsinuse \cap ls_irqfuncs
  /\ spurious' = (spurious \/ This \notin lines)
  /\ lines' = lines \ {This}
  /\ handling' = [handling EXCEPT ![cpu].slot = This, ![cpu].in = TRUE]
  /\ UNCHANGED cpu \/ ltimer_irq(This)
  /\ UNCHANGED <<attached, duds, budget, panicked>>

bug_Restart ==                          \* the scan begins again after each handler
  /\ h # NULL /\ h.in
  /\ handling' = [handling EXCEPT ![cpu].in = FALSE, ![cpu].slot = 0, ![cpu].irqs = lines]
  /\ UNCHANGED <<attached, lines, cpu, duds, budget, spurious, panicked>>

\* "Reload the mask of pending IRQs - if we just called hardclock, it might
\* have changed under us."
Reload ==
  /\ h # NULL /\ h.in
  /\ handling' = [handling EXCEPT ![cpu].in = FALSE, ![cpu].slot = @ + 1, ![cpu].irqs = lines]
  /\ UNCHANGED <<attached, lines, cpu, duds, budget, spurious, panicked>>

\* The end: duds are forgotten when there was none this time; too many are a
\* panic.
Finish ==
  /\ h # NULL /\ ~h.in /\ Pending = {}
  /\ handling' = [handling EXCEPT ![cpu] = NULL]
  /\ duds' = IF h.duds = 0 THEN 0 ELSE duds
  /\ panicked' = (duds' > DUDS)
  /\ UNCHANGED <<attached, lines, cpu, budget, spurious>>

\* Threads also switch on their own.
Switch ==
  /\ boot.driver > Len(Drivers) + 1 /\ handling[cpu] = NULL /\ cpu' \in Thread \ {cpu}
  /\ UNCHANGED <<attached, lines, handling, duds, budget, spurious, panicked>>

Dispatch == Interrupt \/ Dud \/ Call \/ Reload \/ Finish
lamebus_interrupt == Dispatch \/ Stray

Next ==
  /\ ~panicked
  /\ lamebus_interrupt \/ tryattach_to_lamebus \/ pseudoconfig \/ Switch \/ \E s \in Slot : Raise(s)

Dispatches == Dispatch /\ ~panicked
SwitchTo(t) == Switch /\ cpu' = t /\ ~panicked

\* The processor takes interrupts and handles them; every thread gets to run.
Fairness ==
  WF_vars(Dispatches) /\ \A t \in Thread : SF_vars(SwitchTo(t))

Spec == Init /\ [][Next]_vars
FairSpec == Spec /\ Fairness

----------------------------------------------------------------------------
\* A handler is called only for a card that asks for it, although hardclock()
\* may let other threads handle the interrupts first.
NoSpuriousCall == ~spurious

\* A slot is taken by one driver at most, the units of a kind are numbered
\* from 0 without gaps, there is one console, one clock, one beep and one
\* source of random numbers, and as long as memory lasts none of the
\* assertions and panics about them is reached: only too many duds are.
AttachedOnce ==
  /\ panicked => duds > DUDS \/ budget.fail > 0
  /\ \A s \in Slot : unit[s] # NULL =>
       /\ s \in ls_slotsinuse /\ (Card[s] \in Interrupting) = (s \in ls_irqfuncs)
       /\ unit[s] < nextunit[Card[s]]
       /\ \A r \in Slot : unit[r] # NULL /\ r # s /\ Card[r] = Card[s] => unit[r] # unit[s]
  /\ \A k \in Generic : nextunit[k] <= 1 /\ (nextunit[k] = 1 => theone[k] # NULL)

\* When nothing has failed, boot leaves no supported card without a driver.
AllAttached ==
  (boot.driver > Len(Drivers) + 1 /\ budget.fail = 0 /\ ~panicked) =>
    /\ \A d \in Range(Drivers), s \in Slot :
         Card[s] = d.kind /\ Revision[s] \in d.vers => unit[s] # NULL
    /\ theone["random"] # NULL

Asks(s) == s \in lines /\ s \in ls_irqfuncs

\* A card with a driver that interrupts gets its handler called, also when
\* other cards keep interrupting, unless the system panics.
Attended == \A s \in Slot : Asks(s) ~> (s \notin lines \/ panicked)
=============================================================================
