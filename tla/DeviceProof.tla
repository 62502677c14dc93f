--------------------------- MODULE DeviceProof ----------------------------
(***************************************************************************)
(* Proofs about the devices: the console on the serial port (Console) and  *)
(* the disk (Lhd).  For each: what the driver and the device know of each  *)
(* other at every point, as an inductive invariant.                        *)
(***************************************************************************)
EXTENDS Console, Lhd, FiniteSets, TLAPS

----------------------------------------------------------------------------
(* The console *)

Sends(t) == con[t].at = "send"
HasChar(t) == con[t].at = "char"
Chars == {"x", "r", NULL}

\* What is known of the calls, and what there is before the console.
PortCalls ==
  /\ DOMAIN con = Thread
  /\ \A t \in Thread : "at" \in DOMAIN con[t]
  /\ ~the_console => polling = NULL /\ \A t \in Thread : ~Sends(t) /\ ~HasChar(t)

\* cs_wsem, a thread that is about to write, or the port has the right to
\* send.
OneSender ==
  /\ cs_wsem \in {0, 1} /\ ls_wbusy \in BOOLEAN
  /\ cs_wsem = 1 <=> (~ls_wbusy /\ \A t \in Thread : ~Sends(t))
  /\ ls_wbusy => \A t \in Thread : ~Sends(t)
  /\ \A t, u \in Thread : Sends(t) /\ Sends(u) => t = u

\* The port is sending or has its interrupt pending when it is busy, and
\* while lser_writepolled() spins.
PortBusy ==
  /\ sending \in BOOLEAN /\ wirq \in BOOLEAN
  /\ ~(sending /\ wirq)
  /\ polling = NULL => (ls_wbusy <=> sending \/ wirq)
  /\ polling # NULL =>
       /\ polling \in [at : {"first", "send", "last"}, irqpending : BOOLEAN]
       /\ polling.irqpending = ls_wbusy
       /\ polling.at = "first" => ls_wbusy
       /\ polling.at = "send" <=> ~(sending \/ wirq)

PortWrong == wrong \subseteq {"overrun"}

SendInv == PortCalls /\ OneSender /\ PortBusy /\ PortWrong

PortChars ==
  /\ cs_gotchar \in Chars /\ inchar \in Chars /\ rirq \in BOOLEAN
  /\ typed \in Seq(Chars) /\ got \in Seq(Chars)

\* A character is there for a reader, or on its way to one.
Waiting == cs_rsem = 1 \/ \E t \in Thread : HasChar(t)

OneWaiting ==
  /\ cs_rsem \in {0, 1}
  /\ cs_rsem = 1 => \A t \in Thread : ~HasChar(t)
  /\ \A t, u \in Thread : HasChar(t) /\ HasChar(u) => t = u

\* Of what was typed, got has the start; the rest is the character a reader
\* is to take and the one in the register.
InputSplit ==
  /\ Len(typed) = Len(got) + (IF Waiting THEN 1 ELSE 0) + (IF rirq THEN 1 ELSE 0)
  /\ \A i \in 1..Len(got) : got[i] = typed[i]
  /\ Waiting => cs_gotchar = typed[Len(got) + 1]
  /\ rirq => inchar = typed[Len(typed)]

PortInput == PortChars /\ ("overrun" \notin wrong => OneWaiting /\ InputSplit)

PortInv == SendInv /\ PortInput

\* Append(s, c) has the elements of s, then c.
LEMMA OneMore ==
  ASSUME NEW s \in Seq(Chars), NEW c \in Chars
  PROVE  /\ Append(s, c) \in Seq(Chars) /\ Len(Append(s, c)) = Len(s) + 1
         /\ Append(s, c)[Len(s) + 1] = c
         /\ \A k \in 1..Len(s) : Append(s, c)[k] = s[k]
  OBVIOUS

\* The console starts with nothing typed, nothing to send and cs_wsem free.
LEMMA PortStarts == PortInit => PortInv
  <1> SUFFICES ASSUME PortInit PROVE PortInv
    OBVIOUS
  <1> USE DEF PortInit, PortIdle
  <1>1. SendInv
    BY Zenon DEF SendInv, PortCalls, OneSender, PortBusy, PortWrong, Sends, HasChar
  <1>2. OneWaiting /\ ~Waiting
    BY DEF OneWaiting, Waiting, HasChar
  <1>3. PortChars
    <2>1. typed = <<>> /\ got = <<>> /\ cs_gotchar = NULL /\ inchar = NULL /\ rirq = FALSE
      OBVIOUS
    <2>2. NULL \in Chars /\ <<>> \in Seq(Chars) /\ FALSE \in BOOLEAN
      BY DEF Chars
    <2> QED
      BY ONLY <2>1, <2>2, Zenon DEF PortChars
  <1>4. InputSplit
    BY <1>2 DEF InputSplit
  <1> QED
    BY <1>1, <1>2, <1>3, <1>4 DEF PortInv, PortInput

\* Every step of a thread in con_io(), kprintf() and getch() that neither
\* sends nor takes a character leaves both alone.
LEMMA PortQuiet ==
  ASSUME PortInv, NEW t \in Thread, Running,
         UNCHANGED <<the_console, cs_wsem, port, input, polling, wrong>>,
         DOMAIN con' = Thread, \A u \in Thread \ {t} : con'[u] = con[u],
         "at" \in DOMAIN con'[t], ~Sends(t), ~Sends(t)', ~HasChar(t), ~HasChar(t)'
  PROVE  PortInv'
  <1>1. \A u \in Thread : (Sends(u)' <=> Sends(u)) /\ (HasChar(u)' <=> HasChar(u))
    BY DEF Sends, HasChar
  <1>2. PortCalls'
    BY <1>1 DEF PortInv, SendInv, PortCalls
  <1>3. OneSender'
    BY <1>1 DEF PortInv, SendInv, OneSender, port
  <1>4. PortBusy' /\ PortWrong'
    BY DEF PortInv, SendInv, PortBusy, PortWrong, port
  <1>5. PortInput'
    BY <1>1, Zenon DEF PortInv, PortInput, PortChars, OneWaiting, InputSplit, Waiting, input
  <1> QED
    BY <1>2, <1>3, <1>4, <1>5 DEF PortInv, SendInv

\* Every step of the console and of the serial port keeps the invariant.
LEMMA PortSteps ==
  ASSUME PortAssumption
  PROVE  PortInv /\ [PortNext]_port_vars => PortInv'
  <1> SUFFICES ASSUME PortInv, [PortNext]_port_vars PROVE PortInv'
    OBVIOUS
  <1> USE DEF PortInv, SendInv
  <1>1. CASE putch_delayed
    BY <1>1, Zenon DEF putch_delayed, port, input, PortCalls, OneSender, PortBusy,
                PortWrong, PortInput, PortChars, OneWaiting, InputSplit, Waiting, Sends, HasChar
  <1>2. CASE config_con
    <2>1. /\ DOMAIN con' = Thread /\ \A u \in Thread : "at" \in DOMAIN con'[u]
          /\ \A u \in Thread : ~Sends(u) /\ ~HasChar(u) /\ ~Sends(u)' /\ ~HasChar(u)'
          /\ the_console' /\ UNCHANGED <<cs_wsem, port, input, polling, wrong>>
      BY <1>2 DEF config_con, PortIdle, PortCalls, Sends, HasChar
    <2>2. PortCalls' /\ OneSender'
      BY <2>1 DEF PortCalls, OneSender, port
    <2>3. PortBusy' /\ PortWrong' /\ PortInput'
      BY <2>1, Zenon
         DEF PortBusy, PortWrong, PortInput, PortChars, OneWaiting, InputSplit, Waiting, port, input
    <2> QED
      BY <2>2, <2>3
  <1>3. CASE PolledStart
    <2>1. /\ Running /\ polling' = [at |-> IF ls_wbusy THEN "first" ELSE "send", irqpending |-> ls_wbusy]
          /\ UNCHANGED <<the_console, cs_wsem, port, input, con, wrong>>
      BY <1>3 DEF PolledStart
    <2>2. /\ polling' \in [at : {"first", "send", "last"}, irqpending : BOOLEAN]
          /\ polling'.irqpending = ls_wbusy /\ polling'.at = IF ls_wbusy THEN "first" ELSE "send"
      BY <2>1 DEF OneSender
    <2>3. PortBusy' /\ PortCalls'
      BY <2>1, <2>2 DEF PortBusy, Running, port, PortCalls
    <2>4. OneSender' /\ PortWrong' /\ PortInput'
      BY <2>1, Zenon
         DEF OneSender, PortWrong, PortInput, PortChars, OneWaiting, InputSplit, Waiting, Sends,
             HasChar, port, input
    <2> QED
      BY <2>3, <2>4
  <1>4. CASE PolledStep
    <2>1. /\ polling # NULL
          /\ UNCHANGED <<the_console, cs_wsem, ls_wbusy, input, con>>
      BY <1>4 DEF PolledStep
    <2>2. PortBusy' /\ UNCHANGED wrong
      <3>1. CASE polling.at = "first" /\ wirq /\ wirq' = FALSE
                 /\ polling' = [polling EXCEPT !.at = "send"] /\ UNCHANGED <<sending, wrong>>
        BY <3>1, <2>1, Zenon DEF PortBusy
      <3>2. CASE polling.at = "send" /\ SendChar /\ UNCHANGED wirq
                 /\ polling' = [polling EXCEPT !.at = "last"]
        BY <3>2, <2>1 DEF PortBusy, SendChar
      <3>3. CASE polling.at = "last" /\ wirq /\ wirq' = polling.irqpending
                 /\ polling' = NULL /\ UNCHANGED <<sending, wrong>>
        BY <3>3, <2>1 DEF PortBusy
      <3> QED
        BY <1>4, <3>1, <3>2, <3>3, Zenon DEF PolledStep
    <2>3. OneSender' /\ PortWrong' /\ PortInput' /\ PortCalls'
      BY <2>1, <2>2, Zenon
         DEF OneSender, PortWrong, PortInput, PortChars, OneWaiting, InputSplit, Waiting,
             PortCalls, Sends, HasChar, input
    <2> QED
      BY <2>2, <2>3
  <1>5. CASE Sent
    <2>1. PortBusy'
      BY <1>5, Zenon DEF Sent, PortBusy
    <2>2. OneSender' /\ PortWrong' /\ PortInput' /\ PortCalls'
      BY <1>5, Zenon
         DEF Sent, OneSender, PortWrong, PortInput, PortChars, OneWaiting, InputSplit, Waiting,
             PortCalls, Sends, HasChar, input
    <2> QED
      BY <2>1, <2>2
  <1>6. CASE lser_irq
    <2>1. PortBusy' /\ PortCalls'
      BY <1>6, Zenon DEF lser_irq, Running, PortBusy, PortCalls, Sends, HasChar
    <2>2. OneSender'
      <3>1. \A u \in Thread : Sends(u)' <=> Sends(u)
        BY <1>6 DEF lser_irq, Sends
      <3>2. CASE wirq
        <4>1. ls_wbusy /\ ls_wbusy' = FALSE /\ cs_wsem' = cs_wsem + 1
          BY <1>6, <3>2 DEF lser_irq, con_start, Running, PortBusy
        <4>2. cs_wsem = 0 /\ \A t \in Thread : ~Sends(t)
          BY <4>1 DEF OneSender
        <4>3. cs_wsem' = 1 /\ ~ls_wbusy' /\ \A t \in Thread : ~Sends(t)'
          BY <3>1, <4>1, <4>2
        <4> QED
          BY <4>1, <4>3, Zenon DEF OneSender
      <3>3. CASE ~wirq
        BY <1>6, <3>1, <3>3 DEF lser_irq, OneSender
      <3> QED
        BY <3>2, <3>3
    <2>3. PortWrong'
      BY <1>6, Zenon DEF lser_irq, con_input, PortWrong
    <2>4. PortInput'
      <3>1. PortChars' /\ \A u \in Thread : HasChar(u)' <=> HasChar(u)
        BY <1>6, Zenon DEF lser_irq, con_input, PortInput, PortChars, HasChar
      <3>2. CASE ~rirq
        BY <1>6, <3>1, <3>2 DEF lser_irq, PortInput, OneWaiting, InputSplit, Waiting
      <3>3. ASSUME rirq, "overrun" \notin wrong' PROVE OneWaiting' /\ InputSplit'
        <4>1. /\ cs_gotchar' = inchar /\ cs_rsem' = cs_rsem + 1 /\ ~(cs_rsem > 0)
              /\ \A t \in Thread : ~HasChar(t)
              /\ wrong' = wrong /\ rirq' = FALSE /\ UNCHANGED <<typed, got>>
          BY <1>6, <3>3 DEF lser_irq, con_input, HasChar
        <4>2. cs_rsem = 0 /\ ~Waiting /\ Waiting' /\ OneWaiting'
          BY <3>1, <3>3, <4>1 DEF PortInput, OneWaiting, Waiting
        <4>3. InputSplit
          BY <3>3, <4>1 DEF PortInput
        <4> QED
          BY <3>3, <4>1, <4>2, <4>3 DEF InputSplit, PortInput, PortChars
      <3> QED
        BY <3>1, <3>2, <3>3 DEF PortInput, PortChars
    <2> QED
      BY <2>1, <2>2, <2>3, <2>4
  <1>7. ASSUME NEW c \in {"x", "r"}, Type(c) PROVE PortInv'
    <2>1. PortCalls' /\ OneSender' /\ PortBusy' /\ PortWrong'
      BY <1>7 DEF Type, port, PortCalls, OneSender, PortBusy, PortWrong, Sends, HasChar
    <2>2. PortInput'
      <3>1. PortChars'
        BY <1>7 DEF Type, PortInput, PortChars, Chars
      <3>2. (OneWaiting => OneWaiting') /\ (Waiting' <=> Waiting)
        BY <1>7 DEF Type, OneWaiting, Waiting, HasChar
      <3>3. InputSplit => InputSplit'
        BY <1>7, <3>2 DEF Type, InputSplit, PortInput, PortChars, Chars
      <3> QED
        BY <1>7, <3>1, <3>2, <3>3 DEF Type, PortInput
    <2> QED
      BY <2>1, <2>2
  <1>9. ASSUME NEW t \in Thread, Loop(t) PROVE PortInv'
    BY <1>9, PortQuiet DEF Loop, PortGoto, PortReturn, PortIdle, PortCalls, Sends, HasChar
  <1>10. ASSUME NEW t \in Thread, Printed(t) PROVE PortInv'
    <2>1. PortReturn(t) \/ PortGoto(t, "loop")
      BY <1>10 DEF Printed
    <2>2. /\ Running /\ con[t].at = "putch"
          /\ UNCHANGED <<the_console, cs_wsem, port, input, polling, wrong>>
      BY <1>10 DEF Printed
    <2> QED
      BY <2>1, <2>2, PortQuiet DEF PortGoto, PortReturn, PortIdle, PortCalls, Sends, HasChar
  <1>11. ASSUME NEW t \in Thread, kprintf(t) PROVE PortInv'
    BY <1>11, PortQuiet DEF kprintf, StartCall, PortCalls, Sends, HasChar
  <1>17. ASSUME NEW t \in Thread, NEW rw, NEW resid, con_io(t, rw, resid) PROVE PortInv'
    BY <1>17, PortQuiet DEF con_io, StartCall, PortCalls, Sends, HasChar
  <1>12. ASSUME NEW t \in Thread, Putch(t) PROVE PortInv'
    <2>1. /\ DOMAIN con' = Thread /\ \A u \in Thread : "at" \in DOMAIN con'[u]
          /\ \A u \in Thread \ {t} : con'[u] = con[u]
          /\ Sends(t)' /\ ~HasChar(t) /\ ~HasChar(t)' /\ the_console
          /\ cs_wsem > 0 /\ cs_wsem' = cs_wsem - 1
          /\ UNCHANGED <<the_console, port, input, polling, wrong>>
      BY <1>12 DEF Putch, Running, PortGoto, PortCalls, Sends, HasChar
    <2>2. PortCalls' /\ PortBusy' /\ PortWrong'
      BY <2>1 DEF PortCalls, PortBusy, PortWrong, port
    <2>3. OneSender'
      BY <2>1 DEF OneSender, Sends, port
    <2>4. PortInput'
      BY <2>1, Zenon DEF PortInput, PortChars, OneWaiting, InputSplit, Waiting, HasChar, input
    <2> QED
      BY <2>2, <2>3, <2>4
  <1>13. ASSUME NEW t \in Thread, lser_write(t) PROVE PortInv'
    <2>1. /\ DOMAIN con' = Thread /\ \A u \in Thread : "at" \in DOMAIN con'[u]
          /\ \A u \in Thread \ {t} : con'[u] = con[u]
          /\ Sends(t) /\ ~Sends(t)' /\ ~HasChar(t) /\ ~HasChar(t)' /\ the_console /\ polling = NULL
          /\ UNCHANGED <<the_console, cs_wsem, wirq, input, polling>>
      BY <1>13 DEF lser_write, Running, PortCalls, Sends, HasChar
    <2>2. ~ls_wbusy /\ ~sending /\ ls_wbusy' = TRUE /\ sending' = TRUE /\ wrong' = wrong
      BY <1>13, <2>1 DEF lser_write, SendChar, OneSender, PortBusy
    <2>3. PortCalls' /\ PortBusy' /\ PortWrong'
      BY <2>1, <2>2 DEF PortCalls, PortBusy, PortWrong, OneSender
    <2>4. OneSender'
      BY <2>1, <2>2 DEF OneSender, Sends
    <2>5. PortInput'
      BY <2>1, <2>2, Zenon DEF PortInput, PortChars, OneWaiting, InputSplit, Waiting, HasChar, input
    <2> QED
      BY <2>3, <2>4, <2>5
  <1>14. ASSUME NEW t \in Thread, Getch(t) PROVE PortInv'
    <2>1. /\ DOMAIN con' = Thread /\ \A u \in Thread : "at" \in DOMAIN con'[u]
          /\ \A u \in Thread \ {t} : con'[u] = con[u]
          /\ ~Sends(t) /\ ~Sends(t)' /\ ~HasChar(t) /\ HasChar(t)' /\ the_console
          /\ cs_rsem > 0 /\ cs_rsem' = cs_rsem - 1
          /\ UNCHANGED <<the_console, cs_wsem, port, cs_gotchar, rirq, inchar, typed, got, polling,
                         wrong>>
      BY <1>14 DEF Getch, Running, PortGoto, PortCalls, Sends, HasChar
    <2>2. PortCalls' /\ PortBusy' /\ PortWrong'
      BY <2>1 DEF PortCalls, PortBusy, PortWrong, port
    <2>3. OneSender'
      BY <2>1 DEF OneSender, Sends, port
    <2>4. PortInput'
      <3>1. PortChars'
        BY <2>1 DEF PortInput, PortChars
      <3>2. OneWaiting => OneWaiting' /\ Waiting /\ Waiting'
        BY <2>1 DEF OneWaiting, Waiting, HasChar
      <3>3. InputSplit /\ Waiting /\ Waiting' => InputSplit'
        BY <2>1 DEF InputSplit
      <3> QED
        BY <2>1, <3>1, <3>2, <3>3, Zenon DEF PortInput
    <2> QED
      BY <2>2, <2>3, <2>4
  <1>15. ASSUME NEW t \in Thread, Take(t) PROVE PortInv'
    <2>1. /\ DOMAIN con' = Thread /\ \A u \in Thread : "at" \in DOMAIN con'[u]
          /\ \A u \in Thread \ {t} : con'[u] = con[u]
          /\ ~Sends(t) /\ ~Sends(t)' /\ HasChar(t) /\ ~HasChar(t)' /\ the_console
          /\ got' = Append(got, cs_gotchar)
          /\ UNCHANGED <<the_console, cs_wsem, port, cs_rsem, cs_gotchar, rirq, inchar, typed,
                         polling, wrong>>
      BY <1>15 DEF Take, Running, PortReturn, PortIdle, PortCalls, Sends, HasChar
    <2>2. PortCalls' /\ PortBusy' /\ PortWrong'
      BY <2>1 DEF PortCalls, PortBusy, PortWrong, port
    <2>3. OneSender'
      BY <2>1 DEF OneSender, Sends, port
    <2>4. PortInput'
      <3>1. PortChars
        BY DEF PortInput
      <3>2. cs_gotchar \in Chars /\ got \in Seq(Chars)
        BY <3>1 DEF PortChars
      <3>3. /\ got' \in Seq(Chars) /\ Len(got') = Len(got) + 1 /\ got'[Len(got) + 1] = cs_gotchar
            /\ \A k \in 1..Len(got) : got'[k] = got[k]
        BY <2>1, <3>2, OneMore
      <3>4. PortChars'
        BY <2>1, <3>1, <3>3 DEF PortChars
      <3>5. OneWaiting => OneWaiting' /\ Waiting /\ ~Waiting'
        BY <2>1 DEF OneWaiting, Waiting, HasChar
      <3>6. ASSUME InputSplit, Waiting, ~Waiting' PROVE InputSplit'
        <4>1. Len(got) \in Nat
          BY <3>2
        <4>2. Len(typed') = Len(got') + (IF Waiting' THEN 1 ELSE 0) + (IF rirq' THEN 1 ELSE 0)
          BY <2>1, <3>3, <3>6, <4>1 DEF InputSplit
        <4>3. \A k \in 1..Len(got') : got'[k] = typed'[k]
          BY <2>1, <3>3, <3>6, <4>1 DEF InputSplit
        <4> QED
          BY <2>1, <3>6, <4>2, <4>3 DEF InputSplit
      <3> QED
        BY <2>1, <3>4, <3>5, <3>6, Zenon DEF PortInput
    <2> QED
      BY <2>2, <2>3, <2>4
  <1>16. CASE UNCHANGED port_vars
    BY <1>16, Zenon
       DEF port_vars, port, input, PortCalls, OneSender, PortBusy, PortWrong, PortInput, PortChars,
                 OneWaiting, InputSplit, Waiting, Sends, HasChar
  <1> QED
    BY <1>1, <1>2, <1>3, <1>4, <1>5, <1>6, <1>7, <1>9, <1>10, <1>11, <1>12, <1>13, <1>14,
       <1>15, <1>16, <1>17
       DEF PortNext, PortStep

\* Readers get what was typed, once and in order, unless a character came
\* before the one before it was taken (con_input(), getch_intr(), con_io()).
THEOREM PortInputExact == PortSpec => []PortInputIsExact
  <1>1. PortInv => PortInputIsExact
    <2> SUFFICES ASSUME PortInv, "overrun" \notin wrong
                 PROVE  Len(got) <= Len(typed) /\ got = SubSeq(typed, 1, Len(got))
      BY DEF PortInputIsExact
    <2> DEFINE n == Len(got)
    <2>1. /\ got \in Seq(Chars) /\ typed \in Seq(Chars) /\ n \in Nat /\ n <= Len(typed)
          /\ \A i \in 1..n : got[i] = typed[i]
      <3>1. PortChars /\ InputSplit
        BY DEF PortInv, PortInput
      <3>2. Len(got) \in Nat /\ Len(typed) \in Nat
        BY <3>1 DEF PortChars
      <3> DEFINE a == IF Waiting THEN 1 ELSE 0
                 b == IF rirq THEN 1 ELSE 0
      <3>3. a \in Nat /\ b \in Nat /\ Len(typed) = Len(got) + a + b
        BY <3>1 DEF InputSplit
      <3> HIDE DEF a, b
      <3>4. Len(got) <= Len(typed)
        BY ONLY <3>2, <3>3
      <3>5. \A i \in 1..n : got[i] = typed[i]
        BY <3>1, Zenon DEF InputSplit
      <3> QED
        BY <3>1, <3>2, <3>4, <3>5 DEF PortChars
    <2> HIDE DEF n
    <2>2. \A i \in 1..n : typed[i] \in Chars
      BY <2>1
    <2>3. /\ SubSeq(typed, 1, n) \in Seq(Chars) /\ Len(SubSeq(typed, 1, n)) = n
          /\ \A i \in 1..n : SubSeq(typed, 1, n)[i] = typed[i]
      BY <2>1, <2>2
    <2> QED
      BY <2>1, <2>3 DEF n
  <1> QED
    BY PortAssumption, PortStarts, PortSteps, <1>1, PTL DEF PortSpec

\* lser_write() never finds the port busy, and no character is overwritten
\* while it is being sent, whatever lser_writepolled() does in between.
THEOREM PortClearToWrite == PortSpec => []ClearToWrite
  <1>1. PortInv => ClearToWrite
    BY DEF PortInv, SendInv, PortWrong, ClearToWrite
  <1> QED
    BY PortAssumption, PortStarts, PortSteps, <1>1, PTL DEF PortSpec

\* The right to send is neither lost nor doubled between putch_intr(),
\* lser_irq() and con_start().
THEOREM PortRightToSend == PortSpec => []RightToSend
  <1> DEFINE senders == {t \in Thread : con[t].at = "send"}
  <1>1. ASSUME PortInv PROVE RightToSend
    <2>1. ls_wbusy => sending \/ wirq \/ (polling # NULL /\ polling.at = "send")
      BY <1>1, Zenon DEF PortInv, SendInv, PortBusy
    <2>2. \A t, u \in senders : t = u
      BY <1>1 DEF PortInv, SendInv, OneSender, Sends
    <2>3. cs_wsem + (IF ls_wbusy THEN 1 ELSE 0) + (IF senders = {} THEN 0 ELSE 1) = 1
      <3>1. CASE senders = {}
        BY <1>1, <3>1 DEF PortInv, SendInv, OneSender, Sends
      <3>2. CASE senders # {}
        BY <1>1, <3>2 DEF PortInv, SendInv, OneSender, Sends
      <3> QED
        BY <3>1, <3>2
    <2> QED
      BY <2>1, <2>2, <2>3 DEF RightToSend
  <1> QED
    BY PortAssumption, PortStarts, PortSteps, <1>1, PTL DEF PortSpec

----------------------------------------------------------------------------
(* The disk *)

\* A thread that has the disk: it is past P(lh_clear).
Using(t) == io[t].at \notin {"idle", "clear"}
Ended == {"OK", "INVSECT", "MEDIA"}
SectorNumbers == {0} \cup {Word(n) : n \in Int}

DiskPlaces == {"idle", "clear", "fill", "start", "done", "result"}
DiskCalls == [at : DiskPlaces, write : BOOLEAN, sector : SectorNumbers, len : Int, i : Int]

DiskTypes ==
  /\ lh_done \in Nat
  /\ status \in {"IDLE", "WORKING"} \cup Ended
  /\ io \in [Thread -> DiskCalls]
  /\ DOMAIN disk = Sector

\* lh_clear is a lock.
OneUser ==
  /\ lh_clear \in {0, 1}
  /\ lh_clear = 1 <=> \A t \in Thread : ~Using(t)
  /\ \A t, u \in Thread : Using(t) /\ Using(u) => t = u

\* The result is the one of t, and so are the data.
ResultOf(t) == lh_result.of = t /\ (lh_result.err = "ok" => lh_buf = disk[regs.sector])

\* How far the operation is that the disk has been asked for.
Stage ==
  /\ status = "OK" => lh_buf = disk[regs.sector]
  /\ (status = "IDLE" /\ lh_done = 0) \/ \E t \in Thread : io[t].at = "done"
  /\ \A t \in Thread : io[t].at = "done" =>
       \/ status # "IDLE" /\ lh_done = 0 /\ regs.of = t
       \/ status = "IDLE" /\ lh_done = 1 /\ ResultOf(t)
  /\ \A t \in Thread : io[t].at = "result" => ResultOf(t)

DiskInv == DiskTypes /\ OneUser /\ Stage

\* A thread that does not use the disk is in a state the types allow.
LEMMA IdleCall == DiskIdle \in DiskCalls
  BY DEF DiskIdle, DiskCalls, SectorNumbers, DiskPlaces

\* Going on to place w changes the caller's own record and nothing else of it.
LEMMA DiskMoves ==
  ASSUME NEW t \in Thread, NEW w \in DiskPlaces, DiskTypes, DiskGoto(t, w)
  PROVE  \E c \in DiskCalls : io' = [io EXCEPT ![t] = c] /\ c.at = w
  <1> DEFINE c == [io[t] EXCEPT !.at = w]
  <1>1. c \in DiskCalls /\ c.at = w
    BY DEF DiskTypes, DiskCalls
  <1>2. io' = [io EXCEPT ![t] = c]
    BY DEF DiskGoto, DiskTypes
  <1> QED
    BY <1>1, <1>2, Zenon

\* lhd_attach() leaves the disk free and nothing under way.
LEMMA DiskStarts == DiskInit => DiskInv
  <1> SUFFICES ASSUME DiskInit PROVE DiskInv
    OBVIOUS
  <1>1. DiskIdle \in DiskCalls
    BY IdleCall
  <1> QED
    BY <1>1 DEF DiskInit, DiskInv, DiskTypes, OneUser, Stage, Using, Ended, DiskIdle, Sector

\* A thread moves on and keeps its hands off what the others need.
LEMMA DiskSteps ==
  ASSUME DiskAssumption
  PROVE  DiskInv /\ [DiskNext]_disk_vars => DiskInv'
  <1> SUFFICES ASSUME DiskInv, [DiskNext]_disk_vars PROVE DiskInv'
    OBVIOUS
  <1> USE DEF DiskInv
  <1>1. CASE Work
    BY <1>1, Zenon DEF Work, DiskTypes, OneUser, Stage, Using, Ended, ResultOf, Sector
  <1>2. CASE lhd_irq
    <2>1. PICK t \in Thread : io[t].at = "done"
      BY <1>2 DEF lhd_irq, Stage, Ended
    <2>2. /\ lh_done' = 1 /\ status' = "IDLE" /\ lh_result'.of = t
          /\ UNCHANGED <<lh_clear, lh_buf, regs, disk, io>>
          /\ lh_result'.err = "ok" => lh_buf = disk[regs.sector]
      BY <1>2, <2>1 DEF lhd_irq, lhd_iodone, lhd_code_to_errno, Stage, DiskTypes, Ended
    <2>3. DiskTypes' /\ OneUser'
      BY <2>2 DEF DiskTypes, OneUser, Using, Sector
    <2>4. \A u \in Thread : Using(u) => u = t
      BY <2>1 DEF OneUser, Using
    <2>5. Stage'
      BY <2>1, <2>2, <2>4 DEF Stage, ResultOf, Using
    <2> QED
      BY <2>3, <2>5
  <1>3. ASSUME NEW t \in Thread, Clear(t) PROVE DiskInv'
    <2>1. /\ io[t].at = "clear" /\ lh_clear = 1 /\ lh_clear' = 0
          /\ UNCHANGED <<lh_done, lh_result, lh_buf, status, regs, disk>>
      <3>1. /\ io[t].at = "clear" /\ lh_clear > 0 /\ lh_clear' = lh_clear - 1
            /\ UNCHANGED <<lh_done, lh_result, lh_buf, status, regs, disk>>
        BY <1>3, Zenon DEF Clear
      <3>2. lh_clear \in {0, 1}
        BY Zenon DEF OneUser
      <3> QED
        BY <3>1, <3>2
    <2>2. PICK c \in DiskCalls : io' = [io EXCEPT ![t] = c] /\ c.at \in {"fill", "start"}
      BY <1>3, DiskMoves DEF Clear, DiskPlaces
    <2>3. DiskTypes'
      BY <2>1, <2>2 DEF DiskTypes, Sector
    <2>4. \A u \in Thread : u # t => io'[u] = io[u] /\ ~Using(u)
      BY <2>1, <2>2 DEF OneUser, DiskTypes, Using
    <2>5. io'[t] = c
      BY <2>2 DEF DiskTypes
    <2>6. OneUser'
      BY <2>1, <2>2, <2>4, <2>5 DEF OneUser, Using
    <2>7. Stage'
      BY <2>1, <2>2, <2>4, <2>5 DEF Stage, Using, ResultOf, DiskTypes
    <2> QED
      BY <2>3, <2>6, <2>7
  <1>4. ASSUME NEW t \in Thread, Fill(t) PROVE DiskInv'
    <2>1. /\ io[t].at = "fill"
          /\ UNCHANGED <<lh_clear, lh_done, lh_result, status, regs, disk>>
      BY <1>4 DEF Fill
    <2>2. PICK c \in DiskCalls : io' = [io EXCEPT ![t] = c] /\ c.at = "start"
      BY <1>4, DiskMoves DEF Fill, DiskPlaces
    <2>3. DiskTypes'
      BY <2>1, <2>2 DEF DiskTypes, Sector
    <2>4. \A u \in Thread : u # t => io'[u] = io[u] /\ ~Using(u)
      BY <2>1, <2>2 DEF OneUser, DiskTypes, Using
    <2>5. io'[t] = c
      BY <2>2 DEF DiskTypes
    <2>6. OneUser'
      BY <2>1, <2>2, <2>4, <2>5 DEF OneUser, Using
    <2>7. Stage'
      BY <2>1, <2>2, <2>4, <2>5 DEF Stage, Using, ResultOf, DiskTypes
    <2> QED
      BY <2>3, <2>6, <2>7
  <1>5. ASSUME NEW t \in Thread, FillFails(t) PROVE DiskInv'
    <2>1. /\ io[t].at = "fill" /\ lh_clear' = lh_clear + 1
          /\ UNCHANGED <<lh_done, lh_result, lh_buf, status, regs, disk>>
      BY <1>5, Zenon DEF FillFails
    <2>2. PICK c \in DiskCalls : io' = [io EXCEPT ![t] = c] /\ c.at = "idle"
      BY <1>5, IdleCall, Zenon DEF FillFails, DiskReturn, DiskIdle
    <2>3. DiskTypes'
      BY <2>1, <2>2 DEF DiskTypes, Sector
    <2>4. \A u \in Thread : u # t => io'[u] = io[u] /\ ~Using(u)
      BY <2>1, <2>2 DEF OneUser, DiskTypes, Using
    <2>5. io'[t] = c
      BY <2>2 DEF DiskTypes
    <2>6. OneUser'
      BY <2>1, <2>2, <2>4, <2>5 DEF OneUser, Using
    <2>7. Stage'
      BY <2>1, <2>2, <2>4, <2>5 DEF Stage, Using, ResultOf, DiskTypes
    <2> QED
      BY <2>3, <2>6, <2>7
  <1>6. ASSUME NEW t \in Thread, StartIO(t) PROVE DiskInv'
    <2>1. /\ io[t].at = "start" /\ status' = "WORKING" /\ regs'.of = t
          /\ UNCHANGED <<lh_clear, lh_done, lh_result, lh_buf, disk>>
      BY <1>6, Zenon DEF StartIO
    <2>2. PICK c \in DiskCalls : io' = [io EXCEPT ![t] = c] /\ c.at = "done"
      BY <1>6, DiskMoves DEF StartIO, DiskPlaces
    <2>3. DiskTypes'
      BY <2>1, <2>2 DEF DiskTypes, Sector
    <2>4. \A u \in Thread : u # t => io'[u] = io[u] /\ ~Using(u)
      BY <2>1, <2>2 DEF OneUser, DiskTypes, Using
    <2>5. io'[t] = c
      BY <2>2 DEF DiskTypes
    <2>6. OneUser'
      BY <2>1, <2>2, <2>4, <2>5 DEF OneUser, Using
    <2>7. Stage'
      BY <2>1, <2>2, <2>4, <2>5 DEF Stage, Using, ResultOf, DiskTypes
    <2> QED
      BY <2>3, <2>6, <2>7
  <1>7. ASSUME NEW t \in Thread, Done(t) PROVE DiskInv'
    <2>1. /\ io[t].at = "done" /\ lh_done > 0 /\ lh_done' = lh_done - 1
          /\ UNCHANGED <<lh_clear, lh_result, lh_buf, status, regs, disk>>
      BY <1>7, Zenon DEF Done
    <2>2. PICK c \in DiskCalls : io' = [io EXCEPT ![t] = c] /\ c.at = "result"
      BY <1>7, DiskMoves DEF Done, DiskPlaces
    <2>3. DiskTypes'
      BY <2>1, <2>2 DEF DiskTypes, Sector
    <2>4. \A u \in Thread : u # t => io'[u] = io[u] /\ ~Using(u)
      BY <2>1, <2>2 DEF OneUser, DiskTypes, Using
    <2>5. io'[t] = c
      BY <2>2 DEF DiskTypes
    <2>6. OneUser'
      BY <2>1, <2>2, <2>4, <2>5 DEF OneUser, Using
    <2>7. Stage'
      BY <2>1, <2>2, <2>4, <2>5 DEF Stage, Using, ResultOf, DiskTypes
    <2> QED
      BY <2>3, <2>6, <2>7
  <1>8. ASSUME NEW t \in Thread, Finish(t) PROVE DiskInv'
    <2>1. /\ io[t].at = "result" /\ lh_clear' = lh_clear + 1
          /\ UNCHANGED <<lh_done, lh_result, lh_buf, status, regs, disk>>
      BY <1>8 DEF Finish
    <2>2. PICK c \in DiskCalls : io' = [io EXCEPT ![t] = c] /\ c.at \in {"idle", "clear"}
      <3>1. CASE DiskReturn(t)
        BY <3>1, IdleCall, Zenon DEF DiskReturn, DiskIdle
      <3>2. CASE io' = [io EXCEPT ![t] = [io[t] EXCEPT !.i = io[t].i + 1, !.at = "clear"]]
        <4> DEFINE c == [io[t] EXCEPT !.i = io[t].i + 1, !.at = "clear"]
        <4>0. io[t] \in DiskCalls
          BY DEF DiskTypes
        <4> DEFINE d == [io[t] EXCEPT !.i = io[t].i + 1]
        <4>1. d \in DiskCalls
          BY <4>0 DEF DiskCalls
        <4>2. c = [d EXCEPT !.at = "clear"]
          BY <4>0 DEF DiskCalls
        <4> HIDE DEF d
        <4>3. c \in DiskCalls /\ c.at = "clear"
          BY <4>1, <4>2, Zenon DEF DiskCalls, DiskPlaces
        <4> HIDE DEF c
        <4> QED
          BY <4>3, <3>2, Zenon DEF c
      <3> QED
        BY <1>8, <3>1, <3>2 DEF Finish
    <2>3. DiskTypes'
      BY <2>1, <2>2 DEF DiskTypes, Sector
    <2>4. \A u \in Thread : u # t => io'[u] = io[u] /\ ~Using(u)
      BY <2>1, <2>2 DEF OneUser, DiskTypes, Using
    <2>5. io'[t] = c
      BY <2>2 DEF DiskTypes
    <2>6. OneUser'
      BY <2>1, <2>2, <2>4, <2>5 DEF OneUser, Using
    <2>7. Stage'
      BY <2>1, <2>2, <2>4, <2>5 DEF Stage, Using, ResultOf, DiskTypes
    <2> QED
      BY <2>3, <2>6, <2>7
  <1>9. ASSUME NEW t \in Thread, NEW write \in BOOLEAN, NEW offset \in Offsets,
               NEW resid \in 0..MaxLen, Begin(t, write, offset, resid)
        PROVE  DiskInv'
    <2>1. /\ io[t].at = "idle"
          /\ UNCHANGED <<lh_clear, lh_done, lh_result, lh_buf, status, regs, disk>>
      BY <1>9 DEF Begin
    <2>2. PICK c \in DiskCalls : io' = [io EXCEPT ![t] = c] /\ c.at \in {"idle", "clear"}
      <3>1. CASE io' = [io EXCEPT ![t] = DiskIdle]
        BY <3>1, IdleCall, Zenon DEF DiskIdle
      <3>2. CASE \E sector \in SectorNumbers, len \in Int :
                   io' = [io EXCEPT ![t] = [at |-> "clear", write |-> write, sector |-> sector,
                                                len |-> len, i |-> 0]]
        <4>1. PICK sector \in SectorNumbers, len \in Int :
                io' = [io EXCEPT ![t] = [at |-> "clear", write |-> write, sector |-> sector,
                                             len |-> len, i |-> 0]]
          BY <3>2, Zenon
        <4> DEFINE c == [at |-> "clear", write |-> write, sector |-> sector, len |-> len, i |-> 0]
        <4>2. c \in DiskCalls /\ c.at = "clear"
          BY DEF DiskCalls, DiskPlaces
        <4> HIDE DEF c
        <4> QED
          BY <4>1, <4>2, Zenon DEF c
      <3>3. Word(offset \div 2) \in SectorNumbers /\ resid \div 2 \in Int
        BY DEF SectorNumbers
      <3> QED
        BY <1>9, <3>1, <3>2, <3>3 DEF Begin, DiskReturn, LHD_SECTSIZE
    <2>3. DiskTypes'
      BY <2>1, <2>2 DEF DiskTypes, Sector
    <2>4. \A u \in Thread : u # t => io'[u] = io[u]
      BY <2>2 DEF DiskTypes
    <2>5. io'[t] = c
      BY <2>2 DEF DiskTypes
    <2>6. OneUser'
      BY <2>1, <2>2, <2>4, <2>5 DEF OneUser, Using
    <2>7. Stage'
      BY <2>1, <2>2, <2>4, <2>5, Zenon DEF Stage, Using, ResultOf, DiskTypes
    <2> QED
      BY <2>3, <2>6, <2>7
  <1>10. CASE UNCHANGED disk_vars
    BY <1>10, Zenon DEF disk_vars, DiskTypes, OneUser, Stage, Using, Ended, ResultOf, Sector
  <1> QED
    BY <1>1, <1>2, <1>3, <1>4, <1>5, <1>6, <1>7, <1>8, <1>9, <1>10 DEF DiskNext, lhd_io

\* The thread that takes the result and the data finds those of its own
\* operation, for any number of threads, sectors and errors (lhd_io(),
\* lhd_irq(), lhd_iodone()).
THEOREM DiskDataIsOwn == DiskSpec => []DiskOwnData
  <1>1. DiskInv => DiskOwnData
    BY DEF DiskInv, OneUser, Stage, Using, ResultOf, DiskOwnData
  <1> QED
    BY DiskAssumption, DiskStarts, DiskSteps, <1>1, PTL DEF DiskSpec

\* lh_clear is neither lost nor doubled, also on the error paths of lhd_io().
THEOREM DiskReturned == DiskSpec => []DiskIsNotLost
  <1>1. DiskInv => DiskIsNotLost
    BY DEF DiskInv, OneUser, Using, DiskIsNotLost
  <1> QED
    BY DiskAssumption, DiskStarts, DiskSteps, <1>1, PTL DEF DiskSpec

\* No completion is left over in lh_done for the next thread to take for its
\* own: V(lh_done) in lhd_iodone() meets exactly one P(lh_done).
THEOREM DiskCompletionsMatch == DiskSpec => []NoStrayCompletion
  <1> DEFINE waiting == {t \in Thread : io[t].at = "done"}
  <1>1. DiskInv => NoStrayCompletion
    <2> SUFFICES ASSUME DiskInv
                 PROVE  /\ lh_done + (IF status = "IDLE" THEN 0 ELSE 1) = IF waiting = {} THEN 0 ELSE 1
                        /\ \A t, u \in waiting : t = u
      BY DEF NoStrayCompletion
    <2>1. \A t, u \in waiting : t = u
      BY DEF DiskInv, OneUser, Using
    <2>2. CASE waiting = {}
      <3>1. lh_done = 0 /\ status = "IDLE"
        BY <2>2 DEF DiskInv, Stage
      <3> QED
        BY <2>1, <2>2, <3>1
    <2>3. CASE waiting # {}
      <3>1. lh_done + (IF status = "IDLE" THEN 0 ELSE 1) = 1
        BY <2>3 DEF DiskInv, Stage
      <3> QED
        BY <2>1, <2>3, <3>1
    <2> QED
      BY <2>2, <2>3
  <1> QED
    BY DiskAssumption, DiskStarts, DiskSteps, <1>1, PTL DEF DiskSpec
=============================================================================
