------------------------------ MODULE CopyInOut ------------------------------
(***************************************************************************)
(* copyin(), copyout(), copyinstr() and copyoutstr(): kern/lib/copyinout.c.*)
(*                                                                         *)
(* Addresses and lengths are words of WORD values; user space is           *)
(* 0..USERTOP-1, and touching an address of it that is not mapped faults.  *)
(* The kernel's side of a copy is not modelled but for where the string in *)
(* it, or in user memory, ends.  The byte of index i is at user address    *)
(* userptr + i.                                                            *)
(***************************************************************************)
EXTENDS Base, Integers

CONSTANTS
  WORD,         \* 2^32
  USERTOP,
  PAGE          \* addresses are mapped by the page

ASSUME CopyAssumption == /\ {WORD, USERTOP, PAGE} \subseteq Nat \ {0}
                         /\ USERTOP < WORD /\ USERTOP % PAGE = 0

Blocks == {"copyin", "copyout"}
Strings == {"copyinstr", "copyoutstr"}
User == 0..(USERTOP - 1)

VARIABLES
  call,          \* which function, userptr and len
  nul,           \* index of the first null byte of the string
  mapped,        \* mapped pages
  at,            \* "called", "copying", "done"
  stoplen,
  i,
  badfaultfunc,
  touched,       \* addresses read or written
  result,
  gotlen

vars == <<call, nul, mapped, at, stoplen, i, badfaultfunc, touched, result, gotlen>>
inputs == <<call, nul, mapped>>

Init ==
  /\ call \in [op : Blocks \cup Strings, userptr : 0..(WORD - 1), len : 0..(WORD - 1)]
  /\ nul \in 0..(WORD - 1)
  /\ mapped \in SUBSET (0..((USERTOP \div PAGE) - 1))
  /\ at = "called" /\ stoplen = 0 /\ i = 0 /\ badfaultfunc = FALSE
  /\ touched = {} /\ result = NULL /\ gotlen = NULL

\* The sum of two words, or one less, as the machine computes it.
Wrap(n) == IF n < 0 THEN n + WORD ELSE IF n >= WORD THEN n - WORD ELSE n

copycheck(bot, len) ==
  LET top == Wrap(bot + len - 1)
  IN  IF top < bot \/ bot >= USERTOP THEN [result |-> "EFAULT", stoplen |-> len]
      ELSE [result |-> "ok", stoplen |-> IF top >= USERTOP THEN USERTOP - bot ELSE len]

Return(r) == at' = "done" /\ result' = r /\ badfaultfunc' = FALSE

\* Up to the setjmp().  Of a single block all has to be in user space.
Begin ==
  LET check == copycheck(call.userptr, call.len)
      refused == check.result # "ok" \/ (call.op \in Blocks /\ check.stoplen # call.len)
  IN  /\ at = "called"
      /\ stoplen' = check.stoplen
      /\ \/ refused /\ Return("EFAULT")
         \/ ~refused /\ at' = "copying" /\ badfaultfunc' = TRUE /\ UNCHANGED result
      /\ UNCHANGED <<inputs, i, touched, gotlen>>

address == Wrap(call.userptr + i)
Faults(a) == a \in User /\ a \div PAGE \notin mapped

\* A fault vm_fault() does not handle: the copy goes on in copyfail(), which
\* jumps back to the setjmp().
copyfail ==
  /\ at = "copying" /\ i < call.len /\ i < stoplen /\ Faults(address)
  /\ Return("EFAULT")
  /\ UNCHANGED <<inputs, stoplen, i, touched, gotlen>>

\* memcpy().
CopyByte ==
  /\ at = "copying" /\ call.op \in Blocks /\ i < call.len /\ ~Faults(address)
  /\ touched' = touched \cup {address} /\ i' = i + 1
  /\ UNCHANGED <<inputs, at, stoplen, badfaultfunc, result, gotlen>>

BlockDone ==
  /\ at = "copying" /\ call.op \in Blocks /\ i = call.len
  /\ Return("ok")
  /\ UNCHANGED <<inputs, stoplen, i, touched, gotlen>>

\* The loop of copystr().
CopyChar ==
  /\ at = "copying" /\ call.op \in Strings /\ i < call.len /\ i < stoplen /\ ~Faults(address)
  /\ touched' = touched \cup {address} /\ i' = i + 1
  /\ IF i = nul THEN Return("ok") /\ gotlen' = i + 1
                ELSE UNCHANGED <<at, badfaultfunc, result, gotlen>>
  /\ UNCHANGED <<inputs, stoplen>>

bug_Ended == IF stoplen <= call.len THEN "EFAULT" ELSE "ENAMETOOLONG"

\* Its end: "if we hit STOPLEN it's because the string has run into the end
\* of userspace".
Ended == IF stoplen < call.len THEN "EFAULT" ELSE "ENAMETOOLONG"

StringDone ==
  /\ at = "copying" /\ call.op \in Strings /\ ~(i < call.len /\ i < stoplen)
  /\ Return(Ended)
  /\ UNCHANGED <<inputs, stoplen, i, touched, gotlen>>

copyin == call.op = "copyin" /\ (Begin \/ copyfail \/ CopyByte \/ BlockDone)
copyout == call.op = "copyout" /\ (Begin \/ copyfail \/ CopyByte \/ BlockDone)
copystr == CopyChar \/ StringDone
copyinstr == call.op = "copyinstr" /\ (Begin \/ copyfail \/ copystr)
copyoutstr == call.op = "copyoutstr" /\ (Begin \/ copyfail \/ copystr)

Next == copyin \/ copyout \/ copyinstr \/ copyoutstr

Spec == Init /\ [][Next]_vars

----------------------------------------------------------------------------
Region(n) == call.userptr..(call.userptr + n - 1)
Reachable(n) == \A a \in Region(n) : a \in User /\ ~Faults(a)

\* No copy reads or writes an address of the kernel, whatever the pointer and
\* the length a system call was given: copycheck() has seen to it, also where
\* the sum of the two does not fit in a word.
NeverKernel == touched \subseteq User

\* A copy succeeds exactly when all it was asked for is in mapped user memory,
\* and then it has moved all of it.  A string that has no null byte within len
\* is too long (ENAMETOOLONG), unless user space or what is mapped of it ends
\* first (EFAULT), and a length that wraps around is refused before anything
\* is moved.  A length of zero is refused as well.
CopyIsExact ==
  at = "done" =>
    LET len == call.len
        wraps == call.userptr + len > WORD
        fits == IF call.op \in Blocks THEN len > 0 /\ Reachable(len)
                ELSE nul < len /\ Reachable(nul + 1) /\ ~wraps
    IN  /\ (result = "ok") = fits
        /\ result = "ok" => touched = Region(IF call.op \in Blocks THEN len ELSE nul + 1)
        /\ result = "ok" /\ call.op \in Strings => gotlen = nul + 1
        /\ (result = "ENAMETOOLONG") =>
             call.op \in Strings /\ nul >= len /\ Reachable(len)
        /\ call.op \in Strings /\ len > 0 /\ nul >= len /\ Reachable(len)
             => result = "ENAMETOOLONG"
        /\ wraps => touched = {}
=============================================================================
