-------------------------- MODULE DataProof --------------------------
(***************************************************************************)
(* Proofs about copying from and to user memory (CopyInOut), bitmaps       *)
(* (Bitmap) and the file table (FileTable).                                *)
(***************************************************************************)
EXTENDS CopyInOut, Bitmap, FileTable, WellFoundedInduction, FiniteSetTheorems, TLAPS

----------------------------------------------------------------------------
(* Copying from and to user memory *)

Word == 0..(WORD - 1)

(***************************************************************************)
(* The inductive invariant.  NeverKernel is not inductive: that the next   *)
(* byte is in user space is known only from what copycheck() found before  *)
(* the copy began (Checked) and from how far the copy has come (Progress). *)
(***************************************************************************)
TypeInv ==
  /\ call \in [op : Blocks \cup Strings, userptr : Word, len : Word]
  /\ nul \in Word
  /\ stoplen \in Nat /\ i \in Nat

Checked ==
  at = "copying" =>
    /\ call.userptr + stoplen <= USERTOP \/ call.len = 0
    /\ call.userptr + call.len <= WORD
    /\ i <= stoplen /\ i <= call.len
    /\ stoplen = call.len \/ (call.op \in Strings /\ call.userptr + stoplen = USERTOP)
    /\ stoplen <= call.len \/ call.len = 0
    /\ call.op \in Blocks => call.len > 0
    /\ call.op \in Strings => i <= nul

Progress ==
  /\ touched = Region(i)
  /\ Reachable(i)
  /\ at # "done" => result = NULL
  /\ at = "called" => i = 0
  /\ at \in {"called", "copying", "done"}

Inv == TypeInv /\ Checked /\ Progress /\ CopyIsExact

\* What copycheck() finds, for any pointer and any length, also where their
\* sum does not fit in a word.
LEMMA CopyCheckLemma ==
  ASSUME NEW bot \in Word, NEW len \in Word
  PROVE  LET check == copycheck(bot, len)
         IN  /\ check.stoplen \in Nat
             /\ check.result \in {"ok", "EFAULT"}
             /\ check.result = "ok" =>
                  /\ bot < USERTOP /\ bot + len <= WORD
                  /\ len = 0 => bot = 0 /\ check.stoplen = USERTOP
                  /\ len > 0 /\ bot + len <= USERTOP => check.stoplen = len
                  /\ bot + len > USERTOP => bot + check.stoplen = USERTOP
             /\ check.result # "ok" => bot >= USERTOP \/ bot + len > WORD \/ len = 0
  <1>1. WORD \in Nat /\ USERTOP \in Nat /\ USERTOP > 0 /\ USERTOP < WORD
    BY CopyAssumption
  <1> DEFINE top == Wrap(bot + len - 1)
  <1>2. top = IF bot + len - 1 < 0 THEN WORD - 1
              ELSE IF bot + len - 1 >= WORD THEN bot + len - 1 - WORD
              ELSE bot + len - 1
    BY <1>1 DEF Wrap, Word
  <1> HIDE DEF top
  <1>4. CASE top < bot \/ bot >= USERTOP
    <2>1. copycheck(bot, len) = [result |-> "EFAULT", stoplen |-> len]
      BY <1>4 DEF copycheck, top
    <2> QED
      BY <2>1, <1>1, <1>2, <1>4 DEF Word
  <1>5. CASE ~(top < bot \/ bot >= USERTOP)
    <2>1. copycheck(bot, len) =
            [result |-> "ok", stoplen |-> IF top >= USERTOP THEN USERTOP - bot ELSE len]
      BY <1>5 DEF copycheck, top
    <2> QED
      BY <2>1, <1>1, <1>2, <1>5 DEF Word
  <1> QED
    BY <1>4, <1>5

\* The byte after the first n, when it is in user space and mapped, extends
\* what has been moved by one address.
LEMMA RegionGrows ==
  ASSUME TypeInv, call.userptr + i < USERTOP, ~Faults(address)
  PROVE  /\ address = call.userptr + i
         /\ Region(i + 1) = Region(i) \cup {address}
         /\ Reachable(i) => Reachable(i + 1)
  <1>1. /\ WORD \in Nat /\ USERTOP \in Nat /\ USERTOP < WORD
        /\ call.userptr \in Nat /\ i \in Nat
    BY CopyAssumption DEF TypeInv, Word
  <1>2. address = call.userptr + i
    BY <1>1 DEF address, Wrap
  <1>3. Region(i + 1) = Region(i) \cup {address}
    BY <1>1, <1>2 DEF Region
  <1>4. address \in User
    BY <1>1, <1>2 DEF User
  <1> QED
    BY <1>2, <1>3, <1>4 DEF Reachable

(* Each step keeps the invariant. *)

\* A copy starts with nothing touched.
LEMMA InitInv == Init => Inv
  <1> SUFFICES ASSUME Init PROVE Inv
    OBVIOUS
  <1>1. TypeInv
    BY DEF Init, TypeInv, Word
  <1>2. Progress
    <2>1. call.userptr \in Nat
      BY CopyAssumption, <1>1 DEF TypeInv, Word
    <2>2. Region(i) = {}
      BY <2>1 DEF Init, Region
    <2> QED
      BY <2>2 DEF Init, Progress, Reachable
  <1>3. Checked /\ CopyIsExact
    BY DEF Init, Checked, CopyIsExact
  <1> QED
    BY <1>1, <1>2, <1>3 DEF Inv

\* What copycheck() found is what the copy goes by.
LEMMA BeginInv == Inv /\ Begin => Inv'
  <1> SUFFICES ASSUME Inv, Begin PROVE Inv'
    OBVIOUS
  <1> DEFINE check == copycheck(call.userptr, call.len)
             refused == check.result # "ok" \/ (call.op \in Blocks /\ check.stoplen # call.len)
  <1>1. /\ WORD \in Nat /\ USERTOP \in Nat /\ USERTOP > 0 /\ USERTOP < WORD
        /\ call.userptr \in Word /\ call.len \in Word /\ nul \in Word
        /\ call.op \in Blocks \cup Strings
    BY CopyAssumption DEF Inv, TypeInv
  <1>2. /\ at = "called" /\ i = 0 /\ result = NULL /\ touched = Region(0)
        /\ stoplen' = check.stoplen
        /\ \/ refused /\ Return("EFAULT")
           \/ ~refused /\ at' = "copying" /\ result' = result
        /\ UNCHANGED <<call, nul, mapped, i, touched, gotlen>>
    BY DEF Begin, Inv, Progress, inputs
  <1>3. /\ check.stoplen \in Nat
        /\ check.result \in {"ok", "EFAULT"}
        /\ check.result = "ok" =>
             /\ call.userptr < USERTOP /\ call.userptr + call.len <= WORD
             /\ call.len = 0 => call.userptr = 0 /\ check.stoplen = USERTOP
             /\ call.len > 0 /\ call.userptr + call.len <= USERTOP => check.stoplen = call.len
             /\ call.userptr + call.len > USERTOP => call.userptr + check.stoplen = USERTOP
        /\ check.result # "ok" =>
             call.userptr >= USERTOP \/ call.userptr + call.len > WORD \/ call.len = 0
    BY <1>1, CopyCheckLemma
  <1> HIDE DEF check
  <1>4. Region(0) = {} /\ Region(i)' = Region(0) /\ touched' = {} /\ i' = 0
    BY <1>1, <1>2 DEF Region, Word
  <1>5. TypeInv'
    BY <1>2, <1>3 DEF Inv, TypeInv
  <1>6. Progress'
    BY <1>2, <1>4 DEF Progress, Reachable, Return
  <1>7. Checked'
    <2> SUFFICES ASSUME at' = "copying" PROVE Checked'
      BY DEF Checked
    <2>1. ~refused
      BY <1>2 DEF Return
    <2> QED
      BY <2>1, <1>1, <1>2, <1>3, <1>4 DEF Checked, Word, Blocks, Strings
  <1>8. CopyIsExact'
    <2> SUFFICES ASSUME at' = "done" PROVE CopyIsExact'
      BY DEF CopyIsExact
    <2>1. refused /\ result' = "EFAULT"
      BY <1>2 DEF Return
    <2>2. call.op \in Blocks => ~(call.len > 0 /\ Reachable(call.len))
      <3> SUFFICES ASSUME call.op \in Blocks, call.len > 0, Reachable(call.len) PROVE FALSE
        OBVIOUS
      <3>1. call.userptr \in Region(call.len) /\ call.userptr + call.len - 1 \in Region(call.len)
        BY <1>1 DEF Region, Word
      <3>2. call.userptr < USERTOP /\ call.userptr + call.len - 1 < USERTOP
        BY <3>1, <1>1 DEF Reachable, User
      <3> QED
        BY <3>2, <2>1, <1>1, <1>3 DEF Word
    <2>3. call.op \in Strings =>
            /\ call.userptr >= USERTOP \/ call.userptr + call.len > WORD \/ call.len = 0
      BY <2>1, <1>3 DEF Blocks, Strings
    <2>4. call.op \in Strings /\ call.len > 0 => ~Reachable(call.len)
      <3> SUFFICES ASSUME call.op \in Strings, call.len > 0, Reachable(call.len) PROVE FALSE
        OBVIOUS
      <3>1. call.userptr \in Region(call.len) /\ call.userptr + call.len - 1 \in Region(call.len)
        BY <1>1 DEF Region, Word
      <3>2. call.userptr < USERTOP /\ call.userptr + call.len - 1 < USERTOP
        BY <3>1, <1>1 DEF Reachable, User
      <3> QED
        BY <3>2, <2>3, <1>1 DEF Word
    <2>5. ASSUME call.op \in Strings, nul < call.len, Reachable(nul + 1),
                 ~(call.userptr + call.len > WORD)
          PROVE  FALSE
      <3>1. call.userptr \in Region(nul + 1)
        BY <1>1 DEF Region, Word
      <3>2. call.userptr < USERTOP
        BY <2>5, <3>1, <1>1 DEF Reachable, User
      <3> QED
        BY <3>2, <2>3, <2>5, <1>1 DEF Word
    <2>6. /\ call' = call /\ nul' = nul /\ \A n : Reachable(n)' = Reachable(n)
      BY <1>2 DEF Reachable, Region, Faults
    <2> QED
      BY <2>1, <2>2, <2>4, <2>5, <2>6, <1>1, <1>4 DEF CopyIsExact, Blocks, Strings
  <1> QED
    BY <1>5, <1>6, <1>7, <1>8 DEF Inv

\* What the steps after Begin start from.
LEMMA CopyingFacts ==
  ASSUME Inv, at = "copying"
  PROVE  /\ WORD \in Nat /\ USERTOP \in Nat /\ USERTOP > 0 /\ USERTOP < WORD
         /\ call.userptr \in Nat /\ call.len \in Nat /\ nul \in Nat
         /\ stoplen \in Nat /\ i \in Nat
         /\ call.op \in Blocks \cup Strings
         /\ i < call.len => call.userptr + stoplen <= USERTOP
         /\ Checked /\ Progress
         /\ result = NULL /\ touched = Region(i) /\ Reachable(i)
  BY CopyAssumption DEF Inv, TypeInv, Checked, Progress, Word

\* copyfail(): the copy was to touch an address that is not mapped.
LEMMA CopyFailInv == Inv /\ copyfail => Inv'
  <1> SUFFICES ASSUME Inv, copyfail PROVE Inv'
    OBVIOUS
  <1>1. /\ at = "copying" /\ i < call.len /\ i < stoplen /\ Faults(address)
        /\ at' = "done" /\ result' = "EFAULT"
        /\ UNCHANGED <<call, nul, mapped, stoplen, i, touched, gotlen>>
    BY DEF copyfail, Return, inputs
  <1>2. /\ WORD \in Nat /\ USERTOP \in Nat /\ USERTOP > 0 /\ USERTOP < WORD
        /\ call.userptr \in Nat /\ call.len \in Nat /\ nul \in Nat
        /\ stoplen \in Nat /\ i \in Nat
        /\ call.op \in Blocks \cup Strings
        /\ call.userptr + stoplen <= USERTOP
    BY <1>1, CopyingFacts
  <1>3. \A n : Reachable(n)' = Reachable(n) /\ Region(n)' = Region(n)
    BY <1>1 DEF Reachable, Region, Faults
  <1>4. TypeInv' /\ Progress' /\ Checked'
    BY <1>1, <1>3 DEF Inv, TypeInv, Progress, Checked
  <1>5. \A n \in Nat : n > i => ~Reachable(n)
    <2> SUFFICES ASSUME NEW n \in Nat, n > i PROVE ~Reachable(n)
      OBVIOUS
    <2>1. address = call.userptr + i
      BY <1>1, <1>2 DEF address, Wrap
    <2>2. address \in Region(n)
      BY <2>1, <1>2 DEF Region
    <2> QED
      BY <2>2, <1>1 DEF Reachable
  <1>6. ~Reachable(call.len)
    BY <1>5, <1>1, <1>2
  <1>7. call.op \in Strings => ~Reachable(nul + 1)
    BY <1>5, <1>1, <1>2, CopyingFacts DEF Checked
  <1>8. call.userptr + call.len <= WORD
    BY <1>1, CopyingFacts DEF Checked
  <1>9. CopyIsExact'
    BY <1>1, <1>2, <1>3, <1>6, <1>7, <1>8 DEF CopyIsExact, Blocks, Strings
  <1> QED
    BY <1>4, <1>9 DEF Inv

\* A byte of memcpy().
LEMMA CopyByteInv == Inv /\ CopyByte => Inv'
  <1> SUFFICES ASSUME Inv, CopyByte PROVE Inv'
    OBVIOUS
  <1>1. /\ at = "copying" /\ call.op \in Blocks /\ i < call.len /\ ~Faults(address)
        /\ touched' = touched \cup {address} /\ i' = i + 1
        /\ UNCHANGED <<call, nul, mapped, at, stoplen, result, gotlen>>
    BY DEF CopyByte, inputs
  <1>2. /\ WORD \in Nat /\ USERTOP \in Nat
        /\ call.userptr \in Nat /\ call.len \in Nat /\ stoplen \in Nat /\ i \in Nat
        /\ call.userptr + stoplen <= USERTOP /\ Checked
        /\ result = NULL /\ touched = Region(i) /\ Reachable(i)
    BY <1>1, CopyingFacts
  <1>3. stoplen = call.len
    BY <1>1, <1>2 DEF Checked, Blocks, Strings
  <1>4. Region(i + 1) = Region(i) \cup {address} /\ Reachable(i + 1)
    BY <1>1, <1>2, <1>3, RegionGrows DEF Inv
  <1>6. Progress'
    BY <1>1, <1>2, <1>4 DEF Progress, Reachable, Region, Faults
  <1>7. TypeInv'
    BY <1>1, <1>2 DEF Inv, TypeInv
  <1>8. Checked'
    BY <1>1, <1>2, <1>3 DEF Checked, Blocks, Strings
  <1>9. CopyIsExact'
    BY <1>1 DEF CopyIsExact
  <1> QED
    BY <1>6, <1>7, <1>8, <1>9 DEF Inv

\* memcpy() is done: all of the block was moved.
LEMMA BlockDoneInv == Inv /\ BlockDone => Inv'
  <1> SUFFICES ASSUME Inv, BlockDone PROVE Inv'
    OBVIOUS
  <1>1. /\ at = "copying" /\ call.op \in Blocks /\ i = call.len
        /\ at' = "done" /\ result' = "ok"
        /\ UNCHANGED <<call, nul, mapped, stoplen, i, touched, gotlen>>
    BY DEF BlockDone, Return, inputs
  <1>2. /\ WORD \in Nat /\ call.userptr \in Nat /\ call.len \in Nat /\ nul \in Nat
        /\ Checked /\ touched = Region(i) /\ Reachable(i)
    BY <1>1, CopyingFacts
  <1>3. \A n : Reachable(n)' = Reachable(n) /\ Region(n)' = Region(n)
    BY <1>1 DEF Reachable, Region, Faults
  <1>4. TypeInv' /\ Progress' /\ Checked'
    BY <1>1, <1>3 DEF Inv, TypeInv, Progress, Checked
  <1>5. CopyIsExact'
    BY <1>1, <1>2, <1>3 DEF CopyIsExact, Checked, Blocks, Strings
  <1> QED
    BY <1>4, <1>5 DEF Inv

\* A character of copystr().
LEMMA CopyCharInv == Inv /\ CopyChar => Inv'
  <1> SUFFICES ASSUME Inv, CopyChar PROVE Inv'
    OBVIOUS
  <1>1. /\ at = "copying" /\ call.op \in Strings /\ i < call.len /\ i < stoplen /\ ~Faults(address)
        /\ touched' = touched \cup {address} /\ i' = i + 1
        /\ IF i = nul THEN at' = "done" /\ result' = "ok" /\ gotlen' = i + 1
                      ELSE at' = at /\ result' = result
        /\ UNCHANGED <<call, nul, mapped, stoplen>>
    BY DEF CopyChar, Return, inputs
  <1>2. /\ WORD \in Nat /\ USERTOP \in Nat
        /\ call.userptr \in Nat /\ call.len \in Nat /\ nul \in Nat
        /\ stoplen \in Nat /\ i \in Nat
        /\ call.userptr + stoplen <= USERTOP /\ Checked
        /\ result = NULL /\ touched = Region(i) /\ Reachable(i)
    BY <1>1, CopyingFacts
  <1>3. Region(i + 1) = Region(i) \cup {address} /\ Reachable(i + 1)
    BY <1>1, <1>2, RegionGrows DEF Inv
  <1>4. Progress'
    BY <1>1, <1>2, <1>3 DEF Progress, Reachable, Region, Faults
  <1>5. TypeInv'
    BY <1>1, <1>2 DEF Inv, TypeInv
  <1>6. Checked'
    BY <1>1, <1>2 DEF Checked, Blocks, Strings
  <1>7. CopyIsExact'
    <2> SUFFICES ASSUME at' = "done" PROVE CopyIsExact'
      BY DEF CopyIsExact
    <2>1. i = nul /\ result' = "ok" /\ gotlen' = nul + 1 /\ touched' = Region(nul + 1)
      BY <1>1, <1>2, <1>3
    <2>2. \A n : Reachable(n)' = Reachable(n) /\ Region(n)' = Region(n)
      BY <1>1 DEF Reachable, Region, Faults
    <2> QED
      BY <2>1, <2>2, <1>1, <1>2, <1>3 DEF CopyIsExact, Checked, Blocks, Strings
  <1> QED
    BY <1>4, <1>5, <1>6, <1>7 DEF Inv

\* copystr() has come to the end of what it may read.
LEMMA StringDoneInv == Inv /\ StringDone => Inv'
  <1> SUFFICES ASSUME Inv, StringDone PROVE Inv'
    OBVIOUS
  <1>1. /\ at = "copying" /\ call.op \in Strings /\ ~(i < call.len /\ i < stoplen)
        /\ at' = "done" /\ result' = (IF stoplen < call.len THEN "EFAULT" ELSE "ENAMETOOLONG")
        /\ UNCHANGED <<call, nul, mapped, stoplen, i, touched, gotlen>>
    BY DEF StringDone, Return, Ended, inputs
  <1>2. /\ WORD \in Nat /\ USERTOP \in Nat
        /\ call.userptr \in Nat /\ call.len \in Nat /\ nul \in Nat
        /\ stoplen \in Nat /\ i \in Nat
        /\ Checked /\ touched = Region(i) /\ Reachable(i)
    BY <1>1, CopyingFacts
  <1>3. \A n : Reachable(n)' = Reachable(n) /\ Region(n)' = Region(n)
    BY <1>1 DEF Reachable, Region, Faults
  <1>4. TypeInv' /\ Progress' /\ Checked'
    BY <1>1, <1>3 DEF Inv, TypeInv, Progress, Checked
  <1>5. CopyIsExact'
    <2>1. CASE stoplen < call.len
      <3>1. call.userptr + stoplen = USERTOP /\ i = stoplen /\ stoplen <= nul
        BY <2>1, <1>1, <1>2 DEF Checked
      <3>2. \A n \in Nat : n > stoplen => ~Reachable(n)
        <4> SUFFICES ASSUME NEW n \in Nat, n > stoplen PROVE ~Reachable(n)
          OBVIOUS
        <4>1. USERTOP \in Region(n) /\ USERTOP \notin User
          BY <3>1, <1>2 DEF Region, User
        <4> QED
          BY <4>1 DEF Reachable
      <3>3. ~Reachable(call.len) /\ ~Reachable(nul + 1)
        BY <3>1, <3>2, <2>1, <1>2
      <3> QED
        BY <3>3, <2>1, <1>1, <1>2, <1>3 DEF CopyIsExact, Checked, Blocks, Strings
    <2>2. CASE ~(stoplen < call.len)
      <3>1. i = call.len /\ call.len <= nul
        BY <2>2, <1>1, <1>2 DEF Checked
      <3> QED
        BY <3>1, <2>2, <1>1, <1>2, <1>3 DEF CopyIsExact, Checked, Blocks, Strings
    <2> QED
      BY <2>1, <2>2
  <1> QED
    BY <1>4, <1>5 DEF Inv

\* Every step keeps the invariant.
LEMMA NextInv == Inv /\ [Next]_vars => Inv'
  <1> SUFFICES ASSUME Inv, [Next]_vars PROVE Inv'
    OBVIOUS
  <1>1. CASE Begin
    BY <1>1, BeginInv
  <1>2. CASE copyfail
    BY <1>2, CopyFailInv
  <1>3. CASE CopyByte
    BY <1>3, CopyByteInv
  <1>4. CASE BlockDone
    BY <1>4, BlockDoneInv
  <1>5. CASE CopyChar
    BY <1>5, CopyCharInv
  <1>6. CASE StringDone
    BY <1>6, StringDoneInv
  <1>7. CASE UNCHANGED vars
    BY <1>7 DEF vars, Inv, TypeInv, Checked, Progress, CopyIsExact, Reachable, Region, Faults
  <1> QED
    BY <1>1, <1>2, <1>3, <1>4, <1>5, <1>6, <1>7
    DEF Next, copyin, copyout, copyinstr, copyoutstr, copystr

\* What was touched is in user space.
LEMMA InvNeverKernel == Inv => NeverKernel
  BY DEF Inv, Progress, Reachable, NeverKernel

\* No copy touches an address outside user space, for every pointer and every
\* length: what copycheck() promises to copyin(), copyout(), copyinstr() and
\* copyoutstr().
THEOREM CopiesStayInUserSpace == Spec => []NeverKernel
  BY InitInv, NextInv, InvNeverKernel, PTL DEF Spec

\* A copy succeeds exactly when it should, has then moved all it was asked
\* for, and otherwise says what was wrong (copyinout.c).
THEOREM CopiesAreExact == Spec => []CopyIsExact
  <1>1. Inv => CopyIsExact
    BY DEF Inv
  <1> QED
    BY <1>1, InitInv, NextInv, PTL DEF Spec

----------------------------------------------------------------------------
(* Bitmaps *)

\* What the words say of the bit at an offset: that it is given away, or that
\* the map does not reach so far.
BitsInv ==
  /\ nbits \in Nat \ {0}
  /\ DOMAIN words = 0..(Words(nbits) - 1)
  /\ \A ix \in DOMAIN words :
       /\ words[ix] \subseteq Bit
       /\ \A o \in Bit : o \in words[ix] <=> \/ ix * BITS_PER_WORD + o \in given
                                                 \/ nbits <= ix * BITS_PER_WORD + o
  /\ given \subseteq 0..(nbits - 1)
  /\ failed = FALSE

\* A set of numbers that is not empty has a least one.  Induction over data is
\* used in this form: the least case that fails does not.
LEMMA SmallestNat == ASSUME NEW T \in SUBSET Nat, T # {}
                     PROVE  \E x \in T : \A y \in T : x <= y
  <1>1. PICK x \in T : \A y \in T : ~ (<<y, x>> \in OpToRel(<, Nat))
    BY WFMin, NatLessThanWellFounded, Zenon
  <1>2. \A y \in T : ~ (y < x)
    BY <1>1, Zenon DEF OpToRel
  <1> QED
    BY <1>2

\* What bitmap_alloc() finds first is the least there is.
LEMMA MinIsLeast == ASSUME NEW T \in SUBSET Nat, T # {}
                    PROVE  Min(T) \in T /\ \A y \in T : Min(T) <= y
  BY SmallestNat, Zenon DEF Min

\* Multiples of b are in the order of their factors.
LEMMA Scaled == ASSUME NEW b \in Nat \ {0}, NEW q \in Nat, NEW r \in Nat, q <= r
                PROVE  q * b \in Nat /\ r * b \in Nat /\ q * b <= r * b
  <1>1. (r - q) * b >= 0
    OBVIOUS
  <1> QED
    BY <1>1

\* bitmap_translate() splits a number into a word and an offset that make it up.
LEMMA WordAndOffset ==
  ASSUME NEW b \in Nat \ {0}, NEW v \in Nat
  PROVE  v \div b \in Nat /\ v % b \in 0..(b - 1) /\ v = (v \div b) * b + (v % b)
  <1>1. v = b * (v \div b) + (v % b) /\ v % b \in 0..(b - 1) /\ v \div b \in Int
    OBVIOUS
  <1>2. v \div b >= 0
    OBVIOUS
  <1> QED
    BY <1>1, <1>2

\* No bit has two places.
LEMMA OnePlace ==
  ASSUME NEW b \in Nat \ {0}, NEW q \in Nat, NEW r \in Nat,
         NEW o \in 0..(b - 1), NEW p \in 0..(b - 1), q * b + o = r * b + p
  PROVE  q = r /\ o = p
  <1>1. q * b \in Nat /\ r * b \in Nat
    BY Scaled
  <1>2. ASSUME q + 1 <= r PROVE FALSE
    <2>1. (q + 1) * b <= r * b /\ (q + 1) * b = q * b + b
      BY <1>2, Scaled
    <2> QED
      BY <1>1, <2>1
  <1>3. ASSUME r + 1 <= q PROVE FALSE
    <2>1. (r + 1) * b <= q * b /\ (r + 1) * b = r * b + b
      BY <1>3, Scaled
    <2> QED
      BY <1>1, <2>1
  <1>4. q = r
    BY <1>2, <1>3
  <1> QED
    BY <1>1, <1>4

\* DIVROUNDUP: the fewest words in which n bits fit.
LEMMA WordsFit ==
  ASSUME NEW b \in Nat \ {0}, NEW n \in Nat \ {0}
  PROVE  LET w == (n + b - 1) \div b
         IN  w \in Nat /\ n <= w * b /\ w * b < n + b /\ w * b \in Nat
  <1> DEFINE w == (n + b - 1) \div b
  <1>1. n + b - 1 \in Nat
    OBVIOUS
  <1>2. w \in Nat /\ (n + b - 1) % b \in 0..(b - 1) /\ n + b - 1 = w * b + ((n + b - 1) % b)
    BY <1>1, WordAndOffset, Zenon
  <1> HIDE DEF w
  <1>3. w * b \in Nat
    BY <1>2, Scaled
  <1> QED
    BY <1>2, <1>3 DEF w

\* The word of a bit of the map is one of its words.
LEMMA PlaceExists ==
  ASSUME NEW b \in Nat \ {0}, NEW n \in Nat \ {0}, NEW v \in 0..(n - 1)
  PROVE  v \div b \in 0..(((n + b - 1) \div b) - 1)
  <1> DEFINE w == (n + b - 1) \div b
             q == v \div b
  <1>1. w \in Nat /\ n <= w * b /\ w * b \in Nat
    BY WordsFit
  <1>2. q \in Nat /\ v % b \in 0..(b - 1) /\ v = q * b + (v % b)
    BY WordAndOffset
  <1> HIDE DEF w, q
  <1>3. q * b <= v /\ q * b \in Nat
    BY <1>2, Scaled
  <1>4. ASSUME w <= q PROVE FALSE
    <2>1. w * b <= q * b
      BY <1>1, <1>2, <1>4, Scaled
    <2> QED
      BY <1>1, <1>3, <2>1
  <1>5. q \in 0..(w - 1)
    BY <1>1, <1>2, <1>4
  <1> QED
    BY <1>5 DEF w, q

\* bitmap_create() makes a map with nothing given away.
LEMMA BitsInit == ASSUME BitsAssumption PROVE BitmapInit => BitsInv
  <1> SUFFICES ASSUME BitmapInit PROVE BitsInv
    OBVIOUS
  <1> DEFINE b == BITS_PER_WORD
  <1>1. PICK n \in 1..MaxBits : nbits = n /\ words = bitmap_create(n) /\ given = {} /\ failed = FALSE
    BY DEF BitmapInit
  <1>2. b \in Nat \ {0} /\ n \in Nat \ {0}
    OBVIOUS
  <1> DEFINE w == (n + b - 1) \div b
  <1>3. w \in Nat /\ n <= w * b /\ w * b < n + b /\ w * b \in Nat /\ Words(n) = w
    BY <1>2, WordsFit, Zenon DEF Words, DIVROUNDUP
  <1>4. n \div b \in Nat /\ n % b \in 0..(b - 1) /\ n = (n \div b) * b + (n % b)
    BY <1>2, WordAndOffset, Zenon
  <1> DEFINE d == n \div b
  <1>5. d \in Nat /\ d * b <= n /\ d * b \in Nat
    BY <1>2, <1>4, Scaled
  <1>6. words = [ix \in 0..(w - 1) |-> IF d < w /\ ix = w - 1
                                       THEN (n - ix * b)..(b - 1) ELSE {}]
    BY <1>1, <1>3 DEF bitmap_create
  <1> HIDE DEF w, d
  <1>7. ASSUME NEW ix \in 0..(w - 1), NEW o \in 0..(b - 1)
        PROVE  o \in words[ix] <=> n <= ix * b + o
    <2>1. ix * b \in Nat
      BY <1>2, <1>3, Scaled
    <2>2. CASE d < w /\ ix = w - 1
      BY <1>2, <1>6, <2>1, <2>2
    <2>3. CASE ix + 1 <= w - 1
      <3>1. (ix + 1) * b = ix * b + b /\ w * b = (w - 1) * b + b
        BY <1>2, <1>3
      <3>2. (ix + 1) * b <= (w - 1) * b /\ (w - 1) * b \in Nat
        BY <1>2, <1>3, <2>3, Scaled
      <3>3. ix * b + o < n
        BY <1>2, <1>3, <2>1, <3>1, <3>2
      <3> QED
        BY <1>2, <1>3, <1>6, <2>1, <2>3, <3>3
    <2>4. CASE ~(d < w) /\ ix = w - 1
      <3>1. w * b <= d * b /\ w * b = (w - 1) * b + b /\ (w - 1) * b \in Nat
        BY <1>2, <1>3, <1>5, <2>4, Scaled
      <3>2. ix * b + o < n
        BY <1>2, <1>3, <1>5, <2>4, <3>1
      <3> QED
        BY <1>2, <1>3, <1>6, <2>1, <2>4, <3>2
    <2> QED
      BY <1>3, <2>2, <2>3, <2>4
  <1>8. ASSUME NEW ix \in 0..(w - 1) PROVE words[ix] \subseteq 0..(b - 1)
    <2>1. ix * b \in Nat
      BY <1>2, <1>3, Scaled
    <2>2. CASE d < w /\ ix = w - 1
      <3>1. ix * b < n
        <4>1. w * b = (w - 1) * b + b /\ (w - 1) * b \in Nat
          BY <1>2, <1>3, <2>2, Scaled
        <4> QED
          BY <1>2, <1>3, <2>2, <4>1
      <3> QED
        BY <1>2, <1>6, <2>1, <2>2, <3>1
    <2>3. CASE ~(d < w /\ ix = w - 1)
      BY <1>6, <2>3
    <2> QED
      BY <2>2, <2>3
  <1>9. DOMAIN words = 0..(w - 1)
    BY <1>6
  <1> QED
    BY <1>1, <1>2, <1>3, <1>7, <1>8, <1>9 DEF BitsInv, Bit

\* Setting or clearing one bit changes what the words say of that bit alone.
LEMMA BitsChange ==
  ASSUME BitsAssumption, BitsInv, NEW ix \in DOMAIN words, NEW o \in Bit, NEW set \in BOOLEAN,
         ix * BITS_PER_WORD + o < nbits,
         words' = [words EXCEPT ![ix] = IF set THEN @ \cup {o} ELSE @ \ {o}],
         given' = IF set THEN given \cup {ix * BITS_PER_WORD + o}
                  ELSE given \ {ix * BITS_PER_WORD + o},
         nbits' = nbits, failed' = FALSE
  PROVE  BitsInv'
  <1> DEFINE b == BITS_PER_WORD
  <1>1. b \in Nat \ {0} /\ nbits \in Nat \ {0}
    BY DEF BitsInv
  <1>2. Words(nbits) \in Nat
    BY <1>1, WordsFit DEF Words, DIVROUNDUP
  <1>3. DOMAIN words \subseteq Nat /\ Bit = 0..(b - 1)
    BY <1>2 DEF BitsInv, Bit
  <1>4. DOMAIN words' = DOMAIN words
    OBVIOUS
  <1>5. ASSUME NEW jx \in DOMAIN words
        PROVE  /\ words'[jx] \subseteq Bit
               /\ \A p \in Bit : p \in words'[jx] <=> \/ jx * b + p \in given'
                                                          \/ nbits <= jx * b + p
    <2>1. words[jx] \subseteq Bit
      BY DEF BitsInv
    <2>2. \A p \in Bit : p \in words[jx] <=> jx * b + p \in given \/ nbits <= jx * b + p
      BY DEF BitsInv
    <2>3. \A p \in Bit : jx * b + p = ix * b + o => jx = ix /\ p = o
      BY <1>1, <1>3, OnePlace
    <2>4. jx * b \in Nat /\ ix * b \in Nat
      BY <1>1, <1>3, Scaled
    <2>5. CASE set
      <3>1. words'[jx] = IF jx = ix THEN words[jx] \cup {o} ELSE words[jx]
        BY <2>5, Zenon
      <3>2. given' = given \cup {ix * b + o}
        BY <2>5
      <3> QED
        BY <2>1, <2>2, <2>3, <3>1, <3>2
    <2>6. CASE ~set
      <3>1. words'[jx] = IF jx = ix THEN words[jx] \ {o} ELSE words[jx]
        BY <2>6
      <3>2. given' = given \ {ix * b + o}
        BY <2>6
      <3>3. ~(nbits <= ix * b + o)
        BY <1>1, <1>3, <2>4
      <3> QED
        BY <2>1, <2>2, <2>3, <3>1, <3>2, <3>3
    <2> QED
      BY <2>5, <2>6
  <1>6. given' \subseteq 0..(nbits - 1)
    <2>1. ix * b \in Nat /\ o \in Nat
      BY <1>1, <1>3, Scaled
    <2> QED
      BY <1>1, <2>1 DEF BitsInv
  <1>7. nbits' \in Nat \ {0} /\ DOMAIN words' = 0..(Words(nbits') - 1)
    BY <1>1, <1>4 DEF BitsInv
  <1> QED
    BY <1>4, <1>5, <1>6, <1>7 DEF BitsInv

\* The place bitmap_translate() finds for a bit of the map.
LEMMA BitsPlace ==
  ASSUME BitsAssumption, BitsInv, NEW v \in 0..(nbits - 1)
  PROVE  LET p == bitmap_translate(v)
         IN  p.ix \in DOMAIN words /\ p.offset \in Bit /\ p.ix * BITS_PER_WORD + p.offset = v
  <1>1. BITS_PER_WORD \in Nat \ {0} /\ nbits \in Nat \ {0}
    BY DEF BitsInv
  <1>2. v \in Nat
    BY <1>1
  <1>3. v \div BITS_PER_WORD \in DOMAIN words
    BY <1>1, PlaceExists DEF BitsInv, Words, DIVROUNDUP
  <1>4. v % BITS_PER_WORD \in Bit /\ v = (v \div BITS_PER_WORD) * BITS_PER_WORD + (v % BITS_PER_WORD)
    BY <1>1, <1>2, WordAndOffset DEF Bit
  <1> QED
    BY <1>3, <1>4 DEF bitmap_translate

\* bitmap_alloc(), bitmap_mark() and bitmap_unmark() keep the invariant.
LEMMA BitsStep == ASSUME BitsAssumption PROVE BitsInv /\ [BitmapNext]_bitmap_vars => BitsInv'
  <1> SUFFICES ASSUME BitsInv, [BitmapNext]_bitmap_vars PROVE BitsInv'
    OBVIOUS
  <1> DEFINE b == BITS_PER_WORD
  <1>1. b \in Nat \ {0} /\ nbits \in Nat \ {0} /\ Bit = 0..(b - 1)
    BY DEF BitsInv, Bit
  <1>2. DOMAIN words \subseteq Nat
    BY <1>1, WordsFit DEF BitsInv, Words, DIVROUNDUP
  <1>3. CASE bitmap_alloc
    <2> DEFINE notfull == {ix \in DOMAIN words : words[ix] # WORD_ALLBITS}
               ix == Min(notfull)
               clear == WORD_ALLBITS \ words[ix]
               o == Min(clear)
    <2>1. /\ notfull # {}
          /\ words' = [words EXCEPT ![ix] = @ \cup {o}]
          /\ failed' = ~(ix * b + o < nbits)
          /\ given' = given \cup {ix * b + o}
          /\ nbits' = nbits
      BY <1>3 DEF bitmap_alloc
    <2>2. notfull \in SUBSET Nat
      BY <1>2
    <2>3. ix \in notfull
      BY <2>1, <2>2, MinIsLeast
    <2> HIDE DEF ix
    <2>4. clear \in SUBSET Nat /\ clear # {}
      <3>1. ix \in DOMAIN words /\ words[ix] # Bit
        BY <2>3 DEF WORD_ALLBITS
      <3>2. words[ix] \subseteq Bit
        BY <3>1 DEF BitsInv
      <3>3. Bit \in SUBSET Nat
        BY <1>1
      <3> QED
        BY <3>1, <3>2, <3>3, Zenon DEF WORD_ALLBITS
    <2>5. o \in clear
      BY <2>4, MinIsLeast
    <2> HIDE DEF o
    <2>6. ix \in DOMAIN words /\ o \in Bit /\ o \notin words[ix]
      BY <2>3, <2>5 DEF WORD_ALLBITS
    <2>7. ix * b \in Nat
      BY <1>1, <1>2, <2>6, Scaled
    <2>8. ix * b + o < nbits
      BY <1>1, <2>6, <2>7 DEF BitsInv
    <2> HIDE DEF notfull, clear
    <2> QED
      BY <2>1, <2>6, <2>8, BitsChange, Zenon
  <1>4. ASSUME NEW v \in 0..(nbits - 1), bitmap_mark(v) \/ bitmap_unmark(v)
        PROVE  BitsInv'
    <2> DEFINE p == bitmap_translate(v)
    <2>1. p.ix \in DOMAIN words /\ p.offset \in Bit /\ p.ix * b + p.offset = v /\ v < nbits
      BY <1>1, BitsPlace
    <2>2. p.offset \in words[p.ix] <=> v \in given
      BY <1>1, <2>1 DEF BitsInv
    <2>3. CASE bitmap_mark(v)
      <3>1. /\ v \notin given /\ failed' = ~(v < nbits /\ p.offset \notin words[p.ix])
            /\ words' = [words EXCEPT ![p.ix] = @ \cup {p.offset}]
            /\ given' = given \cup {v} /\ nbits' = nbits
        BY <2>3 DEF bitmap_mark
      <3> HIDE DEF p
      <3>2. failed' = FALSE
        BY <2>1, <2>2, <3>1, Zenon
      <3> QED
        BY <2>1, <3>1, <3>2, BitsChange, Zenon
    <2>4. CASE bitmap_unmark(v)
      <3>1. /\ v \in given /\ failed' = ~(v < nbits /\ p.offset \in words[p.ix])
            /\ words' = [words EXCEPT ![p.ix] = @ \ {p.offset}]
            /\ given' = given \ {v} /\ nbits' = nbits
        BY <2>4 DEF bitmap_unmark
      <3> HIDE DEF p
      <3>2. failed' = FALSE
        BY <2>1, <2>2, <3>1, Zenon
      <3> QED
        BY <2>1, <3>1, <3>2, BitsChange, Zenon
    <2> QED
      BY <1>4, <2>3, <2>4
  <1>5. CASE UNCHANGED bitmap_vars
    BY <1>5 DEF bitmap_vars, BitsInv
  <1> QED
    BY <1>3, <1>4, <1>5 DEF BitmapNext

\* For every size of word and of map: bitmap_alloc(), bitmap_mark(),
\* bitmap_unmark() and bitmap_isset() agree, a bit is set exactly when it was
\* given away and not yet taken back.
THEOREM BitmapIsExact == BitmapSpec => []BitmapBitsAreExact
  <1>1. BitsInv => BitmapBitsAreExact
    <2> SUFFICES ASSUME BitsInv PROVE BitmapBitsAreExact
      OBVIOUS
    <2>1. ASSUME NEW v \in 0..(nbits - 1)
          PROVE  bitmap_isset(v) = (v \in given)
      <3> DEFINE p == bitmap_translate(v)
      <3>1. p.ix \in DOMAIN words /\ p.offset \in Bit /\ p.ix * BITS_PER_WORD + p.offset = v
        BY BitsAssumption, BitsPlace
      <3>2. ~(nbits <= v)
        BY BitsAssumption DEF BitsInv
      <3>3. p.offset \in words[p.ix] <=> v \in given
        BY <3>1, <3>2 DEF BitsInv
      <3> QED
        BY <3>3 DEF bitmap_isset
    <2>2. ASSUME \A ix \in DOMAIN words : words[ix] = WORD_ALLBITS
          PROVE  given = 0..(nbits - 1)
      <3>1. ASSUME NEW v \in 0..(nbits - 1) PROVE v \in given
        <4> DEFINE p == bitmap_translate(v)
        <4>1. p.ix \in DOMAIN words /\ p.offset \in Bit
          BY BitsAssumption, BitsPlace
        <4>2. p.offset \in words[p.ix]
          BY <2>2, <4>1 DEF WORD_ALLBITS
        <4> QED
          BY <2>1, <4>2 DEF bitmap_isset
      <3> QED
        BY <3>1, Zenon DEF BitsInv
    <2> QED
      BY <2>1, <2>2 DEF BitmapBitsAreExact
  <1> QED
    BY BitsAssumption, BitsInit, BitsStep, <1>1, PTL DEF BitmapSpec

\* bitmap_alloc() gives away no bit beyond the size the map was created with:
\* the bits bitmap_create() marks at the end of the last word are never found.
THEOREM BitmapOnlyItsOwn == BitmapSpec => []BitmapOnlyItsBits
  <1>1. BitsInv => BitmapOnlyItsBits
    BY DEF BitsInv, BitmapOnlyItsBits
  <1> QED
    BY BitsAssumption, BitsInit, BitsStep, <1>1, PTL DEF BitmapSpec

----------------------------------------------------------------------------
(* File tables *)

Descriptor ==
  [mode : {"O_RDONLY", "O_WRONLY", "O_RDWR"}, numOwners : Int, offset : Nat, open : BOOLEAN]

\* A table tab with descriptors fds of which no number dangles.
Sound(tab, fds) ==
  /\ tab \in Seq(Nat \cup {NULL}) /\ fds \in Seq(Descriptor)
  /\ Len(tab) \in 3..OPEN_MAX
  /\ \A k \in 1..Len(tab) : tab[k] # NULL => tab[k] \in 1..Len(fds) /\ fds[tab[k]].open
  /\ \A j, k \in 1..Len(tab) : tab[k] # NULL /\ tab[j] = tab[k] => j = k
  /\ \A k \in 1..3 : tab[k] # NULL => fds[tab[k]].mode = StdMode[k]

TableInv == Sound(table, fd)

\* The number ft_add() finds is one of the free ones.
LEMMA TableMin == ASSUME NEW T \in SUBSET Nat, T # {} PROVE Min(T) \in T
  BY SmallestNat, Zenon DEF Min

\* Two arrays, one after the other.
LEMMA Joined ==
  ASSUME NEW D, NEW f \in Seq(D), NEW g \in Seq(D)
  PROVE  /\ f \o g \in Seq(D) /\ Len(f \o g) = Len(f) + Len(g)
         /\ \A v \in 1..(Len(f) + Len(g)) : (f \o g)[v] = IF v <= Len(f) THEN f[v] ELSE g[v - Len(f)]
  OBVIOUS

\* An array with one more element.
LEMMA Longer ==
  ASSUME NEW D, NEW f \in Seq(D), NEW x \in D
  PROVE  /\ Append(f, x) \in Seq(D) /\ Len(Append(f, x)) = Len(f) + 1
         /\ \A v \in 1..(Len(f) + 1) : Append(f, x)[v] = IF v = Len(f) + 1 THEN x ELSE f[v]
  OBVIOUS

\* ft_attachstds() keeps the table sound.
LEMMA Attached ==
  ASSUME TableAssumption, NEW s, Sound(s.table, s.fd)
  PROVE  LET a == ft_attachstds(s)
         IN  /\ Sound(a.table, a.fd) /\ Len(a.table) = Len(s.table)
             /\ \A k \in 1..3 : a.table[k] # NULL
  <1> DEFINE n == Len(s.table)
             m == Len(s.fd)
             add == [k \in 1..3 |-> Fresh(StdMode[k], 1)]
             tab == [k \in 1..n |-> IF k <= 3 THEN m + k ELSE s.table[k]]
             fds == s.fd \o add
  <1>1. n \in 3..OPEN_MAX /\ m \in Nat /\ s.table \in Seq(Nat \cup {NULL}) /\ s.fd \in Seq(Descriptor)
    BY DEF Sound
  <1>2. add \in Seq(Descriptor) /\ Len(add) = 3
    <2>1. \A k \in 1..3 : add[k] \in Descriptor
      BY DEF Fresh, StdMode, Descriptor
    <2> QED
      BY <2>1
  <1>3. \A k \in 1..3 : add[k].mode = StdMode[k] /\ add[k].open
    BY DEF Fresh
  <1> HIDE DEF add
  <1>4. /\ fds \in Seq(Descriptor) /\ Len(fds) = m + 3
        /\ \A v \in 1..(m + 3) : fds[v] = IF v <= m THEN s.fd[v] ELSE add[v - m]
    <2> DEFINE f == s.fd
    <2>1. f \in Seq(Descriptor) /\ m = Len(f) /\ fds = f \o add
      BY <1>1
    <2> HIDE DEF f, m, fds
    <2>2. /\ f \o add \in Seq(Descriptor) /\ Len(f \o add) = Len(f) + Len(add)
          /\ \A v \in 1..(Len(f) + Len(add)) : (f \o add)[v] = IF v <= Len(f) THEN f[v] ELSE add[v - Len(f)]
      BY <1>2, <2>1, Joined, Zenon
    <2>3. /\ fds \in Seq(Descriptor) /\ Len(fds) = m + 3
          /\ \A v \in 1..(m + 3) : fds[v] = IF v <= m THEN f[v] ELSE add[v - m]
      BY <1>2, <2>1, <2>2
    <2> QED
      BY <2>3 DEF f
  <1>5. tab \in Seq(Nat \cup {NULL}) /\ Len(tab) = n
    <2>1. \A k \in 1..n : tab[k] \in Nat \cup {NULL}
      BY <1>1
    <2> QED
      BY <1>1, <2>1
  <1>6. \A k \in 1..n : tab[k] = IF k <= 3 THEN m + k ELSE s.table[k]
    OBVIOUS
  <1> HIDE DEF n, m, fds, tab
  <1>7. ASSUME NEW k \in 1..n, tab[k] # NULL
        PROVE  /\ tab[k] \in 1..(m + 3) /\ fds[tab[k]].open
               /\ k > 3 => s.table[k] # NULL /\ s.table[k] \in 1..m
               /\ k <= 3 => fds[tab[k]].mode = StdMode[k]
    <2>1. CASE k <= 3
      <3>1. tab[k] = m + k /\ m + k \in 1..(m + 3) /\ ~(m + k <= m) /\ (m + k) - m = k /\ k \in 1..3
        BY <1>1, <1>6, <2>1
      <3>2. fds[m + k] = add[k]
        BY <1>4, <3>1
      <3> QED
        BY <1>3, <2>1, <3>1, <3>2
    <2>2. CASE k > 3
      <3>1. tab[k] = s.table[k] /\ s.table[k] \in 1..m /\ s.fd[s.table[k]].open
        BY <1>1, <1>6, <1>7, <2>2 DEF Sound, n, m
      <3>2. fds[tab[k]] = s.fd[s.table[k]]
        BY <1>1, <1>4, <3>1
      <3> QED
        BY <1>1, <1>7, <2>2, <3>1, <3>2
    <2> QED
      BY <1>1, <2>1, <2>2
  <1>8. ASSUME NEW j \in 1..n, NEW k \in 1..n, tab[k] # NULL, tab[j] = tab[k]
        PROVE  j = k
    <2>1. \A v \in 1..n : v > 3 /\ tab[v] # NULL => tab[v] = s.table[v] /\ tab[v] <= m /\ s.table[v] # NULL
      <3> SUFFICES ASSUME NEW v \in 1..n, v > 3, tab[v] # NULL
                   PROVE  tab[v] = s.table[v] /\ tab[v] <= m /\ s.table[v] # NULL
        OBVIOUS
      <3>1. s.table[v] # NULL /\ s.table[v] \in 1..m
        BY <1>7
      <3>2. ~(v <= 3)
        BY <1>1
      <3> QED
        BY <1>1, <1>6, <3>1, <3>2
    <2>2. \A v \in 1..n : v <= 3 => tab[v] = m + v
      BY <1>6
    <2>3. \A v, l \in 1..n : s.table[l] # NULL /\ s.table[v] = s.table[l] => v = l
      BY DEF Sound, n
    <2> QED
      BY <1>1, <1>8, <2>1, <2>2, <2>3
  <1>9. \A k \in 1..3 : tab[k] = m + k /\ m + k # NULL
    BY <1>1, <1>6
  <1>10. \A k \in 1..3 : tab[k] # NULL => fds[tab[k]].mode = StdMode[k]
    BY <1>1, <1>7
  <1>11. Sound(tab, fds)
    BY <1>1, <1>4, <1>5, <1>7, <1>8, <1>10 DEF Sound
  <1> QED
    BY <1>5, <1>9, <1>11 DEF ft_attachstds, n, m, fds, tab, add

\* ft_get() keeps the table sound, and after it a standard descriptor is there.
LEMMA GotIsSound ==
  ASSUME TableAssumption, NEW s, Sound(s.table, s.fd), NEW n \in Nat
  PROVE  LET g == Got(s, n)
         IN  /\ Sound(g.table, g.fd) /\ Len(g.table) = Len(s.table)
             /\ n < 3 => g.table[n + 1] # NULL
             /\ \A k \in 1..3 : s.table[k] # NULL => g.table[k] # NULL
  <1>1. CASE n < 3 /\ s.table[n + 1] = NULL
    <2>1. Got(s, n) = ft_attachstds(s) /\ n + 1 \in 1..3
      BY <1>1 DEF Got
    <2> QED
      BY <2>1, Attached
  <1>2. CASE ~(n < 3 /\ s.table[n + 1] = NULL)
    BY <1>2 DEF Got
  <1> QED
    BY <1>1, <1>2

\* Changing a descriptor without closing it or changing its mode.
LEMMA Touched ==
  ASSUME NEW tab, NEW fds, Sound(tab, fds), NEW x \in 1..Len(fds), NEW d \in Descriptor,
         d.open, d.mode = fds[x].mode
  PROVE  Sound(tab, [fds EXCEPT ![x] = d])
  <1>1. /\ [fds EXCEPT ![x] = d] \in Seq(Descriptor) /\ Len([fds EXCEPT ![x] = d]) = Len(fds)
        /\ \A j \in 1..Len(fds) : [fds EXCEPT ![x] = d][j] = IF j = x THEN d ELSE fds[j]
    BY DEF Sound
  <1> DEFINE e == [fds EXCEPT ![x] = d]
  <1> HIDE DEF e
  <1>2. \A k \in 1..Len(tab) : tab[k] # NULL => tab[k] \in 1..Len(e) /\ e[tab[k]].open
    BY <1>1 DEF Sound, e
  <1>3. \A k \in 1..3 : tab[k] # NULL => e[tab[k]].mode = fds[tab[k]].mode
    BY <1>1 DEF Sound, e
  <1> QED
    BY <1>1, <1>2, <1>3 DEF Sound, e

\* A number is taken out; only its descriptor may change.
LEMMA TakenOut ==
  ASSUME NEW tab, NEW fds, Sound(tab, fds), NEW k \in 1..Len(tab), tab[k] # NULL, NEW d \in Descriptor
  PROVE  Sound([tab EXCEPT ![k] = NULL], [fds EXCEPT ![tab[k]] = d])
  <1> DEFINE x == tab[k]
             e == [fds EXCEPT ![x] = d]
             u == [tab EXCEPT ![k] = NULL]
  <1>0. x \in 1..Len(fds) /\ NULL \in Nat \cup {NULL}
    BY DEF Sound
  <1>1. e \in Seq(Descriptor) /\ Len(e) = Len(fds) /\ \A j \in 1..Len(fds) : e[j] = IF j = x THEN d ELSE fds[j]
    BY <1>0 DEF Sound
  <1>2. u \in Seq(Nat \cup {NULL}) /\ Len(u) = Len(tab) /\ \A j \in 1..Len(tab) : u[j] = IF j = k THEN NULL ELSE tab[j]
    BY <1>0 DEF Sound
  <1> HIDE DEF e, u
  <1>3. \A j \in 1..Len(tab) : u[j] # NULL => j # k /\ u[j] = tab[j] /\ tab[j] # x /\ e[tab[j]] = fds[tab[j]]
    BY <1>1, <1>2 DEF Sound
  <1>4. \A j \in 1..Len(u) : u[j] # NULL => u[j] \in 1..Len(e) /\ e[u[j]].open
    BY <1>1, <1>2, <1>3 DEF Sound
  <1>5. \A v, j \in 1..Len(u) : u[j] # NULL /\ u[v] = u[j] => v = j
    BY <1>2, <1>3 DEF Sound
  <1>6. \A j \in 1..3 : u[j] # NULL => e[u[j]].mode = StdMode[j]
    BY <1>2, <1>3 DEF Sound
  <1> QED
    BY <1>1, <1>2, <1>4, <1>5, <1>6 DEF Sound, e, u

\* A descriptor with other owners, closed or not, is a descriptor.
LEMMA DescriptorChange ==
  ASSUME NEW c \in Descriptor, NEW v \in Int, NEW o \in BOOLEAN
  PROVE  [c EXCEPT !.numOwners = v, !.open = o] \in Descriptor
  BY Zenon DEF Descriptor

\* ft_remove() keeps the table sound.
LEMMA RemovedIsSound ==
  ASSUME TableAssumption, NEW s, Sound(s.table, s.fd), NEW n \in 0..(Len(s.table) - 1)
  PROVE  LET r == Removed(s, n)
         IN  Sound(r.table, r.fd) /\ Len(r.table) = Len(s.table)
  <1> DEFINE g == Got(s, n)
             x == ft_get(s, n)
             d == [g.fd[x] EXCEPT !.numOwners = g.fd[x].numOwners - 1,
                                  !.open = (g.fd[x].numOwners - 1 # 0)]
  <1>1. n \in Nat /\ n + 1 \in 1..Len(s.table) /\ ~(n >= Len(s.table))
    BY DEF Sound
  <1>2. Sound(g.table, g.fd) /\ Len(g.table) = Len(s.table)
    BY <1>1, GotIsSound
  <1>3. x = g.table[n + 1]
    BY <1>1 DEF ft_get
  <1>4. CASE x = NULL
    BY <1>2, <1>4 DEF Removed
  <1>5. CASE x # NULL
    <2>1. x \in 1..Len(g.fd) /\ g.fd \in Seq(Descriptor)
      BY <1>1, <1>2, <1>3, <1>5 DEF Sound
    <2>2. g.fd[x] \in Descriptor
      BY <2>1
    <2>3. d \in Descriptor
      <3> DEFINE c == g.fd[x]
      <3>1. c \in Descriptor /\ c.numOwners - 1 \in Int /\ (c.numOwners - 1 # 0) \in BOOLEAN
        BY <2>2 DEF Descriptor
      <3> HIDE DEF c
      <3>2. [c EXCEPT !.numOwners = c.numOwners - 1, !.open = (c.numOwners - 1 # 0)] \in Descriptor
        BY <3>1, DescriptorChange, Zenon
      <3> QED
        BY <3>2 DEF c
    <2>4. Removed(s, n) = [table |-> [g.table EXCEPT ![n + 1] = NULL], fd |-> [g.fd EXCEPT ![x] = d]]
      BY <1>5, <2>1, Zenon DEF Removed
    <2> HIDE DEF g, x, d
    <2>5. Sound([g.table EXCEPT ![n + 1] = NULL], [g.fd EXCEPT ![x] = d])
      BY <1>1, <1>2, <1>3, <1>5, <2>3, TakenOut
    <2>6. Len([g.table EXCEPT ![n + 1] = NULL]) = Len(g.table)
      BY <1>1, <1>2 DEF Sound
    <2> QED
      BY <1>2, <2>4, <2>5, <2>6
  <1> QED
    BY <1>4, <1>5

\* ft_destroy() removes one number after the other.
LEMMA EmptiedIsSound ==
  ASSUME TableAssumption, TableInv
  PROVE  \A k \in 0..Len(table) : Sound(Emptied[k].table, Emptied[k].fd)
  <1> DEFINE N == Len(table)
             Step(f, k) == IF k = 0 THEN State ELSE Removed(f[k - 1], N - k)
             Upto(f, n) == \A k \in 0..n : f[k] = Step(f, k)
             Bad == {n \in 0..N : ~ \E f : Upto(f, n)}
  <1>1. N \in Nat
    BY DEF TableInv, Sound
  <1>2. Bad = {}
    <2> SUFFICES ASSUME Bad # {} PROVE FALSE
      OBVIOUS
    <2>0. Bad \in SUBSET Nat
      BY <1>1
    <2>1. PICK n \in Bad : \A m \in Bad : n <= m
      <3> HIDE DEF Bad
      <3> QED
        BY <2>0, SmallestNat
    <2>2. n # 0
      <3> DEFINE f == [k \in {0} |-> State]
      <3>1. \A k \in 0..0 : f[k] = Step(f, k)
        OBVIOUS
      <3> QED
        BY <3>1, Zenon
    <2>3. n - 1 \in 0..N /\ n - 1 \notin Bad
      <3>1. n \in 0..N
        OBVIOUS
      <3> HIDE DEF Bad
      <3> QED
        BY <1>1, <2>1, <2>2, <3>1
    <2>4. PICK f : Upto(f, n - 1)
      BY <2>3, Zenon
    <2> DEFINE h == [k \in 0..n |-> IF k = n THEN Removed(f[n - 1], N - n) ELSE f[k]]
    <2>5. Upto(h, n)
      <3> SUFFICES ASSUME NEW k \in 0..n PROVE h[k] = Step(h, k)
        BY Zenon
      <3>1. CASE k = n
        BY <1>1, <2>1, <2>2, <3>1
      <3>2. CASE k = 0
        BY <1>1, <2>1, <2>2, <2>4, <3>2
      <3>3. CASE k # n /\ k # 0
        <4>1. k \in 0..(n - 1) /\ k - 1 \in 0..n /\ k - 1 # n
          BY <1>1, <2>1, <3>3
        <4>2. h[k] = f[k] /\ h[k - 1] = f[k - 1]
          BY <3>3, <4>1
        <4>3. f[k] = Step(f, k)
          BY <2>4, <4>1
        <4> QED
          BY <3>3, <4>2, <4>3
      <3> QED
        BY <3>1, <3>2, <3>3
    <2> QED
      BY <2>1, <2>5, Zenon
  <1>3. PICK f : Upto(f, N)
    BY <1>1, <1>2
  <1> DEFINE e == [k \in 0..N |-> f[k]]
  <1>4. e = [k \in 0..N |-> Step(e, k)]
    <2>1. \A k \in 0..N : k # 0 => k - 1 \in 0..N
      BY <1>1
    <2>2. \A k \in 0..N : e[k] = Step(e, k)
      BY <1>3, <2>1
    <2> QED
      BY <2>2
  <1>5. Emptied = [k \in 0..N |-> Step(Emptied, k)]
    BY <1>4 DEF Emptied
  <1> DEFINE E == Emptied
             Wrong == {k \in 0..N : ~(Sound(E[k].table, E[k].fd) /\ Len(E[k].table) = N)}
  <1>6. \A k \in 0..N : E[k] = IF k = 0 THEN State ELSE Removed(E[k - 1], N - k)
    BY <1>5
  <1> HIDE DEF E
  <1>7. Wrong = {}
    <2> SUFFICES ASSUME Wrong # {} PROVE FALSE
      OBVIOUS
    <2>0. Wrong \in SUBSET Nat
      BY <1>1
    <2>1. PICK n \in Wrong : \A m \in Wrong : n <= m
      <3> HIDE DEF Wrong
      <3> QED
        BY <2>0, SmallestNat
    <2>2. n # 0
      BY <1>1, <1>6, <2>1 DEF TableInv, State
    <2>3. n - 1 \in 0..N /\ n - 1 \notin Wrong
      BY <1>1, <2>1, <2>2
    <2>4. Sound(E[n - 1].table, E[n - 1].fd) /\ Len(E[n - 1].table) = N
      BY <2>3
    <2>5. E[n] = Removed(E[n - 1], N - n) /\ N - n \in 0..(N - 1)
      BY <1>1, <1>6, <2>1, <2>2
    <2>6. Sound(E[n].table, E[n].fd) /\ Len(E[n].table) = N
      BY <2>4, <2>5, RemovedIsSound
    <2> QED
      BY <2>1, <2>6
  <1> QED
    BY <1>7 DEF E

\* ft_create() makes a table of three empty places.
LEMMA TableStarts == ASSUME TableAssumption PROVE TableInit => TableInv
  <1> SUFFICES ASSUME TableInit PROVE TableInv
    OBVIOUS
  <1>1. table = <<NULL, NULL, NULL>> /\ fd = <<>>
    BY DEF TableInit
  <1> QED
    BY <1>1 DEF TableInv, Sound

\* ft_add() of a new descriptor, with mode and owners, at number k.
LEMMA Added ==
  ASSUME TableAssumption, NEW tab, NEW fds, Sound(tab, fds), NEW d \in Descriptor, d.open,
         NEW k \in 4..Len(tab), tab[k] = NULL
  PROVE  Sound([tab EXCEPT ![k] = Len(fds) + 1], Append(fds, d))
  <1> DEFINE x == Len(fds) + 1
             e == Append(fds, d)
             u == [tab EXCEPT ![k] = x]
  <1>0. Len(fds) \in Nat /\ x \in Nat \cup {NULL} /\ k \in 1..Len(tab) /\ k > 3 /\ Len(tab) \in Nat
    BY DEF Sound
  <1>1. e \in Seq(Descriptor) /\ Len(e) = x /\ \A j \in 1..x : e[j] = IF j = x THEN d ELSE fds[j]
    BY <1>0 DEF Sound
  <1>2. u \in Seq(Nat \cup {NULL}) /\ Len(u) = Len(tab) /\ \A j \in 1..Len(tab) : u[j] = IF j = k THEN x ELSE tab[j]
    BY <1>0 DEF Sound
  <1>3. \A j \in 1..Len(tab) : j # k /\ tab[j] # NULL => tab[j] \in 1..Len(fds) /\ tab[j] # x /\ fds[tab[j]].open
    BY <1>0 DEF Sound
  <1> HIDE DEF e, u
  <1>4. \A j \in 1..Len(u) : u[j] # NULL => u[j] \in 1..Len(e) /\ e[u[j]].open
    BY <1>0, <1>1, <1>2, <1>3
  <1>5. \A v, j \in 1..Len(u) : u[j] # NULL /\ u[v] = u[j] => v = j
    BY <1>2, <1>3 DEF Sound
  <1>6. \A j \in 1..3 : u[j] # NULL => e[u[j]].mode = StdMode[j]
    <2>1. \A j \in 1..3 : j \in 1..Len(tab) /\ j # k /\ u[j] = tab[j]
      BY <1>0, <1>2 DEF Sound
    <2>2. \A j \in 1..3 : tab[j] # NULL => tab[j] \in 1..Len(fds) /\ tab[j] # x
      BY <1>3, <2>1
    <2>3. \A j \in 1..3 : tab[j] # NULL => e[tab[j]] = fds[tab[j]]
      BY <1>0, <1>1, <2>2
    <2>4. \A j \in 1..3 : tab[j] # NULL => fds[tab[j]].mode = StdMode[j]
      BY Zenon DEF Sound
    <2> HIDE DEF e, u
    <2> QED
      BY <2>1, <2>3, <2>4, Zenon
  <1> QED
    BY <1>1, <1>2, <1>4, <1>5, <1>6 DEF Sound, e, u

\* ft_add() to the end of the array keeps the table sound.
LEMMA AddedAtEnd ==
  ASSUME TableAssumption, NEW tab, NEW fds, Sound(tab, fds), NEW d \in Descriptor, d.open,
         Len(tab) < OPEN_MAX
  PROVE  Sound(Append(tab, Len(fds) + 1), Append(fds, d))
  <1> DEFINE x == Len(fds) + 1
             e == Append(fds, d)
             u == Append(tab, x)
             n == Len(tab) + 1
  <1>0. Len(fds) \in Nat /\ x \in Nat \cup {NULL} /\ Len(tab) \in Nat /\ Len(tab) >= 3 /\ OPEN_MAX \in Nat
    BY DEF Sound
  <1>1. e \in Seq(Descriptor) /\ Len(e) = x /\ \A j \in 1..x : e[j] = IF j = x THEN d ELSE fds[j]
    BY Longer DEF Sound
  <1>2. u \in Seq(Nat \cup {NULL}) /\ Len(u) = n /\ \A j \in 1..n : u[j] = IF j = n THEN x ELSE tab[j]
    BY <1>0, Longer DEF Sound
  <1>3. \A j \in 1..n : j # n /\ tab[j] # NULL => tab[j] \in 1..Len(fds) /\ tab[j] # x /\ fds[tab[j]].open
    BY <1>0 DEF Sound
  <1> HIDE DEF e, u
  <1>4. \A j \in 1..Len(u) : u[j] # NULL => u[j] \in 1..Len(e) /\ e[u[j]].open
    <2> SUFFICES ASSUME NEW j \in 1..n, u[j] # NULL PROVE u[j] \in 1..x /\ e[u[j]].open
      BY <1>1, <1>2
    <2>1. CASE j = n
      BY <1>0, <1>1, <1>2, <2>1
    <2>2. CASE j # n
      <3>1. u[j] = tab[j] /\ tab[j] \in 1..Len(fds) /\ tab[j] # x /\ fds[tab[j]].open
        BY <1>2, <1>3, <2>2
      <3> QED
        BY <1>0, <1>1, <3>1
    <2> QED
      BY <2>1, <2>2
  <1>5. \A v, j \in 1..Len(u) : u[j] # NULL /\ u[v] = u[j] => v = j
    <2> SUFFICES ASSUME NEW v \in 1..n, NEW j \in 1..n, u[j] # NULL, u[v] = u[j] PROVE v = j
      BY <1>2
    <2>1. u[v] = (IF v = n THEN x ELSE tab[v]) /\ u[j] = (IF j = n THEN x ELSE tab[j])
      BY <1>2
    <2>2. (v # n => tab[v] # x \/ tab[v] = NULL) /\ (j # n => tab[j] # x \/ tab[j] = NULL)
      BY <1>3
    <2>3. CASE v # n /\ j # n
      <3>1. v \in 1..Len(tab) /\ j \in 1..Len(tab)
        BY <1>0, <2>3
      <3>2. tab[j] # NULL /\ tab[v] = tab[j]
        BY <2>1, <2>3, Zenon
      <3> QED
        BY <3>1, <3>2 DEF Sound
    <2> QED
      BY <2>1, <2>2, <2>3, Zenon
  <1>6. \A j \in 1..3 : u[j] # NULL => e[u[j]].mode = StdMode[j]
    <2>1. \A j \in 1..3 : j \in 1..n /\ j # n /\ u[j] = tab[j]
      <3>1. \A j \in 1..3 : j \in 1..n /\ j # n
        BY <1>0
      <3> QED
        BY <1>2, <3>1
    <2>2. \A j \in 1..3 : tab[j] # NULL => tab[j] \in 1..Len(fds) /\ tab[j] # x
      BY <1>3, <2>1
    <2>3. \A j \in 1..3 : tab[j] # NULL => e[tab[j]] = fds[tab[j]]
      BY <1>0, <1>1, <2>2
    <2> QED
      BY <2>1, <2>3 DEF Sound
  <1>7. Len(u) \in 3..OPEN_MAX
    BY <1>0, <1>2
  <1> QED
    BY <1>1, <1>2, <1>4, <1>5, <1>6, <1>7 DEF Sound, e, u

\* ft_add() keeps the table sound, with the standard descriptors it opens first.
LEMMA TableAdds ==
  ASSUME TableAssumption, TableInv, NEW mode \in {"O_RDONLY", "O_RDWR"}, ft_add(mode)
  PROVE  TableInv'
  <1> DEFINE a == Got(State, 0)
             b == Got(a, 1)
             s == Got(b, 2)
             free == {n \in 0..(Min({Len(s.table), OPEN_MAX}) - 1) : s.table[n + 1] = NULL}
             k == Min(free) + 1
  <1>1. State.table = table /\ State.fd = fd
    BY DEF State
  <1>2. Sound(a.table, a.fd) /\ a.table[1] # NULL
    BY <1>1, GotIsSound DEF TableInv
  <1>3. Sound(b.table, b.fd) /\ b.table[1] # NULL /\ b.table[2] # NULL
    <2> HIDE DEF a
    <2> QED
      BY <1>2, GotIsSound
  <1>4. Sound(s.table, s.fd) /\ s.table[1] # NULL /\ s.table[2] # NULL /\ s.table[3] # NULL
    <2> HIDE DEF b
    <2> QED
      BY <1>3, GotIsSound
  <1>5. \/ /\ free # {}
           /\ table' = [s.table EXCEPT ![k] = Len(s.fd) + 1]
           /\ fd' = Append(s.fd, Fresh(mode, 0))
        \/ table' = s.table /\ fd' = s.fd
        \/ /\ ~(Len(s.table) >= OPEN_MAX)
           /\ table' = Append(s.table, Len(s.fd) + 1)
           /\ fd' = Append(s.fd, Fresh(mode, 1))
    BY Zenon DEF ft_add, Becomes
  <1> HIDE DEF s
  <1>6. \A o \in {0, 1} : Fresh(mode, o) \in Descriptor /\ Fresh(mode, o).open
    BY DEF Fresh, Descriptor
  <1>7. Len(s.table) \in 3..OPEN_MAX /\ OPEN_MAX \in Nat
    BY <1>4 DEF Sound
  <1>8. CASE free # {} /\ table' = [s.table EXCEPT ![k] = Len(s.fd) + 1] /\ fd' = Append(s.fd, Fresh(mode, 0))
    <2>1. Min({Len(s.table), OPEN_MAX}) \in {Len(s.table), OPEN_MAX}
      BY <1>7, TableMin
    <2>2. Min({Len(s.table), OPEN_MAX}) = Len(s.table)
      BY <1>7 DEF Min
    <2>3. free \in SUBSET Nat
      BY <1>7, <2>2
    <2>4. Min(free) \in free
      <3> HIDE DEF free
      <3> QED
        BY <1>8, <2>3, TableMin
    <2>5. k - 1 \in 0..(Len(s.table) - 1) /\ s.table[k] = NULL
      BY <1>7, <2>2, <2>4
    <2> HIDE DEF k
    <2>6. k \in Int
      BY <2>4, <2>3 DEF k
    <2>7. k \in 4..Len(s.table)
      BY <1>4, <1>7, <2>5, <2>6
    <2> QED
      BY <1>4, <1>6, <1>8, <2>5, <2>7, Added DEF TableInv
  <1>9. CASE table' = s.table /\ fd' = s.fd
    BY <1>4, <1>9 DEF TableInv
  <1>10. CASE /\ ~(Len(s.table) >= OPEN_MAX)
              /\ table' = Append(s.table, Len(s.fd) + 1)
              /\ fd' = Append(s.fd, Fresh(mode, 1))
    <2>1. Len(s.table) < OPEN_MAX
      BY <1>7, <1>10
    <2> QED
      BY <1>4, <1>6, <1>10, <2>1, AddedAtEnd DEF TableInv
  <1> QED
    BY <1>5, <1>8, <1>9, <1>10, Zenon

\* Every operation on the table keeps it sound.
LEMMA TableSteps == ASSUME TableAssumption PROVE TableInv /\ [TableNext]_table_vars => TableInv'
  <1> SUFFICES ASSUME TableInv, [TableNext]_table_vars PROVE TableInv'
    OBVIOUS
  <1>1. State.table = table /\ State.fd = fd /\ Sound(State.table, State.fd)
    BY DEF State, TableInv
  <1> DEFINE s == State
  <1> HIDE DEF s
  <1>2. ASSUME NEW n \in 0..OPEN_MAX, AttachFails(n) PROVE TableInv'
    BY <1>2 DEF AttachFails, TableInv
  <1>3. ASSUME NEW n \in 0..OPEN_MAX, ft_remove(n) PROVE TableInv'
    <2>1. n \in 0..(Len(s.table) - 1)
      BY <1>1, <1>3 DEF ft_remove, s, Sound
    <2>2. table' = Removed(s, n).table /\ fd' = Removed(s, n).fd
      BY <1>3 DEF ft_remove, Becomes, s
    <2> QED
      BY <1>1, <2>1, <2>2, RemovedIsSound DEF TableInv, s
  <1>4. ASSUME NEW n \in 0..OPEN_MAX, sys_write(n) PROVE TableInv'
    <2> DEFINE g == Got(s, n)
               x == ft_get(s, n)
    <2>1. n \in Nat
      OBVIOUS
    <2>2. Sound(g.table, g.fd)
      BY <1>1, <2>1, GotIsSound DEF s
    <2>3. \/ table' = g.table /\ fd' = g.fd
          \/ /\ x # NULL /\ table' = [g EXCEPT !.fd[x].offset = 1].table
             /\ fd' = [g EXCEPT !.fd[x].offset = 1].fd
      BY <1>4 DEF sys_write, Becomes, s
    <2>4. CASE table' = g.table /\ fd' = g.fd
      BY <2>2, <2>4 DEF TableInv
    <2>5. CASE x # NULL /\ table' = [g EXCEPT !.fd[x].offset = 1].table
               /\ fd' = [g EXCEPT !.fd[x].offset = 1].fd
      <3>1. x = g.table[n + 1] /\ n + 1 \in 1..Len(g.table)
        <4>1. ~(n >= Len(s.table)) /\ x = g.table[n + 1]
          BY <2>5 DEF ft_get
        <4>2. Len(g.table) = Len(s.table)
          BY <1>1, <2>1, GotIsSound DEF s
        <4> QED
          BY <1>1, <2>1, <4>1, <4>2 DEF Sound, s
      <3>2. x \in 1..Len(g.fd) /\ g.fd[x].open /\ g.fd \in Seq(Descriptor)
        BY <2>2, <2>5, <3>1 DEF Sound
      <3> DEFINE c == g.fd[x]
                 d == [c EXCEPT !.offset = 1]
      <3>3. table' = g.table /\ fd' = [g.fd EXCEPT ![x] = d]
        <4>1. g = [table |-> g.table, fd |-> g.fd]
          BY Zenon DEF Got, ft_attachstds, s, State
        <4> QED
          BY <2>5, <4>1
      <3>4. c \in Descriptor
        BY <3>2
      <3> HIDE DEF c
      <3>5. d \in Descriptor /\ d.open = c.open /\ d.mode = c.mode
        BY <3>4 DEF Descriptor
      <3> HIDE DEF d, g, x
      <3> QED
        BY <2>2, <3>2, <3>3, <3>5, Touched, Zenon DEF TableInv, c
    <2> QED
      BY <2>3, <2>4, <2>5
  <1>5. CASE ft_destroy
    <2>1. table' = <<NULL, NULL, NULL>> /\ fd' = Emptied[Len(table)].fd
      BY <1>5 DEF ft_destroy
    <2>2. Len(table) \in 0..Len(table)
      BY <1>1 DEF Sound
    <2>3. fd' \in Seq(Descriptor)
      BY <2>1, <2>2, EmptiedIsSound DEF Sound
    <2> QED
      BY <2>1, <2>3 DEF TableInv, Sound
  <1>6. CASE UNCHANGED table_vars
    BY <1>6 DEF table_vars, TableInv
  <1> QED
    BY <1>2, <1>3, <1>4, <1>5, <1>6, TableAdds DEF TableNext

\* Every number of a file table leads to a descriptor that is open, and no two
\* to the same: ft_remove() and ft_destroy() free no descriptor that ft_get() can
\* still find.
THEOREM TableNeverDangles == TableSpec => []TableNoDangling
  <1>1. TableInv => TableNoDangling
    BY DEF TableInv, Sound, TableNoDangling
  <1> QED
    BY TableAssumption, TableStarts, TableSteps, <1>1, PTL DEF TableSpec

\* The table never has fewer than the three standard numbers nor more than
\* OPEN_MAX, and these three have the modes ft_attachstds() opens them with.
THEOREM TableNumbersStaySound == TableSpec => []TableNumbersAreSound
  <1>1. TableInv => TableNumbersAreSound
    BY TableAssumption DEF TableInv, Sound, TableNumbersAreSound
  <1> QED
    BY TableAssumption, TableStarts, TableSteps, <1>1, PTL DEF TableSpec
=============================================================================
