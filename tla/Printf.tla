-------------------------------- MODULE Printf --------------------------------
(***************************************************************************)
(* Formatted output: the guts of printf shared by the kernel and libc      *)
(* (lib/libc/__printf.c) and vsnprintf() (lib/libc/snprintf.c), which      *)
(* sends what is printed into a buffer of limited length.                  *)
(*                                                                         *)
(* The format is consumed one character at a time; a number is an unsigned *)
(* long of W bits, and int is as wide as long.  Output characters are      *)
(* numbers: 0 to 15 are the digits.                                        *)
(***************************************************************************)
EXTENDS Integers, Sequences

CONSTANTS
  W,             \* bits of a long
  Chars,         \* characters of formats
  Nums,          \* integer arguments, as unsigned numbers below 2^W
  StrLens,       \* lengths of string arguments
  BufLens,       \* buffer lengths given to snprintf()
  MaxFormat      \* bound: characters of a format

Minus == 16
Ex == 17         \* the x of 0x
Space == 18
Other == 19      \* any other character
Nul == 20
Untouched == 21  \* what a buffer holds before the call

VARIABLES
  pf,            \* the state of printf
  out,           \* everything sent
  snp,           \* the context of snprintf() and its buffer
  seen,          \* characters of the format consumed
  field          \* what the last field that printed a number was given, and sent

vars == <<pf, out, snp, seen, field>>

Modifiers == {"#", "-", "q", "l", "0", "1", "2", "3"}
IntTypes == {"d", "o", "u", "p", "x"}
DigitOf == [c \in {"1", "2", "3"} |-> CASE c = "1" -> 1 [] c = "2" -> 2 [] c = "3" -> 3]

\* __pf_endfield().  digits are the digits of the format met in this field.
endfield ==
  [in_pct |-> FALSE, size |-> "INTSZ", spacing |-> 0, rightspc |-> FALSE,
   fillchar |-> Space, altformat |-> FALSE, digits |-> <<>>]

NoField == [text |-> <<>>, arg |-> 0, base |-> 0, pf |-> endfield, slots |-> 0]

----------------------------------------------------------------------------
(* snprintf() *)

\* vsnprintf() up to the call of __vprintf(); the cell at len is the first
\* one past the buffer.
vsnprintf(len) ==
  [len |-> len, buflen |-> IF len = 0 THEN 0 ELSE len - 1, bufpos |-> 0,
   buf |-> [i \in 0..len |-> Untouched]]

\* __snprintf_send(): stores what there is room for.
snprintf_send(s, data) ==
  LET n == IF s.buflen - s.bufpos < Len(data) THEN s.buflen - s.bufpos ELSE Len(data)
  IN [s EXCEPT !.bufpos = @ + n,
               !.buf = [i \in DOMAIN @ |-> IF i \in s.bufpos..(s.bufpos + n - 1)
                                           THEN data[i - s.bufpos + 1] ELSE @[i]]]

\* The terminator that vsnprintf() adds.
Terminated(s) == IF s.len > 0 THEN [s.buf EXCEPT ![s.bufpos] = Nul] ELSE s.buf

----------------------------------------------------------------------------
(* The fields *)

Init ==
  /\ pf = endfield /\ out = <<>> /\ seen = 0 /\ field = NoField
  /\ \E len \in BufLens : snp = vsnprintf(len)

\* __pf_print(): sends text on.
pf_print(text) == out' = out \o text /\ snp' = snprintf_send(snp, text)

WithDigit(d) == [pf EXCEPT !.digits = Append(@, d)]

\* __pf_modifier().
modifier(ch) ==
  CASE ch = "#" -> [pf EXCEPT !.altformat = TRUE]
    [] ch = "-" -> [pf EXCEPT !.rightspc = TRUE]
    [] ch \in {"l", "q"} -> [pf EXCEPT !.size = "LONGSZ"]
    [] ch = "0" -> IF pf.spacing > 0 THEN [WithDigit(0) EXCEPT !.spacing = @ * 10]
                   ELSE [WithDigit(0) EXCEPT !.fillchar = 0]
    [] OTHER -> [WithDigit(DigitOf[ch]) EXCEPT !.spacing = @ * 10 + DigitOf[ch]]

Signed(v) == IF v >= 2^(W - 1) THEN v - 2^W ELSE v

\* __pf_getnum(): -signednum wraps around for the smallest number, and is
\* its absolute value once unsigned.
getnum(ch, v) ==
  IF ch = "d" /\ Signed(v) < 0 THEN [num |-> (-Signed(v)) % 2^W, sign |-> TRUE]
  ELSE [num |-> v % 2^W, sign |-> FALSE]

\* __pf_setbase().
setbase(ch) == CASE ch \in {"d", "u"} -> 10 [] ch \in {"x", "p"} -> 16 [] ch = "o" -> 8

\* __pf_fill(), when it is called for.
fill(spc, wanted) == IF wanted THEN [i \in 1..spc |-> pf.fillchar] ELSE <<>>

bug_printstuff(prefix, prefix2, stuff) ==   \* zeros before the sign
  LET len == Len(prefix) + Len(prefix2) + Len(stuff)
      spc == IF pf.spacing > len THEN pf.spacing - len ELSE 0
  IN fill(spc, ~pf.rightspc) \o prefix \o prefix2 \o stuff \o fill(spc, pf.rightspc)

\* __pf_printstuff(): "prefixes ... get printed *after* space padding but
\* *before* zero padding".
printstuff(prefix, prefix2, stuff) ==
  LET len == Len(prefix) + Len(prefix2) + Len(stuff)
      spc == IF pf.spacing > len THEN pf.spacing - len ELSE 0
  IN fill(spc, ~pf.rightspc /\ pf.fillchar # 0) \o prefix \o prefix2
     \o fill(spc, ~pf.rightspc /\ pf.fillchar = 0) \o stuff \o fill(spc, pf.rightspc)

\* The loop of __pf_printnum(), at least once, from the right.
RECURSIVE Digits(_, _)
Digits(xnum, base) ==
  IF xnum < base THEN <<xnum>> ELSE Append(Digits(xnum \div base, base), xnum % base)

NUMBER_BUF_SIZE == W \div 3 + 2

\* __pf_printnum(): digits, prefix of the base, sign.
printnum(n, base, baseprefix) ==
  printstuff(IF n.sign THEN <<Minus>> ELSE <<>>,
             CASE baseprefix /\ base = 16 -> <<0, Ex>>
               [] baseprefix /\ base = 8 -> <<0>>
               [] OTHER -> <<>>,
             Digits(n.num, base))

\* The integer types of __pf_send().
SendNumber(ch) ==
  /\ pf.in_pct /\ ch \in IntTypes
  /\ \E v \in Nums :
       LET n == getnum(ch, v)
           base == setbase(ch)
           text == printnum(n, base, pf.altformat \/ ch = "p")
       IN /\ pf_print(text)
          /\ field' = [text |-> text, base |-> base, pf |-> pf,
                       arg |-> IF ch = "d" THEN Signed(v) ELSE v % 2^W,
                       slots |-> Len(Digits(n.num, base)) + 1]
  /\ pf' = endfield

\* %s: a NULL string is printed as the six characters (null).
SendString(ch) ==
  /\ pf.in_pct /\ ch = "s"
  /\ \E n \in StrLens \cup {6} : pf_print(printstuff(<<>>, <<>>, [i \in 1..n |-> Other]))
  /\ pf' = endfield /\ UNCHANGED field

\* %%, %c or an illegal character; the character of %c may be 0, which prints
\* nothing.
SendChar(ch) ==
  /\ pf.in_pct /\ ch \notin Modifiers \cup IntTypes \cup {"s"}
  /\ \E x \in IF ch = "c" THEN {<<>>, <<Other>>} ELSE {<<Other>>} :
       pf_print(printstuff(<<>>, <<>>, x))
  /\ pf' = endfield /\ UNCHANGED field

\* Outside a field, or a modifier inside one.
SendPlain(ch) ==
  \/ /\ ~pf.in_pct /\ ch # "%" /\ pf_print(<<Other>>) /\ UNCHANGED <<pf, field>>
  \/ /\ ~pf.in_pct /\ ch = "%" /\ pf' = [pf EXCEPT !.in_pct = TRUE]
     /\ UNCHANGED <<out, snp, field>>
  \/ /\ pf.in_pct /\ ch \in Modifiers /\ pf' = modifier(ch) /\ UNCHANGED <<out, snp, field>>

\* __pf_send().
pf_send(ch) == SendNumber(ch) \/ SendString(ch) \/ SendChar(ch) \/ SendPlain(ch)

\* __vprintf() gives __pf_send() the next character.
Next ==
  /\ seen < MaxFormat /\ seen' = seen + 1
  /\ \E ch \in Chars : pf_send(ch)

Spec == Init /\ [][Next]_vars

----------------------------------------------------------------------------
(* What a reader makes of a printed number: the padding and the prefixes    *)
(* skipped, the digits read in the base.                                    *)

RECURSIVE Value(_, _)
Value(digits, base) ==
  IF digits = <<>> THEN 0
  ELSE base * Value(SubSeq(digits, 1, Len(digits) - 1), base) + digits[Len(digits)]

Read(text, base) ==
  LET t == SelectSeq(text, LAMBDA c : c # Space)
      s == IF t # <<>> /\ t[1] = Minus THEN -1 ELSE 1
      u == IF s = -1 THEN Tail(t) ELSE t
  IN s * Value(IF Len(u) > 1 /\ u[2] = Ex THEN SubSeq(u, 3, Len(u)) ELSE u, base)

\* Every number that __pf_send() prints reads back as the argument, in every
\* base and with every combination of width, alignment, padding and prefix,
\* the smallest negative number included.  A number that is aligned to the
\* left and padded with zeros is the exception: the zeros follow it.
NumbersReadBack ==
  (field.base > 0 /\ ~(field.pf.rightspc /\ field.pf.fillchar = 0)) =>
    Read(field.text, field.base) = field.arg

\* The text of a number and its terminator fit the buffer of
\* __pf_printnum(): "the longest number string we can generate ... will fit".
NumberFits == field.slots <= NUMBER_BUF_SIZE

\* snprintf() leaves the beginning of what was printed in the buffer, as much
\* as fits before a terminator, and touches nothing past its end.
BufferIsPrefix ==
  LET b == Terminated(snp)
      kept == IF Len(out) < snp.len THEN Len(out) ELSE snp.len - 1
  IN /\ b[snp.len] = Untouched
     /\ snp.len > 0 => b[kept] = Nul /\ \A i \in 1..kept : b[i - 1] = out[i]

\* A number takes exactly the width that the digits of its format spell, or
\* more when it does not fit and is then not padded.
WidthIsMet ==
  LET width == Value(field.pf.digits, 10)
      n == Len(field.text)
  IN field.base > 0 => n >= width /\ (n > width => Space \notin {field.text[1], field.text[n]})
=============================================================================
