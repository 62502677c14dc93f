-------------------------------- MODULE Bitmap --------------------------------
(***************************************************************************)
(* Arrays of bits, kern/lib/bitmap.c.  A word is the set of its bits that  *)
(* are set.  The maps for which bitmap_create() is called have nbits bits, *)
(* at most MaxBits of them.                                                *)
(***************************************************************************)
EXTENDS Integers, FiniteSets, FiniteSetsExt

CONSTANTS BITS_PER_WORD, MaxBits

ASSUME BitsAssumption == BITS_PER_WORD \in Nat \ {0} /\ MaxBits \in Nat \ {0}

VARIABLES nbits, words, given, failed

bitmap_vars == <<nbits, words, given, failed>>

DIVROUNDUP(a, b) == (a + b - 1) \div b
Bit == 0..(BITS_PER_WORD - 1)
WORD_ALLBITS == Bit
Words(n) == DIVROUNDUP(n, BITS_PER_WORD)

\* The bits at the end of the last word that the map does not have are
\* marked in use.
bitmap_create(n) ==
  [ix \in 0..(Words(n) - 1) |->
     IF n \div BITS_PER_WORD < Words(n) /\ ix = Words(n) - 1
     THEN (n - ix * BITS_PER_WORD)..(BITS_PER_WORD - 1) ELSE {}]

\* given is what the callers have; failed, that an assertion has.
BitmapInit ==
  \E n \in 1..MaxBits : nbits = n /\ words = bitmap_create(n) /\ given = {} /\ failed = FALSE

bitmap_translate(index) == [ix |-> index \div BITS_PER_WORD, offset |-> index % BITS_PER_WORD]

\* The first word that is not full, and its first bit that is clear.
bitmap_alloc ==
  LET notfull == {ix \in DOMAIN words : words[ix] # WORD_ALLBITS}
      ix == Min(notfull)
      offset == Min(WORD_ALLBITS \ words[ix])
      index == ix * BITS_PER_WORD + offset
  IN  /\ notfull # {}                               \* or ENOSPC
      /\ words' = [words EXCEPT ![ix] = @ \cup {offset}]
      /\ failed' = ~(index < nbits)
      /\ given' = given \cup {index}
      /\ UNCHANGED nbits

\* A caller marks a bit that it knows to be clear.
bitmap_mark(index) ==
  LET b == bitmap_translate(index)
  IN  /\ index \notin given
      /\ failed' = ~(index < nbits /\ b.offset \notin words[b.ix])
      /\ words' = [words EXCEPT ![b.ix] = @ \cup {b.offset}]
      /\ given' = given \cup {index}
      /\ UNCHANGED nbits

bug_bitmap_unmark(index) ==             \* clears the others of the word
  LET b == bitmap_translate(index)
  IN  /\ index \in given
      /\ failed' = (b.offset \notin words[b.ix])
      /\ words' = [words EXCEPT ![b.ix] = @ \cap {b.offset}]
      /\ given' = given \ {index}
      /\ UNCHANGED nbits

bitmap_unmark(index) ==
  LET b == bitmap_translate(index)
  IN  /\ index \in given
      /\ failed' = ~(index < nbits /\ b.offset \in words[b.ix])
      /\ words' = [words EXCEPT ![b.ix] = @ \ {b.offset}]
      /\ given' = given \ {index}
      /\ UNCHANGED nbits

bitmap_isset(index) == LET b == bitmap_translate(index) IN b.offset \in words[b.ix]

BitmapNext ==
  /\ ~failed
  /\ bitmap_alloc \/ \E index \in 0..(nbits - 1) : bitmap_mark(index) \/ bitmap_unmark(index)

BitmapSpec == BitmapInit /\ [][BitmapNext]_bitmap_vars

----------------------------------------------------------------------------
\* A bit is set if and only if somebody has it, and bitmap_alloc() says
\* ENOSPC only when all are taken.
BitmapBitsAreExact ==
  /\ \A index \in 0..(nbits - 1) : bitmap_isset(index) = (index \in given)
  /\ (\A ix \in DOMAIN words : words[ix] = WORD_ALLBITS) => given = 0..(nbits - 1)

\* bitmap_alloc() never gives out one of the bits past the end, and no
\* assertion of the bitmap fails.
BitmapOnlyItsBits == ~failed /\ given \subseteq 0..(nbits - 1)
=============================================================================
