-------------------------------- MODULE Clock ---------------------------------
(***************************************************************************)
(* Time and random numbers: gettime() (dev/generic/rtclock.c) on the timer *)
(* card (dev/lamebus/ltimer.c), whose clock runs between the three reads,  *)
(* and random() (dev/generic/random.c, pseudorand.c), whose seed two       *)
(* threads may advance at once.  Nothing turns interrupts off in either.   *)
(*                                                                         *)
(* Time is counted in units of the nanosecond register.                    *)
(***************************************************************************)
EXTENDS Integers

CONSTANTS
  Thread,
  SECOND,         \* units in a second
  SMALL,          \* nsecs below which the later seconds are used
  MaxGap,         \* bound: units from the first read to the last
  MULTIPLIER, MODULUS,
  WORD,           \* int32_t: numbers from -WORD to WORD - 1
  NULL,
  MaxTime, MaxCalls \* bounds

K1 == MODULUS \div MULTIPLIER
K2 == MODULUS % MULTIPLIER

VARIABLES
  now,            \* the clock of the card
  call,           \* per thread: how far its gettime() is, and what it read
  result,         \* the last time returned, between the first and the last read
  seed,           \* ps_seed
  loaded,         \* per thread: the seed its pseudorand_random() works on, or 0
  drawn,          \* the last number returned
  calls

vars == <<now, call, result, seed, loaded, drawn, calls>>

Idle == [pc |-> "idle", start |-> 0, secs1 |-> 0, nsecs |-> 0]
NoResult == [time |-> 0, first |-> 0, last |-> 0]

\* pseudoattach_pseudorand(): the seed is between 1 and MODULUS - 1.
Init ==
  /\ now = 0 /\ call = [t \in Thread |-> Idle] /\ result = NoResult
  /\ seed \in 1..(MODULUS - 1) /\ loaded = [t \in Thread |-> 0]
  /\ drawn = NULL /\ calls = 0

----------------------------------------------------------------------------
(* gettime() *)

Secs == now \div SECOND
Nsecs == now % SECOND

\* The clock runs, but not so long that a gettime() takes more than MaxGap.
Tick ==
  /\ now < MaxTime /\ \A t \in Thread : call[t].pc # "idle" => now - call[t].start < MaxGap
  /\ now' = now + 1
  /\ UNCHANGED <<call, result, seed, loaded, drawn, calls>>

ReadSecs(t) ==
  /\ call[t].pc = "idle" /\ loaded[t] = 0
  /\ call' = [call EXCEPT ![t] = [pc |-> "nsecs", start |-> now, secs1 |-> Secs, nsecs |-> 0]]
  /\ UNCHANGED <<now, result, seed, loaded, drawn, calls>>

ReadNsecs(t) ==
  /\ call[t].pc = "nsecs"
  /\ call' = [call EXCEPT ![t] = [@ EXCEPT !.pc = "again", !.nsecs = Nsecs]]
  /\ UNCHANGED <<now, result, seed, loaded, drawn, calls>>

bug_Seconds(c, secs2) == c.secs1
\* "If nsecs is small, use the *later* value of seconds".
Seconds(c, secs2) == IF c.nsecs < SMALL THEN secs2 ELSE c.secs1

ReadAgain(t) ==
  /\ call[t].pc = "again"
  /\ result' = [time |-> Seconds(call[t], Secs) * SECOND + call[t].nsecs,
                first |-> call[t].start, last |-> now]
  /\ call' = [call EXCEPT ![t] = Idle]
  /\ UNCHANGED <<now, seed, loaded, drawn, calls>>

ltimer_gettime(t) == ReadSecs(t) \/ ReadNsecs(t) \/ ReadAgain(t)

----------------------------------------------------------------------------
(* random() *)

Load(t) ==
  /\ calls < MaxCalls /\ calls' = calls + 1
  /\ call[t].pc = "idle" /\ loaded[t] = 0
  /\ loaded' = [loaded EXCEPT ![t] = seed]
  /\ UNCHANGED <<now, call, result, seed, drawn>>

\* The arithmetic of pseudorand_random().
Advance(s) ==
  LET tmp == MULTIPLIER * (s % K1) - K2 * (s \div K1)
  IN IF tmp <= 0 THEN tmp + MODULUS ELSE tmp

Save(t) ==
  /\ loaded[t] # 0
  /\ seed' = Advance(loaded[t]) /\ drawn' = Advance(loaded[t]) - 1
  /\ loaded' = [loaded EXCEPT ![t] = 0]
  /\ UNCHANGED <<now, call, result, calls>>

pseudorand_random(t) == Load(t) \/ Save(t)

pseudorand_randmax == MODULUS - 2

Next ==
  \/ Tick
  \/ \E t \in Thread : ltimer_gettime(t) \/ pseudorand_random(t)

Spec == Init /\ [][Next]_vars

----------------------------------------------------------------------------
\* The time that gettime() returns lies between its first and its last read
\* of the card, also when the second turns over between them, as long as the
\* reads are no more than SMALL apart.
TimeIsTrue == result.first <= result.time /\ result.time <= result.last

\* Without ever leaving the range of an int32_t, the seed stays the product
\* that the generator is defined by, never 0 and never MODULUS ("The seed
\* ranges from 1 through MODULUS-1"), and nothing above randmax() is
\* returned, even when two threads advance the seed at once.
SeedIsExact ==
  /\ seed \in 1..(MODULUS - 1) /\ (drawn # NULL => drawn \in 0..pseudorand_randmax)
  /\ \A t \in Thread : LET s == loaded[t] IN s # 0 =>
       /\ Advance(s) = (MULTIPLIER * s) % MODULUS
       /\ MULTIPLIER * (s % K1) < WORD /\ K2 * (s \div K1) < WORD
=============================================================================
