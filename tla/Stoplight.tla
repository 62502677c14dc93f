------------------------------ MODULE Stoplight ------------------------------
(***************************************************************************)
(* The intersection of kern/asst1/stoplight_v2.c: cars, each a thread,     *)
(* cross the regions NW, NE, SE, SW of an intersection, with a flag, a     *)
(* count and a queue of waiters per region, and a limit, a count and a     *)
(* queue for the cars that are to wait outside.  stoplight_v3.c has the    *)
(* same intersection.                                                      *)
(*                                                                         *)
(* A step is a stretch of code between two places where another car may    *)
(* run with an effect: threads are preempted anywhere but in splhigh().    *)
(* lock_acquire() and lock_release() of kern/thread/synch.c do nothing and *)
(* are no steps: neither the tests of flags and counts nor the updates of  *)
(* limit are protected.  Memory for the queues suffices.                   *)
(***************************************************************************)
EXTENDS Integers, Sequences, SequencesExt

CONSTANTS
  Car,        \* the threads forked by createcars(), NCARS of them
  LIMIT,      \* above it cars wait outside: 2
  Direction   \* bound: where cars come from, of north, east, south, west

Region == {"NW", "NE", "SE", "SW"}
Place == Region \cup {"outside"}

VARIABLES
  flag,      \* NW, NE, SE, SW
  limit,
  count,     \* NWcount, NEcount, SEcount, SWcount and count
  queue,     \* queue0..queue3, by region, and queue4
  car,       \* per car: where it is, its path, the step it is at, what it read
  panicked   \* an assertion has failed

vars == <<flag, limit, count, queue, car, panicked>>

(***************************************************************************)
(* The branches of gostraight(), turnleft() and turnright(): the regions   *)
(* entered and left, in order.  To enter is to wait while the region's     *)
(* flag is up, and to raise and lower the flag; to leave is to wake the    *)
(* first waiter.                                                           *)
(***************************************************************************)
E(r) == <<"enter", r>>
L(r) == <<"leave", r>>

straight_north == <<E("NW"), E("SW"), L("NW"), L("SW")>>
straight_east  == <<E("NE"), E("NW"), L("NE"), L("NW")>>
straight_south == <<E("SE"), E("NE"), L("SE"), L("NE")>>
straight_west  == <<E("SW"), E("SE"), L("SW"), L("SE")>>

left_north == <<E("NW"), E("SW"), L("NW"), E("SE"), L("SW"), L("SE")>>
left_east  == <<E("NE"), E("NW"), L("NE"), E("SW"), L("NW"), L("SW")>>
left_south == <<E("SE"), E("NE"), L("SE"), E("NW"), L("NE"), L("NW")>>
left_west  == <<E("SW"), E("SE"), L("SW"), E("NE"), L("SE"), L("NE")>>

right_north == <<E("NW"), L("NW")>>
right_east  == <<E("NE"), L("NE")>>
right_south == <<E("SE"), L("SE")>>
right_west  == <<E("SW"), L("SW")>>

\* random() % 4 and random() % 3: where a car comes from, and its turn.
PathsFrom(direction) ==
  CASE direction = "north" -> {straight_north, left_north, right_north}
    [] direction = "east"  -> {straight_east, left_east, right_east}
    [] direction = "south" -> {straight_south, left_south, right_south}
    [] direction = "west"  -> {straight_west, left_west, right_west}

----------------------------------------------------------------------------
Outside == [pc |-> "approaching", path |-> <<>>, i |-> 0, read |-> 0]

GoTo(c, pc) == car' = [car EXCEPT ![c].pc = pc]
At(c, pc) == car[c].pc = pc

\* The region the car is to enter or leave, and a car before its i-th call.
Here(c) == IF car[c].path = <<>> THEN "outside" ELSE car[c].path[car[c].i][2]
OnPath(path, i) ==
  IF i > Len(path) THEN [Outside EXCEPT !.pc = "leaving"]
                   ELSE [Outside EXCEPT !.pc = path[i][1], !.path = path, !.i = i]
Advance(c) == car' = [car EXCEPT ![c] = OnPath(car[c].path, car[c].i + 1)]

\* The globals and the queues made by createcars(), which then forks every
\* car.
createcars ==
  /\ flag = [r \in Region |-> 0] /\ limit = 0
  /\ count = [p \in Place |-> 0] /\ queue = [p \in Place |-> <<>>]
  /\ car = [c \in Car |-> Outside]
  /\ panicked = FALSE

----------------------------------------------------------------------------
(* Waiting and waking *)

bug_SleepOn(c) ==               \* the sleeper is not counted
  /\ At(c, "wait") /\ GoTo(c, "asleep")
  /\ queue' = [queue EXCEPT ![Here(c)] = Append(@, c)]
  /\ UNCHANGED <<flag, limit, count, panicked>>

\* The splhigh() section of a waiting loop: the car counts and queues itself
\* and sleeps.
SleepOn(c) ==
  /\ At(c, "wait") /\ GoTo(c, "asleep")
  /\ count' = [count EXCEPT ![Here(c)] = @ + 1]
  /\ queue' = [queue EXCEPT ![Here(c)] = Append(@, c)]
  /\ UNCHANGED <<flag, limit, panicked>>

\* The splhigh() section that wakes the first car asleep here, which goes
\* back to its test; q_remhead() asserts that there is one.  next is what
\* becomes of the car itself.
Wake(c, next) ==
  LET q == queue[Here(c)]
      back == IF Here(c) = "outside" THEN "approaching" ELSE "enter"
  IN  /\ count' = [count EXCEPT ![Here(c)] = @ - 1]
      /\ \/ /\ q # <<>> /\ queue' = [queue EXCEPT ![Here(c)] = Tail(@)]
            /\ car' = [car EXCEPT ![c] = next, ![Head(q)].pc = back]
            /\ UNCHANGED panicked
         \/ q = <<>> /\ panicked' = TRUE /\ UNCHANGED <<queue, car>>
      /\ UNCHANGED <<flag, limit>>

----------------------------------------------------------------------------
(* approachintersection() *)

\* The test of limit.
Approach(c) ==
  /\ At(c, "approaching")
  /\ GoTo(c, IF limit > LIMIT THEN "wait" ELSE "counting")
  /\ UNCHANGED <<flag, limit, count, queue, panicked>>

\* limit++ and limit-1 are a read and a write.
ReadLimit(c) ==
  /\ car[c].pc \in {"counting", "leaving"}
  /\ car' = [car EXCEPT ![c].read = limit,
                        ![c].pc = IF At(c, "counting") THEN "counted" ELSE "left"]
  /\ UNCHANGED <<flag, limit, count, queue, panicked>>

\* The write, a direction and a turn, and into one of the three functions.
Choose(c) ==
  /\ At(c, "counted") /\ limit' = car[c].read + 1
  /\ \E direction \in Direction : \E path \in PathsFrom(direction) :
       car' = [car EXCEPT ![c] = OnPath(path, 1)]
  /\ UNCHANGED <<flag, count, queue, panicked>>

Left(c) ==
  /\ At(c, "left") /\ limit' = car[c].read - 1 /\ GoTo(c, "last")
  /\ UNCHANGED <<flag, count, queue, panicked>>

\* The end of approachintersection(): the test of count, and the wakeup.
TestCount(c) ==
  /\ At(c, "last") /\ car' = [car EXCEPT ![c] = [Outside EXCEPT !.pc = IF count["outside"] = 0
                                                                     THEN "done" ELSE "waking"]]
  /\ UNCHANGED <<flag, limit, count, queue, panicked>>

WakeOutside(c) ==
  At(c, "waking") /\ Here(c) = "outside" /\ Wake(c, [Outside EXCEPT !.pc = "done"])

----------------------------------------------------------------------------
(* Entering and leaving a region *)

\* The test of the flag.
Enter(c) ==
  /\ At(c, "enter")
  /\ GoTo(c, IF flag[Here(c)] = 1 THEN "wait" ELSE "up")
  /\ UNCHANGED <<flag, limit, count, queue, panicked>>

FlagUp(c) ==
  /\ At(c, "up") /\ flag' = [flag EXCEPT ![Here(c)] = 1] /\ GoTo(c, "down")
  /\ UNCHANGED <<limit, count, queue, panicked>>

FlagDown(c) ==
  /\ At(c, "down") /\ flag' = [flag EXCEPT ![Here(c)] = 0] /\ Advance(c)
  /\ UNCHANGED <<limit, count, queue, panicked>>

\* The test of the count, and the wakeup.
LeaveRegion(c) ==
  /\ At(c, "leave")
  /\ IF count[Here(c)] = 0 THEN Advance(c) ELSE GoTo(c, "waking")
  /\ UNCHANGED <<flag, limit, count, queue, panicked>>

WakeRegion(c) ==
  At(c, "waking") /\ Here(c) # "outside" /\ Wake(c, OnPath(car[c].path, car[c].i + 1))

Drive(c) ==
  \/ Approach(c) \/ SleepOn(c) \/ ReadLimit(c) \/ Choose(c) \/ Left(c) \/ TestCount(c) \/ WakeOutside(c)
  \/ Enter(c) \/ FlagUp(c) \/ FlagDown(c) \/ LeaveRegion(c) \/ WakeRegion(c)

Init == createcars
Next == ~panicked /\ \E c \in Car : Drive(c)

Spec == Init /\ [][Next]_vars

----------------------------------------------------------------------------
\* Unless an assertion has failed, every count is the length of its queue,
\* and the cars in a queue are those asleep at that place, each once, however
\* the unprotected tests and updates of the cars interleave: a car that leaves
\* and finds 0 has nobody to wake at that moment, and one that wakes a car
\* wakes one that sleeps where it is.
CountsSleepers ==
  panicked \/ \A p \in Place :
    /\ count[p] = Len(queue[p])
    /\ IsInjective(queue[p])
    /\ ToSet(queue[p]) = {c \in Car : At(c, "asleep") /\ Here(c) = p}
=============================================================================
