------------------------------ MODULE CatMouse ------------------------------
(***************************************************************************)
(* Cats and mice that eat from shared bowls: kern/asst1/catmouse.c and the *)
(* simulation it drives, bowls.c, which stops the kernel when a cat and a  *)
(* mouse eat at the same time or two animals eat from one bowl.            *)
(*                                                                         *)
(* cat_simulation() and mouse_simulation() are the same code with the two  *)
(* species exchanged.  Locks and condition variables are those described   *)
(* by kern/include/synch.h, semaphores those of Threads.tla.  The sections *)
(* of bowls.c between P(mutex) and V(mutex) are one step each.             *)
(***************************************************************************)
EXTENDS Integers, FiniteSets

CONSTANTS
  Cat, Mouse,   \* threads
  NumBowls, NumLoops,
  NULL

Animal == Cat \cup Mouse
Bowl == 1..NumBowls
Species == {"cat", "mouse"}
SpeciesOf(a) == IF a \in Cat THEN "cat" ELSE "mouse"
OtherOf(a) == IF a \in Cat THEN "mouse" ELSE "cat"

VARIABLES
  BowlSelectLock,    \* the animal that holds it; "none" before it exists
  num,               \* numcat, nummouse
  BowlThatIsEmpty,   \* count of the semaphore
  taken,             \* catmouse.c: bowls marked 'o'
  bowls,             \* bowls.c: who eats where
  eating,            \* eating_cats_count, eating_mice_count
  CatMouseWait,      \* count of the semaphore
  at,                \* per animal: where it is, rounds done, its bowl
  driver,            \* catmouse(): threads forked, P()s returned, or "done"
  panic

vars == <<BowlSelectLock, num, BowlThatIsEmpty, taken, bowls, eating,
          CatMouseWait, at, driver, panic>>

Init ==
  /\ BowlSelectLock = "none"
  /\ num = [s \in Species |-> 0]
  /\ BowlThatIsEmpty = 0 /\ taken = {}
  /\ bowls = [b \in Bowl |-> "-"]
  /\ eating = [s \in Species |-> 0]
  /\ CatMouseWait = 0
  /\ at = [a \in Animal |-> [pc |-> "new", loop |-> 0, bowl |-> 0]]
  /\ driver = [forked |-> {}, waited |-> 0, pc |-> "fork"]
  /\ panic = "no"

At(a, pc) == panic = "no" /\ at[a].pc = pc
GoTo(a, pc) == at' = [at EXCEPT ![a].pc = pc]

----------------------------------------------------------------------------
(* catmouse(): cats are forked first, then mice; then one P() for each *)

Fork(a) ==
  /\ panic = "no" /\ driver.pc = "fork" /\ a \notin driver.forked
  /\ a \in Mouse => Cat \subseteq driver.forked
  /\ GoTo(a, "init")
  /\ driver' = [driver EXCEPT !.forked = @ \cup {a},
                !.pc = IF driver.forked \cup {a} = Animal THEN "wait" ELSE "fork"]
  /\ UNCHANGED <<BowlSelectLock, num, BowlThatIsEmpty, taken, bowls, eating, CatMouseWait, panic>>

WaitForOne ==
  /\ panic = "no" /\ driver.pc = "wait" /\ CatMouseWait > 0
  /\ CatMouseWait' = CatMouseWait - 1
  /\ driver' = [driver EXCEPT !.waited = @ + 1,
                !.pc = IF driver.waited + 1 = Cardinality(Animal) THEN "done" ELSE "wait"]
  /\ UNCHANGED <<BowlSelectLock, num, BowlThatIsEmpty, taken, bowls, eating, at, panic>>

\* sync_var_init(): the first animal to run creates the variables.  The
\* bytes of bowls are what kmalloc() returned.
sync_var_init(a) ==
  /\ At(a, "init") /\ GoTo(a, "select")
  /\ IF BowlSelectLock = "none"
     THEN /\ BowlSelectLock' = NULL /\ BowlThatIsEmpty' = NumBowls
          /\ taken' \in SUBSET Bowl
     ELSE UNCHANGED <<BowlSelectLock, BowlThatIsEmpty, taken>>
  /\ UNCHANGED <<num, bowls, eating, CatMouseWait, driver, panic>>

----------------------------------------------------------------------------
(* cat_simulation(), mouse_simulation() *)

\* lock_acquire(BowlSelectLock) and the test of the loop, at first and after
\* cv_wait() has taken the lock again.
Select(a) ==
  /\ At(a, "select") /\ BowlSelectLock = NULL
  /\ BowlSelectLock' = a
  /\ GoTo(a, IF num[OtherOf(a)] > 0 THEN "cv_wait" ELSE "P")
  /\ UNCHANGED <<num, BowlThatIsEmpty, taken, bowls, eating, CatMouseWait, driver, panic>>

\* cv_wait(): the lock is let go and the animal sleeps.
cv_wait(a) ==
  /\ At(a, "cv_wait") /\ BowlSelectLock' = NULL /\ GoTo(a, "asleep")
  /\ UNCHANGED <<num, BowlThatIsEmpty, taken, bowls, eating, CatMouseWait, driver, panic>>

\* P(BowlThatIsEmpty), a bowl that is not marked, lock_release().
TakeBowl(a) ==
  /\ At(a, "P") /\ BowlThatIsEmpty > 0
  /\ BowlThatIsEmpty' = BowlThatIsEmpty - 1
  /\ \E b \in Bowl \ taken :
       /\ taken' = taken \cup {b}
       /\ at' = [at EXCEPT ![a].pc = "count", ![a].bowl = b]
  /\ BowlSelectLock' = NULL
  /\ UNCHANGED <<num, bowls, eating, CatMouseWait, driver, panic>>

\* The section under CounterLock before eating.
CountIn(a) ==
  /\ At(a, "count")
  /\ num' = [num EXCEPT ![SpeciesOf(a)] = @ + 1] /\ GoTo(a, "eat")
  /\ UNCHANGED <<BowlSelectLock, BowlThatIsEmpty, taken, bowls, eating, CatMouseWait, driver, panic>>

\* The section under CounterLock after eating, and V(BowlThatIsEmpty).
CountOut(a) ==
  LET s == SpeciesOf(a)
      woken == IF num[s] = 1
               THEN {b \in Animal : at[b].pc = "asleep" /\ SpeciesOf(b) = OtherOf(a)}
               ELSE {}
      more == at[a].loop + 1 < NumLoops
  IN  /\ At(a, "ate")
      /\ num' = [num EXCEPT ![s] = @ - 1]
      /\ taken' = taken \ {at[a].bowl}
      /\ at' = [b \in Animal |->
                  IF b = a THEN [pc |-> IF more THEN "select" ELSE "done",
                                 loop |-> at[a].loop + 1, bowl |-> 0]
                  ELSE IF b \in woken THEN [at[b] EXCEPT !.pc = "select"]
                  ELSE at[b]]
      /\ BowlThatIsEmpty' = BowlThatIsEmpty + 1
      /\ CatMouseWait' = IF more THEN CatMouseWait ELSE CatMouseWait + 1
      /\ UNCHANGED <<BowlSelectLock, bowls, eating, driver, panic>>

----------------------------------------------------------------------------
(* bowls.c: cat_eat(), mouse_eat(), which are alike *)

Refused(a) ==
  IF bowls[at[a].bowl] = SpeciesOf(a) THEN "two at one bowl"
  ELSE IF eating[OtherOf(a)] > 0 THEN "cat and mouse"
  ELSE IF bowls[at[a].bowl] # "-" THEN "assert"
  ELSE "no"

StartEating(a) ==
  /\ At(a, "eat")
  /\ panic' = Refused(a)
  /\ IF Refused(a) # "no"
     THEN UNCHANGED <<bowls, eating, at>>
     ELSE /\ eating' = [eating EXCEPT ![SpeciesOf(a)] = @ + 1]
          /\ bowls' = [bowls EXCEPT ![at[a].bowl] = SpeciesOf(a)]
          /\ GoTo(a, "eating")
  /\ UNCHANGED <<BowlSelectLock, num, BowlThatIsEmpty, taken, CatMouseWait, driver>>

FinishEating(a) ==
  /\ At(a, "eating")
  /\ eating' = [eating EXCEPT ![SpeciesOf(a)] = @ - 1]
  /\ bowls' = [bowls EXCEPT ![at[a].bowl] = "-"]
  /\ GoTo(a, "ate")
  /\ UNCHANGED <<BowlSelectLock, num, BowlThatIsEmpty, taken, CatMouseWait, driver, panic>>

cat_eat(a) == a \in Cat /\ (StartEating(a) \/ FinishEating(a))
mouse_eat(a) == a \in Mouse /\ (StartEating(a) \/ FinishEating(a))

----------------------------------------------------------------------------
Round(a) == sync_var_init(a) \/ Select(a) \/ cv_wait(a) \/ TakeBowl(a) \/ CountIn(a) \/ CountOut(a)

cat_simulation(a) == a \in Cat /\ Round(a)
mouse_simulation(a) == a \in Mouse /\ Round(a)
catmouse == WaitForOne \/ \E a \in Animal : Fork(a)

Next ==
  \/ catmouse
  \/ \E a \in Animal :
       cat_simulation(a) \/ mouse_simulation(a) \/ cat_eat(a) \/ mouse_eat(a)

Spec == Init /\ [][Next]_vars

----------------------------------------------------------------------------
\* "check whether allowing this cat to eat will violate any simulation
\* requirements" (bowls.c): no call of cat_eat() or mouse_eat() is refused.
NeverRefused == panic = "no"
=============================================================================
