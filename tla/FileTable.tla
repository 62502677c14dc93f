------------------------------ MODULE FileTable ------------------------------
(***************************************************************************)
(* A thread's table of open files, kern/thread/filetable.c, and            *)
(* sys_write(), which uses it.  The table belongs to one thread.  The      *)
(* three standard descriptors are opened on "con:" when one of them is     *)
(* looked up and is not there.                                             *)
(***************************************************************************)
EXTENDS Base, Integers, Sequences, FiniteSets, FiniteSetsExt

CONSTANTS
  OPEN_MAX,
  MaxFd         \* bound: descriptors ever made

ASSUME TableAssumption == OPEN_MAX \in Nat /\ 3 <= OPEN_MAX /\ NULL \notin Nat

VARIABLES
  table,        \* the array: descriptors, or NULL; index 1 is number 0
  fd,           \* per descriptor: [mode, numOwners, offset, open], as far as they are made
  broken        \* "con:" could not be opened

table_vars == <<table, fd, broken>>

TableInit == table = <<NULL, NULL, NULL>> /\ fd = <<>> /\ broken = FALSE       \* ft_create()

StdMode == <<"O_RDONLY", "O_WRONLY", "O_WRONLY">>
Fresh(mode, owners) == [mode |-> mode, numOwners |-> owners, offset |-> 0, open |-> TRUE]

\* All three are opened and set, also those that were there.
ft_attachstds(s) ==
  [table |-> [k \in 1..Len(s.table) |-> IF k <= 3 THEN Len(s.fd) + k ELSE s.table[k]],
   fd |-> s.fd \o [k \in 1..3 |-> Fresh(StdMode[k], 1)]]

\* What ft_get(ft, n) leaves, and returns.
Got(s, n) == IF n < 3 /\ s.table[n + 1] = NULL THEN ft_attachstds(s) ELSE s
ft_get(s, n) == IF n >= Len(s.table) THEN NULL ELSE Got(s, n).table[n + 1]

State == [table |-> table, fd |-> fd]
Becomes(s) == table' = s.table /\ fd' = s.fd /\ Len(s.fd) <= MaxFd

\* "con:" cannot be opened: an uninitialised vnode is closed and the table
\* destroyed, which looks the descriptors up again; the caller then goes on
\* with the table.  Nothing is said of what follows.
AttachFails(n) ==
  /\ n < 3 /\ table[n + 1] = NULL /\ broken' = TRUE /\ UNCHANGED <<table, fd>>

\* ft_add() of a descriptor nobody owns yet: the lowest number that is free,
\* where its owner is not counted, or else the next one.
ft_add(mode) ==
  LET s == Got(Got(Got(State, 0), 1), 2)
      free == {n \in 0..(Min({Len(s.table), OPEN_MAX}) - 1) : s.table[n + 1] = NULL}
      new == Len(s.fd) + 1
  IN  /\ IF free # {}
         THEN Becomes([table |-> [s.table EXCEPT ![Min(free) + 1] = new],
                       fd |-> Append(s.fd, Fresh(mode, 0))])
         ELSE IF Len(s.table) >= OPEN_MAX THEN Becomes(s)              \* -1
         ELSE Becomes([table |-> Append(s.table, new), fd |-> Append(s.fd, Fresh(mode, 1))])
      /\ UNCHANGED broken

bug_Removed(s, n) ==                    \* the number is left in the table
  IF ft_get(s, n) = NULL THEN Got(s, n)
  ELSE [table |-> Got(s, n).table,
        fd |-> [Got(s, n).fd EXCEPT ![ft_get(s, n)].numOwners = @ - 1, ![ft_get(s, n)].open = FALSE]]

\* ft_remove(): closed when its last owner goes.
Removed(s, n) ==
  LET g == Got(s, n)
      x == ft_get(s, n)
      owners == g.fd[x].numOwners - 1
  IN  IF x = NULL THEN g
      ELSE [table |-> [g.table EXCEPT ![n + 1] = NULL],
            fd |-> [g.fd EXCEPT ![x].numOwners = owners, ![x].open = (owners # 0)]]

ft_remove(n) == n < Len(table) /\ Becomes(Removed(State, n)) /\ UNCHANGED broken

\* What is left when the k last numbers were removed, from the last to the first.
Emptied[k \in 0..Len(table)] ==
  IF k = 0 THEN State ELSE Removed(Emptied[k - 1], Len(table) - k)

\* ft_destroy(); a new thread then has a new table.
ft_destroy ==
  /\ Len(Emptied[Len(table)].fd) <= MaxFd
  /\ fd' = Emptied[Len(table)].fd
  /\ table' = <<NULL, NULL, NULL>>
  /\ UNCHANGED broken

\* sys_write() of one byte: EBADF, or the offset moves on, unless VOP_WRITE()
\* fails.
sys_write(n) ==
  LET g == Got(State, n)
      x == ft_get(State, n)
  IN  /\ \/ Becomes(g)
         \/ /\ x # NULL /\ g.fd[x].mode \in {"O_WRONLY", "O_RDWR"} /\ g.fd[x].offset = 0
            /\ Becomes([g EXCEPT !.fd[x].offset = 1])
      /\ UNCHANGED broken

TableNext ==
  /\ ~broken
  /\ \/ \E n \in 0..OPEN_MAX : AttachFails(n) \/ ft_remove(n) \/ sys_write(n)
     \/ \E mode \in {"O_RDONLY", "O_RDWR"} : ft_add(mode)
     \/ ft_destroy

TableSpec == TableInit /\ [][TableNext]_table_vars

----------------------------------------------------------------------------
\* No number refers to a descriptor that was closed and freed, and no two to
\* the same one: closing one number leaves the others usable.
TableNoDangling ==
  \A k \in 1..Len(table) : table[k] # NULL =>
    fd[table[k]].open /\ \A j \in 1..Len(table) : table[j] = table[k] => j = k

\* The numbers stay below OPEN_MAX, and the three standard ones, once they
\* are there, can be read, written and written.
TableNumbersAreSound ==
  /\ Len(table) <= OPEN_MAX
  /\ \A k \in 1..3 : table[k] # NULL => fd[table[k]].mode = StdMode[k]
=============================================================================
