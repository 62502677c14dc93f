-------------------------------- MODULE Mksfs ---------------------------------
(***************************************************************************)
(* Making a volume and mounting it: sbin/mksfs (mksfs.c, disk.c) on one    *)
(* side, sfs_domount(), sfs_mapio() and the allocation of blocks           *)
(* (kern/fs/sfs) on the other.  The two programs share only the layout in  *)
(* kern/include/kern/sfs.h.                                                *)
(*                                                                         *)
(* diskwrite() writes a block in parts, as write() allows.  mksfs may run  *)
(* on the host, on an image with a header of one block that the disk card  *)
(* skips, or in the system on the disk itself, and may be stopped by an    *)
(* error at any write.  A part of the free map is the set of its bits.  A  *)
(* number on the disk is the two bytes it has in the memory of the machine *)
(* that writes it, which the kernel reads with the higher one first.       *)
(***************************************************************************)
EXTENDS Integers, Sequences, FiniteSets

CONSTANTS
  Sizes,          \* sizes of disks, in blocks
  PARTS,          \* parts of a block that write() may accept
  BLOCKBITS,      \* bits of a block of the map, a multiple of PARTS
  MAXBITBLOCKS,
  BYTE,           \* values of a byte
  NULL

SB == 0
ROOT == 1
MAP == 2
MAGIC == 2 * BYTE + 1
TYPE_DIR == 2

VARIABLES
  host,           \* mksfs runs on a "big" or "little" endian host, or not on one: "no"
  file,           \* what the image or disk holds: per block, per part
  size,           \* blocks of the disk
  todo,           \* the blocks mksfs has still to write: [block, data]
  tot,            \* parts of the first of them that are written
  status,         \* "making", "made", "failed", "refused" or "aborted"
  freemap         \* the map of the mounted volume, or NULL

vars == <<host, file, size, todo, tot, status, freemap>>

\* SFS_BITMAPSIZE() and SFS_BITBLOCKS().
BITMAPSIZE(nblocks) == ((nblocks + BLOCKBITS - 1) \div BLOCKBITS) * BLOCKBITS
BITBLOCKS(nblocks) == BITMAPSIZE(nblocks) \div BLOCKBITS

Whole(what) == [i \in 0..(PARTS - 1) |-> what]
Part(words, bits) == [words |-> words, bits |-> bits]
Old == Part(<<<<0, 0>>, <<0, 0>>>>, {})

\* The bytes of n in the memory of the machine mksfs runs on, and the number
\* the kernel finds in two bytes.
Stored(n) == IF host = "little" THEN <<n % BYTE, n \div BYTE>> ELSE <<n \div BYTE, n % BYTE>>
Value(word) == word[1] * BYTE + word[2]

\* ntohl() and ntohs() on the host; nothing in the system.
SWAPL(n) == IF host = "little" THEN (n % BYTE) * BYTE + n \div BYTE ELSE n
SWAPS(n) == SWAPL(n)

----------------------------------------------------------------------------
(* mksfs *)

writesuper(n) ==
  [block |-> SB, data |-> Whole(Part(<<Stored(SWAPL(MAGIC)), Stored(SWAPL(n))>>, {}))]
writerootdir ==
  [block |-> ROOT,
   data |-> Whole(Part(<<Stored(SWAPL(0)), Stored(SWAPS(TYPE_DIR)), Stored(SWAPS(1))>>, {}))]

\* The blocks the volume itself has, and the bits past its end.
Own(n) == {SB, ROOT} \cup {MAP + i : i \in 0..(BITBLOCKS(n) - 1)}
Beyond(n) == n..(BITMAPSIZE(n) - 1)

bug_Allocated(n) == Own(n)      \* the bits past the end stay free

\* The bits writebitmap() sets with doallocbit(), which asserts that none is
\* set twice.
Allocated(n) == Own(n) \cup Beyond(n)
Asserts(n) == Own(n) \cap Beyond(n) # {}

\* Block i of the map, its parts cut out of bitbuf.
writebitmap(n, i) ==
  LET per == BLOCKBITS \div PARTS
      first(p) == i * BLOCKBITS + p * per
  IN [block |-> MAP + i,
      data |-> [p \in 0..(PARTS - 1) |->
                  Part(<<>>, {b - first(p) : b \in Allocated(n) \cap first(p)..(first(p) + per - 1)})]]

\* main(): the superblock, the root directory and, unless it is too large or
\* the assertion fails, the map.
Blocks(n) ==
  <<writesuper(n), writerootdir>> \o
  (IF BITBLOCKS(n) > MAXBITBLOCKS \/ Asserts(n) THEN <<>> ELSE [i \in 1..BITBLOCKS(n) |-> writebitmap(n, i - 1)])

\* opendisk(): the header of an image is not one of its blocks.
OnHost == host # "no"
opendisk(fileBlocks) == IF OnHost THEN fileBlocks - 1 ELSE fileBlocks

Init ==
  /\ host \in {"big", "little", "no"}
  /\ \E n \in Sizes :
       LET fileBlocks == IF OnHost THEN n + 1 ELSE n
       IN /\ size = opendisk(fileBlocks)
          /\ file = [b \in 0..(fileBlocks - 1) |-> Whole(Old)]
  /\ todo = Blocks(size) /\ tot = 0 /\ status = "making" /\ freemap = NULL

At(block) == IF OnHost THEN block + 1 ELSE block

\* One write() of diskwrite(), of len parts; the last one of a block ends it.
diskwrite(len) ==
  /\ status = "making" /\ todo # <<>> /\ len \in 1..(PARTS - tot)
  /\ file' = [file EXCEPT ![At(Head(todo).block)] =
                [i \in DOMAIN @ |-> IF i \in tot..(tot + len - 1)
                                    THEN Head(todo).data[i] ELSE @[i]]]
  /\ IF tot + len = PARTS THEN tot' = 0 /\ todo' = Tail(todo)
     ELSE tot' = tot + len /\ UNCHANGED todo
  /\ UNCHANGED <<host, size, status, freemap>>

\* A write fails, and mksfs exits.
WriteFails ==
  /\ status = "making" /\ todo # <<>> /\ status' = "failed"
  /\ UNCHANGED <<host, file, size, todo, tot, freemap>>

\* The end of main(); a map that is too large, or the assertion, ended it
\* before.
closedisk ==
  /\ status = "making" /\ todo = <<>>
  /\ status' = IF BITBLOCKS(size) > MAXBITBLOCKS THEN "refused"
               ELSE IF Asserts(size) THEN "aborted" ELSE "made"
  /\ UNCHANGED <<host, file, size, todo, tot, freemap>>

----------------------------------------------------------------------------
(* The kernel *)

\* Sector n of the disk: the card skips the header of the image.
Sector(n) == file[IF OnHost THEN n + 1 ELSE n]
Super == Sector(SB)[0].words
nblocks == Value(Super[2])

\* sfs_mapio(): the bits of all blocks of the map.
sfs_mapio ==
  LET per == BLOCKBITS \div PARTS
  IN UNION {{i * BLOCKBITS + p * per + b : b \in Sector(MAP + i)[p].bits} :
              i \in 0..(BITBLOCKS(nblocks) - 1), p \in 0..(PARTS - 1)}

\* sfs_domount(): nothing but the magic number is checked, and that the map
\* can be read.
sfs_domount ==
  /\ status # "making" /\ freemap = NULL
  /\ Value(Super[1]) = MAGIC /\ MAP + BITBLOCKS(nblocks) <= size
  /\ freemap' = sfs_mapio
  /\ UNCHANGED <<host, file, size, todo, tot, status>>

\* sfs_balloc(): the first bit that is clear.
sfs_balloc ==
  /\ freemap # NULL
  /\ \E b \in 0..(BITMAPSIZE(nblocks) - 1) :
       /\ b \notin freemap /\ \A c \in 0..(b - 1) : c \in freemap
       /\ freemap' = freemap \cup {b}
  /\ UNCHANGED <<host, file, size, todo, tot, status>>

Next ==
  \/ \E len \in 1..PARTS : diskwrite(len)
  \/ WriteFails \/ closedisk \/ sfs_domount \/ sfs_balloc

Spec == Init /\ [][Next]_vars

----------------------------------------------------------------------------
\* Of a volume that mksfs has finished, the kernel gives out the blocks that
\* exist and hold nothing yet, all of them and no other: at any time those in
\* use are the first ones, up to some block m, and the bits past the end.  The
\* two programs agree on which bit of which block of the map stands for a
\* block and on the order of the bytes of a number, whatever the size of the
\* disk and the machine mksfs runs on.
AllocationIsSound ==
  (status = "made" /\ freemap # NULL) =>
    /\ nblocks = size
    /\ LET root == Sector(ROOT)[0].words
       IN  Value(root[1]) = 0 /\ Value(root[2]) = TYPE_DIR /\ Value(root[3]) = 1
    /\ \E m \in (MAP + BITBLOCKS(size))..size : freemap = 0..(m - 1) \cup Beyond(size)
=============================================================================
