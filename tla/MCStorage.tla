----------------------------- MODULE MCStorage -----------------------------
(***************************************************************************)
(* One run for storage: the disk and the emulator's file system, the       *)
(* bitmap, SFS files and directories, the VFS layer, the vnodes of devices,*)
(* the file table, mksfs and the file system tests.                        *)
(*                                                                         *)
(* A behaviour is one of the specification that subject names; the state   *)
(* spaces of the specifications add up and do not multiply.  Bitmap, Lhd,  *)
(* Emu, VFS and FileTable have their own variables and stay in an initial  *)
(* state while another specification is the subject; each other            *)
(* specification has as many of x1, x2, ... for its variables as it needs, *)
(* and those that a subject has no use for stay NULL.                      *)
(***************************************************************************)
EXTENDS VFS, Bitmap, Lhd, Emu, FileTable, TLC

CONSTANTS t1, t2, f1, f2, n1, n2, lhd0fs, emu0fs

VARIABLES subject, x1, x2, x3, x4, x5, x6, x7

shared == <<x1, x2, x3, x4, x5, x6, x7>>
allvars == <<subject, vfs, bitmap_vars, disk_vars, host_vars, table_vars, shared>>

Files ==
  INSTANCE SFSFile WITH File <- {f1, f2}, Val <- (f1 :> 1) @@ (f2 :> 2), NBlocks <- 4,
    NDIRECT <- 1, BLOCKSIZE <- 2, Offsets <- {0, 1, 3, 6}, TruncLens <- {0}, MaxLen <- 3,
    MaxOps <- 4, MaxFault <- 3, sfs <- x1, want <- x2, ops <- x3

\* Files that are also cut to lengths other than zero.
Cut ==
  INSTANCE SFSFile WITH File <- {f1, f2}, Val <- (f1 :> 1) @@ (f2 :> 2), NBlocks <- 4,
    NDIRECT <- 1, BLOCKSIZE <- 2, Offsets <- {0, 1, 3, 6}, TruncLens <- 0..5, MaxLen <- 3,
    MaxOps <- 4, MaxFault <- 0, sfs <- x1, want <- x2, ops <- x3
Dirs ==
  INSTANCE SFSDir WITH Name <- {n1, n2}, NBlocks <- 4, DIRPERBLOCK <- 1, MaxSlots <- 3,
    MaxRefs <- 2, MaxFault <- 7, sfs <- x1, held <- x2

\* A device that cannot be mounted, two disks that ask for the same name, of
\* which the first holds a volume, and a device that is a file system.
Attached(name, mountable, fs) == [name |-> <<name>>, mountable |-> mountable, fs |-> fs]
AtDevice(name, sub) == [kind |-> "dev", dev |-> <<name>>, sub |-> sub]
Plain(kind, sub) == [kind |-> kind, sub |-> sub]
const_Attach ==
  <<Attached("null", FALSE, NoFS), Attached("lhd0", TRUE, NoFS), Attached("lhd0", TRUE, NoFS),
    Attached("emu0", FALSE, emu0fs)>>
const_OnDisk == <<"lhd0">> :> lhd0fs
const_VolName == (lhd0fs :> <<"vol">>) @@ (emu0fs :> NULL)
const_Path ==
  {AtDevice("lhd0", NULL), AtDevice("vol", "f"), AtDevice("null", "f"), AtDevice("null", NULL),
   AtDevice("emu0", "f"), Plain("slash", "f"), Plain("colon", NULL), Plain("plain", "g")}
const_Offsets == {-2, 0, 1}

Mk ==
  INSTANCE Mksfs WITH Sizes <- {2, 3, 4, 5, 7, 8, 9, 12, 13}, PARTS <- 2, BLOCKBITS <- 4,
    MAXBITBLOCKS <- 3, BYTE <- 4, host <- x1, file <- x2, size <- x3, todo <- x4, tot <- x5,
    status <- x6, freemap <- x7
Node ==
  INSTANCE DevNode WITH Width <- 6, Sizes <- {1, 3}, Positions <- {-8, -4, -2, 0, 2, 4, 8, 12},
    Lens <- {0, 2, 4, 8}, d <- x1, opened <- x2, uio <- x3, at <- x4, left <- x5, last <- x6
Test ==
  INSTANCE FsTest WITH NTHREADS <- 2, NCHUNKS <- 3, NCREATES <- 2, LETTERS <- 4, BIAS <- 4,
    MaxIno <- 5, MaxRuns <- 2, MaxErrors <- 1, names <- x1, lines <- x2, threadsem <- x3,
    actor <- x4, run <- x5, errors <- x6

From7 == x7 = NULL
From4 == x4 = NULL /\ x5 = NULL /\ x6 = NULL /\ From7
From3 == x3 = NULL /\ From4
From1 == x1 = NULL /\ x2 = NULL /\ From3

\* A map of one bit for whoever is not concerned with bitmaps.
BitmapIdle == BitmapInit /\ nbits = 1

MCInit ==
  /\ Init /\ DiskInit /\ HostInit /\ TableInit
  /\ \/ subject = "bitmap" /\ BitmapInit /\ From1
     \/ /\ BitmapIdle
        /\ \/ subject \in {"disk", "host", "vfs", "table"} /\ From1
           \/ subject = "files" /\ Files!Init /\ From4
           \/ subject = "dirs" /\ Dirs!Init /\ From3
           \/ subject = "mksfs" /\ Mk!Init
           \/ subject = "node" /\ Node!Init /\ From7
           \/ subject = "fstest" /\ Test!Init /\ From7

still4 == <<x4, x5, x6, x7>>
others == <<vfs, bitmap_vars, disk_vars, host_vars, table_vars>>

MCNext ==
  \/ /\ subject = "vfs" /\ UNCHANGED <<subject, bitmap_vars, disk_vars, host_vars, table_vars, shared>>
     /\ Next
  \/ /\ subject = "bitmap" /\ UNCHANGED <<subject, vfs, disk_vars, host_vars, table_vars, shared>>
     /\ BitmapNext
  \/ /\ subject = "disk" /\ UNCHANGED <<subject, vfs, bitmap_vars, host_vars, table_vars, shared>>
     /\ DiskNext
  \/ /\ subject = "host" /\ UNCHANGED <<subject, vfs, bitmap_vars, disk_vars, table_vars, shared>>
     /\ HostNext
  \/ /\ subject = "table" /\ UNCHANGED <<subject, vfs, bitmap_vars, disk_vars, host_vars, shared>>
     /\ TableNext
  \/ subject = "files" /\ UNCHANGED <<subject, others, still4>> /\ Files!Next
  \/ subject = "dirs" /\ UNCHANGED <<subject, others, x3, still4>> /\ Dirs!Next
  \/ subject = "mksfs" /\ UNCHANGED <<subject, others>> /\ Mk!Next
  \/ subject = "node" /\ UNCHANGED <<subject, others, x7>> /\ Node!Next
  \/ subject = "fstest" /\ UNCHANGED <<subject, others, x7>> /\ Test!Next

MCSpec == MCInit /\ [][MCNext]_allvars

CutSpec ==
  /\ Init /\ DiskInit /\ HostInit /\ TableInit /\ BitmapIdle
  /\ subject = "cut" /\ Cut!Init /\ From4
  /\ [][Cut!Next /\ UNCHANGED <<subject, others, still4>>]_allvars

\* The threads that use the devices are interchangeable.
Symmetry == Permutations({t1, t2})

----------------------------------------------------------------------------
\* No block is in two files, or twice in one: SFSFile.tla.
FilesNoBlockShared == subject = "files" => Files!NoBlockShared

\* The free block bitmap has the blocks that are in use: SFSFile.tla.
FilesMapIsExact == subject = "files" => Files!MapIsExact

\* What was written is read, holes read as zeros: SFSFile.tla.
FilesReadsBack == subject = "files" => Files!ReadsBack

\* No file has a block behind its end: SFSFile.tla.
NoBlockPastEOF == Cut!NoBlockPastEOF

\* What is not marked dirty is on the disk: SFSFile.tla.
FilesCleanIsOnDisk == subject = "files" => Files!CleanIsOnDisk

\* SFS never finds its own structures wrong: SFSDir.tla.
DirsNoStructurePanic == subject = "dirs" => Dirs!NoStructurePanic

\* The link count is the number of names: SFSDir.tla.
DirsLinksMatchEntries == subject = "dirs" => Dirs!LinksMatchEntries

\* The reference count is the number of users: SFSDir.tla.
DirsRefsMatchCallers == subject = "dirs" => Dirs!RefsMatchCallers

\* A file nobody can reach has gone: SFSDir.tla.
DirsNothingLost == subject = "dirs" => Dirs!NothingLost

\* A disk that was synchronised is consistent: SFSDir.tla.
DirsCleanDiskIsConsistent == subject = "dirs" => Dirs!CleanDiskIsConsistent

\* The free map mksfs writes has what it uses and what is not there: Mksfs.tla.
MkAllocationIsSound == subject = "mksfs" => Mk!AllocationIsSound

\* Transfers on a device agree with what its vnode says of it: DevNode.tla.
NodeTransfersAgree == subject = "node" => Node!NodeTransfersAgree

\* The file system tests complain only of what is wrong: FsTest.tla.
TestNoFalseAlarm == subject = "fstest" => Test!NoFalseAlarm

\* A file system test can be run again: FsTest.tla.
TestCanRunAgain == subject = "fstest" => Test!CanRunAgain

\* The file system tests remove their files: FsTest.tla.
TestNothingLeft == subject = "fstest" => Test!NothingLeft
=============================================================================
