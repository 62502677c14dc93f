-------------------------------- MODULE SFSDir --------------------------------
(***************************************************************************)
(* Names, inodes and vnodes of the simple file system: the root directory, *)
(* link counts, loading and reclaiming vnodes (kern/fs/sfs/sfs_vnode.c,    *)
(* kern/fs/vfs/vnode.c), synchronising, mounting and unmounting            *)
(* (sfs_fs.c).  The operations of one caller at a time; each takes and     *)
(* drops a reference to the root as the VFS layer does around it.          *)
(*                                                                         *)
(* An inode number is the block the inode is in.  Of a file's data only    *)
(* the blocks are kept, as SFSFile has the rest: a file has none or one,   *)
(* which is found through an indirect block, of which only the reads are   *)
(* kept.  The directory's blocks hold DIRPERBLOCK entries each; entries    *)
(* reach the disk at once, the inodes when they are synchronised.  After a *)
(* write that was lost the disk is not to be relied on, and the model does *)
(* not go on.                                                              *)
(***************************************************************************)
EXTENDS SFSBlocks, Sequences, SequencesExt

CONSTANTS
  Name,            \* file names
  DIRPERBLOCK,     \* directory entries in a block
  MaxSlots,        \* bound: entries the directory has room for
  MaxRefs,         \* bound: references the callers hold
  MaxFault         \* bound: which transfer of an operation may fail, once

NOINO == 0                                              \* SFS_NOINO
SFS_ROOT_LOCATION == 1
NoEntry == [ino |-> NOINO, name |-> {}]
ZeroInode == [type |-> "INVAL", links |-> 0, size |-> 0, blocks |-> <<>>]
RootInode == [type |-> "DIR", links |-> 1, size |-> 0, blocks |-> <<>>]
FileData == [ZeroInode EXCEPT !.type = "data"]

VARIABLES
  sfs,     \* struct sfs_fs, its vnodes, and the disk
  held     \* per inode: references the callers hold

vars == <<sfs, held>>

\* A file system as mksfs makes it, mounted.
Init ==
  /\ sfs = [freemap |-> {SFS_ROOT_LOCATION}, mapdirty |-> FALSE,
            mapondisk |-> {SFS_ROOT_LOCATION},
            disk |-> [b \in Block |-> IF b = SFS_ROOT_LOCATION THEN RootInode ELSE ZeroInode],
            entries |-> [i \in 1..MaxSlots |-> NoEntry],
            vn |-> <<>>, mounted |-> TRUE, fault |-> 0, hurt |-> "no", panic |-> "no"]
  /\ held = [b \in Block |-> 0]

\* Panics and assertions: those about the structure of the file system, and
\* those that a failed transfer leads to by design.
Panic(s) == Fail([s EXCEPT !.panic = "structure"], "panic")
PanicIO(s) == Fail([s EXCEPT !.panic = "transfer"], "panic")

Loaded(s) == DOMAIN s.vn
\* The inode of a loaded vnode becomes i, and is marked dirty.
Dirty(s, ino, i) == [s EXCEPT !.vn[ino].i = i, !.vn[ino].dirty = TRUE]

----------------------------------------------------------------------------
(* Vnodes *)

\* sfs_sync_inode().
sfs_sync_inode(s, ino) ==
  IF ~s.vn[ino].dirty THEN Ok(s, 0)
  ELSE Then(sfs_wblock(s, [s EXCEPT !.disk[ino] = s.vn[ino].i]), LAMBDA t, v :
         Ok([t EXCEPT !.vn[ino].dirty = FALSE], 0))

\* The vnode of an inode whose contents on the disk are i.
new_vnode(s, ino, i, forcetype) ==
  LET type == IF forcetype = "INVAL" THEN i.type ELSE forcetype
      new == [i |-> [i EXCEPT !.type = type], dirty |-> forcetype # "INVAL", refcount |-> 1]
  IN  IF forcetype # "INVAL" /\ i.type # "INVAL" THEN Panic(s)
      ELSE IF type \notin {"FILE", "DIR"} THEN Panic(s)
      ELSE Ok([s EXCEPT !.vn = @ @@ (ino :> new)], ino)

\* sfs_loadvnode(): one that is loaded gets another reference.
sfs_loadvnode(s, ino, forcetype) ==
  IF ~(Loaded(s) \subseteq s.freemap) THEN Panic(s)
  ELSE IF ino \in Loaded(s)
       THEN IF forcetype = "INVAL" THEN Ok([s EXCEPT !.vn[ino].refcount = @ + 1], ino)
            ELSE Panic(s)
  ELSE IF ino \notin s.freemap THEN Panic(s)
  ELSE Then(sfs_rblock(s, s.disk[ino]), LAMBDA t, i : new_vnode(t, ino, i, forcetype))

\* The indirect block is read if the file has one.
Indirect(s, ino) == IF s.vn[ino].i.blocks = <<>> THEN Ok(s, 0) ELSE sfs_rblock(s, 0)

\* sfs_truncate() to length 0.
sfs_truncate(s, ino) ==
  Then(Indirect(s, ino), LAMBDA t, v :
    Ok(Dirty(sfs_bfree(t, ToSet(t.vn[ino].i.blocks)), ino,
             [t.vn[ino].i EXCEPT !.blocks = <<>>, !.size = 0]), 0))

\* sfs_reclaim(): a file without an entry is erased, the inode goes to the
\* disk, and the vnode leaves the table, unless the erasing fails.
sfs_reclaim(s, ino) ==
  LET gone == s.vn[ino].i.links = 0
      Unloaded(t) == [t EXCEPT !.vn = [b \in Loaded(t) \ {ino} |-> t.vn[b]]]
  IN  Then(IF gone THEN sfs_truncate(s, ino) ELSE Ok(s, 0), LAMBDA e, w :
        Then(sfs_sync_inode(e, ino), LAMBDA t, v :
          Ok(Unloaded(IF gone THEN sfs_bfree(t, {ino}) ELSE t), 0)))

\* vnode_decref(): an error of VOP_RECLAIM is only reported, and the vnode
\* keeps the reference.
vnode_decref(s, ino) ==
  IF s.vn[ino].refcount > 1 THEN [s EXCEPT !.vn[ino].refcount = @ - 1]
                            ELSE sfs_reclaim(s, ino).s

----------------------------------------------------------------------------
(* The directory, whose vnode is loaded *)

Root(s) == s.vn[SFS_ROOT_LOCATION].i
sfs_dir_nentries(s) == Root(s).size
sfs_readdir(s, slot) == s.entries[slot]

\* sfs_dir_findname(): every slot is read.  The last empty one is handed back.
sfs_dir_findname(s, name) ==
  LET n == sfs_dir_nentries(s)
      failing == s.fault \in 1..n
      S == {i \in 1..n : sfs_readdir(s, i).ino # NOINO /\ sfs_readdir(s, i).name = name}
      E == {i \in 1..n : sfs_readdir(s, i).ino = NOINO}
      t == [s EXCEPT !.fault = IF @ = 0 THEN 0 ELSE @ - n]
      empty == IF E = {} THEN n + 1 ELSE Max(E)
  IN  IF failing THEN Fail([s EXCEPT !.fault = 0, !.hurt = "read"], "EIO")
      ELSE IF Cardinality(S) > 1 THEN Panic(s)
      ELSE Ok(t, [slot |-> IF S = {} THEN 0 ELSE Min(S), empty |-> empty])

\* The block slot is in, allocated if the directory is not that long.
dir_block(s, slot) ==
  IF slot <= DIRPERBLOCK * Len(Root(s).blocks) THEN Ok(s, 0)
  ELSE Then(sfs_balloc(s, ZeroInode), LAMBDA t, block :
         Ok(Dirty(t, SFS_ROOT_LOCATION, [Root(t) EXCEPT !.blocks = Append(@, block)]), 0))

\* sfs_writedir() through sfs_io(): the block is allocated if need be, read,
\* and written; an entry at the end lengthens the directory.
sfs_writedir(s, slot, e) ==
  LET Longer(t) == IF slot <= Root(s).size THEN t
                   ELSE Dirty(t, SFS_ROOT_LOCATION, [Root(t) EXCEPT !.size = slot])
  IN  Then(dir_block(s, slot), LAMBDA t, v : Then(sfs_rblock(t, 0), LAMBDA rd, data :
        Ok(Longer(sfs_wblock(rd, [rd EXCEPT !.entries[slot] = e]).s), 0)))

\* sfs_dir_link(): hands back the slot.
sfs_dir_link(s, name, ino) ==
  Then(sfs_dir_findname(s, name), LAMBDA t, f :
    IF f.slot # 0 THEN Fail(t, "EEXIST")
    ELSE Then(sfs_writedir(t, f.empty, [ino |-> ino, name |-> name]), LAMBDA w, v :
           Ok(w, f.empty)))

sfs_dir_unlink(s, slot) == sfs_writedir(s, slot, NoEntry)

\* sfs_lookonce(): a reference to the file, and its slot.
sfs_lookonce(s, name) ==
  Then(sfs_dir_findname(s, name), LAMBDA t, f :
    IF f.slot = 0 THEN Fail(t, "ENOENT")
    ELSE Then(sfs_loadvnode(t, t.entries[f.slot].ino, "INVAL"), LAMBDA l, ino :
           IF l.vn[ino].i.links = 0 THEN Panic(l)
           ELSE Ok(l, [ino |-> ino, slot |-> f.slot])))

bug_Relink(s, ino, n) == [s EXCEPT !.vn[ino].i.links = @ + n]     \* not marked dirty

\* sfi_linkcount of a loaded inode changes by n.
Relink(s, ino, n) == Dirty(s, ino, [s.vn[ino].i EXCEPT !.links = @ + n])

----------------------------------------------------------------------------
(* Operations of the directory, and of files *)

\* sfs_makeobj(): an inode is a block.
sfs_makeobj(s, type) ==
  Then(sfs_balloc(s, ZeroInode), LAMBDA t, ino : sfs_loadvnode(t, ino, type))

sfs_creat(s, name, excl) ==
  LET Linked(k, ino) == IF k.err # "ok" THEN Fail(vnode_decref(k.s, ino), k.err)
                        ELSE Ok(Relink(k.s, ino, 1), ino)
  IN  Then(sfs_dir_findname(s, name), LAMBDA t, f :
        IF f.slot # 0
        THEN IF excl THEN Fail(t, "EEXIST")
             ELSE sfs_loadvnode(t, t.entries[f.slot].ino, "INVAL")
        ELSE Then(sfs_makeobj(t, "FILE"), LAMBDA m, ino : Linked(sfs_dir_link(m, name, ino), ino)))

sfs_lookup(s, name) == Then(sfs_lookonce(s, name), LAMBDA t, l : Ok(t, l.ino))

sfs_link(s, name, ino) ==
  Then(sfs_dir_link(s, name, ino), LAMBDA t, slot : Ok(Relink(t, ino, 1), 0))

sfs_remove(s, name) ==
  LET Unlinked(u, victim) ==
        [u EXCEPT !.s = vnode_decref(IF u.err = "ok" THEN Relink(@, victim, -1) ELSE @, victim)]
  IN  Then(sfs_lookonce(s, name), LAMBDA t, l : Unlinked(sfs_dir_unlink(t, l.slot), l.ino))

\* sfs_rename(): link under the new name, then unlink the old; if that fails,
\* unlink the new one again.
sfs_rename(s, n1, n2) ==
  LET Undone(r, g1, err) ==
        IF r.err # "ok" THEN PanicIO(r.s)
        ELSE Fail(vnode_decref([r.s EXCEPT !.vn[g1].i.links = @ - 1], g1), err)
      Unlinked(u, g1, slot2) ==
        IF u.err = "ok" THEN Ok(vnode_decref(Relink(u.s, g1, -1), g1), 0)
        ELSE Undone(sfs_dir_unlink(u.s, slot2), g1, u.err)
      Linked(k, g1, slot1) ==
        IF k.err # "ok" THEN Fail(vnode_decref(k.s, g1), k.err)
        ELSE Unlinked(sfs_dir_unlink(Relink(k.s, g1, 1), slot1), g1, k.val)
  IN  Then(sfs_lookonce(s, n1), LAMBDA t, l : Linked(sfs_dir_link(t, n2, l.ino), l.ino, l.slot))

\* sfs_write() of a block, allocated if the file has none.
sfs_write(s, ino) ==
  LET Data(t, block) == sfs_wblock(t, [t EXCEPT !.disk[block] = FileData])
  IN  Then(Indirect(s, ino), LAMBDA r, v :
        IF r.vn[ino].i.blocks # <<>> THEN Data(r, Head(r.vn[ino].i.blocks))
        ELSE Then(sfs_balloc(r, ZeroInode), LAMBDA t, block :
               Data(Dirty(t, ino, [t.vn[ino].i EXCEPT !.blocks = <<block>>]), block)))

----------------------------------------------------------------------------
(* The file system *)

\* sfs_sync(): every loaded inode, whatever becomes of it, then the map.
sfs_sync(s) ==
  LET MapSynced(t) ==
        IF ~t.mapdirty THEN Ok(t, 0)
        ELSE Then(sfs_wblock(t, [t EXCEPT !.mapondisk = t.freemap]), LAMBDA w, v :
               Ok([w EXCEPT !.mapdirty = FALSE], 0))
  IN  MapSynced(FoldSet(LAMBDA ino, x : sfs_sync_inode(x, ino).s, s, Loaded(s)))

\* FS_SYNC, then sfs_unmount().
sfs_unmount(s) ==
  Then(sfs_sync(s), LAMBDA t, v :
    IF Loaded(t) # {} THEN Fail(t, "EBUSY") ELSE Ok([t EXCEPT !.mounted = FALSE], 0))

\* sfs_domount(): the superblock and the free map are read.
sfs_domount(s) ==
  Then(sfs_rblock(s, 0), LAMBDA t, sb : Then(sfs_rblock(t, s.mapondisk), LAMBDA w, map :
    Ok([w EXCEPT !.mounted = TRUE, !.freemap = map, !.mapdirty = FALSE], 0)))

\* sfs_getroot() may only succeed.
sfs_getroot(s) ==
  LET Got(r) == IF r.err = "EIO" THEN PanicIO(r.s) ELSE r
  IN  Got(sfs_loadvnode(s, SFS_ROOT_LOCATION, "INVAL"))

----------------------------------------------------------------------------
Faulty(k) == [sfs EXCEPT !.fault = k]

\* The operation ends in s.  What a free block holds is forgotten:
\* sfs_balloc() clears it before it is used again.
Done(s) ==
  sfs' = [s EXCEPT !.fault = 0,
                   !.disk = [b \in Block |-> IF b \in s.freemap THEN @[b] ELSE ZeroInode]]

\* An operation on the directory: Op works on the file system with the root
\* loaded; keep says whether its result is a reference the caller keeps.
InRoot(k, Op(_), keep) ==
  LET Ended(r) ==
        /\ Done(IF r.err = "panic" THEN r.s ELSE vnode_decref(r.s, SFS_ROOT_LOCATION))
        /\ held' = IF keep /\ r.err = "ok" THEN [held EXCEPT ![r.val] = @ + 1] ELSE held
      Got(g) == IF g.err # "ok" THEN Done(g.s) /\ UNCHANGED held ELSE Ended(Op(g.s))
  IN  Got(sfs_getroot(Faulty(k)))

RefsHeld == FoldSet(LAMBDA b, n : n + held[b], 0, Block)

\* open() of a name, with and without O_CREAT.
Creat(name, excl, k) ==
  RefsHeld < MaxRefs /\ InRoot(k, LAMBDA s : sfs_creat(s, name, excl), TRUE)
Lookup(name, k) == RefsHeld < MaxRefs /\ InRoot(k, LAMBDA s : sfs_lookup(s, name), TRUE)
Link(ino, name, k) == held[ino] > 0 /\ InRoot(k, LAMBDA s : sfs_link(s, name, ino), FALSE)
Unlink(name, k) == InRoot(k, LAMBDA s : sfs_remove(s, name), FALSE)
Rename(n1, n2, k) == InRoot(k, LAMBDA s : sfs_rename(s, n1, n2), FALSE)

Write(ino, k) == held[ino] > 0 /\ Done(sfs_write(Faulty(k), ino).s) /\ UNCHANGED held
Truncate(ino, k) == held[ino] > 0 /\ Done(sfs_truncate(Faulty(k), ino).s) /\ UNCHANGED held

\* vfs_close(): vnode_decopen(), with sfs_close() at the last one, then
\* vnode_decref().
Close(ino, k) ==
  LET s == Faulty(k)
      synced == IF held[ino] = 1 THEN sfs_sync_inode(s, ino).s ELSE s
  IN  /\ held[ino] > 0
      /\ Done(vnode_decref(synced, ino)) /\ held' = [held EXCEPT ![ino] = @ - 1]

Sync(k) == Done(sfs_sync(Faulty(k)).s) /\ UNCHANGED held
Unmount(k) == Done(sfs_unmount(Faulty(k)).s) /\ UNCHANGED held
Mount(k) == Done(sfs_domount(Faulty(k)).s) /\ UNCHANGED held

Next ==
  /\ sfs.panic = "no" /\ sfs.hurt # "write"
  /\ \E k \in IF sfs.hurt = "no" THEN 0..MaxFault ELSE {0} :
       \/ /\ sfs.mounted
          /\ \/ \E name \in Name :
                  \/ \E excl \in BOOLEAN : Creat(name, excl, k)
                  \/ Lookup(name, k)
                  \/ Unlink(name, k)
                  \/ \E n2 \in Name : Rename(name, n2, k)
                  \/ \E ino \in Block : Link(ino, name, k)
             \/ \E ino \in Block : Write(ino, k) \/ Close(ino, k) \/ Truncate(ino, k)
             \/ Sync(k)
             \/ Unmount(k)
       \/ ~sfs.mounted /\ Mount(k)

Spec == Init /\ [][Next]_vars

----------------------------------------------------------------------------
\* The root inode and the entries as they are on disk D of inodes.
RootNow == IF SFS_ROOT_LOCATION \in Loaded(sfs) THEN Root(sfs) ELSE sfs.disk[SFS_ROOT_LOCATION]
SlotsOf(root) == {i \in 1..root.size : sfs.entries[i].ino # NOINO}
InoNow(ino) == IF ino \in Loaded(sfs) THEN sfs.vn[ino].i ELSE sfs.disk[ino]
EntriesFor(root, ino) == {i \in SlotsOf(root) : sfs.entries[i].ino = ino}

\* Nothing that should be on the disk has been lost on its way.
Sound == sfs.hurt # "write"

\* Every entry leads to an inode that is allocated and is a file with as many
\* links as there are entries for it, and no name has two entries: what
\* sfs_creat(), sfs_link(), sfs_remove() and sfs_rename() keep up, also when a
\* read fails half-way, as long as no write is lost.
LinksMatchEntries ==
  LET S == SlotsOf(RootNow)
  IN  Sound =>
      /\ \A i \in S : LET ino == sfs.entries[i].ino
                       IN  /\ ino \in sfs.freemap
                           /\ InoNow(ino).type = "FILE"
                           /\ InoNow(ino).links = Cardinality(EntriesFor(RootNow, ino))
      /\ \A i, j \in S : sfs.entries[i].name = sfs.entries[j].name => i = j

\* The panics and assertions about the structure of the file system, in
\* sfs_loadvnode(), sfs_lookonce() and sfs_dir_findname(), are never reached
\* unless a write has been lost.
NoStructurePanic == Sound => sfs.panic # "structure"

\* vn_refcount counts the references of the callers.  A vnode without any is
\* not loaded, so that the file system can be unmounted, unless reclaiming
\* it failed on the disk.
RefsMatchCallers ==
  sfs.panic = "no" => \A ino \in Block :
    LET n == IF ino \in Loaded(sfs) THEN sfs.vn[ino].refcount ELSE 0
    IN  n = held[ino] \/ (sfs.hurt = "read" /\ n = held[ino] + 1)

\* As long as no transfer has failed the free map has no more than the root,
\* its blocks, and the inodes and blocks of the files that have an entry or
\* are held: a file that is removed while open is given back at the last
\* close.
NothingLost ==
  LET inos == {ino \in Block : held[ino] > 0 \/ EntriesFor(RootNow, ino) # {}}
              \cup {SFS_ROOT_LOCATION}
  IN  sfs.hurt = "no" => sfs.freemap = inos \cup UNION {ToSet(InoNow(ino).blocks) : ino \in inos}

\* When nothing in memory is marked dirty, the disk alone is a consistent
\* file system: its entries, link counts, block lists and free map agree,
\* whatever order the operations came in and wherever a read has failed.  A
\* file that is open without an entry is the only exception; a write that
\* was lost, which sfs_rwblock() reports as done, is the only way to break it.
CleanDiskIsConsistent ==
  LET root == sfs.disk[SFS_ROOT_LOCATION]
      inos == {sfs.entries[i].ino : i \in SlotsOf(root)} \cup {SFS_ROOT_LOCATION}
      used == inos \cup UNION {ToSet(sfs.disk[ino].blocks) : ino \in inos}
      clean == ~sfs.mapdirty /\ \A ino \in Loaded(sfs) : ~sfs.vn[ino].dirty
  IN  (Sound /\ clean) =>
               /\ \A i \in SlotsOf(root) :
                    LET ino == sfs.entries[i].ino
                    IN  /\ sfs.disk[ino].type = "FILE"
                        /\ sfs.disk[ino].links = Cardinality(EntriesFor(root, ino))
               /\ used \subseteq sfs.mapondisk
=============================================================================
