------------------------------- MODULE SFSFile -------------------------------
(***************************************************************************)
(* Files of the simple file system: the block map, the free block map, the *)
(* data path and truncation of kern/fs/sfs/sfs_vnode.c and the             *)
(* synchronisation of sfs_fs.c.  The operations of one caller at a time.   *)
(*                                                                         *)
(* A block holds BLOCKSIZE units: the bytes of a file, or the block        *)
(* numbers in an indirect block, as the disk does not tell them apart.     *)
(* As in SFSBlocks, every function works on the file system s and hands    *)
(* back the s it leaves, an error and its result; after a write that was   *)
(* lost the model does not go on.                                          *)
(***************************************************************************)
EXTENDS SFSBlocks, Sequences, SequencesExt

CONSTANTS
  File,        \* inodes, with their blocks already allocated
  Val,         \* per file: what is written to it, so that files differ
  NDIRECT,     \* SFS_NDIRECT
  BLOCKSIZE,   \* SFS_BLOCKSIZE and SFS_DBPERIDB, in units
  Offsets,     \* bound: where writes start
  TruncLens,   \* lengths VOP_TRUNCATE is called with
  MaxLen,      \* bound: units of one write
  MaxOps,      \* bound: operations performed
  MaxFault     \* bound: which transfer of an operation may fail, once

Unit == 0..(BLOCKSIZE - 1)
MaxSize == (NDIRECT + BLOCKSIZE) * BLOCKSIZE

VARIABLES
  sfs,     \* struct sfs_fs with its inodes, and the disk
  want,    \* per file: the units a reader should find
  ops      \* operations so far

vars == <<sfs, want, ops>>

ZeroBlock == [u \in Unit |-> 0]
NewInode == [size |-> 0, direct |-> [i \in 0..(NDIRECT - 1) |-> 0], indirect |-> 0]

Init ==
  /\ sfs = [freemap |-> {}, mapdirty |-> FALSE,
            inode |-> [f \in File |-> NewInode], dirty |-> [f \in File |-> FALSE],
            disk |-> [b \in Block |-> ZeroBlock],
            mapondisk |-> TRUE, ondisk |-> [f \in File |-> TRUE],
            fault |-> 0, hurt |-> "no", panic |-> FALSE]
  /\ want = [f \in File |-> <<>>]
  /\ ops = 0

----------------------------------------------------------------------------
(* sfs_bmap() *)

ReadBlock(s, b) == sfs_rblock(s, s.disk[b])
WriteBlock(s, b, data) == sfs_wblock(s, [s EXCEPT !.disk[b] = data])

sfs_bused(s, b) == b \in s.freemap

\* "Hand back the block", unless it is marked free.
HandBack(s, b) ==
  IF b # 0 /\ ~sfs_bused(s, b) THEN Fail([s EXCEPT !.panic = TRUE], "panic") ELSE Ok(s, b)

bmap_direct(s, f, n, doalloc) ==
  LET b == s.inode[f].direct[n]
  IN  IF b # 0 \/ ~doalloc THEN HandBack(s, b)
      ELSE Then(sfs_balloc(s, ZeroBlock), LAMBDA t, block :
             HandBack([t EXCEPT !.inode[f].direct[n] = block, !.dirty[f] = TRUE], block))

\* The indirect block, allocated if there is none.
indirect_block(s, f) ==
  IF s.inode[f].indirect # 0 THEN Ok(s, s.inode[f].indirect)
  ELSE Then(sfs_balloc(s, ZeroBlock), LAMBDA t, block :
         Ok([t EXCEPT !.inode[f].indirect = block, !.dirty[f] = TRUE], block))

\* A new block in entry n of the indirect block, whose contents are idbuf.
indirect_entry(s, idblock, idbuf, n) ==
  Then(sfs_balloc(s, ZeroBlock), LAMBDA t, block :
    Then(WriteBlock(t, idblock, [idbuf EXCEPT ![n] = block]), LAMBDA w, v : HandBack(w, block)))

\* Entry n of the indirect block, which is read unless it has just been
\* allocated.
bmap_indirect(s, f, n, doalloc) ==
  IF s.inode[f].indirect = 0 /\ ~doalloc THEN Ok(s, 0)
  ELSE Then(indirect_block(s, f), LAMBDA t, idblock :
         Then(IF s.inode[f].indirect = 0 THEN Ok(t, ZeroBlock) ELSE ReadBlock(t, idblock),
           LAMBDA r, idbuf :
             IF idbuf[n] # 0 \/ ~doalloc THEN HandBack(r, idbuf[n])
             ELSE indirect_entry(r, idblock, idbuf, n)))

sfs_bmap(s, f, fileblock, doalloc) ==
  IF fileblock < NDIRECT THEN bmap_direct(s, f, fileblock, doalloc)
  ELSE IF fileblock - NDIRECT >= BLOCKSIZE THEN Fail(s, "EINVAL")
  ELSE bmap_indirect(s, f, fileblock - NDIRECT, doalloc)

----------------------------------------------------------------------------
(* File-level I/O.  A uio has the direction, the offset, the units left and *)
(* what has been read; x is the uio with the file system and the error.     *)

uiomove(u, data) ==
  [u EXCEPT !.offset = @ + Len(data), !.resid = @ - Len(data),
            !.out = IF u.rw = "write" THEN @ ELSE @ \o data]

\* The same as Then, for steps that have brought the uio to u.
ThenIO(r, u, Continue(_, _)) ==
  IF r.err # "ok" THEN [s |-> r.s, u |-> u, err |-> r.err] ELSE Continue(r.s, r.val)

\* sfs_partialio(): len units of a block from skipstart on.
sfs_partialio(x, f, skipstart, len) ==
  LET writing == x.u.rw = "write"
      Moved(buf) == uiomove(x.u, [i \in 1..len |-> buf[skipstart + i - 1]])
      New(buf) ==
        [i \in Unit |-> IF i \in skipstart..(skipstart + len - 1) THEN Val[f] ELSE buf[i]]
  IN  ThenIO(sfs_bmap(x.s, f, x.u.offset \div BLOCKSIZE, writing), x.u, LAMBDA s, block :
        ThenIO(IF block = 0 THEN Ok(s, ZeroBlock) ELSE ReadBlock(s, block), x.u, LAMBDA t, buf :
          ThenIO(IF writing THEN WriteBlock(t, block, New(buf)) ELSE Ok(t, 0), Moved(buf),
            LAMBDA w, v : [s |-> w, u |-> Moved(buf), err |-> "ok"])))

\* sfs_blockio(): a whole block, straight between the disk and the caller.
sfs_blockio(x, f) ==
  LET writing == x.u.rw = "write"
      own == [i \in Unit |-> Val[f]]
      Data(val) == [i \in 1..BLOCKSIZE |-> IF writing THEN Val[f] ELSE val[i - 1]]
  IN  ThenIO(sfs_bmap(x.s, f, x.u.offset \div BLOCKSIZE, writing), x.u, LAMBDA s, block :
        ThenIO(IF block = 0 THEN Ok(s, ZeroBlock)
               ELSE IF writing THEN WriteBlock(s, block, own)
               ELSE ReadBlock(s, block), x.u,
          LAMBDA t, val : [s |-> t, u |-> uiomove(x.u, Data(val)), err |-> "ok"]))

\* The units before the first block boundary.
LeadingIO(x, f) ==
  LET skip == x.u.offset % BLOCKSIZE
  IN  IF skip = 0 THEN x
      ELSE sfs_partialio(x, f, skip, Min({BLOCKSIZE - skip, x.u.resid}))

WholeBlocks(x, f) ==
  FoldLeft(LAMBDA y, i : IF y.err # "ok" THEN y ELSE sfs_blockio(y, f),
           x, [i \in 1..(x.u.resid \div BLOCKSIZE) |-> i])

\* goto out, after an error or at the end of the transfer.
UnlessDone(x, Continue(_)) == IF x.err # "ok" \/ x.u.resid = 0 THEN x ELSE Continue(x)

bug_io_blocks(x, f) ==         \* no trailing partial block
  UnlessDone(LeadingIO(x, f), LAMBDA y : WholeBlocks(y, f))

\* The leading partial block, the whole blocks and the trailing partial one.
io_blocks(x, f) ==
  UnlessDone(LeadingIO(x, f), LAMBDA y :
    UnlessDone(WholeBlocks(y, f), LAMBDA z : sfs_partialio(z, f, 0, z.u.resid)))

\* sfs_io(): a read is cut at the end of the file; a write moves the end.
sfs_io(s, f, u) ==
  LET size == s.inode[f].size
      extraresid == IF u.rw = "read" THEN Max({0, u.offset + u.resid - size}) ELSE 0
      Resized(t, end) ==
        IF u.rw = "write" /\ end > size
        THEN [t EXCEPT !.inode[f].size = end, !.dirty[f] = TRUE] ELSE t
      Ended(x) == [x EXCEPT !.s = Resized(x.s, x.u.offset), !.u.resid = @ + extraresid]
  IN  IF u.rw = "read" /\ u.offset >= size THEN [s |-> s, u |-> u, err |-> "ok"]
      ELSE Ended(io_blocks([s |-> s, u |-> [u EXCEPT !.resid = @ - extraresid], err |-> "ok"], f))

----------------------------------------------------------------------------
(* sfs_truncate() *)

\* The test on the direct blocks.
PastEnd(blocklen, n) == n >= blocklen

\* The test on the blocks of the indirect block, numbered from NDIRECT.
IndirectPastEnd(blocklen, j) == blocklen < NDIRECT + j

truncate_direct(s, f, blocklen) ==
  LET d == s.inode[f].direct
      gone == {i \in DOMAIN d : PastEnd(blocklen, i) /\ d[i] # 0}
  IN  IF gone = {} THEN s
      ELSE [sfs_bfree(s, {d[i] : i \in gone}) EXCEPT
             !.inode[f].direct = [i \in DOMAIN d |-> IF i \in gone THEN 0 ELSE d[i]],
             !.dirty[f] = TRUE]

\* What becomes of the indirect block whose contents are idbuf: the blocks
\* past the end are freed, and the block itself when nothing is left in it.
discard_indirect(s, f, blocklen, idbuf) ==
  LET idblock == s.inode[f].indirect
      gone == {j \in Unit : IndirectPastEnd(blocklen, j) /\ idbuf[j] # 0}
      left == [j \in Unit |-> IF j \in gone THEN 0 ELSE idbuf[j]]
      t == sfs_bfree(s, {idbuf[j] : j \in gone})
  IN  IF left = ZeroBlock
      THEN Ok([sfs_bfree(t, {idblock}) EXCEPT !.inode[f].indirect = 0, !.dirty[f] = TRUE], 0)
      ELSE IF gone # {} THEN WriteBlock(t, idblock, left) ELSE Ok(t, 0)

truncate_indirect(s, f, blocklen) ==
  LET idblock == s.inode[f].indirect
  IN  IF idblock = 0 \/ ~(blocklen < NDIRECT + BLOCKSIZE - 1) THEN Ok(s, 0)
      ELSE Then(ReadBlock(s, idblock), LAMBDA t, idbuf : discard_indirect(t, f, blocklen, idbuf))

sfs_truncate(s, f, len) ==
  LET blocklen == (len + BLOCKSIZE - 1) \div BLOCKSIZE
  IN  Then(truncate_indirect(truncate_direct(s, f, blocklen), f, blocklen), LAMBDA t, v :
        Ok([t EXCEPT !.inode[f].size = len, !.dirty[f] = TRUE], 0))

----------------------------------------------------------------------------
(* Synchronisation *)

\* sfs_sync_inode().
sfs_sync_inode(s, f) ==
  IF ~s.dirty[f] THEN s
  ELSE [sfs_wblock(s, [s EXCEPT !.ondisk[f] = TRUE]).s EXCEPT !.dirty[f] = FALSE]

\* sfs_sync(): every loaded inode, then the map.
sfs_sync(s) ==
  LET t == FoldSet(LAMBDA f, x : sfs_sync_inode(x, f), s, File)
  IN  IF ~t.mapdirty THEN t
      ELSE [sfs_wblock(t, [t EXCEPT !.mapondisk = TRUE]).s EXCEPT !.mapdirty = FALSE]

----------------------------------------------------------------------------
\* Units v moved to offset, after zeros in any gap.  A write that moves none
\* lengthens the file all the same: sfi_size becomes uio_offset.
Extended(w, offset, moved, v) ==
  [i \in 1..Max({Len(w), offset + moved}) |->
     IF i \in (offset + 1)..(offset + moved) THEN v ELSE IF i <= Len(w) THEN w[i] ELSE 0]

Faulty(k) == [sfs EXCEPT !.fault = k]

\* The operation ends in s.  ondisk, mapondisk: whether the copies on disk
\* of an inode, of the free map, are still those in memory.
Done(s) ==
  sfs' = [s EXCEPT !.fault = 0,
            !.ondisk = [f \in File |-> s.inode[f] = sfs.inode[f] /\ s.ondisk[f]],
            !.mapondisk = s.freemap = sfs.freemap /\ s.mapondisk]

Write(f, offset, len, k) ==
  LET x == sfs_io(Faulty(k), f, [rw |-> "write", offset |-> offset, resid |-> len, out |-> <<>>])
  IN  /\ Done(x.s)
      /\ want' = [want EXCEPT ![f] = Extended(@, offset, x.u.offset - offset, Val[f])]

Truncate(f, len, k) ==
  LET r == sfs_truncate(Faulty(k), f, len)
  IN  /\ Done(r.s)
      /\ want' = IF r.err # "ok" THEN want
                 ELSE [want EXCEPT ![f] = SubSeq(Extended(@, len, 0, 0), 1, len)]

Fsync(f, k) == Done(sfs_sync_inode(Faulty(k), f)) /\ UNCHANGED want

Sync(k) == Done(sfs_sync(Faulty(k))) /\ UNCHANGED want

Next ==
  /\ ~sfs.panic /\ sfs.hurt # "write" /\ ops < MaxOps /\ ops' = ops + 1
  /\ \E k \in IF sfs.hurt = "no" THEN 0..MaxFault ELSE {0} :
       \/ \E f \in File :
            \/ \E offset \in Offsets, len \in 1..MaxLen : Write(f, offset, len, k)
            \/ \E len \in TruncLens : Truncate(f, len, k)
            \/ Fsync(f, k)
       \/ Sync(k)

Spec == Init /\ [][Next]_vars

----------------------------------------------------------------------------
\* Blocks the inode of f leads to, on a disk: its data blocks and the
\* indirect block.
DataAt(i, n) ==
  IF n < NDIRECT THEN i.direct[n]
  ELSE IF i.indirect = 0 THEN 0 ELSE sfs.disk[i.indirect][n - NDIRECT]
FileBlock == 0..(NDIRECT + BLOCKSIZE - 1)
BlocksOf(i) == ({DataAt(i, n) : n \in FileBlock} \cup {i.indirect}) \ {0}

\* Nothing that should be on the disk has been lost on its way.
Sound == sfs.hurt # "write"

\* No two places lead to the same block: not two files, not two blocks of a
\* file, not a file and an indirect block (sfs_balloc(), sfs_bmap()).
NoBlockShared ==
  Sound =>
  /\ \A f, g \in File : f # g => BlocksOf(sfs.inode[f]) \cap BlocksOf(sfs.inode[g]) = {}
  /\ \A f \in File : \A n, m \in FileBlock :
       LET i == sfs.inode[f]
       IN  DataAt(i, n) # 0 => /\ DataAt(i, n) # i.indirect
                               /\ n # m => DataAt(i, n) # DataAt(i, m)

\* Every block a file leads to is marked in the free map, so that the panics
\* of sfs_bmap() are never reached, and only those are marked: nothing is lost
\* when the disk fills up or a read fails half-way.
MapIsExact ==
  LET led == UNION {BlocksOf(sfs.inode[f]) : f \in File}
  IN  Sound => ~sfs.panic /\ led = sfs.freemap

\* As long as no transfer has failed, a read at any offset, of any length,
\* returns what was written, zeros in the gaps and no more than the file has.
ReadsBack ==
  sfs.hurt = "no" => \A f \in File, offset \in 0..MaxSize : \A len \in {1, BLOCKSIZE + 1, MaxSize} :
    LET x == sfs_io(sfs, f, [rw |-> "read", offset |-> offset, resid |-> len, out |-> <<>>])
        end == Min({offset + len, Len(want[f])})
    IN  x.err = "ok" => /\ x.u.out = SubSeq(want[f], offset + 1, end)
                     /\ x.u.resid = len - Len(x.u.out) /\ x.s = sfs

\* What is not marked dirty is on the disk: after a sync without errors a
\* crash loses nothing (sv_dirty, sfs_freemapdirty).
CleanIsOnDisk ==
  Sound =>
  /\ \A f \in File : ~sfs.dirty[f] => sfs.ondisk[f]
  /\ ~sfs.mapdirty => sfs.mapondisk

\* "Discard any blocks that are past the new EOF" (sfs_truncate()): no block
\* of a file lies beyond its size.
NoBlockPastEOF ==
  \A f \in File : \A n \in FileBlock :
    DataAt(sfs.inode[f], n) # 0 => n * BLOCKSIZE < sfs.inode[f].size
=============================================================================
