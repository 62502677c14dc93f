------------------------------ MODULE DevNode ------------------------------
(***************************************************************************)
(* The vnode of a device, kern/fs/vfs/device.c, on top of the drivers that *)
(* have one: the null device (devnull.c), the random numbers (random.c,    *)
(* with lrandom.c or pseudorand.c), the console and the disk.              *)
(*                                                                         *)
(* One file is looked at, and one call at a time: Lhd and Console are      *)
(* about several.  Of a transfer only the amounts count.  A device is what *)
(* it gives the kernel in its struct device.                               *)
(***************************************************************************)
EXTENDS Integers, FiniteSetsExt

CONSTANTS
  Width,        \* off_t and u_int32_t are Width bits wide
  Sizes,        \* sectors a disk can have
  Positions,    \* bound: positions, which may be negative
  Lens          \* bound: bytes asked for

LHD_SECTSIZE == 4

\* As small as they are here, no size of a disk leaves the positive half of
\* off_t: a disk has less than 2 GB.
DevAssumption ==
  /\ Width \in Nat \ {0} /\ Lens \subseteq Nat /\ Positions \subseteq Int
  /\ \A n \in Sizes : n \in Nat \ {0} /\ n * LHD_SECTSIZE < 2^(Width - 1)

VARIABLES
  d,            \* the struct device
  opened,       \* whether dev_open() has succeeded
  uio,          \* of the call under way: uio_rw, uio_offset, uio_resid
  at,           \* the function it is in, or "idle"
  left,         \* sectors lhd_io() still has to do
  last          \* the last call, what it was asked for, did and returned

vars == <<d, opened, uio, at, left, last>>

Word(n) == n % 2^Width
Signed(n) == IF n >= 2^(Width - 1) THEN n - 2^Width ELSE n

Modes == {"O_RDONLY", "O_WRONLY", "O_RDWR"}
Bits == {"O_CREAT", "O_EXCL", "O_TRUNC", "O_APPEND"}

----------------------------------------------------------------------------
(* The devices.  d_open is per mode. *)

nullopen == [m \in Modes |-> "ok"]
con_open == [m \in Modes |-> "ok"]
lhd_open == [m \in Modes |-> "ok"]
randopen == [m \in Modes |-> IF m # "O_RDONLY" THEN "EIO" ELSE "ok"]

nullclose == "ok"
con_close == "ok"
lhd_close == "ok"
randclose == "ok"

nullioctl == "EINVAL"
con_ioctl == "EINVAL"
lhd_ioctl == "EIOCTL"
randioctl == "EIOCTL"

devnull_create ==
  [d_open |-> nullopen, d_close |-> nullclose, d_io |-> "nullio", d_ioctl |-> nullioctl,
   d_blocks |-> 0, d_blocksize |-> 1, rs_read |-> 0]

\* rs_read is the number of bytes the source gives at a time.
config_random(rs_read) ==
  [d_open |-> randopen, d_close |-> randclose, d_io |-> "randio", d_ioctl |-> randioctl,
   d_blocks |-> 0, d_blocksize |-> 1, rs_read |-> rs_read]
lrandom_read == 4
pseudorand_read == 3

attach_console_to_vfs ==
  [d_open |-> con_open, d_close |-> con_close, d_io |-> "con_io", d_ioctl |-> con_ioctl,
   d_blocks |-> 0, d_blocksize |-> 1, rs_read |-> 0]

config_lhd(n) ==
  [d_open |-> lhd_open, d_close |-> lhd_close, d_io |-> "lhd_io", d_ioctl |-> lhd_ioctl,
   d_blocks |-> n, d_blocksize |-> LHD_SECTSIZE, rs_read |-> 0]

NoUio == [rw |-> "UIO_READ", offset |-> 0, resid |-> 0]

Init ==
  /\ d \in {devnull_create, config_random(lrandom_read), config_random(pseudorand_read),
            attach_console_to_vfs} \cup {config_lhd(n) : n \in Sizes}
  /\ opened = FALSE /\ at = "idle" /\ left = 0
  /\ uio = NoUio
  /\ last = [op |-> "none", pos |-> 0, len |-> 0, moved |-> 0, result |-> "ok"]

----------------------------------------------------------------------------
(* device.c: the functions that only answer *)

IsBlock == d.d_blocks > 0
Size == Signed(Word(d.d_blocks * d.d_blocksize))

dev_gettype == IF IsBlock THEN "S_IFBLK" ELSE "S_IFCHR"
dev_stat == [st_mode |-> dev_gettype, st_nlink |-> 1, st_blocks |-> d.d_blocks,
             st_size |-> IF IsBlock THEN Size ELSE 0]

bug_dev_tryseek(pos) ==                 \* the last sector is off the end
  IF ~IsBlock THEN "ESPIPE"
  ELSE IF \/ Word(pos) % d.d_blocksize # 0 \/ pos < 0
          \/ Word(pos) \div d.d_blocksize >= d.d_blocks - 1
       THEN "EINVAL" ELSE "ok"

\* The position is taken for unsigned in the first and the last test.
dev_tryseek(pos) ==
  IF ~IsBlock THEN "ESPIPE"
  ELSE IF Word(pos) % d.d_blocksize # 0 \/ pos < 0 \/ Word(pos) \div d.d_blocksize >= d.d_blocks
       THEN "EINVAL" ELSE "ok"

dev_truncate(len) == IF IsBlock /\ Size = len THEN "ok" ELSE "EINVAL"

dev_open(mode, bits) == IF bits # {} THEN "EINVAL" ELSE d.d_open[mode]

null_io == "EINVAL"
null_fsync == "ok"
dev_mmap == "EUNIMP"
dev_reclaim == "ok"
dev_namefile == "ok"
null_creat == "ENOTDIR"
null_symlink == "ENOTDIR"
null_nameop == "ENOTDIR"
null_link == "ENOTDIR"
null_rename == "ENOTDIR"
dev_lookparent == "ENOTDIR"

\* The table, but for those that depend on an argument.
dev_vnode_ops ==
  [close |-> d.d_close, stat |-> "ok", gettype |-> "ok", reclaim |-> dev_reclaim, readlink |-> null_io, getdirentry |-> null_io,
   ioctl |-> d.d_ioctl, fsync |-> null_fsync, mmap |-> dev_mmap, namefile |-> dev_namefile,
   creat |-> null_creat, symlink |-> null_symlink, mkdir |-> null_nameop, link |-> null_link,
   remove |-> null_nameop, rmdir |-> null_nameop, rename |-> null_rename,
   lookparent |-> dev_lookparent]

----------------------------------------------------------------------------
(* Calls that return at once.  The uio and the count of an earlier one are gone. *)

Answer(op, pos, len, result) ==
  /\ at = "idle"
  /\ last' = [op |-> op, pos |-> pos, len |-> len, moved |-> 0, result |-> result]
  /\ uio' = NoUio /\ left' = 0 /\ UNCHANGED <<d, at>>

VOP_OPEN(mode, bits) ==
  LET result == dev_open(mode, bits)
  IN  ~opened /\ opened' = (result = "ok") /\ Answer("open", 0, 0, result)

VOP_CLOSE == opened /\ opened' = FALSE /\ Answer("close", 0, 0, dev_vnode_ops.close)

VOP_TRYSEEK(pos) == opened /\ Answer("tryseek", pos, 0, dev_tryseek(pos)) /\ UNCHANGED opened
VOP_TRUNCATE(len) == opened /\ Answer("truncate", len, 0, dev_truncate(len)) /\ UNCHANGED opened

\* A name after the colon is never found; without one it is the device.
dev_lookup(empty) ==
  Answer("lookup", 0, 0, IF empty THEN "ok" ELSE "ENOENT") /\ UNCHANGED opened

Other == \E op \in DOMAIN dev_vnode_ops \ {"close"} :
           Answer(op, 0, 0, dev_vnode_ops[op]) /\ UNCHANGED opened

----------------------------------------------------------------------------
(* Transfers: dev_read() and dev_write() hand them to d_io *)

Rw(rw, pos, len) ==
  /\ opened /\ at = "idle"
  /\ uio' = [rw |-> rw, offset |-> pos, resid |-> len]
  /\ at' = d.d_io
  /\ last' = [op |-> rw, pos |-> pos, len |-> len, moved |-> 0, result |-> "none"]
  /\ UNCHANGED <<d, opened, left>>

dev_read(pos, len) == Rw("UIO_READ", pos, len)
dev_write(pos, len) == Rw("UIO_WRITE", pos, len)

Return(result) ==
  at' = "idle" /\ last' = [last EXCEPT !.moved = last.len - uio'.resid, !.result = result]
GoOn == UNCHANGED <<at, last>>

uiomove(n) ==
  LET k == Min({n, uio.resid})
  IN  uio' = [uio EXCEPT !.offset = @ + k, !.resid = @ - k]

Reading == uio.rw = "UIO_READ"
same == <<d, opened>>

nullio ==
  /\ at = "nullio"
  /\ uio' = IF Reading THEN uio ELSE [uio EXCEPT !.resid = 0]
  /\ Return("ok") /\ UNCHANGED <<same, left>>

randio ==
  /\ at = "randio"
  /\ \/ ~Reading /\ UNCHANGED uio /\ Return("EIO")
     \/ Reading /\ UNCHANGED <<uio, last>> /\ at' = "rs_read"
  /\ UNCHANGED <<same, left>>

\* A turn of the loop of lrandom_read() or pseudorand_read().
rs_read ==
  /\ at = "rs_read"
  /\ \/ uio.resid = 0 /\ UNCHANGED uio /\ Return("ok")
     \/ uio.resid > 0 /\ uiomove(d.rs_read) /\ GoOn
     \/ uio.resid > 0 /\ UNCHANGED uio /\ Return("EFAULT")
  /\ UNCHANGED <<same, left>>

\* A turn of the loop of con_io(): a newline ends a read.
con_io ==
  /\ at = "con_io"
  /\ \/ uio.resid = 0 /\ UNCHANGED uio /\ Return("ok")
     \/ uio.resid > 0 /\ uiomove(1) /\ GoOn
     \/ uio.resid > 0 /\ Reading /\ uiomove(1) /\ Return("ok")
     \/ uio.resid > 0 /\ UNCHANGED uio /\ Return("EFAULT")
  /\ UNCHANGED <<same, left>>

Sector == Word(uio.offset \div LHD_SECTSIZE)

\* lhd_io(), up to its loop.
lhd_io ==
  LET len == uio.resid \div LHD_SECTSIZE
      bad == \/ uio.offset % LHD_SECTSIZE # 0 \/ uio.resid % LHD_SECTSIZE # 0
             \/ Word(Sector + len) > d.d_blocks
  IN  /\ at = "lhd_io" /\ UNCHANGED <<same, uio>>
      /\ \/ bad /\ Return("EINVAL") /\ UNCHANGED left
         \/ ~bad /\ at' = "sector" /\ left' = len /\ UNCHANGED last

\* A turn of its loop.  The disk knows its sectors, and may fail; uiomove()
\* comes before the operation, or after it, and may fail as well.
lhd_sector ==
  /\ at = "sector"
  /\ \/ left = 0 /\ UNCHANGED <<uio, left>> /\ Return("ok")
     \/ /\ left > 0 /\ Sector < d.d_blocks
        /\ uiomove(LHD_SECTSIZE) /\ left' = left - 1 /\ GoOn
     \/ /\ left > 0 /\ (IF Reading THEN UNCHANGED uio ELSE uiomove(LHD_SECTSIZE))
        /\ Return(IF Sector < d.d_blocks THEN "EIO" ELSE "EINVAL") /\ UNCHANGED left
     \/ /\ left > 0 /\ (Reading => Sector < d.d_blocks)
        /\ UNCHANGED <<uio, left>> /\ Return("EFAULT")
  /\ UNCHANGED same

d_io == nullio \/ randio \/ rs_read \/ con_io \/ lhd_io \/ lhd_sector

Next ==
  \/ \E mode \in Modes, bits \in SUBSET Bits : VOP_OPEN(mode, bits)
  \/ VOP_CLOSE \/ Other
  \/ \E pos \in Positions : VOP_TRYSEEK(pos) \/ VOP_TRUNCATE(pos)
  \/ \E empty \in BOOLEAN : dev_lookup(empty)
  \/ \E pos \in Positions, len \in Lens : dev_read(pos, len) \/ dev_write(pos, len)
  \/ d_io

Spec == Init /\ [][Next]_vars

----------------------------------------------------------------------------
Returned == at = "idle" /\ last.op \in {"UIO_READ", "UIO_WRITE"}

\* The sectors dev_tryseek() and dev_stat() say a disk has are those lhd_io()
\* transfers: what lies within them is never refused as invalid, and what does
\* not never succeeds, negative positions included, whose sector number wraps
\* around.  And a transfer on any device that succeeds has moved all it was
\* asked for, but that null: has nothing to read, that a line of the console
\* may be shorter, and that random: takes nothing.
NodeTransfersAgree ==
  Returned =>
    /\ (IsBlock /\ last.len > 0) =>
         LET inside == /\ last.len % d.d_blocksize = 0 /\ dev_tryseek(last.pos) = "ok"
                       /\ last.pos + last.len <= dev_stat.st_size
         IN  (last.result = "ok" => inside) /\ (last.result = "EINVAL" => ~inside)
    /\ last.result = "ok" =>
         \/ last.moved = last.len
         \/ d.d_io = "nullio" /\ last.op = "UIO_READ" /\ last.moved = 0
         \/ d.d_io = "con_io" /\ last.op = "UIO_READ" /\ last.moved \in 1..last.len
    /\ (d.d_io = "randio" /\ last.op = "UIO_WRITE") => last.result = "EIO" /\ last.moved = 0
=============================================================================
