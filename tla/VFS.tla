--------------------------------- MODULE VFS ---------------------------------
(***************************************************************************)
(* The VFS layer: the table of named devices and mounted file systems      *)
(* (kern/fs/vfs/vfslist.c), path names (vfslookup.c), the operations on    *)
(* them (vfspath.c), the current directory (vfscwd.c), vnodes and their    *)
(* counts (vnode.c) and devices as vnodes (device.c, devnull.c).           *)
(*                                                                         *)
(* A vnode is the root of a file system, a file of one, or a device.  The  *)
(* file systems are seen through the operations they offer, as SFSDir has  *)
(* them: a flat root directory, with names for files.                      *)
(*                                                                         *)
(* Every function works on the state s of the layer and hands back the s   *)
(* it leaves, an error ("ok": none) and its result.                        *)
(***************************************************************************)
EXTENDS Base, Integers, Sequences, FiniteSets, FiniteSetsExt, Functions

CONSTANTS
  Proc,         \* the threads that call the layer
  FS,           \* file systems
  NoFS,
  Attach,       \* the calls of vfs_adddev() and vfs_addfs() at boot, in order
  OnDisk,       \* per name of a mountable device: the file system on it
  VolName,      \* per file system: its volume name, or NULL
  Name,         \* file names
  Path,         \* bound: the paths operations are given
  MaxIno,       \* bound: files a file system can have at once
  MaxOpen,      \* bound: files open at once
  LinkRoots     \* whether link() is ever given the root of a file system

----------------------------------------------------------------------------
(* The table.  A device name is a sequence: mkrawname() appends to it. *)

mkrawname(name) == name \o <<"raw">>

Names(kd) ==
  {kd.name, kd.rawname} \cup (IF kd.fs = NoFS THEN {} ELSE {VolName[kd.fs]})

\* badnames(): whether one of N is taken; NULL never is.
badnames(kds, N) == \E i \in DOMAIN kds : (Names(kds[i]) \cap N) \ {NULL} # {}

\* vfs_doadd().
vfs_doadd(kds, a) ==
  LET kd == [name |-> a.name, fs |-> a.fs,
             rawname |-> IF a.mountable THEN mkrawname(a.name) ELSE NULL]
  IN  IF badnames(kds, Names(kd)) THEN kds ELSE Append(kds, kd)

\* The table when the first k of the calls were made.
AfterAttach[k \in 0..Len(Attach)] ==
  IF k = 0 THEN <<>> ELSE vfs_doadd(AfterAttach[k - 1], Attach[k])
KnownDevs == AfterAttach[Len(Attach)]

Root(fs) == [kind |-> "root", of |-> fs, ino |-> 0]
Device(i) == [kind |-> "dev", of |-> i, ino |-> 0]
FileOf(fs, ino) == [kind |-> "file", of |-> fs, ino |-> ino]
Vnode == {Root(fs) : fs \in FS} \cup {Device(i) : i \in DOMAIN KnownDevs}
         \cup {FileOf(fs, ino) : fs \in FS, ino \in 1..MaxIno}
vn_fs(v) == IF v.kind = "dev" THEN NoFS ELSE v.of

\* Devices are attached with names for which there is a file system if they
\* can be mounted, paths have one of the four kinds, and the values that stand
\* for nothing are none of the things they are no one of.
VfsConstants ==
  /\ IsFiniteSet(Proc) /\ MaxIno \in Nat
  /\ NoFS \notin FS /\ NULL \notin Vnode
  /\ Len(Attach) \in Nat
  /\ \A k \in 1..Len(Attach) :
       /\ Attach[k].fs \in FS \cup {NoFS} /\ Attach[k].mountable \in BOOLEAN
       /\ Attach[k].mountable => OnDisk[Attach[k].name] \in FS
  /\ \A path \in Path : path.kind \in {"plain", "dev", "slash", "colon"}

ASSUME VfsAssumption == VfsConstants

VARIABLE
  vfs    \* knowndevs; vn_refcount and vn_opencount of every vnode; the names
         \* in every file system; t_cwd; bootfs_vnode; what is open; whether
         \* the disks fail now; the vnodes that could not be reclaimed

\* A device has a reference of its own: it is permanent.
Init ==
  vfs = [knowndevs |-> KnownDevs,
         refcount |-> [v \in Vnode |-> IF v.kind = "dev" THEN 1 ELSE 0],
         opencount |-> [v \in Vnode |-> 0],
         names |-> [fs \in FS |-> <<>>],
         cwd |-> [t \in Proc |-> NULL], bootfs |-> NULL,
         open |-> [v \in Vnode |-> 0], failing |-> FALSE, leaked |-> {}, panic |-> FALSE]

Ok(s, v) == [s |-> s, err |-> "ok", val |-> v]
Fail(s, e) == [s |-> s, err |-> e, val |-> NULL]
Panic(s) == [s EXCEPT !.panic = TRUE]

----------------------------------------------------------------------------
(* vnode.c.  Using a vnode without references is a panic of vnode_check(). *)

vnode_incref(s, v) ==
  IF s.refcount[v] = 0 THEN Panic(s) ELSE [s EXCEPT !.refcount[v] = @ + 1]

\* VOP_RECLAIM: dev_reclaim() keeps the device.  sfs_reclaim() fails if it
\* cannot read what a file without a name has to give back, emufs_reclaim() if
\* the host cannot close the file, and the vnode stays as it is; otherwise it
\* is dropped, and must not be open.
VOP_RECLAIM(s, v) ==
  IF v.kind = "dev" THEN s
  ELSE IF v.kind = "file" /\ s.failing THEN [s EXCEPT !.leaked = @ \cup {v}]
  ELSE IF s.opencount[v] # 0 THEN Panic(s)
  ELSE [s EXCEPT !.refcount[v] = 0]

\* The last reference is not dropped here: VOP_RECLAIM takes it with the vnode.
vnode_decref(s, v) ==
  IF s.refcount[v] > 1 THEN [s EXCEPT !.refcount[v] = @ - 1]
  ELSE IF s.refcount[v] = 0 THEN Panic(s)
  ELSE VOP_RECLAIM(s, v)

vnode_incopen(s, v) == [s EXCEPT !.opencount[v] = @ + 1]
vnode_decopen(s, v) ==
  IF s.opencount[v] = 0 THEN Panic(s) ELSE [s EXCEPT !.opencount[v] = @ - 1]

Decref(r, v) == [r EXCEPT !.s = vnode_decref(r.s, v)]

\* FSOP_GETROOT: loads the vnode or takes another reference to it.
FSOP_GETROOT(s, fs) == [s EXCEPT !.refcount[Root(fs)] = @ + 1]

----------------------------------------------------------------------------
(* Looking up devices *)

\* vfs_getroot(): the first device in the table that one of the names fits.
vfs_getroot(s, devname) ==
  LET kds == s.knowndevs
      hits == {i \in DOMAIN kds : devname \in Names(kds[i])}
      i == Min(hits)
      kd == kds[i]
  IN  IF hits = {} THEN Fail(s, "ENODEV")
      ELSE IF kd.fs # NoFS /\ devname \in {kd.name, VolName[kd.fs]}
           THEN Ok(FSOP_GETROOT(s, kd.fs), Root(kd.fs))
      ELSE IF kd.fs = NoFS /\ kd.rawname # NULL /\ devname = kd.name THEN Fail(s, "ENXIO")
      ELSE Ok(vnode_incref(s, Device(i)), Device(i))

\* vfs_getdevname(): NULL if no device has the file system.
vfs_getdevname(s, fs) ==
  LET hits == {i \in DOMAIN s.knowndevs : s.knowndevs[i].fs = fs}
  IN  IF hits = {} THEN NULL ELSE s.knowndevs[Min(hits)].name

----------------------------------------------------------------------------
(* Paths.  A path has a kind: "dev" (device:sub), "slash" (/sub), "colon"  *)
(* (:sub) or "plain" (sub), and a sub, NULL if empty.                      *)

vfs_getcurdir(s, t) ==
  IF s.cwd[t] = NULL THEN Fail(s, "ENOENT") ELSE Ok(vnode_incref(s, s.cwd[t]), s.cwd[t])

\* getdevice(): the vnode the lookup starts from.
getdevice(s, t, path) ==
  LET cur == vfs_getcurdir(s, t)
      root == FSOP_GETROOT(cur.s, vn_fs(cur.val))
  IN  CASE path.kind = "plain" -> cur
        [] path.kind = "dev" -> vfs_getroot(s, path.dev)
        [] path.kind = "slash" /\ s.bootfs = NULL -> Fail(s, "ENOENT")
        [] path.kind = "slash" /\ s.bootfs # NULL -> Ok(vnode_incref(s, s.bootfs), s.bootfs)
        [] path.kind = "colon" /\ cur.err # "ok" -> cur
        [] path.kind = "colon" /\ cur.err = "ok" ->
             IF vn_fs(cur.val) = NoFS THEN Fail(Panic(s), "panic")
             ELSE Ok(vnode_decref(root, cur.val), Root(vn_fs(cur.val)))

\* VOP_LOOKUP: sfs_lookup() or dev_lookup(), for a name.
VOP_LOOKUP(s, v, name) ==
  LET ino == s.names[v.of][name]
      file == IF ino = 0 THEN Root(v.of) ELSE FileOf(v.of, ino)
  IN  IF v.kind = "file" THEN Fail(s, "ENOTDIR")
      ELSE IF v.kind = "dev" \/ name \notin DOMAIN s.names[v.of] THEN Fail(s, "ENOENT")
      ELSE Ok([s EXCEPT !.refcount[file] = @ + 1], file)

\* VOP_LOOKPARENT: sfs_lookparent() or dev_lookparent().
VOP_LOOKPARENT(s, v) ==
  IF v.kind = "root" THEN Ok(vnode_incref(s, v), v) ELSE Fail(s, "ENOTDIR")

bug_vfs_lookparent(s, t, path) ==        \* the start is dropped only on success
  LET g == getdevice(s, t, path)
      r == VOP_LOOKPARENT(g.s, g.val)
  IN  IF g.err # "ok" THEN g
      ELSE IF path.sub = NULL THEN Fail(g.s, "EINVAL")
      ELSE IF r.err # "ok" THEN r ELSE Decref(r, g.val)

vfs_lookparent(s, t, path) ==
  LET g == getdevice(s, t, path)
      r == IF path.sub = NULL THEN Fail(g.s, "EINVAL") ELSE VOP_LOOKPARENT(g.s, g.val)
  IN  IF g.err # "ok" THEN g ELSE Decref(r, g.val)

vfs_lookup(s, t, path) ==
  LET g == getdevice(s, t, path)
  IN  IF g.err # "ok" \/ path.sub = NULL THEN g
      ELSE Decref(VOP_LOOKUP(g.s, g.val, path.sub), g.val)

----------------------------------------------------------------------------
(* The operations of a file system on its directory *)

SetName(s, fs, name, ino) ==
  LET names == s.names[fs]
  IN  [s EXCEPT !.names[fs] =
         [n \in DOMAIN names \cup {name} |-> IF n = name THEN ino ELSE names[n]]]
DropName(s, fs, name) ==
  LET names == s.names[fs]
  IN  [s EXCEPT !.names[fs] = [n \in DOMAIN names \ {name} |-> names[n]]]

\* An inode nothing leads to.
FreeInos(s, fs) ==
  {ino \in 1..MaxIno : s.refcount[FileOf(fs, ino)] = 0 /\ ino \notin Range(s.names[fs])}

VOP_CREAT(s, dir, name, excl) ==
  LET fs == dir.of
      ino == Min(FreeInos(s, fs))
      v == FileOf(fs, ino)
  IN  IF name \in DOMAIN s.names[fs]
      THEN IF excl THEN Fail(s, "EEXIST") ELSE VOP_LOOKUP(s, dir, name)
      ELSE IF FreeInos(s, fs) = {} THEN Fail(s, "ENOSPC")
      ELSE Ok([SetName(s, fs, name, ino) EXCEPT !.refcount[v] = 1], v)

VOP_REMOVE(s, dir, name) ==
  IF name \in DOMAIN s.names[dir.of] THEN Ok(DropName(s, dir.of, name), NULL)
  ELSE Fail(s, "ENOENT")

\* sfs_rename() asserts that what it renames is a file.
VOP_RENAME(s, dir, old, new) ==
  LET names == s.names[dir.of]
  IN  IF old \notin DOMAIN names THEN Fail(s, "ENOENT")
      ELSE IF names[old] = 0 THEN Fail(Panic(s), "panic")
      ELSE IF new \in DOMAIN names THEN Fail(s, "EEXIST")
      ELSE Ok(DropName(SetName(s, dir.of, new, names[old]), dir.of, old), NULL)

VOP_LINK(s, dir, name, v) ==
  IF name \in DOMAIN s.names[dir.of] THEN Fail(s, "EEXIST")
  ELSE Ok(SetName(s, dir.of, name, v.ino), NULL)

sfs_open(flags) == IF "APPEND" \in flags THEN "EUNIMP" ELSE "ok"
sfs_opendir(flags) == IF flags \cap {"WRITE", "APPEND"} # {} THEN "EISDIR" ELSE "ok"
dev_open(flags) == IF flags \cap {"CREAT", "TRUNC", "EXCL", "APPEND"} # {} THEN "EINVAL" ELSE "ok"

VOP_OPEN(v, flags) ==
  CASE v.kind = "file" -> sfs_open(flags)
    [] v.kind = "root" -> sfs_opendir(flags)
    [] v.kind = "dev"  -> dev_open(flags)

----------------------------------------------------------------------------
(* vfspath.c *)

\* The part of vfs_open() that follows the lookup; r is its result.
OpenFound(r, flags) ==
  LET v == r.val
      opened == [vnode_incopen(r.s, v) EXCEPT !.open[v] = @ + 1]
      cannot == "TRUNC" \in flags /\ "WRITE" \notin flags
  IN  IF r.err # "ok" THEN r
      ELSE IF VOP_OPEN(v, flags) # "ok" THEN Fail(vnode_decref(r.s, v), VOP_OPEN(v, flags))
      ELSE IF cannot
           THEN Fail(vnode_decref(vnode_decopen(vnode_incopen(r.s, v), v), v), "EINVAL")
      ELSE Ok(opened, v)

vfs_open(s, t, path, flags) ==
  LET p == vfs_lookparent(s, t, path)
      c == VOP_CREAT(p.s, p.val, path.sub, "EXCL" \in flags)
  IN  IF "CREAT" \notin flags THEN OpenFound(vfs_lookup(s, t, path), flags)
      ELSE IF p.err # "ok" THEN p
      ELSE OpenFound(Decref(c, p.val), flags)

vfs_close(s, v) ==
  vnode_decref([vnode_decopen(s, v) EXCEPT !.open[v] = @ - 1], v)

vfs_remove(s, t, path) ==
  LET p == vfs_lookparent(s, t, path)
  IN  IF p.err # "ok" THEN p ELSE Decref(VOP_REMOVE(p.s, p.val, path.sub), p.val)

vfs_rename(s, t, old, new) ==
  LET o == vfs_lookparent(s, t, old)
      n == vfs_lookparent(o.s, t, new)
      r == IF o.val.of # n.val.of THEN Fail(n.s, "EXDEV")
           ELSE VOP_RENAME(n.s, o.val, old.sub, new.sub)
  IN  IF o.err # "ok" THEN o
      ELSE IF n.err # "ok" THEN Decref(n, o.val)
      ELSE Decref(Decref(r, n.val), o.val)

vfs_link(s, t, old, new) ==
  LET o == vfs_lookup(s, t, old)
      n == vfs_lookparent(o.s, t, new)
      r == IF vn_fs(o.val) # n.val.of THEN Fail(n.s, "EXDEV")
           ELSE VOP_LINK(n.s, n.val, new.sub, o.val)
  IN  IF o.err # "ok" THEN o
      ELSE IF n.err # "ok" THEN Decref(n, o.val)
      ELSE Decref(Decref(r, n.val), o.val)

\* vfs_symlink(), vfs_mkdir() and vfs_rmdir(): no file system has them.
vfs_nameop(s, t, path) ==
  LET p == vfs_lookparent(s, t, path)
  IN  IF p.err # "ok" THEN p ELSE Decref(Fail(p.s, "EUNIMP"), p.val)

vfs_readlink(s, t, path) ==
  LET l == vfs_lookup(s, t, path)
  IN  IF l.err # "ok" THEN l ELSE Decref(Fail(l.s, "EINVAL"), l.val)

----------------------------------------------------------------------------
(* vfscwd.c and the boot file system *)

vfs_setcurdir(s, t, dir) ==
  LET s1 == [vnode_incref(s, dir) EXCEPT !.cwd[t] = dir]
  IN  IF dir.kind # "root" THEN Fail(s, "ENOTDIR")
      ELSE Ok(IF s.cwd[t] = NULL THEN s1 ELSE vnode_decref(s1, s.cwd[t]), NULL)

vfs_clearcurdir(s, t) ==
  LET s1 == [s EXCEPT !.cwd[t] = NULL]
  IN  IF s.cwd[t] = NULL THEN s1 ELSE vnode_decref(s1, s.cwd[t])

vfs_chdir(s, t, path) ==
  LET l == vfs_lookup(s, t, path)
  IN  IF l.err # "ok" THEN l ELSE Decref(vfs_setcurdir(l.s, t, l.val), l.val)

\* vfs_getcwd(): the name of the file system, which there must be.
vfs_getcwd(s, t) ==
  LET cur == vfs_getcurdir(s, t)
      fs == vn_fs(cur.val)
      name == IF VolName[fs] # NULL THEN VolName[fs] ELSE vfs_getdevname(cur.s, fs)
  IN  IF cur.err # "ok" THEN cur
      ELSE IF fs = NoFS THEN Fail(Panic(s), "panic")
      ELSE IF name = NULL THEN Fail(Panic(s), "panic")
      ELSE Ok(vnode_decref(cur.s, cur.val), name)

change_bootfs(s, v) ==
  LET s1 == [s EXCEPT !.bootfs = v]
  IN  IF s.bootfs = NULL THEN s1 ELSE vnode_decref(s1, s.bootfs)

\* vfs_setbootfs(): changes to "fsname:", and boots from there.  A name with
\* a colon is refused, as strlen(s) counts the colon itself.
vfs_setbootfs(s, t, fsname) ==
  LET c == vfs_chdir(s, t, [kind |-> "dev", dev |-> fsname, sub |-> NULL])
      g == vfs_getcurdir(c.s, t)
  IN  IF c.err # "ok" THEN c ELSE IF g.err # "ok" THEN g ELSE Ok(change_bootfs(g.s, g.val), NULL)

----------------------------------------------------------------------------
(* Mounting *)

findmount(s, devname) ==
  {i \in DOMAIN s.knowndevs : s.knowndevs[i].rawname # NULL /\ s.knowndevs[i].name = devname}

\* vfs_mount() of what is on the disk; ok is the result of mountfunc.
vfs_mount(s, devname, ok) ==
  LET i == Min(findmount(s, devname))
  IN  IF findmount(s, devname) = {} THEN Fail(s, "ENODEV")
      ELSE IF s.knowndevs[i].fs # NoFS THEN Fail(s, "EBUSY")
      ELSE IF ~ok THEN Fail(s, "EIO")
      ELSE Ok([s EXCEPT !.knowndevs[i].fs = OnDisk[devname]], NULL)

\* FSOP_UNMOUNT, sfs_unmount(): busy while a vnode is loaded.
FSOP_UNMOUNT(s, fs) == \E v \in Vnode : vn_fs(v) = fs /\ s.refcount[v] > 0

\* The file system on device i is dropped, unless busy.
Drop(s, i) ==
  IF FSOP_UNMOUNT(s, s.knowndevs[i].fs) THEN Fail(s, "EBUSY")
  ELSE Ok([s EXCEPT !.knowndevs[i].fs = NoFS], NULL)

\* vfs_unmount(); ok is the result of FSOP_SYNC.
vfs_unmount(s, devname, ok) ==
  LET i == Min(findmount(s, devname))
  IN  IF findmount(s, devname) = {} THEN Fail(s, "ENODEV")
      ELSE IF s.knowndevs[i].fs = NoFS THEN Fail(s, "EINVAL")
      ELSE IF ~ok THEN Fail(s, "EIO")
      ELSE Drop(s, i)

\* vfs_unmountall(): what is busy stays, and so does what is on the devices in
\* failing, which cannot be synchronised, not even at the second attempt.
vfs_unmountall(s, failing) ==
  LET kds == s.knowndevs
      stays(i) == kds[i].rawname = NULL \/ kds[i].fs = NoFS \/ i \in failing
  IN  [s EXCEPT !.knowndevs =
         [i \in DOMAIN kds |-> IF stays(i) THEN kds[i] ELSE Drop(s, i).s.knowndevs[i]]]

----------------------------------------------------------------------------
DevNames == (UNION {Names(KnownDevs[i]) : i \in DOMAIN KnownDevs}
             \cup Range(VolName)) \ {NULL}
Flags == {{}, {"WRITE"}, {"TRUNC"}, {"WRITE", "TRUNC"}, {"WRITE", "CREAT"},
          {"WRITE", "CREAT", "EXCL"}, {"APPEND"}}
Mountable == {KnownDevs[i].name : i \in {i \in DOMAIN KnownDevs : KnownDevs[i].rawname # NULL}}
Opened == FoldSet(LAMBDA v, n : n + vfs.open[v], 0, Vnode)

Open(t, path, flags) == Opened < MaxOpen /\ vfs' = vfs_open(vfs, t, path, flags).s
Close(v) == vfs.open[v] > 0 /\ vfs' = vfs_close(vfs, v)
Unlink(t, path) == vfs' = vfs_remove(vfs, t, path).s
Rename(t, old, new) == vfs' = vfs_rename(vfs, t, old, new).s
Link(t, old, new) == (LinkRoots \/ old.sub # NULL) /\ vfs' = vfs_link(vfs, t, old, new).s
Other(t, path) ==
  \/ vfs' = vfs_nameop(vfs, t, path).s
  \/ vfs' = vfs_readlink(vfs, t, path).s
Chdir(t, path) == vfs' = vfs_chdir(vfs, t, path).s
Getcwd(t) == vfs' = vfs_getcwd(vfs, t).s
SetBoot(t, fsname) == vfs' = vfs_setbootfs(vfs, t, fsname).s
Mount(dev, ok) == vfs' = vfs_mount(vfs, dev, ok).s
Unmount(dev, ok) == vfs' = vfs_unmount(vfs, dev, ok).s

\* thread_exit().
Exit(t) == vfs' = vfs_clearcurdir(vfs, t)

\* shutdown() in main.c.
Shutdown(t, failing) ==
  vfs' = vfs_unmountall(vfs_clearcurdir(change_bootfs(vfs, NULL), t), failing)

\* The disks begin to fail, or work again.
Disks == vfs' = [vfs EXCEPT !.failing = ~@]

Next ==
  /\ ~vfs.panic
  /\ \/ \E t \in Proc :
          \/ \E path \in Path :
               \/ \E flags \in Flags : Open(t, path, flags)
               \/ Unlink(t, path)
               \/ Chdir(t, path)
               \/ Other(t, path)
               \/ \E new \in Path : Rename(t, path, new) \/ Link(t, path, new)
          \/ \E fsname \in DevNames : SetBoot(t, fsname)
          \/ Getcwd(t)
          \/ Exit(t)
          \/ \E failing \in SUBSET DOMAIN KnownDevs : Shutdown(t, failing)
     \/ \E v \in Vnode : Close(v)
     \/ \E dev \in Mountable, ok \in BOOLEAN : Mount(dev, ok) \/ Unmount(dev, ok)
     \/ Disks

Spec == Init /\ [][Next]_vfs

----------------------------------------------------------------------------
\* A device is held by the table, and what could not be reclaimed by nobody,
\* for ever.
Holders(v) ==
  vfs.open[v] + Cardinality({t \in Proc : vfs.cwd[t] = v})
  + (IF vfs.bootfs = v THEN 1 ELSE 0) + (IF v.kind = "dev" \/ v \in vfs.leaked THEN 1 ELSE 0)

\* vn_refcount counts the holders and vn_opencount the opens, exactly, at the
\* end of every operation: no error path of vfs_lookparent(), vfs_open(),
\* vfs_rename(), vfs_link() and the others drops one too many or too few.  A
\* VOP_RECLAIM that fails in vnode_decref() costs the vnode one reference that
\* nobody holds, once and not every time it is used and dropped again.
VfsCountsAreExact ==
  ~vfs.panic => \A v \in Vnode : /\ vfs.refcount[v] = Holders(v)
                                 /\ vfs.opencount[v] = vfs.open[v]

\* Whatever is open, a current directory or the boot directory belongs to a
\* file system that is still mounted: vfs_unmount() and vfs_unmountall()
\* never take it away, which is why vfs_getdevname() "is not a race".
UsedIsMounted ==
  \A v \in Vnode : (v.kind # "dev" /\ Holders(v) > 0) =>
    \E i \in DOMAIN vfs.knowndevs : vfs.knowndevs[i].fs = v.of

\* The assertions and panics of vnode_check(), getdevice(), vfs_getcwd() and
\* vnode_kill() are never reached.
NoPanic == ~vfs.panic

\* "to avoid getting two filesystems with the same name mounted at once": no
\* name leads to two devices of the table (badnames(), vfs_mount()).
NamesAreUnique ==
  \A i, j \in DOMAIN vfs.knowndevs :
    i # j => (Names(vfs.knowndevs[i]) \cap Names(vfs.knowndevs[j])) \ {NULL} = {}
=============================================================================
