-------------------------------- MODULE Vfs ---------------------------------
(***************************************************************************)
(* The name space of the VFS (fs/vfs.c) and the inode cache in front of    *)
(* the disk: path walks, open, create, mkdir, unlink, rmdir, chdir, mount  *)
(* and umount, with the reference counts of the inodes in memory.          *)
(*                                                                         *)
(* A walk holds no lock between its steps: the look into the cache, the    *)
(* read of the directory and the insert are three steps.  What changes a   *)
(* directory holds vfs_meta_lock.  obj is the heap of inodes; an inode     *)
(* whose count drops to 0 leaves it.  Every caller is root (uid 0), the    *)
(* only user the kernel creates, so vfs_permission() always grants.        *)
(***************************************************************************)
EXTENDS Integers, Sequences, FiniteSets

CONSTANTS Callers,     \* tasks inside the VFS
          Names,       \* components of paths
          Paths,       \* the paths that are asked for
          MaxObj,      \* bound: inodes in memory
          MaxIno,      \* bound: inodes on the disks
          MaxCalls,    \* bound: calls of the operations below
          Images,      \* initial contents of the disks: entries and directories
          Targets,     \* the paths at which the second disk may be mounted
          Quiet,       \* operations only called while no other one runs and no file is open
          Nobody

\* The directory entries of the disks form trees: a name occurs once in a
\* directory, an inode has one entry, and every entry lies in a directory that
\* is linked.
IsTree(ents, ds) ==
  \A e \in ents :
    /\ \A f \in ents : (e[1] = f[1] /\ e[2] = f[2]) \/ e[3] = f[3] => e = f
    /\ e[1] \in {1, 2} \/ \E f \in ents : f[3] = e[1]
    /\ e[1] \in ds

ASSUME VfsAssumption ==
  /\ MaxObj \in Nat \ {0} /\ MaxIno \in Nat /\ MaxIno >= 2 /\ MaxCalls \in Nat
  /\ IsFiniteSet(Callers) /\ Callers # {} /\ Nobody \notin Callers
  /\ \A im \in Images : /\ im.entries \subseteq Nat \X Names \X (Nat \ {1, 2})
                         /\ IsTree(im.entries, im.dirs \cup {1, 2})
  /\ <<>> \notin Names
  /\ Targets \subseteq {<<n>> : n \in Names} /\ Paths \subseteq Seq(Names)

\* 0 is the null pointer; disk inodes 1 and 2 are the roots of the two disks.
Objs == 1..MaxObj
Inos == 1..MaxIno

VARIABLES
  dirents,     \* on the disks: <<directory, name, inode>>
  dirs,        \* the inodes that are directories
  obj,         \* inodes in memory: ino, sb, refcount and cache_key
  icache,      \* the inodes in icache.table
  root,        \* the root inode of the super block of each disk, or 0
  mounted,     \* where the second disk is mounted, or {}
  meta,        \* who holds vfs_meta_lock
  call,        \* the operation a caller is in, and its locals
  fd, cwd,     \* the inode of the file a caller has open, or 0, and its cwd
  calls        \* calls made so far

vfsVars == <<dirents, dirs, obj, icache, root, mounted, meta, call, fd, cwd, calls>>

\* open() without O_CREAT, with it, and with O_EXCL too.
OpenOps == {"open", "create", "excl"}
ParentOps == {"mkdir", "unlink", "rmdir"}
VfsOps == OpenOps \cup ParentOps \cup {"chdir"}

\* Between two calls; "make" is vfs_create() below an open().
NoCall == [pc |-> "idle", op |-> "none", path |-> <<>>, rest |-> <<>>, cur |-> 0, nxt |-> 0]

\* struct inode: what the name space depends on.
Inode(i, s, n, p, nm) == [ino |-> i, sb |-> s, ref |-> n, parent |-> p, name |-> nm]

\* init_vfs(), vfs_mount(dev, "/", "ext2") and set_cwd("/") at boot.
VfsInit ==
  /\ \E im \in Images : dirents = im.entries /\ dirs = im.dirs \cup {1, 2}
  /\ obj = [o \in {1} |-> Inode(1, 1, 2 + Cardinality(Callers), 0, <<>>)]
  /\ icache = {1}
  /\ root = <<1, 0>>
  /\ mounted = {}
  /\ meta = Nobody
  /\ call = [t \in Callers |-> NoCall]
  /\ fd = [t \in Callers |-> 0]
  /\ cwd = [t \in Callers |-> 1]
  /\ calls = 0

-----------------------------------------------------------------------------
(* Reference counts and the cache                                           *)

inode_get(ob, o) == [ob EXCEPT ![o].ref = @ + 1]

\* inode_put() n[x] times on every x: an inode without references is destroyed.
PutAll(ob, n) ==
  [x \in {y \in DOMAIN ob : ob[y].ref > n[y]} |-> [ob[x] EXCEPT !.ref = @ - n[x]]]

inode_put(ob, o) == PutAll(ob, [x \in Objs |-> IF x = o THEN 1 ELSE 0])

\* inode_cache_find(): the cached inodes with this key, at most one.
inode_cache_find(p, n) == {o \in icache : obj[o].parent = p /\ obj[o].name = n}

\* Mutant: the cache takes no reference to the directory.
CacheRefsNoParent(ob, o, p) == inode_get(ob, o)

\* What inode_cache_insert() and its caller take for the inode o of directory p.
CacheRefs(ob, o, p) == inode_get(inode_get(ob, o), p)

\* Mutant: the reference to the directory is kept.
inode_cache_removeKeep(ob, S) == PutAll(ob, [x \in Objs |-> IF x \in S THEN 1 ELSE 0])

\* inode_cache_remove() of every inode of S.
inode_cache_remove(ob, S) ==
  PutAll(ob, [x \in Objs |-> (IF x \in S THEN 1 ELSE 0)
                               + Cardinality({o \in S : ob[o].parent = x})])

\* The heap ob with the new inode in at o.
With(ob, o, in) == [x \in DOMAIN ob \cup {o} |-> IF x = o THEN in ELSE ob[x]]

\* The inode a file system makes for disk inode i, found in directory p.
NewInode(o, i, p, n) == With(obj, o, Inode(i, obj[p].sb, 1, p, n))

FreshObj(o) == o \in Objs \ DOMAIN obj /\ \A x \in Objs \ DOMAIN obj : o <= x
FreshIno(i) == i \in Inos \ {1, 2} /\ \A e \in dirents : e[3] # i
IsDir(o) == obj[o].ino \in dirs
OnDisk(o, n) == {e \in dirents : e[1] = obj[o].ino /\ e[2] = n}

-----------------------------------------------------------------------------
(* Path walk: vfs_lookup(), vfs_lookup_parent()                             *)

BaseName(p) == p[Len(p)]
ParentPath(p) == SubSeq(p, 1, Len(p) - 1)

\* vfs_find_mount(): the second disk covers its target and what is below it.
vfs_find_mount(p) == IF p # <<>> /\ <<p[1]>> \in mounted THEN 2 ELSE 1

\* The walk of op starts at the root of the mount that covers its path.  Finding
\* it and inode_get() are one step: the code holds no lock between them, so that
\* this is right only as long as umount is in Quiet.
StartWalk(t, ob, op, path) ==
  LET full == IF op \in ParentOps \cup {"make"} THEN ParentPath(path) ELSE path
      m == vfs_find_mount(full)
  IN /\ obj' = inode_get(ob, root[m])
     /\ call' = [call EXCEPT ![t] =
                  [pc |-> "walk", op |-> op, path |-> path, cur |-> root[m], nxt |-> 0,
                   rest |-> IF m = 2 THEN Tail(full) ELSE full]]

\* The operations of Quiet exclude the other calls and find the files closed.
MayBegin(t, op) ==
  /\ call[t].pc = "idle"
  /\ op \in Quiet => \A u \in Callers : fd[u] = 0
  /\ \A u \in Callers \ {t} : call[u].pc # "idle" => op \notin Quiet /\ call[u].op \notin Quiet

\* The system calls: sys_open(), sys_mkdir(), sys_chdir(), and vfs_unlink(),
\* vfs_rmdir().  vfs_lookup_parent() refuses "/".
BeginCall(t, op, path) ==
  /\ MayBegin(t, op)
  /\ calls < MaxCalls /\ calls' = calls + 1
  /\ op \in ParentOps => path # <<>>
  /\ StartWalk(t, obj, op, path)
  /\ UNCHANGED <<dirents, dirs, icache, root, mounted, meta, fd, cwd>>

WalkHit(t, o) ==
  /\ call[t].pc = "walk" /\ call[t].rest # <<>>
  /\ o \in inode_cache_find(call[t].cur, Head(call[t].rest))
  /\ obj' = inode_put(inode_get(obj, o), call[t].cur)
  /\ call' = [call EXCEPT ![t].cur = o, ![t].rest = Tail(@)]
  /\ UNCHANGED <<dirents, dirs, icache, root, mounted, meta, fd, cwd, calls>>

WalkMiss(t) ==
  /\ call[t].pc = "walk" /\ call[t].rest # <<>>
  /\ inode_cache_find(call[t].cur, Head(call[t].rest)) = {}
  /\ call' = [call EXCEPT ![t].pc = "fill"]
  /\ UNCHANGED <<dirents, dirs, obj, icache, root, mounted, meta, fd, cwd, calls>>

\* iops->lookup() reads the directory and makes an inode.
WalkFill(t, o) ==
  /\ call[t].pc = "fill" /\ FreshObj(o)
  /\ \E e \in OnDisk(call[t].cur, Head(call[t].rest)) :
       obj' = NewInode(o, e[3], call[t].cur, e[2])
  /\ call' = [call EXCEPT ![t].pc = "insert", ![t].nxt = o]
  /\ UNCHANGED <<dirents, dirs, icache, root, mounted, meta, fd, cwd, calls>>

\* vfs_lookup() fails: open() with O_CREAT goes on with vfs_create().
LookupFails(t, ob) ==
  IF call[t].op \in {"create", "excl"} /\ call[t].path # <<>>
  THEN StartWalk(t, ob, "make", call[t].path)
  ELSE obj' = ob /\ call' = [call EXCEPT ![t] = NoCall]

\* The name is not in the directory, cur is not one, or there is no memory.
WalkNotFound(t) ==
  /\ call[t].pc = "fill"
  /\ OnDisk(call[t].cur, Head(call[t].rest)) = {} \/ DOMAIN obj = Objs
  /\ LookupFails(t, inode_put(obj, call[t].cur))
  /\ UNCHANGED <<dirents, dirs, icache, root, mounted, meta, fd, cwd, calls>>

\* inode_cache_insert(); the reference of the walk moves on.
WalkInsert(t) ==
  LET c == call[t] IN
  /\ c.pc = "insert" /\ inode_cache_find(c.cur, Head(c.rest)) = {}
  /\ icache' = icache \cup {c.nxt}
  /\ obj' = inode_put(CacheRefs(obj, c.nxt, c.cur), c.cur)
  /\ call' = [call EXCEPT ![t] = [c EXCEPT !.pc = "walk", !.cur = c.nxt, !.nxt = 0, !.rest = Tail(@)]]
  /\ UNCHANGED <<dirents, dirs, root, mounted, meta, fd, cwd, calls>>

\* Another walk has inserted the name since the miss: the lookup fails.
WalkInsertLost(t) ==
  LET c == call[t] IN
  /\ c.pc = "insert" /\ inode_cache_find(c.cur, Head(c.rest)) # {}
  /\ LookupFails(t, inode_put(inode_put(obj, c.nxt), c.cur))
  /\ UNCHANGED <<dirents, dirs, icache, root, mounted, meta, fd, cwd, calls>>

-----------------------------------------------------------------------------
(* The operations                                                           *)

Walked(t, ops) == call[t].pc = "walk" /\ call[t].rest = <<>> /\ call[t].op \in ops

\* The caller returns with an error, its references given back.
ReturnPut(t, o) ==
  /\ obj' = inode_put(obj, o)
  /\ call' = [call EXCEPT ![t] = NoCall]

\* fd_alloc(): the reference of the walk becomes the one of the file.
OpenFd(t, o) ==
  \/ /\ fd[t] = 0
     /\ fd' = [fd EXCEPT ![t] = o]
     /\ call' = [call EXCEPT ![t] = NoCall]
     /\ UNCHANGED obj
  \/ /\ fd[t] # 0
     /\ ReturnPut(t, o)
     /\ UNCHANGED fd

\* The rest of vfs_open() after vfs_lookup().
OpenFound(t) ==
  /\ \/ Walked(t, {"open", "create"}) /\ OpenFd(t, call[t].cur)
     \/ Walked(t, {"excl"}) /\ ReturnPut(t, call[t].cur) /\ UNCHANGED fd
  /\ UNCHANGED <<dirents, dirs, icache, root, mounted, meta, cwd, calls>>

set_cwd(t) ==
  /\ Walked(t, {"chdir"})
  /\ \/ /\ IsDir(call[t].cur)
        /\ cwd' = [cwd EXCEPT ![t] = call[t].cur]
        /\ ReturnPut(t, cwd[t])
     \/ /\ ~IsDir(call[t].cur)
        /\ ReturnPut(t, call[t].cur)
        /\ UNCHANGED cwd
  /\ UNCHANGED <<dirents, dirs, icache, root, mounted, meta, fd, calls>>

\* vfs_create(), vfs_mkdir(), vfs_unlink(), vfs_rmdir(): the parent is not a directory.
ParentNotDir(t) ==
  /\ Walked(t, ParentOps \cup {"make"}) /\ ~IsDir(call[t].cur)
  /\ ReturnPut(t, call[t].cur)
  /\ UNCHANGED <<dirents, dirs, icache, root, mounted, meta, fd, cwd, calls>>

\* acquire_sleep(&vfs_meta_lock) and the look into the cache: a name to make
\* must not be there; a name to remove must, and be of the right kind.
MetaLock(t) ==
  LET c == call[t]
      there == inode_cache_find(c.cur, BaseName(c.path))
      making == c.op \in {"make", "mkdir"}
  IN /\ Walked(t, ParentOps \cup {"make"}) /\ IsDir(c.cur) /\ meta = Nobody
     /\ \/ /\ making /\ there = {}
           /\ call' = [call EXCEPT ![t].pc = "fs"]
           /\ meta' = t /\ UNCHANGED obj
        \/ \E o \in there :
             /\ ~making /\ (IsDir(o) <=> c.op = "rmdir")
             /\ obj' = inode_get(obj, o)
             /\ call' = [call EXCEPT ![t].pc = "fs", ![t].nxt = o]
             /\ meta' = t
        \/ /\ IF making THEN there # {}
                        ELSE \A o \in there : (IsDir(o) # (c.op = "rmdir"))
           /\ ReturnPut(t, c.cur)
           /\ UNCHANGED meta
     /\ UNCHANGED <<dirents, dirs, icache, root, mounted, fd, cwd, calls>>

\* iops->create() and iops->mkdir(): a new entry and an inode of count 1.
FsMake(t, i, o) ==
  LET c == call[t] IN
  /\ c.pc = "fs" /\ c.op \in {"make", "mkdir"}
  /\ OnDisk(c.cur, BaseName(c.path)) = {}
  /\ FreshIno(i) /\ FreshObj(o)
  /\ dirents' = dirents \cup {<<obj[c.cur].ino, BaseName(c.path), i>>}
  /\ dirs' = IF c.op = "mkdir" THEN dirs \cup {i} ELSE dirs \ {i}
  /\ obj' = NewInode(o, i, c.cur, BaseName(c.path))
  /\ call' = [call EXCEPT ![t].pc = "link", ![t].nxt = o]
  /\ UNCHANGED <<icache, root, mounted, meta, fd, cwd, calls>>

\* They find the name on the disk, or no room; unlink() and rmdir() may fail too.
FsFails(t) ==
  LET c == call[t] IN
  /\ c.pc = "fs"
  /\ obj' = IF c.op \in {"make", "mkdir"} THEN inode_put(obj, c.cur)
            ELSE inode_put(inode_put(obj, c.nxt), c.cur)
  /\ call' = [call EXCEPT ![t] = NoCall]
  /\ meta' = Nobody
  /\ UNCHANGED <<dirents, dirs, icache, root, mounted, fd, cwd, calls>>

\* The new inode enters the cache.  vfs_mkdir() gives its reference back,
\* vfs_create() hands it to vfs_open().
Link(t) ==
  LET c == call[t] IN
  /\ c.pc = "link" /\ inode_cache_find(c.cur, BaseName(c.path)) = {}
  /\ icache' = icache \cup {c.nxt}
  /\ \/ /\ c.op = "make"
        /\ obj' = inode_put(CacheRefs(obj, c.nxt, c.cur), c.cur)
        /\ call' = [call EXCEPT ![t] = [c EXCEPT !.pc = "walk", !.op = "open", !.cur = c.nxt, !.nxt = 0]]
     \/ /\ c.op = "mkdir"
        /\ obj' = inode_put(inode_put(CacheRefs(obj, c.nxt, c.cur), c.cur), c.nxt)
        /\ call' = [call EXCEPT ![t] = NoCall]
  /\ meta' = Nobody
  /\ UNCHANGED <<dirents, dirs, root, mounted, fd, cwd, calls>>

\* A walk has read the new entry and cached it first: the call fails, the
\* entry stays.
LinkLost(t) ==
  LET c == call[t] IN
  /\ c.pc = "link" /\ inode_cache_find(c.cur, BaseName(c.path)) # {}
  /\ obj' = inode_put(inode_put(obj, c.nxt), c.cur)
  /\ call' = [call EXCEPT ![t] = NoCall]
  /\ meta' = Nobody
  /\ UNCHANGED <<dirents, dirs, icache, root, mounted, fd, cwd, calls>>

\* iops->unlink() and iops->rmdir(): the entry goes, a directory only if empty.
FsRemove(t) ==
  LET c == call[t] IN
  /\ c.pc = "fs" /\ c.op \in {"unlink", "rmdir"}
  /\ OnDisk(c.cur, BaseName(c.path)) # {}
  /\ \A e \in OnDisk(c.cur, BaseName(c.path)), f \in dirents : f[1] # e[3]
  /\ dirents' = dirents \ OnDisk(c.cur, BaseName(c.path))
  /\ call' = [call EXCEPT ![t].pc = "drop"]
  /\ UNCHANGED <<dirs, obj, icache, root, mounted, meta, fd, cwd, calls>>

\* Mutant: the removed name stays in the cache.
DropKeep(t) ==
  LET c == call[t] IN
  /\ c.pc = "drop"
  /\ obj' = inode_put(inode_put(obj, c.nxt), c.cur)
  /\ call' = [call EXCEPT ![t] = NoCall]
  /\ meta' = Nobody
  /\ UNCHANGED <<dirents, dirs, icache, root, mounted, fd, cwd, calls>>

\* inode_cache_remove() and the end of vfs_unlink() and vfs_rmdir().
Drop(t) ==
  LET c == call[t] IN
  /\ c.pc = "drop"
  /\ icache' = icache \ {c.nxt}
  /\ obj' = inode_put(inode_put(inode_cache_remove(obj, {c.nxt} \cap icache), c.nxt), c.cur)
  /\ call' = [call EXCEPT ![t] = NoCall]
  /\ meta' = Nobody
  /\ UNCHANGED <<dirents, dirs, root, mounted, fd, cwd, calls>>

\* fd_close(), file_put()
CloseFd(t) ==
  /\ call[t].pc = "idle" /\ fd[t] # 0
  /\ fd' = [fd EXCEPT ![t] = 0]
  /\ obj' = inode_put(obj, fd[t])
  /\ UNCHANGED <<dirents, dirs, icache, root, mounted, meta, call, cwd, calls>>

\* vfs_mount() of the second disk: its root is cached under the root of the
\* mount that covers the target, with the name "/".
vfs_mount(p, o) ==
  /\ mounted = {} /\ FreshObj(o)
  /\ \A t \in Callers : call[t].pc = "idle"
  /\ icache' = icache \cup {o}
  /\ obj' = With(inode_get(obj, 1), o, Inode(2, 2, 2, 1, <<>>))
  /\ root' = [root EXCEPT ![2] = o]
  /\ mounted' = {p}
  /\ UNCHANGED <<dirents, dirs, meta, call, fd, cwd, calls>>

\* A descriptor or a working directory is on the second disk.
Busy == \E t \in Callers : (fd[t] # 0 /\ obj[fd[t]].sb = 2) \/ obj[cwd[t]].sb = 2

vfs_umount ==
  LET victims == {o \in icache : obj[o].sb = 2} IN
  /\ mounted # {} /\ ~Busy
  /\ "umount" \in Quiet => \A t \in Callers : call[t].pc = "idle"
  /\ icache' = icache \ victims
  /\ obj' = inode_put(inode_cache_remove(obj, victims), root[2])
  /\ root' = [root EXCEPT ![2] = 0]
  /\ mounted' = {}
  /\ UNCHANGED <<dirents, dirs, meta, call, fd, cwd, calls>>

\* All the calls of the bound are made and have returned.
CallsDone ==
  /\ calls = MaxCalls /\ \A t \in Callers : call[t].pc = "idle"
  /\ UNCHANGED vfsVars

VfsStep(t) ==
  \/ \E op \in VfsOps, p \in Paths : BeginCall(t, op, p)
  \/ \E o \in icache : WalkHit(t, o)
  \/ WalkMiss(t)
  \/ \E o \in Objs : WalkFill(t, o)
  \/ WalkNotFound(t) \/ WalkInsert(t) \/ WalkInsertLost(t)
  \/ OpenFound(t) \/ set_cwd(t) \/ ParentNotDir(t) \/ MetaLock(t)
  \/ \E i \in Inos, o \in Objs : FsMake(t, i, o)
  \/ FsFails(t) \/ Link(t) \/ LinkLost(t)
  \/ FsRemove(t) \/ Drop(t) \/ CloseFd(t)

VfsNext ==
  \/ \E t \in Callers : VfsStep(t)
  \/ \E p \in Targets, o \in Objs : vfs_mount(p, o)
  \/ vfs_umount
  \/ CallsDone

VfsSpec == VfsInit /\ [][VfsNext]_vfsVars

-----------------------------------------------------------------------------
(* Properties                                                               *)

\* How many pointers the kernel holds to an inode: the cache, the super block,
\* cached children, files, working directories and calls in progress.
Holders(o) ==
  (IF o \in icache THEN 1 ELSE 0)
  + Cardinality({m \in 1..2 : root[m] = o})
  + Cardinality({x \in icache : obj[x].parent = o})
  + Cardinality({t \in Callers : fd[t] = o}) + Cardinality({t \in Callers : cwd[t] = o})
  + Cardinality({t \in Callers : call[t].cur = o}) + Cardinality({t \in Callers : call[t].nxt = o})

\* The equation of the comments in vfs.c and vfs.h: the count of an inode is
\* the number of its holders, on every path through the code, races and
\* errors included.
RefExact == \A o \in DOMAIN obj : obj[o].ref = Holders(o) /\ obj[o].ref > 0

\* No pointer leads to a destroyed inode: not from the cache, a cached child,
\* a descriptor, a working directory or a walk between two steps.
NoDangling ==
  /\ icache \subseteq DOMAIN obj
  /\ \A o \in icache : obj[o].parent \in DOMAIN obj \cup {0}
  /\ \A t \in Callers : {fd[t], cwd[t], call[t].cur, call[t].nxt} \subseteq DOMAIN obj \cup {0}

Dropping(o) == \E t \in Callers : call[t].pc = "drop" /\ call[t].nxt = o

\* The cache agrees with the disk: an entry below a root is a directory entry
\* with that inode, but for the one its remover is about to drop.
CacheTrue ==
  \A o \in icache :
    obj[o].name # <<>> /\ ~Dropping(o)
      => <<obj[obj[o].parent].ino, obj[o].name, obj[o].ino>> \in dirents

\* Two tasks that have the same disk file open share one inode in memory: its
\* size and its block map exist once.
SharedInode ==
  \A t, u \in Callers : fd[t] # 0 /\ fd[u] # 0 /\ obj[fd[t]].ino = obj[fd[u]].ino => fd[t] = fd[u]

\* The disks stay trees, whatever is made and removed.
DiskTree == IsTree(dirents, dirs)

\* Nobody stands on a disk that is not mounted.
MountedInUse ==
  \A t \in Callers, o \in DOMAIN obj :
    o \in {fd[t], cwd[t], call[t].cur, call[t].nxt} => root[obj[o].sb] # 0

\* Inodes in memory live as long as somebody points to them: inode_get() and
\* inode_put() are balanced on every path through the VFS.
InodesSound == RefExact /\ NoDangling /\ MountedInUse

\* The cached name space is the one on the disks, and that one is a tree.
NamesSound == CacheTrue /\ SharedInode /\ DiskTree
=============================================================================
