-------------------------------- MODULE Ext2 --------------------------------
(***************************************************************************)
(* ext2 on the disk (fs/ext2.c): the two bitmaps and their counters, the   *)
(* inode table, the block maps with their indirect blocks, the directory   *)
(* blocks; and the copy of an inode that is kept in memory (inode->private)*)
(* and written back by ext2_priv_save().                                   *)
(*                                                                         *)
(* vfs_meta_lock makes the operations that change names exclude each other *)
(* and truncation; a write holds the lock of its own open file only.  Here *)
(* a write that is between the test of a bit of the block bitmap and its   *)
(* setting meets whole operations of other tasks, and astray says when one *)
(* of them has taken the block.  That a write overlaps with another        *)
(* operation in no other place is an open assumption: the code does not    *)
(* ensure it.  The block cache is transparent (Ext2Cache); the disk does   *)
(* not fail, and memory runs out only for an inode in memory.              *)
(* Space in a directory is counted in units of 4 bytes, sizes in blocks.   *)
(***************************************************************************)
EXTENDS Integers, FiniteSets

CONSTANTS NDirect,        \* direct pointers of an inode (12)
          Ptrs,           \* ptrs_per_block
          NBlocks,        \* data blocks 1..NBlocks of the block bitmap
          NInodes,        \* inodes 1..NInodes; 1 is the root directory
          ENames,         \* names of files
          NameSpace,      \* the units of 4 bytes a name takes
          BlockSpace,     \* units of a block
          Values,         \* what is written; 0 is the zero block
          MaxLblk,        \* bound: logical blocks that are written
          MaxEOps         \* bound: operations

ASSUME Ext2Assumption ==
  /\ NDirect \in Nat \ {0} /\ Ptrs \in Nat \ {0} /\ NBlocks \in Nat \ {0} /\ NInodes \in Nat \ {0}
  /\ NameSpace \in [ENames -> Nat \ {0}] /\ BlockSpace \in Nat /\ BlockSpace >= 6
  /\ \A n \in ENames : 2 + NameSpace[n] <= BlockSpace
  /\ {".", ".."} \cap ENames = {} /\ 0 \notin Values /\ MaxLblk \in Nat /\ MaxEOps \in Nat

EBlks == 1..NBlocks
EInos == 1..NInodes
RootIno == 1
Ind == NDirect
Dind == NDirect + 1

VARIABLES
  edisk,     \* used (block bitmap), free (its counter), and what a block holds, as it
             \* is read: ptr (pointers), dat (data) and dir (entries, by their offset)
  iused,     \* inode bitmap
  itable,    \* inode table
  priv,      \* the inodes in memory, or NoInode
  found,     \* the write that has found a clear bit and not set it yet, or NoBit
  efull,     \* history: an allocation of a block has failed
  astray,    \* history: a block was taken twice, or an entry left without its inode
  content,   \* history: what was written to each file
  eops       \* operations so far

eVars == <<edisk, iused, itable, priv, found, efull, astray, content, eops>>

ZeroMap == [i \in 0..Dind |-> 0]
NoInode == [kind |-> "none", size |-> 0, links |-> 0, map |-> ZeroMap]
NoPtrs == [j \in 1..Ptrs |-> 0]
NoEntries == [o \in {} |-> 0]
NoContent == [l \in 0..MaxLblk |-> 0]
NoBit == [ino |-> 0, l |-> 0, b |-> 0]

\* A directory entry: ino = 0 is a free slot, len the units of the name.
Dirent(i, rec, n, len) == [ino |-> i, rec |-> rec, name |-> n, len |-> len]
DotEntries(self, parent) ==
  [o \in {0, 3} |-> IF o = 0 THEN Dirent(self, 3, ".", 1) ELSE Dirent(parent, BlockSpace - 3, "..", 1)]

\* A fresh file system: mkfs, then ext2_get_super(), which loads the root.
EInit ==
  /\ edisk = [used |-> {1}, free |-> NBlocks - 1,
              ptr |-> [b \in EBlks |-> NoPtrs], dat |-> [b \in EBlks |-> 0],
              dir |-> [b \in EBlks |-> IF b = 1 THEN DotEntries(1, 1) ELSE NoEntries]]
  /\ iused = {RootIno}
  /\ itable = [i \in EInos |-> IF i = RootIno
                 THEN [kind |-> "dir", size |-> 1, links |-> 2, map |-> [ZeroMap EXCEPT ![0] = 1]]
                 ELSE NoInode]
  /\ priv = [i \in EInos |-> IF i = RootIno THEN itable[i] ELSE NoInode]
  /\ found = NoBit
  /\ efull = FALSE
  /\ astray = FALSE
  /\ content = [i \in EInos |-> NoContent]
  /\ eops = 0

-----------------------------------------------------------------------------
(* Blocks                                                                   *)

\* The one that a search from below finds.
First(S) == CHOOSE x \in S : \A y \in S : x <= y

ext2_bitmap_test(D, b) == b \in D.used
ext2_bitmap_set(D, b) == [D EXCEPT !.used = @ \cup {b}]
ext2_bitmap_clear(D, B) == [D EXCEPT !.used = @ \ B]

\* the free counts of the group descriptor and the super block
save_counts(D, n) == [D EXCEPT !.free = @ + n]

\* ext2_free_block() for n pointers to the blocks of a set: the bit is cleared
\* and the counter raised, whatever the bit was.
FreeBlocks(D, B, n) == save_counts(ext2_bitmap_clear(D, B), n)

\* Mutant: the new block is not cleared.
ext2_alloc_zero_blockDirty(D) ==
  LET clear == EBlks \ D.used IN
  IF clear = {} THEN [ok |-> FALSE, D |-> D, b |-> 0]
  ELSE [ok |-> TRUE, b |-> First(clear), D |-> [D EXCEPT !.used = @ \cup {First(clear)}, !.free = @ - 1]]

\* ext2_alloc_block(): the first clear bit of the bitmap is set, whatever it is by then.
ClearBits(D) == {b \in EBlks : ~ext2_bitmap_test(D, b)}
TakeBlock(D, b) == [ok |-> TRUE, b |-> b, D |-> save_counts(ext2_bitmap_set(D, b), 0 - 1)]
ext2_alloc_block(D) ==
  IF ClearBits(D) = {} THEN [ok |-> FALSE, D |-> D, b |-> 0] ELSE TakeBlock(D, First(ClearBits(D)))

\* and the block is zeroed.
Zeroed(a) == [a EXCEPT !.D = [@ EXCEPT !.ptr[a.b] = NoPtrs, !.dat[a.b] = 0, !.dir[a.b] = NoEntries]]
ext2_alloc_zero_block(D) ==
  LET a == ext2_alloc_block(D) IN IF a.ok THEN Zeroed(a) ELSE a

\* Pointer i of the inode; a hole is filled.
FillTop(m, i, a) == [ok |-> a.ok, D |-> a.D, m |-> [m EXCEPT ![i] = a.b], b |-> a.b]
TopPtr(D, m, i) ==
  IF m[i] # 0 THEN [ok |-> TRUE, D |-> D, m |-> m, b |-> m[i]] ELSE FillTop(m, i, ext2_alloc_zero_block(D))

\* Pointer j of the indirect block that r has found; a hole is filled.
SubPtr(r, j) ==
  LET p == r.D.ptr[r.b][j]
      a == ext2_alloc_zero_block(r.D)
  IN IF ~r.ok \/ r.b = 0 THEN r
     ELSE IF p # 0 THEN [r EXCEPT !.b = p]
     ELSE IF ~a.ok THEN [r EXCEPT !.ok = FALSE, !.b = 0]
     ELSE [r EXCEPT !.D = [a.D EXCEPT !.ptr[r.b][j] = a.b], !.b = a.b]

\* ext2_get_block() with alloc = 1: logical block l is direct, single or double
\* indirect, and what is missing on the way is allocated.
ext2_get_block(D, m, l) ==
  LET k == l - NDirect - Ptrs IN
  CASE l < NDirect -> TopPtr(D, m, l)
    [] l >= NDirect /\ k < 0 -> SubPtr(TopPtr(D, m, Ind), l - NDirect + 1)
    [] k >= 0 /\ k < Ptrs * Ptrs ->
         SubPtr(SubPtr(TopPtr(D, m, Dind), (k \div Ptrs) + 1), (k % Ptrs) + 1)
    [] OTHER -> [ok |-> FALSE, D |-> D, m |-> m, b |-> 0]

ext2_ind_get(D, b, j) == IF b = 0 \/ j = 0 THEN b ELSE D.ptr[b][j]

\* ext2_get_block() with alloc = 0: the block, or 0 for a hole.
Phys(D, m, l) ==
  LET k == l - NDirect - Ptrs IN
  CASE l < NDirect -> m[l]
    [] l >= NDirect /\ k < 0 -> ext2_ind_get(D, m[Ind], l - NDirect + 1)
    [] k >= 0 /\ k < Ptrs * Ptrs ->
         ext2_ind_get(D, ext2_ind_get(D, m[Dind], (k \div Ptrs) + 1), (k % Ptrs) + 1)
    [] OTHER -> 0

\* The places of a block map that may point to a block: a pointer of the inode
\* <<x, 0, 0>>, pointer j of the block there, and pointer k of the block there.
MapPlaces == {<<x, 0, 0>> : x \in 0..Dind} \cup {<<x, j, 0>> : x \in {Ind, Dind}, j \in 1..Ptrs}
             \cup {<<Dind, j, k>> : j \in 1..Ptrs, k \in 1..Ptrs}
BlockAt(D, m, p) == ext2_ind_get(D, ext2_ind_get(D, m[p[1]], p[2]), p[3])

\* Mutant: the single indirect block itself is forgotten.
PlacesUsedKeepInd(D, m) == {p \in MapPlaces : BlockAt(D, m, p) # 0 /\ p # <<Ind, 0, 0>>}

\* The places ext2_free_all_blocks() finds in use: it reads an indirect block
\* before it is freed.
PlacesUsed(D, m) == {p \in MapPlaces : BlockAt(D, m, p) # 0}

ext2_free_all_blocks(D, m) ==
  FreeBlocks(D, {BlockAt(D, m, p) : p \in PlacesUsed(D, m)}, Cardinality(PlacesUsed(D, m)))

-----------------------------------------------------------------------------
(* Directories: a walk goes from offset 0 by the record lengths.            *)

DirAt(D, p, l) == D.dir[Phys(D, p.map, l)]

\* Where the walks of a directory meet an entry: <<logical block, offset>>.  The
\* keys of a block are what a walk meets as long as the block is Tiled.
Positions(D, p) ==
  {x \in (0..p.size - 1) \X (0..BlockSpace - 1) :
     Phys(D, p.map, x[1]) # 0 /\ x[2] \in DOMAIN DirAt(D, p, x[1])}
EntryAt(D, p, x) == DirAt(D, p, x[1])[x[2]]

\* The entries in use, as ext2_dir_scan() returns them, and the ones under a name.
Entries(D, p) == {x \in Positions(D, p) : EntryAt(D, p, x).ino # 0}
Under(D, p, n) == {x \in Entries(D, p) : EntryAt(D, p, x).name = n}

\* ext2_dir_find(): the inode numbers under a name.
ext2_dir_find(D, p, n) == {EntryAt(D, p, x).ino : x \in Under(D, p, n)}

Dots == {".", ".."}
ext2_dir_empty(D, p) == \A x \in Entries(D, p) : EntryAt(D, p, x).name \in Dots

Need(n) == 2 + NameSpace[n]
RealLen(e) == 2 + e.len

\* The free slots of a block that can take the name, and the last entry of a block.
Slots(s, n) == {o \in DOMAIN s : s[o].ino = 0 /\ s[o].rec >= Need(n)}
LastOff(s) == CHOOSE o \in DOMAIN s : \A x \in DOMAIN s : x <= o
TailFits(s, n) == DOMAIN s # {} /\ s[LastOff(s)].rec - RealLen(s[LastOff(s)]) >= Need(n)

\* A free slot is used whole, or split when an entry fits behind.
SplitSlot(s, o, n, i) ==
  LET rest == s[o].rec - Need(n) IN
  IF rest < 2 THEN [s EXCEPT ![o] = Dirent(i, s[o].rec, n, NameSpace[n])]
  ELSE [x \in DOMAIN s \cup {o + Need(n)} |->
          CASE x = o -> Dirent(i, Need(n), n, NameSpace[n])
            [] x = o + Need(n) -> Dirent(0, rest, "", 0)
            [] OTHER -> s[x]]

\* The last entry gives its slack to the new one.
SplitTail(s, o, n, i) ==
  LET real == RealLen(s[o]) IN
  [x \in DOMAIN s \cup {o + real} |->
     CASE x = o -> [s[o] EXCEPT !.rec = real]
       [] x = o + real -> Dirent(i, s[o].rec - real, n, NameSpace[n])
       [] OTHER -> s[x]]

AddToBlock(s, n, i) ==
  IF Slots(s, n) # {} THEN SplitSlot(s, First(Slots(s, n)), n, i) ELSE SplitTail(s, LastOff(s), n, i)

\* The blocks of the directory with room for the name.
Roomy(D, p, n) ==
  {l \in 0..p.size - 1 : /\ Phys(D, p.map, l) # 0
                         /\ Slots(DirAt(D, p, l), n) # {} \/ TailFits(DirAt(D, p, l), n)}

\* The directory grows by the block g has found, if it has found one.
GrowDir(p, n, i, g) ==
  IF ~g.ok THEN [ok |-> FALSE, p |-> [p EXCEPT !.map = g.m], D |-> g.D]
  ELSE [ok |-> TRUE, p |-> [p EXCEPT !.map = g.m, !.size = @ + 1],
        D |-> [g.D EXCEPT !.dir[g.b] = [o \in {0} |-> Dirent(i, BlockSpace, n, NameSpace[n])]]]

\* The first block with room takes the entry, or the directory grows by one.
ext2_dir_add(D, p, n, i) ==
  LET l == First(Roomy(D, p, n))
  IN IF Roomy(D, p, n) # {}
     THEN [ok |-> TRUE, p |-> p, D |-> [D EXCEPT !.dir[Phys(D, p.map, l)] = AddToBlock(@, n, i)]]
     ELSE GrowDir(p, n, i, ext2_get_block(D, p.map, p.size))

\* An entry is merged into the one before; the first of a block becomes free.
RemoveEntry(s, o) ==
  IF o = 0 THEN [s EXCEPT ![0].ino = 0]
  ELSE [x \in DOMAIN s \ {o} |->
          IF x + s[x].rec = o THEN [s[x] EXCEPT !.rec = @ + s[o].rec] ELSE s[x]]

ext2_dir_remove(D, p, n) ==
  LET x == CHOOSE y \in Under(D, p, n) : TRUE IN
  [D EXCEPT !.dir[Phys(D, p.map, x[1])] = RemoveEntry(@, x[2])]

-----------------------------------------------------------------------------
(* Operations                                                               *)

\* A whole operation, with or without a write on its way.
Starts == eops < MaxEOps /\ eops' = eops + 1
Begins == Starts /\ UNCHANGED <<found, astray>>
InMemory(i, k) == priv[i].kind = k

\* the inode table on the disk: ext2_inode_read() and, through ext2_priv_save(), ext2_inode_write()
ext2_inode_read(i) == itable[i]
ext2_inode_write(t, i, p) == [t EXCEPT ![i] = p]

\* ext2_alloc_inode(): the first clear bit of the inode bitmap
FreshInode(i) == i \notin iused /\ \A j \in EInos \ iused : i <= j

\* ext2_lookup() of an inode that is not in memory.
ext2_lookup(d, i) ==
  /\ Begins /\ InMemory(d, "dir") /\ priv[i].kind = "none"
  /\ \E n \in ENames : i \in ext2_dir_find(edisk, priv[d], n)
  /\ priv' = [priv EXCEPT ![i] = ext2_inode_read(i)]
  /\ UNCHANGED <<edisk, iused, itable, efull, content>>

\* The name is new in the directory, and i is the inode ext2_alloc_inode() finds.
MayBegin(d, n, i) ==
  Starts /\ InMemory(d, "dir") /\ FreshInode(i) /\ ext2_dir_find(edisk, priv[d], n) = {}
MayAdd(d, n, i) == MayBegin(d, n, i) /\ UNCHANGED <<found, astray>>

\* What becomes of the directory and the disk: the result of ext2_dir_add(), and
\* of the ext2_get_block() for the first block of a new directory.
DirAdded(d, n, i) == {ext2_dir_add(edisk, priv[d], n, i)}
FirstBlock(D) == {ext2_get_block(D, ZeroMap, 0)}

\* ext2_create(): an inode, an entry, and the directory is saved.
ext2_create(d, n, i) ==
  LET file == [NoInode EXCEPT !.kind = "file", !.links = 1]
  IN /\ MayAdd(d, n, i)
     /\ \E a \in DirAdded(d, n, i) :
          /\ a.ok /\ edisk' = a.D
          /\ itable' = ext2_inode_write(ext2_inode_write(itable, i, file), d, a.p)
          /\ priv' = [priv EXCEPT ![d] = a.p, ![i] = file]
     /\ iused' = iused \cup {i}
     /\ content' = [content EXCEPT ![i] = NoContent]
     /\ UNCHANGED efull

\* create and mkdir when the directory cannot grow: the inode is given back.
AddFails(d, n, i) ==
  /\ MayAdd(d, n, i)
  /\ \E a \in DirAdded(d, n, i) :
       ~a.ok /\ edisk' = a.D /\ priv' = [priv EXCEPT ![d] = a.p]
  /\ efull' = TRUE
  /\ UNCHANGED <<iused, itable, content>>

\* ext2_create() without memory for the inode: the inode is given back, but the
\* entry stays, and names an inode that is free.
CreateNoInode(d, n, i) ==
  /\ MayBegin(d, n, i)
  /\ \E a \in DirAdded(d, n, i) :
       /\ a.ok /\ edisk' = a.D
       /\ itable' = ext2_inode_write([itable EXCEPT ![i] = [NoInode EXCEPT !.kind = "file", !.links = 1]], d, a.p)
       /\ priv' = [priv EXCEPT ![d] = a.p]
  /\ astray' = TRUE
  /\ UNCHANGED <<iused, found, efull, content>>

\* ext2_mkdir() likewise; the parent is not saved.
MkdirNoInode(d, n, i) ==
  /\ MayBegin(d, n, i)
  /\ \E a \in DirAdded(d, n, i) : a.ok /\ edisk' = a.D /\ priv' = [priv EXCEPT ![d] = a.p]
  /\ itable' = [itable EXCEPT ![i] = [NoInode EXCEPT !.kind = "dir", !.size = 1, !.links = 2]]
  /\ astray' = TRUE
  /\ UNCHANGED <<iused, found, efull, content>>

\* ext2_mkdir(): as create, with a first block for "." and ".."; the parent
\* has one more link.
ext2_mkdir(d, n, i) ==
  /\ MayAdd(d, n, i)
  /\ \E a \in DirAdded(d, n, i) : \E g \in FirstBlock(a.D) :
       LET p == [a.p EXCEPT !.links = @ + 1]
           new == [kind |-> "dir", size |-> 1, links |-> 2, map |-> g.m]
       IN /\ a.ok /\ g.ok
          /\ edisk' = [g.D EXCEPT !.dir[g.b] = DotEntries(i, d)]
          /\ itable' = ext2_inode_write(ext2_inode_write(itable, i, new), d, p)
          /\ priv' = [priv EXCEPT ![d] = p, ![i] = new]
  /\ iused' = iused \cup {i}
  /\ content' = [content EXCEPT ![i] = NoContent]
  /\ UNCHANGED efull

\* Mutant: the entry is not rolled back.
RolledBackNot(D, p, n) == D

\* mkdir without a block: the new entry is removed again
RolledBack(D, p, n) == ext2_dir_remove(D, p, n)

\* No block for the new directory: entry and inode are rolled back; the parent
\* is not saved, and a block it has grown by stays with its copy in memory.
MkdirNoBlock(d, n, i) ==
  /\ MayAdd(d, n, i)
  /\ \E a \in DirAdded(d, n, i) : \E g \in FirstBlock(a.D) :
       /\ a.ok /\ ~g.ok
       /\ edisk' = RolledBack(g.D, a.p, n)
       /\ priv' = [priv EXCEPT ![d] = a.p]
  /\ itable' = [itable EXCEPT ![i] = [NoInode EXCEPT !.kind = "dir", !.size = 1, !.links = 2]]
  /\ efull' = TRUE
  /\ UNCHANGED <<iused, content>>

\* ext2_unlink() of a file that nobody is writing: the blocks of the inode on
\* the disk are freed, and the inode; the VFS drops the copy in memory.
ext2_unlink(d, n, i) ==
  LET D == ext2_dir_remove(edisk, priv[d], n) IN
  /\ Begins /\ InMemory(d, "dir") /\ n \in ENames
  /\ itable[i].kind = "file" /\ found.ino # i /\ i \in ext2_dir_find(edisk, priv[d], n)
  /\ edisk' = ext2_free_all_blocks(D, itable[i].map)
  /\ iused' = iused \ {i}
  /\ itable' = ext2_inode_write([itable EXCEPT ![i].links = 0], d, priv[d])
  /\ priv' = [priv EXCEPT ![i] = NoInode]
  /\ UNCHANGED <<efull, content>>

\* ext2_rmdir(): the directory has no subdirectory and no entry.
ext2_rmdir(d, n, i) ==
  LET D == ext2_dir_remove(edisk, priv[d], n)
      p == [priv[d] EXCEPT !.links = @ - 1]
  IN /\ Begins /\ InMemory(d, "dir") /\ n \in ENames
     /\ itable[i].kind = "dir" /\ itable[i].links <= 2 /\ i \in ext2_dir_find(edisk, priv[d], n)
     /\ ext2_dir_empty(edisk, itable[i])
     /\ edisk' = ext2_free_all_blocks(D, itable[i].map)
     /\ iused' = iused \ {i}
     /\ itable' = ext2_inode_write([itable EXCEPT ![i].links = 0], d, p)
     /\ priv' = [priv EXCEPT ![i] = NoInode, ![d] = p]
     /\ UNCHANGED <<efull, content>>

\* ext2_read_data() of one block: nothing behind the end, zeros in a hole.
ext2_read_data(D, p, l) ==
  LET b == Phys(D, p.map, l) IN IF l < p.size /\ b # 0 THEN D.dat[b] ELSE 0

\* The block that g has found is written, and the inode saved.
Puts(i, l, v, g) ==
  /\ edisk' = [g.D EXCEPT !.dat[g.b] = v]
  /\ priv' = [priv EXCEPT ![i].map = g.m, ![i].size = IF l >= @ THEN l + 1 ELSE @]
  /\ itable' = ext2_inode_write(itable, i, priv'[i])
  /\ content' = [content EXCEPT ![i][l] = v]
  /\ UNCHANGED <<iused, efull>>

\* ext2_write_data() of one block; behind the end it leaves a hole.
ext2_write_data(i, l, v) ==
  /\ Begins /\ InMemory(i, "file")
  /\ \E g \in {ext2_get_block(edisk, priv[i].map, l)} : g.ok /\ Puts(i, l, v, g)

\* The same in two steps, for a direct block that is missing: the bit that is
\* found clear is set after operations of other tasks.  Nothing looks again
\* whether it is clear, or whether the block is still missing.
WriteTests(i, l) ==
  /\ Starts /\ found = NoBit /\ InMemory(i, "file")
  /\ l < NDirect /\ priv[i].map[l] = 0 /\ ClearBits(edisk) # {}
  /\ found' = [ino |-> i, l |-> l, b |-> First(ClearBits(edisk))]
  /\ UNCHANGED <<edisk, iused, itable, priv, efull, astray, content>>

WriteSets(v) ==
  /\ InMemory(found.ino, "file")
  /\ Puts(found.ino, found.l, v, FillTop(priv[found.ino].map, found.l, Zeroed(TakeBlock(edisk, found.b))))
  /\ astray' = (astray \/ ext2_bitmap_test(edisk, found.b) \/ priv[found.ino].map[found.l] # 0)
  /\ found' = NoBit
  /\ UNCHANGED eops

\* The disk is full: what was allocated on the way stays in the copy in memory.
WriteFails(i, l) ==
  /\ Begins /\ InMemory(i, "file")
  /\ \E g \in {ext2_get_block(edisk, priv[i].map, l)} :
       ~g.ok /\ edisk' = g.D /\ priv' = [priv EXCEPT ![i].map = g.m]
  /\ efull' = TRUE
  /\ UNCHANGED <<iused, itable, content>>

\* ext2_truncate(inode, 0), as O_TRUNC calls it: the blocks up to the size are
\* freed one by one, then all that is still mapped.
ext2_truncate(i) ==
  LET p == priv[i]
      first == {l \in 0..p.size - 1 : Phys(edisk, p.map, l) # 0}
      D == FreeBlocks(edisk, {Phys(edisk, p.map, l) : l \in first}, Cardinality(first))
      cleared == [x \in 0..Dind |-> IF x < NDirect /\ x < p.size THEN 0 ELSE p.map[x]]
  IN /\ Begins /\ InMemory(i, "file") /\ p.size > 0
     /\ edisk' = ext2_free_all_blocks(D, cleared)
     /\ priv' = [priv EXCEPT ![i] = [p EXCEPT !.size = 0, !.map = ZeroMap]]
     /\ itable' = ext2_inode_write(itable, i, priv'[i])
     /\ content' = [content EXCEPT ![i] = NoContent]
     /\ UNCHANGED <<iused, efull>>

\* ext2_kill_sb() and ext2_get_super(): what was not saved is forgotten.
\* vfs_umount() refuses while a file is open.
Remount ==
  /\ Begins /\ found = NoBit
  /\ priv' = [i \in EInos |-> IF i = RootIno THEN ext2_inode_read(i) ELSE NoInode]
  /\ UNCHANGED <<edisk, iused, itable, efull, content>>

EOpsDone == eops = MaxEOps /\ found = NoBit /\ UNCHANGED eVars

Ext2Next ==
  \/ \E d \in EInos, i \in EInos : ext2_lookup(d, i)
  \/ \E d \in EInos, n \in ENames, i \in EInos :
       \/ ext2_create(d, n, i) \/ AddFails(d, n, i) \/ CreateNoInode(d, n, i)
       \/ ext2_mkdir(d, n, i) \/ MkdirNoBlock(d, n, i) \/ MkdirNoInode(d, n, i)
       \/ ext2_unlink(d, n, i) \/ ext2_rmdir(d, n, i)
  \/ \E i \in EInos, l \in 0..MaxLblk :
       WriteFails(i, l) \/ WriteTests(i, l) \/ \E v \in Values : ext2_write_data(i, l, v)
  \/ found # NoBit /\ \E v \in Values : WriteSets(v)
  \/ \E i \in EInos : ext2_truncate(i)
  \/ Remount \/ EOpsDone

Ext2Spec == EInit /\ [][Ext2Next]_eVars

-----------------------------------------------------------------------------
(* Properties                                                               *)

\* The inode that counts: the copy in memory when there is one.
Current(i) == IF priv[i].kind # "none" THEN priv[i] ELSE itable[i]

\* What points to a block: an inode in use and a place of its map.
Pointing == {x \in iused \X MapPlaces : BlockAt(edisk, Current(x[1]).map, x[2]) # 0}
PointsTo(x) == BlockAt(edisk, Current(x[1]).map, x[2])

\* No block belongs to two places, of one file or of two, and every block in
\* use is marked in the bitmap, so that it is not given out again.
NoCrossLink ==
  /\ \A x, y \in Pointing : PointsTo(x) = PointsTo(y) => x = y
  /\ \A x \in Pointing : PointsTo(x) \in edisk.used

\* As long as no allocation has failed, no marked block is lost.
NoLeak == ~efull => \A b \in edisk.used : \E x \in Pointing : PointsTo(x) = b

\* A file reads as it was written: through direct, indirect and double
\* indirect blocks, holes, reused blocks, truncation, a new mount, and writes
\* that overlap with other operations; until one of them has taken the block
\* of another (astray).
FilesIntact ==
  \A i \in iused :
    Current(i).kind = "file" =>
      \A l \in 0..MaxLblk : content[i][l] = ext2_read_data(edisk, Current(i), l)

DataIntact == ~astray => FilesIntact

Directories == {i \in iused : Current(i).kind = "dir"}

\* A walk by the record lengths meets every entry of the block and ends at its
\* end, and every name fits its record.
Tiled(s) ==
  /\ 0 \in DOMAIN s /\ DOMAIN s \subseteq 0..BlockSpace - 1
  /\ \A o \in DOMAIN s : /\ s[o].rec >= RealLen(s[o])
                         /\ o + s[o].rec \in DOMAIN s \cup {BlockSpace}
                         /\ \A x \in DOMAIN s : o < x => o + s[o].rec <= x

\* Directory blocks stay chains, none is missing, and a name occurs once in a
\* directory, whatever was added and removed.
DirChains ==
  \A i \in Directories :
    /\ \A l \in 0..Current(i).size - 1 :
         Phys(edisk, Current(i).map, l) # 0 /\ Tiled(DirAt(edisk, Current(i), l))
    /\ \A x, y \in Entries(edisk, Current(i)) :
         EntryAt(edisk, Current(i), x).name = EntryAt(edisk, Current(i), y).name => x = y

\* The tree is whole: every entry leads to an inode in use, every inode in use
\* but the root has exactly one entry, and the link counts say so.
Named(d) == {x \in Entries(edisk, Current(d)) : EntryAt(edisk, Current(d), x).name \notin Dots}
Ino(d, x) == EntryAt(edisk, Current(d), x).ino
TreeSound ==
  /\ \A d \in Directories : \A x \in Entries(edisk, Current(d)) : Ino(d, x) \in iused
  /\ \A i \in iused \ {RootIno} :
       \E d \in Directories : \E x \in Named(d) :
         /\ Ino(d, x) = i
         /\ \A e \in Directories : \A y \in Named(e) : Ino(e, y) = i => e = d /\ y = x
  /\ \A i \in iused :
       Current(i).links = IF Current(i).kind = "file" THEN 1
                          ELSE 2 + Cardinality({x \in Named(i) : Ino(i, x) \in Directories})

\* Every block of the disk is free or in one place of one file, until a write
\* sets a bit that another operation has set since the test, or an entry is
\* left behind (astray): then two files may share a block.
BlocksOwned == ~astray => NoCrossLink /\ NoLeak

\* Directories, the inodes they name and the link counts fit together, after
\* operations that failed for want of a block too.  A create or mkdir that finds
\* no memory for the inode leaves its entry behind, and nothing is said after it.
DirsSound == ~astray => DirChains /\ TreeSound
=============================================================================
