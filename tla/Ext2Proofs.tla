----------------------------- MODULE Ext2Proofs -----------------------------
(***************************************************************************)
(* Proofs about ext2 on the disk (module Ext2), for any disk, any number   *)
(* of inodes, any names and any sequence of operations.                    *)
(*                                                                         *)
(* AstrayInv is inductive: Ext2Inv, as long as astray is FALSE.  Once it   *)
(* is TRUE nothing has to be shown, so the steps that keep Ext2Inv are the *)
(* whole operations, and the write that sets a bit which is still clear.   *)
(* Fine says it of a disk D, the inodes in use U,                          *)
(* the inodes that count C (the copy in memory when there is one), the     *)
(* inodes on the disk S and what was written W: no block is in two places  *)
(* (Apart), none is lost (AllOwned), every inode is Good, and the names    *)
(* make a tree (TreeOK).  Good is more than the properties ask for.  The   *)
(* inode on the disk may be behind the one in memory after an allocation   *)
(* has failed, and unlink, rmdir and a new mount go by it: Saved says what *)
(* it still has.  A file has no block behind its end (FileOK), or a hole   *)
(* that a later write leaves would not read as zeros.                      *)
(*                                                                         *)
(* A block map is looked at through its places (BlockAt), so that direct,  *)
(* indirect and double indirect pointers are one case: Grow says what      *)
(* ext2_get_block() adds to the places of one inode, Looks that another    *)
(* inode is as before, and Listing what a directory shows, whatever blocks *)
(* and records it has.  TreeAdd and TreeRemove are about listings only.    *)
(***************************************************************************)
EXTENDS Ext2, NatLemmas, FiniteSetTheorems, TLAPS

-----------------------------------------------------------------------------
(* The invariant                                                            *)

\* The types of what the disk holds.
MapT == [0..Dind -> 0..NBlocks]
InodeT == [kind : {"none", "file", "dir"}, size : Nat, links : Int, map : MapT]
EntryT == [ino : 0..NInodes, rec : Int, name : ENames \cup {"", ".", ".."}, len : Nat]
DirT == UNION {[S -> EntryT] : S \in SUBSET Nat}
DiskT == [used : SUBSET EBlks, free : Int, ptr : [EBlks -> [1..Ptrs -> 0..NBlocks]],
          dat : [EBlks -> Values \cup {0}], dir : [EBlks -> DirT]]
ContentT == [0..MaxLblk -> Values \cup {0}]

\* No block is in two places, and the blocks of the inodes U are marked.
Apart(D, U, M) ==
  \A i \in U, p \in MapPlaces : BlockAt(D, M[i], p) # 0 =>
    /\ BlockAt(D, M[i], p) \in D.used
    /\ \A j \in U, q \in MapPlaces : BlockAt(D, M[j], q) = BlockAt(D, M[i], p) => i = j /\ p = q

\* Every marked block is in a place of an inode of U.
AllOwned(D, U, M) == \A b \in D.used : \E i \in U, p \in MapPlaces : BlockAt(D, M[i], p) = b

\* The entries in use of a directory block and of a directory, with name and inode.
Shown(s) == {<<o, s[o].name, s[o].ino>> : o \in {x \in DOMAIN s : s[x].ino # 0}}
Listing(D, p) ==
  {<<x, EntryAt(D, p, x).name, EntryAt(D, p, x).ino>> : x \in Entries(D, p)}

\* A directory has all its blocks, and each is a chain.
Chained(D, p) == \A l \in 0..p.size - 1 : Phys(D, p.map, l) # 0 /\ Tiled(DirAt(D, p, l))

\* The positions in directory d that name a directory.
SubDirs(U, C, N, d) == {t[1] : t \in {s \in N[d] : s[2] \notin Dots /\ s[3] \in U /\ C[s[3]].kind = "dir"}}

Names(N, d, i) == {t \in N[d] : t[2] \notin Dots /\ t[3] = i}

\* The tree: N gives what each directory lists.
TreeOK(U, C, N) ==
  /\ \A d \in U : C[d].kind = "dir" =>
       /\ IsFiniteSet(SubDirs(U, C, N, d))
       /\ \A s, t \in N[d] : s[1] = t[1] \/ s[2] = t[2] => s = t
       /\ \A t \in N[d] :
            /\ t[3] \in U
            /\ t[2] \notin Dots => t[3] \notin {d, RootIno}
            /\ t[2] = ".." => \/ d = RootIno /\ t[3] = RootIno
                              \/ C[t[3]].kind = "dir" /\ Names(N, t[3], d) # {}
            /\ t[2] = "." => t[3] = d
  /\ \A i \in U \ {RootIno} : \E d \in U : C[d].kind = "dir" /\ Names(N, d, i) # {}
  /\ \A i \in U, d, e \in U : C[d].kind = "dir" /\ C[e].kind = "dir" =>
       \A s \in Names(N, d, i), t \in Names(N, e, i) : d = e /\ s = t
  /\ \A i \in U : C[i].links = IF C[i].kind = "file" THEN 1 ELSE 2 + Cardinality(SubDirs(U, C, N, i))

\* What the inode on the disk, s, has of the one that counts, c.
Saved(D, c, s) ==
  /\ s.kind = c.kind /\ s.links = c.links /\ s.size <= c.size
  /\ \A x \in 0..Dind : s.map[x] \in {0, c.map[x]}
  /\ \A l \in 0..s.size - 1 : Phys(D, s.map, l) = Phys(D, c.map, l)
  /\ c.kind = "file" => s.size = c.size
  /\ c.kind = "dir" => \A t \in Listing(D, c) : t[1][1] < s.size

\* A file has no block behind its end and reads as it was written.
FileOK(D, p, w) ==
  /\ \A l \in Nat : l >= p.size => Phys(D, p.map, l) = 0
  /\ \A l \in 0..MaxLblk : w[l] = ext2_read_data(D, p, l)

\* What holds of each inode in use.
Good(D, c, s, w) ==
  /\ c.kind \in {"file", "dir"} /\ Saved(D, c, s)
  /\ c.kind = "file" => FileOK(D, c, w)
  /\ c.kind = "dir" => Chained(D, c)

Cur == [i \in EInos |-> Current(i)]
Maps(C) == [i \in EInos |-> C[i].map]
Lists(D, C) == [i \in EInos |-> Listing(D, C[i])]

Fine(D, U, C, S, W, full) ==
  /\ Apart(D, U, Maps(C))
  /\ RootIno \in U /\ C[RootIno].kind = "dir"
  /\ \A i \in U : Good(D, C[i], S[i], W[i])
  /\ TreeOK(U, C, Lists(D, C))
  /\ ~full => AllOwned(D, U, Maps(C)) /\ \A i \in U : S[i] = C[i]

ETypeOK ==
  /\ edisk \in DiskT /\ iused \subseteq EInos /\ efull \in BOOLEAN
  /\ itable \in [EInos -> InodeT] /\ priv \in [EInos -> InodeT]
  /\ content \in [EInos -> ContentT] /\ eops \in Nat

Ext2Inv ==
  /\ ETypeOK
  /\ \A i \in EInos \ iused : priv[i] = NoInode
  /\ Fine(edisk, iused, Cur, itable, content, efull)

-----------------------------------------------------------------------------
(* Places                                                                   *)

\* The search from below finds the least member.
LEMMA FirstIs ==
  ASSUME NEW S, S \subseteq Nat, S # {}
  PROVE  First(S) \in S /\ \A y \in S : First(S) <= y
<1>1. \E x \in S : \A y \in S : x <= y
  BY Least
<1> QED BY <1>1 DEF First

\* The numbers of the map.
LEMMA Sizes ==
  /\ NDirect \in Nat \ {0} /\ Ptrs \in Nat \ {0} /\ NBlocks \in Nat \ {0} /\ NInodes \in Nat \ {0}
  /\ Ind = NDirect /\ Dind = NDirect + 1 /\ Dind \in Nat /\ Ind \in 0..Dind /\ Dind \in 0..Dind
BY Ext2Assumption DEF Ind, Dind

\* A place of a map, by its parts.
LEMMA PlaceParts ==
  ASSUME NEW p \in MapPlaces
  PROVE  /\ p = <<p[1], p[2], p[3]>>
         /\ p[1] \in 0..Dind /\ p[2] \in 0..Ptrs /\ p[3] \in 0..Ptrs
         /\ p[2] = 0 => p[3] = 0
         /\ p[2] # 0 => p[1] \in {Ind, Dind}
         /\ p[3] # 0 => p[1] = Dind
         /\ <<p[1], 0, 0>> \in MapPlaces /\ <<p[1], p[2], 0>> \in MapPlaces
BY Sizes DEF MapPlaces

\* The three kinds of place.
LEMMA PlaceIs ==
  /\ \A x \in 0..Dind : <<x, 0, 0>> \in MapPlaces
  /\ \A x \in {Ind, Dind}, j \in 1..Ptrs : <<x, j, 0>> \in MapPlaces
  /\ \A j, k \in 1..Ptrs : <<Dind, j, k>> \in MapPlaces
BY DEF MapPlaces

\* A block of a map: the pointer of the inode, and pointers of indirect blocks.
LEMMA AtParts ==
  ASSUME NEW D, NEW m, NEW p \in MapPlaces
  PROVE  /\ BlockAt(D, m, <<p[1], 0, 0>>) = m[p[1]]
         /\ BlockAt(D, m, <<p[1], p[2], 0>>) = ext2_ind_get(D, m[p[1]], p[2])
         /\ BlockAt(D, m, p) = ext2_ind_get(D, ext2_ind_get(D, m[p[1]], p[2]), p[3])
BY DEF BlockAt, ext2_ind_get

\* A pointer that is read is a block number or 0.
LEMMA IndType ==
  ASSUME NEW D \in DiskT, NEW b \in 0..NBlocks, NEW j \in 0..Ptrs
  PROVE  ext2_ind_get(D, b, j) \in 0..NBlocks
<1>1. CASE b = 0 \/ j = 0
  BY <1>1 DEF ext2_ind_get
<1>2. CASE b # 0 /\ j # 0
  <2>1. b \in EBlks /\ j \in 1..Ptrs
    BY <1>2, Sizes DEF EBlks
  <2>2. D.ptr[b] \in [1..Ptrs -> 0..NBlocks]
    BY <2>1 DEF DiskT
  <2>3. D.ptr[b][j] \in 0..NBlocks
    BY <2>1, <2>2
  <2> QED BY <1>2, <2>3 DEF ext2_ind_get
<1> QED BY <1>1, <1>2

\* So is the content of a place of a map.
LEMMA AtType ==
  ASSUME NEW D \in DiskT, NEW m \in MapT, NEW p \in MapPlaces
  PROVE  BlockAt(D, m, p) \in 0..NBlocks
<1>1. p[1] \in 0..Dind /\ p[2] \in 0..Ptrs /\ p[3] \in 0..Ptrs
  BY PlaceParts
<1>2. m[p[1]] \in 0..NBlocks
  BY <1>1 DEF MapT
<1> QED BY <1>1, <1>2, IndType DEF BlockAt

\* A map of zeros has no block.
LEMMA AtZero ==
  ASSUME NEW D, NEW p \in MapPlaces, NEW m, m[p[1]] = 0
  PROVE  BlockAt(D, m, p) = 0
BY DEF BlockAt, ext2_ind_get

-----------------------------------------------------------------------------
(* A block is taken                                                         *)

\* The disk D2 is D with the block b taken and zeroed.
Takes(D, D2, b) ==
  /\ b \in EBlks \ D.used /\ D2 \in DiskT
  /\ D2.used = D.used \cup {b}
  /\ D2.dat = [D.dat EXCEPT ![b] = 0]
  /\ D2.dir = [D.dir EXCEPT ![b] = NoEntries]

\* A zeroed directory block has no entry.
LEMMA NoEntriesType == NoEntries \in DirT /\ DOMAIN NoEntries = {} /\ Shown(NoEntries) = {}
<1>1. NoEntries \in [{} -> EntryT] /\ {} \in SUBSET Nat
  BY DEF NoEntries
<1>2. DOMAIN NoEntries = {}
  BY DEF NoEntries
<1> QED BY <1>1, <1>2 DEF DirT, Shown

\* A block that is free is taken and zeroed.
LEMMA TakeIs ==
  ASSUME NEW D \in DiskT, NEW f \in EBlks \ D.used, NEW a, a = Zeroed(TakeBlock(D, f))
  PROVE  /\ a.ok = TRUE /\ a.b = f /\ Takes(D, a.D, a.b)
         /\ a.D.ptr = [D.ptr EXCEPT ![a.b] = NoPtrs]
<1> DEFINE r == TakeBlock(D, f)
           E == save_counts(ext2_bitmap_set(D, f), 0 - 1)
           Z == [E EXCEPT !.ptr[f] = NoPtrs, !.dat[f] = 0, !.dir[f] = NoEntries]
<1>1. r = [ok |-> TRUE, b |-> f, D |-> E]
  BY DEF TakeBlock
<1>2. E \in DiskT /\ E.used = D.used \cup {f} /\ E.ptr = D.ptr /\ E.dat = D.dat /\ E.dir = D.dir
  <2> DEFINE B == ext2_bitmap_set(D, f)
  <2>1. B \in DiskT /\ B.used = D.used \cup {f} /\ B.ptr = D.ptr /\ B.dat = D.dat /\ B.dir = D.dir
    BY DEF ext2_bitmap_set, DiskT
  <2>2. E = [B EXCEPT !.free = @ + (0 - 1)]
    BY DEF save_counts
  <2> HIDE DEF B, E
  <2>3. B.free + (0 - 1) \in Int
    BY <2>1 DEF DiskT
  <2> QED BY <2>1, <2>2, <2>3 DEF DiskT
<1> HIDE DEF E
<1>3. NoPtrs \in [1..Ptrs -> 0..NBlocks]
  BY Sizes DEF NoPtrs
<1>4. /\ Z \in DiskT /\ Z.used = D.used \cup {f} /\ Z.ptr = [D.ptr EXCEPT ![f] = NoPtrs]
      /\ Z.dat = [D.dat EXCEPT ![f] = 0] /\ Z.dir = [D.dir EXCEPT ![f] = NoEntries]
  <2>1. [D.ptr EXCEPT ![f] = NoPtrs] \in [EBlks -> [1..Ptrs -> 0..NBlocks]]
    BY <1>3 DEF DiskT
  <2>2. [D.dat EXCEPT ![f] = 0] \in [EBlks -> Values \cup {0}]
    BY DEF DiskT
  <2>3. [D.dir EXCEPT ![f] = NoEntries] \in [EBlks -> DirT]
    BY NoEntriesType DEF DiskT
  <2>4. Z = [E EXCEPT !.ptr = [D.ptr EXCEPT ![f] = NoPtrs], !.dat = [D.dat EXCEPT ![f] = 0],
                      !.dir = [D.dir EXCEPT ![f] = NoEntries]]
    BY <1>2
  <2> QED BY <1>2, <2>1, <2>2, <2>3, <2>4 DEF DiskT
<1>5. Zeroed(r) = [r EXCEPT !.D = Z]
  BY <1>1 DEF Zeroed, E
<1> HIDE DEF Z, r
<1>6. Zeroed(r) = [ok |-> TRUE, b |-> f, D |-> Z]
  BY <1>1, <1>5
<1>7. Zeroed(r).D = Z /\ Zeroed(r).ok = TRUE /\ Zeroed(r).b = f
  BY ONLY <1>6
<1> QED BY <1>4, <1>6, <1>7 DEF Takes, r

\* ext2_alloc_zero_block() takes a block that was free and zeroes it, or changes nothing.
LEMMA AllocIs ==
  ASSUME NEW D \in DiskT
  PROVE  LET a == ext2_alloc_zero_block(D) IN
         /\ a.ok \in BOOLEAN
         /\ a.ok => Takes(D, a.D, a.b) /\ a.D.ptr = [D.ptr EXCEPT ![a.b] = NoPtrs]
         /\ ~a.ok => a.D = D /\ a.b = 0
<1> DEFINE f == First(ClearBits(D))
<1>1. CASE ClearBits(D) = {}
  BY <1>1 DEF ext2_alloc_zero_block, ext2_alloc_block
<1>2. CASE ClearBits(D) # {}
  <2>1. ClearBits(D) \subseteq Nat
    BY DEF ClearBits, EBlks
  <2>2. f \in EBlks \ D.used
    <3>1. f \in ClearBits(D)
      BY <1>2, <2>1, FirstIs
    <3> HIDE DEF f
    <3> QED BY <3>1 DEF ClearBits, ext2_bitmap_test
  <2>3. ext2_alloc_block(D) = TakeBlock(D, f)
    BY <1>2 DEF ext2_alloc_block
  <2>4. TakeBlock(D, f).ok
    BY DEF TakeBlock
  <2>5. ext2_alloc_zero_block(D) = Zeroed(TakeBlock(D, f))
    BY <2>3, <2>4 DEF ext2_alloc_zero_block
  <2> DEFINE a == ext2_alloc_zero_block(D)
  <2> HIDE DEF f, a
  <2>6. a.ok = TRUE /\ Takes(D, a.D, a.b) /\ a.D.ptr = [D.ptr EXCEPT ![a.b] = NoPtrs]
    <3>1. a = Zeroed(TakeBlock(D, f))
      BY <2>5 DEF a
    <3> QED BY ONLY <2>2, <3>1, TakeIs, D \in DiskT
  <2> QED BY <2>6 DEF a
<1> QED BY <1>1, <1>2

\* What the pointers of a block are when b was taken and put at pointer k of block c.
LEMMA IndAfter ==
  ASSUME NEW D \in DiskT, NEW D2 \in DiskT, NEW b \in EBlks, NEW c \in EBlks, c # b, NEW k \in 1..Ptrs,
         D2.ptr = [[D.ptr EXCEPT ![b] = NoPtrs] EXCEPT ![c][k] = b],
         NEW t \in 0..NBlocks, t # b, NEW j \in 0..Ptrs
  PROVE  ext2_ind_get(D2, t, j) = IF t = c /\ j = k THEN b ELSE ext2_ind_get(D, t, j)
<1>1. CASE t = 0 \/ j = 0
  BY <1>1, Sizes DEF ext2_ind_get, EBlks
<1>2. CASE t # 0 /\ j # 0
  <2>1. t \in EBlks /\ j \in 1..Ptrs
    BY <1>2, Sizes DEF EBlks
  <2>2. D.ptr \in [EBlks -> [1..Ptrs -> 0..NBlocks]]
    BY DEF DiskT
  <2>3. D2.ptr[t] = IF t = c THEN [D.ptr[c] EXCEPT ![k] = b] ELSE D.ptr[t]
    BY <2>1, <2>2
  <2>4. D.ptr[c] \in [1..Ptrs -> 0..NBlocks]
    BY <2>2
  <2>5. D2.ptr[t][j] = IF t = c /\ j = k THEN b ELSE D.ptr[t][j]
    BY <2>1, <2>3, <2>4
  <2> QED BY <1>2, <2>5 DEF ext2_ind_get
<1> QED BY <1>1, <1>2

\* A zeroed block points nowhere.
LEMMA IndNew ==
  ASSUME NEW D2, NEW b \in EBlks, D2.ptr[b] = NoPtrs, NEW j \in 0..Ptrs
  PROVE  ext2_ind_get(D2, b, j) = IF j = 0 THEN b ELSE 0
BY DEF ext2_ind_get, NoPtrs, EBlks

\* Zeroing one block leaves the pointers of the others.
LEMMA IndOther ==
  ASSUME NEW D \in DiskT, NEW D2, NEW b \in EBlks, D2.ptr = [D.ptr EXCEPT ![b] = NoPtrs],
         NEW t \in 0..NBlocks, t # b, NEW j \in 0..Ptrs
  PROVE  ext2_ind_get(D2, t, j) = ext2_ind_get(D, t, j)
BY DEF ext2_ind_get, DiskT, EBlks

\* No block, no pointer.
LEMMA IndZero == \A D, j : ext2_ind_get(D, 0, j) = 0
BY DEF ext2_ind_get

-----------------------------------------------------------------------------
(* A map grows                                                              *)

\* From D and the maps M to D2 and M2 the map of i has got blocks at some of
\* the places Z; nothing else has changed for the inodes U.
Grow(U, i, Z, D, M, D2, M2) ==
  /\ D2 \in DiskT /\ M2 \in [EInos -> MapT] /\ Apart(D2, U, M2)
  /\ D.used \subseteq D2.used
  /\ \A b \in D.used : D2.dat[b] = D.dat[b] /\ D2.dir[b] = D.dir[b]
  /\ \A j \in EInos \ {i} : M2[j] = M[j]
  /\ \A x \in 0..Dind : M[i][x] \in {0, M2[i][x]}
  /\ \A j \in U, q \in MapPlaces : BlockAt(D, M[j], q) # 0 => BlockAt(D2, M2[j], q) = BlockAt(D, M[j], q)
  /\ \A j \in U, q \in MapPlaces : j # i \/ q \notin Z => BlockAt(D2, M2[j], q) = BlockAt(D, M[j], q)
  /\ \A q \in MapPlaces : BlockAt(D, M[i], q) = 0 /\ BlockAt(D2, M2[i], q) # 0 =>
       LET b == BlockAt(D2, M2[i], q) IN b \notin D.used /\ D2.dat[b] = 0 /\ D2.dir[b] = NoEntries
  /\ \A b \in D2.used \ D.used : \E q \in MapPlaces : BlockAt(D2, M2[i], q) = b

\* A map that stays as it is has grown by nothing.
LEMMA GrowNot ==
  ASSUME NEW U, NEW i \in U, NEW Z, NEW D \in DiskT, NEW M \in [EInos -> MapT], Apart(D, U, M)
  PROVE  Grow(U, i, Z, D, M, D, M)
BY DEF Grow

\* Of all places of the inodes U the place p of i has got the block b.
Plants(U, i, p, b, D, M, D2, M2) ==
  \A j \in U, q \in MapPlaces : BlockAt(D2, M2[j], q) = IF j = i /\ q = p THEN b ELSE BlockAt(D, M[j], q)

\* One place gets the block that was taken.
LEMMA GrowOne ==
  ASSUME NEW U \in SUBSET EInos, NEW i \in U, NEW Z, NEW D \in DiskT, NEW M \in [EInos -> MapT], Apart(D, U, M),
         NEW D2 \in DiskT, NEW M2 \in [EInos -> MapT], NEW b, Takes(D, D2, b),
         NEW p \in MapPlaces \cap Z, BlockAt(D, M[i], p) = 0,
         \A j \in EInos \ {i} : M2[j] = M[j],
         \A x \in 0..Dind : M[i][x] \in {0, M2[i][x]},
         Plants(U, i, p, b, D, M, D2, M2)
  PROVE  Grow(U, i, Z, D, M, D2, M2)
<1>0. \A j \in U, q \in MapPlaces : BlockAt(D2, M2[j], q) = IF j = i /\ q = p THEN b ELSE BlockAt(D, M[j], q)
  BY DEF Plants
<1> USE <1>0
<1>1. b \in EBlks /\ b \notin D.used /\ b # 0 /\ D2.used = D.used \cup {b}
  BY Sizes DEF Takes, EBlks
<1>2. D.used \subseteq EBlks /\ D.dat \in [EBlks -> Values \cup {0}] /\ D.dir \in [EBlks -> DirT]
  BY DEF DiskT
<1>3. D2.dat[b] = 0 /\ D2.dir[b] = NoEntries /\ \A c \in D.used : D2.dat[c] = D.dat[c] /\ D2.dir[c] = D.dir[c]
  BY <1>1, <1>2 DEF Takes
<1>4. \A j \in U, q \in MapPlaces : BlockAt(D, M[j], q) # b
  BY <1>1 DEF Apart
<1>5. Apart(D2, U, M2)
  <2> SUFFICES ASSUME NEW h \in U, NEW r \in MapPlaces, BlockAt(D2, M2[h], r) # 0
               PROVE  /\ BlockAt(D2, M2[h], r) \in D2.used
                      /\ \A j \in U, q \in MapPlaces :
                           BlockAt(D2, M2[j], q) = BlockAt(D2, M2[h], r) => h = j /\ r = q
    BY DEF Apart
  <2>1. CASE h = i /\ r = p
    BY <2>1, <1>1, <1>4
  <2>2. CASE ~(h = i /\ r = p)
    <3>1. BlockAt(D2, M2[h], r) = BlockAt(D, M[h], r)
      BY <2>2
    <3>2. BlockAt(D, M[h], r) \in D.used
      BY <3>1 DEF Apart
    <3> QED BY <3>1, <3>2, <1>1, <1>4 DEF Apart
  <2> QED BY <2>1, <2>2
<1>6. \A c \in D2.used \ D.used : BlockAt(D2, M2[i], p) = c
  BY <1>1
<1>7. \A q \in MapPlaces : BlockAt(D, M[i], q) = 0 /\ BlockAt(D2, M2[i], q) # 0 => BlockAt(D2, M2[i], q) = b
  OBVIOUS
<1>8. \A j \in U, q \in MapPlaces : j # i \/ q \notin Z => BlockAt(D2, M2[j], q) = BlockAt(D, M[j], q)
  OBVIOUS
<1>9. \A j \in U, q \in MapPlaces : BlockAt(D, M[j], q) # 0 => BlockAt(D2, M2[j], q) = BlockAt(D, M[j], q)
  OBVIOUS
<1>10. \A q \in MapPlaces : BlockAt(D, M[i], q) = 0 /\ BlockAt(D2, M2[i], q) # 0 =>
       LET c == BlockAt(D2, M2[i], q) IN c \notin D.used /\ D2.dat[c] = 0 /\ D2.dir[c] = NoEntries
  BY <1>1, <1>3, <1>7
<1> QED BY <1>1, <1>3, <1>5, <1>6, <1>8, <1>9, <1>10 DEF Grow

\* A map may grow in two steps.
LEMMA GrowTwice ==
  ASSUME NEW U \in SUBSET EInos, NEW i \in U, NEW Z, NEW D, NEW M \in [EInos -> MapT], NEW D2, NEW M2,
         NEW D3, NEW M3, Apart(D, U, M), Grow(U, i, Z, D, M, D2, M2), Grow(U, i, Z, D2, M2, D3, M3)
  PROVE  Grow(U, i, Z, D, M, D3, M3)
<1>1. D3 \in DiskT /\ M3 \in [EInos -> MapT] /\ Apart(D3, U, M3) /\ D.used \subseteq D3.used
  BY DEF Grow
<1>2. \A b \in D.used : D3.dat[b] = D.dat[b] /\ D3.dir[b] = D.dir[b]
  BY DEF Grow
<1>3. \A j \in EInos \ {i} : M3[j] = M[j]
  BY DEF Grow
<1>4. \A x \in 0..Dind : M[i][x] \in {0, M3[i][x]}
  BY DEF Grow
<1>5. \A j \in U, q \in MapPlaces : BlockAt(D, M[j], q) # 0 => BlockAt(D3, M3[j], q) = BlockAt(D, M[j], q)
  BY DEF Grow
<1>6. \A j \in U, q \in MapPlaces : j # i \/ q \notin Z => BlockAt(D3, M3[j], q) = BlockAt(D, M[j], q)
  BY DEF Grow
<1>7. ASSUME NEW q \in MapPlaces, BlockAt(D, M[i], q) = 0, BlockAt(D3, M3[i], q) # 0
      PROVE  LET b == BlockAt(D3, M3[i], q) IN b \notin D.used /\ D3.dat[b] = 0 /\ D3.dir[b] = NoEntries
  <2>1. CASE BlockAt(D2, M2[i], q) = 0
    BY <2>1, <1>7 DEF Grow
  <2>2. CASE BlockAt(D2, M2[i], q) # 0
    <3>1. BlockAt(D3, M3[i], q) = BlockAt(D2, M2[i], q)
      BY <2>2 DEF Grow
    <3>2. BlockAt(D2, M2[i], q) \in D2.used
      BY <2>2 DEF Grow, Apart
    <3>3. LET b == BlockAt(D2, M2[i], q) IN b \notin D.used /\ D2.dat[b] = 0 /\ D2.dir[b] = NoEntries
      BY <2>2, <1>7 DEF Grow
    <3> QED BY <3>1, <3>2, <3>3 DEF Grow
  <2> QED BY <2>1, <2>2
<1>8. ASSUME NEW b \in D3.used \ D.used PROVE \E q \in MapPlaces : BlockAt(D3, M3[i], q) = b
  <2>1. CASE b \in D3.used \ D2.used
    BY <2>1 DEF Grow
  <2>2. CASE b \in D2.used \ D.used
    <3>1. PICK q \in MapPlaces : BlockAt(D2, M2[i], q) = b
      BY <2>2 DEF Grow
    <3>2. b # 0
      <4>1. b \in EBlks
        BY <2>2 DEF Grow, DiskT
      <4> QED BY <4>1 DEF EBlks
    <3> QED BY <3>1, <3>2 DEF Grow
  <2> QED BY <2>1, <2>2
<1> QED BY <1>1, <1>2, <1>3, <1>4, <1>5, <1>6, <1>7, <1>8 DEF Grow

\* The place pointer k of the block at p leads to.
IsChild(p, k, p2) ==
  \/ p[2] = 0 /\ p2 = <<p[1], k, 0>> /\ p[1] \in {Ind, Dind} /\ p = <<p[1], 0, 0>>
  \/ p[2] # 0 /\ p2 = <<Dind, p[2], k>> /\ p = <<Dind, p[2], 0>>

\* The place below a place is read through the indirect block.
LEMMA AtChild ==
  ASSUME NEW D, NEW m, NEW p \in MapPlaces, NEW k \in 1..Ptrs, NEW p2, IsChild(p, k, p2)
  PROVE  p2 \in MapPlaces /\ BlockAt(D, m, p2) = ext2_ind_get(D, BlockAt(D, m, p), k)
<1>1. p[2] \in 0..Ptrs
  BY PlaceParts
<1>2. CASE p[2] = 0 /\ p2 = <<p[1], k, 0>> /\ p[1] \in {Ind, Dind} /\ p = <<p[1], 0, 0>>
  BY <1>2, PlaceIs DEF BlockAt, ext2_ind_get
<1>3. CASE p[2] # 0 /\ p2 = <<Dind, p[2], k>> /\ p = <<Dind, p[2], 0>>
  <2>1. p[2] \in 1..Ptrs
    BY <1>1, <1>3, Sizes
  <2>2. p2 \in MapPlaces
    BY <1>3, <2>1, PlaceIs
  <2>3. p[1] = Dind /\ p[3] = 0 /\ p2[1] = Dind /\ p2[2] = p[2] /\ p2[3] = k
    BY <1>3
  <2>4. BlockAt(D, m, p) = ext2_ind_get(D, m[Dind], p[2])
    BY <2>3 DEF BlockAt, ext2_ind_get
  <2> QED BY <2>2, <2>3, <2>4 DEF BlockAt
<1> QED BY <1>2, <1>3 DEF IsChild

\* A block is taken, and put into pointer x of the inode i or pointer k of block c.
PutTop(D, M, D2, M2, i, x, b) ==
  Takes(D, D2, b) /\ D2.ptr = [D.ptr EXCEPT ![b] = NoPtrs] /\ M2 = [M EXCEPT ![i] = [M[i] EXCEPT ![x] = b]]
PutSub(D, D2, c, k, b) ==
  Takes(D, D2, b) /\ D2.ptr = [[D.ptr EXCEPT ![b] = NoPtrs] EXCEPT ![c][k] = b]

\* A block is taken and put into the pointer x of the inode.
LEMMA PlantTop ==
  ASSUME NEW U \in SUBSET EInos, NEW i \in U, NEW D \in DiskT, NEW M \in [EInos -> MapT], Apart(D, U, M),
         NEW x \in 0..Dind, M[i][x] = 0, NEW D2, NEW b, NEW M2, PutTop(D, M, D2, M2, i, x, b)
  PROVE  Plants(U, i, <<x, 0, 0>>, b, D, M, D2, M2)
<1> SUFFICES ASSUME NEW j \in U, NEW q \in MapPlaces
             PROVE  BlockAt(D2, M2[j], q) = IF j = i /\ q = <<x, 0, 0>> THEN b ELSE BlockAt(D, M[j], q)
  BY DEF Plants
<1> DEFINE t == M[j][q[1]]
           u == ext2_ind_get(D, t, q[2])
<1>0. Takes(D, D2, b) /\ D2.ptr = [D.ptr EXCEPT ![b] = NoPtrs] /\ M2 = [M EXCEPT ![i] = [M[i] EXCEPT ![x] = b]]
  BY DEF PutTop
<1>1. b \in EBlks /\ b \notin D.used /\ b # 0
  BY <1>0 DEF Takes, EBlks
<1>2. /\ q = <<q[1], q[2], q[3]>> /\ q[1] \in 0..Dind /\ q[2] \in 0..Ptrs /\ q[3] \in 0..Ptrs
      /\ q[2] = 0 => q[3] = 0
      /\ <<q[1], 0, 0>> \in MapPlaces /\ <<q[1], q[2], 0>> \in MapPlaces
  BY PlaceParts
<1>3. M[j] \in MapT /\ M[i] \in MapT
  OBVIOUS
<1>4. t \in 0..NBlocks
  BY <1>2, <1>3 DEF MapT
<1>5. u \in 0..NBlocks
  BY <1>2, <1>4, IndType
<1>6. t = BlockAt(D, M[j], <<q[1], 0, 0>>) /\ u = BlockAt(D, M[j], <<q[1], q[2], 0>>)
      /\ BlockAt(D, M[j], q) = ext2_ind_get(D, u, q[3])
  BY AtParts
<1>7. t # b /\ u # b
  BY <1>1, <1>2, <1>6 DEF Apart
<1>8. D2.ptr[b] = NoPtrs
  BY <1>0, <1>1 DEF DiskT
<1>9. BlockAt(D2, M2[j], q) = ext2_ind_get(D2, ext2_ind_get(D2, M2[j][q[1]], q[2]), q[3])
  BY DEF BlockAt
<1>10. CASE j = i /\ q[1] = x
  <2>1. M2[j][q[1]] = b /\ t = 0
    BY <1>0, <1>10, <1>3 DEF MapT
  <2>2. BlockAt(D, M[j], q) = 0
    BY <2>1, AtZero
  <2>3. ext2_ind_get(D2, b, q[2]) = IF q[2] = 0 THEN b ELSE 0
    <3>1. b \in EBlks /\ q[2] \in 0..Ptrs
      BY <1>1, <1>2
    <3>2. q[2] # 0 => NoPtrs[q[2]] = 0
      BY <3>1 DEF NoPtrs
    <3> QED BY <3>2, <1>1, <1>8 DEF ext2_ind_get
  <2>4. CASE q[2] = 0
    <3>1. q = <<x, 0, 0>>
      BY <2>4, <1>2, <1>10
    <3>2. ext2_ind_get(D2, b, q[3]) = b
      BY <2>4, <1>2, <2>3
    <3> QED BY <1>9, <2>1, <2>3, <2>4, <3>1, <3>2, <1>10
  <2>5. CASE q[2] # 0
    <3>1. q # <<x, 0, 0>>
      BY <2>5
    <3> QED BY <1>9, <2>1, <2>2, <2>3, <2>5, <3>1, IndZero
  <2> QED BY <2>4, <2>5
<1>11. CASE ~(j = i /\ q[1] = x)
  <2>1. M2[j][q[1]] = t
    BY <1>0, <1>11, <1>2, <1>3 DEF MapT
  <2>2. ext2_ind_get(D2, t, q[2]) = u
    BY <1>1, <1>2, <1>4, <1>7, <1>0, IndOther
  <2>3. ext2_ind_get(D2, u, q[3]) = ext2_ind_get(D, u, q[3])
    BY <1>1, <1>2, <1>5, <1>7, <1>0, IndOther
  <2>4. ~(j = i /\ q = <<x, 0, 0>>)
    BY <1>11
  <2> QED BY <1>6, <1>9, <2>1, <2>2, <2>3, <2>4
<1> QED BY <1>10, <1>11

\* A block is taken and put into pointer k of the indirect block at place p.
LEMMA PlantSub ==
  ASSUME NEW U \in SUBSET EInos, NEW i \in U, NEW D \in DiskT, NEW M \in [EInos -> MapT], Apart(D, U, M),
         NEW p \in MapPlaces, NEW k \in 1..Ptrs, NEW p2, IsChild(p, k, p2), BlockAt(D, M[i], p) # 0,
         BlockAt(D, M[i], p2) = 0, NEW D2, NEW b, PutSub(D, D2, BlockAt(D, M[i], p), k, b)
  PROVE  Plants(U, i, p2, b, D, M, D2, M)
<1> SUFFICES ASSUME NEW j \in U, NEW q \in MapPlaces
             PROVE  BlockAt(D2, M[j], q) = IF j = i /\ q = p2 THEN b ELSE BlockAt(D, M[j], q)
  BY DEF Plants
<1> DEFINE c == BlockAt(D, M[i], p)
           t == M[j][q[1]]
           u == ext2_ind_get(D, t, q[2])
<1>0. Takes(D, D2, b) /\ D2.ptr = [[D.ptr EXCEPT ![b] = NoPtrs] EXCEPT ![c][k] = b]
  BY DEF PutSub
<1>1. b \in EBlks /\ b \notin D.used /\ b # 0 /\ D2 \in DiskT
  BY <1>0 DEF Takes, EBlks
<1>2. /\ q = <<q[1], q[2], q[3]>> /\ q[1] \in 0..Dind /\ q[2] \in 0..Ptrs /\ q[3] \in 0..Ptrs
      /\ q[2] = 0 => q[3] = 0
      /\ <<q[1], 0, 0>> \in MapPlaces /\ <<q[1], q[2], 0>> \in MapPlaces
  BY PlaceParts
<1>3. t \in 0..NBlocks /\ u \in 0..NBlocks
  <2>1. M[j] \in MapT
    OBVIOUS
  <2>2. t \in 0..NBlocks
    BY <2>1, <1>2 DEF MapT
  <2> QED BY <2>2, <1>2, IndType
<1>4. t = BlockAt(D, M[j], <<q[1], 0, 0>>) /\ u = BlockAt(D, M[j], <<q[1], q[2], 0>>)
      /\ BlockAt(D, M[j], q) = ext2_ind_get(D, u, q[3])
  BY AtParts
<1>5. t # b /\ u # b
  BY <1>1, <1>2, <1>4 DEF Apart
<1>6. c \in D.used /\ c \in EBlks /\ c # b
  <2>1. c \in D.used
    BY DEF Apart
  <2> QED BY <2>1, <1>1 DEF DiskT
<1>7. t = c => j = i /\ p = <<q[1], 0, 0>>
  BY <1>2, <1>4 DEF Apart
<1>8. u = c => j = i /\ p = <<q[1], q[2], 0>>
  BY <1>2, <1>4 DEF Apart
<1>9. ext2_ind_get(D, c, k) = 0 /\ p2 \in MapPlaces
  BY AtChild
<1>10. D2.ptr = [[D.ptr EXCEPT ![b] = NoPtrs] EXCEPT ![c][k] = b]
  BY <1>0
<1>11. D2.ptr[b] = NoPtrs
  <2>1. D.ptr \in [EBlks -> [1..Ptrs -> 0..NBlocks]]
    BY DEF DiskT
  <2> HIDE DEF c
  <2> QED BY <2>1, <1>1, <1>6, <1>10
<1>12. BlockAt(D2, M[j], q) = ext2_ind_get(D2, ext2_ind_get(D2, t, q[2]), q[3])
  BY DEF BlockAt
<1> HIDE DEF c, t, u
<1>13. ext2_ind_get(D2, t, q[2]) = IF t = c /\ q[2] = k THEN b ELSE u
  BY <1>1, <1>2, <1>3, <1>5, <1>6, <1>10, IndAfter DEF u
<1>14. CASE t = c /\ q[2] = k
  <2>1. j = i /\ q[1] = p[1] /\ p[2] = 0 /\ u = 0
    BY <1>7, <1>9, <1>14 DEF u
  <2>2. p2 = <<p[1], k, 0>>
    BY <2>1 DEF IsChild
  <2>3. CASE q[3] = 0
    <3>1. q = p2
      BY <2>1, <2>2, <2>3, <1>2, <1>14
    <3>2. ext2_ind_get(D2, b, q[3]) = b
      BY <2>3 DEF ext2_ind_get
    <3> QED BY <3>1, <3>2, <2>1, <1>12, <1>13, <1>14
  <2>4. CASE q[3] # 0
    <3>1. q # p2
      BY <2>2, <2>4
    <3>2. ext2_ind_get(D2, b, q[3]) = 0
      BY <2>4, <1>1, <1>11, <1>2, IndNew
    <3>3. BlockAt(D, M[j], q) = 0
      BY <2>1, <1>4, IndZero
    <3> QED BY <3>1, <3>2, <3>3, <1>12, <1>13, <1>14
  <2> QED BY <2>3, <2>4
<1>15. CASE ~(t = c /\ q[2] = k)
  <2>1. BlockAt(D2, M[j], q) = IF u = c /\ q[3] = k THEN b ELSE BlockAt(D, M[j], q)
    <3>1. ext2_ind_get(D2, u, q[3]) = IF u = c /\ q[3] = k THEN b ELSE ext2_ind_get(D, u, q[3])
      BY <1>1, <1>2, <1>3, <1>5, <1>6, <1>10, IndAfter
    <3> QED BY <3>1, <1>4, <1>12, <1>13, <1>15
  <2>2. CASE u = c /\ q[3] = k
    <3>1. j = i /\ p[1] = q[1] /\ p[2] = q[2] /\ p[2] # 0
      BY <2>2, <1>8, <1>2
    <3>2. q = p2
      <4>1. p2 = <<Dind, p[2], k>> /\ p = <<Dind, p[2], 0>>
        BY <3>1 DEF IsChild
      <4>2. p[1] = Dind
        BY <4>1
      <4> QED BY <4>1, <4>2, <3>1, <2>2, <1>2
    <3> QED BY <3>1, <3>2, <2>1, <2>2
  <2>3. CASE ~(u = c /\ q[3] = k)
    <3>1. ~(j = i /\ q = p2)
      <4> SUFFICES ASSUME j = i, q = p2 PROVE FALSE
        OBVIOUS
      <4>1. CASE p[2] = 0 /\ p2 = <<p[1], k, 0>> /\ p = <<p[1], 0, 0>>
        <5>1. q[1] = p[1] /\ q[2] = k
          BY <4>1
        <5>2. t = c
          BY <5>1, <4>1, <1>4 DEF c
        <5> QED BY <5>1, <5>2, <1>15
      <4>2. CASE p[2] # 0 /\ p2 = <<Dind, p[2], k>> /\ p = <<Dind, p[2], 0>>
        <5>1. q[1] = Dind /\ q[2] = p[2] /\ q[3] = k
          BY <4>2
        <5>2. u = c
          BY <5>1, <4>2, <1>4 DEF c
        <5> QED BY <5>1, <5>2, <2>3
      <4> QED BY <4>1, <4>2 DEF IsChild
    <3> QED BY <3>1, <2>1, <2>3
  <2> QED BY <2>2, <2>3
<1> QED BY <1>14, <1>15

\* What ext2_get_block() has found when it is at place p.
FoundT == [ok : BOOLEAN, D : DiskT, m : MapT, b : 0..NBlocks]
Got(U, i, Z, D, M, r, p) ==
  /\ r \in FoundT
  /\ Grow(U, i, Z, D, M, r.D, [M EXCEPT ![i] = r.m])
  /\ r.b = BlockAt(r.D, r.m, p)
  /\ r.ok <=> r.b # 0

\* A pointer of the inode that is missing is filled with a block that was free.
LEMMA FillGot ==
  ASSUME NEW U \in SUBSET EInos, NEW i \in U, NEW Z, NEW D \in DiskT, NEW M \in [EInos -> MapT], Apart(D, U, M),
         NEW x \in 0..Dind, <<x, 0, 0>> \in Z, M[i][x] = 0,
         NEW a, a.ok = TRUE, Takes(D, a.D, a.b), a.D.ptr = [D.ptr EXCEPT ![a.b] = NoPtrs]
  PROVE  Got(U, i, Z, D, M, FillTop(M[i], x, a), <<x, 0, 0>>)
<1> DEFINE p == <<x, 0, 0>>
           m == M[i]
           r == FillTop(m, x, a)
           m2 == [m EXCEPT ![x] = a.b]
           M2 == [M EXCEPT ![i] = m2]
<1> SUFFICES Got(U, i, Z, D, M, r, p)
  OBVIOUS
<1>1. i \in EInos /\ m \in MapT /\ p \in MapPlaces /\ m[x] = 0
  BY PlaceIs DEF MapT
<1>2. \A E, f : BlockAt(E, f, p) = f[x]
  BY DEF BlockAt, ext2_ind_get
<1>3. r = [ok |-> TRUE, D |-> a.D, m |-> m2, b |-> a.b]
  BY DEF FillTop
<1>4. a.b \in EBlks /\ a.b \in 0..NBlocks /\ a.b # 0 /\ a.D \in DiskT
  BY DEF Takes, EBlks
<1>5. m2 \in MapT /\ m2[x] = a.b /\ \A y \in 0..Dind : m[y] \in {0, m2[y]}
  BY <1>4, <1>1 DEF MapT
<1>6. M2 \in [EInos -> MapT] /\ M2[i] = m2 /\ \A j \in EInos \ {i} : M2[j] = M[j]
  <2> HIDE DEF m2
  <2> QED BY <1>5, <1>1
<1>7. Plants(U, i, p, a.b, D, M, a.D, M2)
  <2> HIDE DEF M2
  <2>1. M2 = [M EXCEPT ![i] = [M[i] EXCEPT ![x] = a.b]]
    BY DEF M2
  <2>2. PutTop(D, M, a.D, M2, i, x, a.b)
    BY <2>1 DEF PutTop
  <2> HIDE DEF m, r
  <2> QED BY <2>2, PlantTop
<1>8. BlockAt(D, M[i], p) = 0
  BY <1>2
<1> HIDE DEF m2, M2
<1>9. Grow(U, i, Z, D, M, a.D, M2)
  BY <1>1, <1>4, <1>5, <1>6, <1>7, <1>8, GrowOne
<1> HIDE DEF r, p
<1>10. r \in FoundT /\ r.b = BlockAt(r.D, r.m, p) /\ r.ok /\ r.b # 0
  BY <1>2, <1>3, <1>4, <1>5 DEF FoundT
<1>11. r.D = a.D /\ [M EXCEPT ![i] = r.m] = M2
  BY <1>3 DEF M2
<1> QED BY <1>9, <1>10, <1>11 DEF Got

\* A pointer of the inode is found, or filled with a new block.
LEMMA TopGot ==
  ASSUME NEW U \in SUBSET EInos, NEW i \in U, NEW Z, NEW D \in DiskT, NEW M \in [EInos -> MapT], Apart(D, U, M),
         NEW x \in 0..Dind, <<x, 0, 0>> \in Z
  PROVE  Got(U, i, Z, D, M, TopPtr(D, M[i], x), <<x, 0, 0>>)
<1> DEFINE p == <<x, 0, 0>>
           m == M[i]
           a == ext2_alloc_zero_block(D)
           r == TopPtr(D, m, x)
<1> SUFFICES Got(U, i, Z, D, M, r, p)
  OBVIOUS
<1>1. i \in EInos /\ m \in MapT /\ p \in MapPlaces /\ m[x] \in 0..NBlocks
  BY PlaceIs DEF MapT
<1>2. \A E, f : BlockAt(E, f, p) = f[x]
  BY DEF BlockAt, ext2_ind_get
<1>3. [M EXCEPT ![i] = m] = M
  OBVIOUS
<1>4. Grow(U, i, Z, D, M, D, M)
  BY GrowNot
<1>5. CASE m[x] # 0
  <2>1. r = [ok |-> TRUE, D |-> D, m |-> m, b |-> m[x]]
    BY <1>5 DEF TopPtr
  <2> HIDE DEF r, m, p
  <2>2. r \in FoundT /\ r.D = D /\ r.m = m /\ r.b = m[x] /\ r.ok
    BY <2>1, <1>1 DEF FoundT
  <2> QED BY <2>2, <1>2, <1>3, <1>4, <1>5 DEF Got
<1>6. CASE m[x] = 0 /\ ~a.ok
  <2>1. a.D = D /\ a.b = 0
    BY <1>6, AllocIs
  <2>2. [m EXCEPT ![x] = 0] = m
    BY <1>1, <1>6 DEF MapT
  <2>3. r = [ok |-> FALSE, D |-> D, m |-> m, b |-> 0]
    <3>1. r = [ok |-> a.ok, D |-> a.D, m |-> [m EXCEPT ![x] = a.b], b |-> a.b]
      BY <1>6 DEF TopPtr, FillTop
    <3>2. a.ok = FALSE
      BY <1>6, AllocIs
    <3> HIDE DEF r, a, m
    <3> QED BY <3>1, <3>2, <2>1, <2>2
  <2> HIDE DEF r, m, p
  <2>4. 0 \in 0..NBlocks
    BY Sizes
  <2>5. r \in FoundT /\ r.D = D /\ r.m = m /\ r.b = 0 /\ ~r.ok
    BY <2>3, <2>4, <1>1 DEF FoundT
  <2> QED BY <2>5, <1>2, <1>3, <1>4, <1>6 DEF Got
<1>7. CASE m[x] = 0 /\ a.ok
  <2>1. Takes(D, a.D, a.b) /\ a.D.ptr = [D.ptr EXCEPT ![a.b] = NoPtrs] /\ a.ok = TRUE
    BY <1>7, AllocIs
  <2>2. r = FillTop(M[i], x, a)
    BY <1>7 DEF TopPtr
  <2>3. M[i][x] = 0
    BY <1>7
  <2> HIDE DEF a, r, m
  <2> QED BY <2>1, <2>2, <2>3, FillGot
<1>8. a.ok \in BOOLEAN
  BY AllocIs
<1> QED BY <1>5, <1>6, <1>7, <1>8

\* A pointer of an indirect block is found, or filled with a new block.
LEMMA SubGot ==
  ASSUME NEW U \in SUBSET EInos, NEW i \in U, NEW Z, NEW D \in DiskT, NEW M \in [EInos -> MapT], Apart(D, U, M),
         NEW r, NEW p \in MapPlaces, Got(U, i, Z, D, M, r, p),
         NEW k \in 1..Ptrs, NEW p2 \in Z, IsChild(p, k, p2)
  PROVE  Got(U, i, Z, D, M, SubPtr(r, k), p2)
<1> DEFINE s == SubPtr(r, k)
           a == ext2_alloc_zero_block(r.D)
           N == [M EXCEPT ![i] = r.m]
<1>1. i \in EInos /\ r.D \in DiskT /\ r.m \in MapT /\ r.b \in 0..NBlocks /\ r.ok \in BOOLEAN
  BY DEF Got, FoundT
<1>2. p2 \in MapPlaces /\ \A E, f : BlockAt(E, f, p2) = ext2_ind_get(E, BlockAt(E, f, p), k)
  BY AtChild
<1>3. r.b = BlockAt(r.D, r.m, p) /\ (r.ok <=> r.b # 0) /\ Grow(U, i, Z, D, M, r.D, N)
  BY DEF Got
<1>4. N[i] = r.m /\ N \in [EInos -> MapT] /\ Apart(r.D, U, N)
  BY <1>1, <1>3 DEF Grow
<1>5. CASE ~r.ok
  <2>1. s = r
    BY <1>5 DEF SubPtr
  <2>2. BlockAt(r.D, r.m, p2) = 0
    BY <1>2, <1>3, <1>5, IndZero
  <2> QED BY <2>1, <2>2, <1>3, <1>5 DEF Got
<1> DEFINE q == r.D.ptr[r.b][k]
<1>6. ASSUME r.ok PROVE r.b \in EBlks /\ BlockAt(r.D, r.m, p2) = q /\ q \in 0..NBlocks
  <2>1. r.b \in EBlks
    BY <1>6, <1>1, <1>3 DEF EBlks
  <2>2. BlockAt(r.D, r.m, p2) = q
    BY <1>6, <1>2, <1>3 DEF ext2_ind_get
  <2> QED BY <2>1, <2>2, <1>1, <1>2, AtType
<1>7. CASE r.ok /\ q # 0
  <2>1. s = [r EXCEPT !.b = q]
    BY <1>3, <1>7 DEF SubPtr
  <2> HIDE DEF q, s
  <2>2. s \in FoundT /\ s.D = r.D /\ s.m = r.m /\ s.b = q /\ s.ok = r.ok
    BY <2>1, <1>6, <1>7 DEF Got, FoundT
  <2> QED BY <2>2, <1>3, <1>6, <1>7 DEF Got, s
<1>8. CASE r.ok /\ q = 0 /\ ~a.ok
  <2>1. s = [r EXCEPT !.ok = FALSE, !.b = 0]
    BY <1>3, <1>8 DEF SubPtr
  <2> HIDE DEF q, s, a
  <2>2. s \in FoundT /\ s.D = r.D /\ s.m = r.m /\ s.b = 0 /\ s.ok = FALSE
    <3>1. r \in FoundT /\ 0 \in 0..NBlocks
      BY Sizes DEF Got
    <3> QED BY <2>1, <3>1 DEF FoundT
  <2> QED BY <2>2, <1>3, <1>6, <1>8 DEF Got, s
<1>9. CASE r.ok /\ q = 0 /\ a.ok
  <2>1. Takes(r.D, a.D, a.b) /\ a.D.ptr = [r.D.ptr EXCEPT ![a.b] = NoPtrs]
    BY <1>1, <1>9, AllocIs
  <2> DEFINE E == [a.D EXCEPT !.ptr[r.b][k] = a.b]
  <2>2. s = [r EXCEPT !.D = E, !.b = a.b]
    BY <1>3, <1>9 DEF SubPtr
  <2>3. a.b \in EBlks /\ a.b \in 0..NBlocks /\ a.b # 0 /\ a.D \in DiskT
    BY <2>1 DEF Takes, EBlks
  <2> HIDE DEF a, q
  <2>4. E.ptr = [a.D.ptr EXCEPT ![r.b][k] = a.b] /\ E.used = a.D.used /\ E.dat = a.D.dat /\ E.dir = a.D.dir
        /\ E \in DiskT
    <3>1. [a.D.ptr EXCEPT ![r.b][k] = a.b] \in [EBlks -> [1..Ptrs -> 0..NBlocks]]
      <4>1. a.D.ptr \in [EBlks -> [1..Ptrs -> 0..NBlocks]]
        BY <2>3 DEF DiskT
      <4>2. a.D.ptr[r.b] \in [1..Ptrs -> 0..NBlocks]
        BY <4>1, <1>6, <1>9
      <4>3. [a.D.ptr[r.b] EXCEPT ![k] = a.b] \in [1..Ptrs -> 0..NBlocks]
        BY <4>2, <2>3
      <4> QED BY <4>1, <4>3
    <3>2. E = [a.D EXCEPT !.ptr = [a.D.ptr EXCEPT ![r.b][k] = a.b]]
      BY <2>3 DEF DiskT
    <3> QED BY <3>1, <3>2, <2>3 DEF DiskT
  <2> HIDE DEF E
  <2>5. Takes(r.D, E, a.b)
    BY <2>1, <2>4 DEF Takes
  <2>6. BlockAt(r.D, N[i], p) = r.b /\ r.b # 0 /\ BlockAt(r.D, N[i], p2) = 0
    BY <1>3, <1>4, <1>6, <1>9
  <2>7. E.ptr = [[r.D.ptr EXCEPT ![a.b] = NoPtrs] EXCEPT ![BlockAt(r.D, N[i], p)][k] = a.b]
    BY <2>1, <2>4, <2>6
  <2> HIDE DEF N
  <2>8. Plants(U, i, p2, a.b, r.D, N, E, N)
    <3>1. r.D \in DiskT /\ N \in [EInos -> MapT] /\ Apart(r.D, U, N)
      BY <1>1, <1>4
    <3>2. BlockAt(r.D, N[i], p) # 0 /\ BlockAt(r.D, N[i], p2) = 0
      BY <2>6
    <3> HIDE DEF s
    <3>3. PutSub(r.D, E, BlockAt(r.D, N[i], p), k, a.b)
      BY <2>5, <2>7 DEF PutSub
    <3> QED BY <3>1, <3>2, <3>3, PlantSub
  <2>9. Grow(U, i, Z, r.D, N, E, N)
    <3>1. p2 \in MapPlaces \cap Z
      BY <1>2
    <3> QED BY <3>1, <2>4, <2>5, <2>6, <2>8, <1>1, <1>4, GrowOne
  <2>10. Grow(U, i, Z, D, M, E, N)
    BY <2>9, <1>3, GrowTwice
  <2>11. s \in FoundT /\ s.D = E /\ s.m = r.m /\ s.b = a.b /\ s.ok = r.ok
    <3> HIDE DEF s
    <3> QED BY <2>2, <2>3, <2>4 DEF Got, FoundT
  <2>12. BlockAt(E, r.m, p2) = a.b
    BY <2>8, <1>2, <1>4 DEF Plants
  <2> HIDE DEF s
  <2> QED BY <2>3, <2>10, <2>11, <2>12, <1>9 DEF Got, N, s
<1>10. a.ok \in BOOLEAN
  BY <1>1, AllocIs
<1> QED BY <1>1, <1>5, <1>7, <1>8, <1>9, <1>10

-----------------------------------------------------------------------------
(* Logical blocks                                                           *)

\* The logical blocks a map can have, the place of one, and the places that
\* lead to it.
Mappable(l) == l < NDirect + Ptrs \/ l - NDirect - Ptrs < Ptrs * Ptrs
PlaceOf(l) ==
  IF l < NDirect THEN <<l, 0, 0>>
  ELSE IF l < NDirect + Ptrs THEN <<Ind, l - NDirect + 1, 0>>
  ELSE <<Dind, ((l - NDirect - Ptrs) \div Ptrs) + 1, ((l - NDirect - Ptrs) % Ptrs) + 1>>
PathTo(l) == {<<PlaceOf(l)[1], 0, 0>>, <<PlaceOf(l)[1], PlaceOf(l)[2], 0>>, PlaceOf(l)}

\* The two indices of a double indirect block are in range.
LEMMA DoubleIndex ==
  ASSUME NEW k \in Nat, k < Ptrs * Ptrs
  PROVE  (k \div Ptrs) + 1 \in 1..Ptrs /\ (k % Ptrs) + 1 \in 1..Ptrs
<1> DEFINE d == k \div Ptrs
           r == k % Ptrs
<1>1. Ptrs \in Nat \ {0}
  BY Sizes
<1>2. d \in Int /\ r \in 0..Ptrs - 1 /\ k = Ptrs * d + r
  BY <1>1, DivMod
<1> HIDE DEF d, r
<1>3. d < Ptrs
  <2> SUFFICES ASSUME d >= Ptrs PROVE FALSE
    BY <1>1, <1>2
  <2>1. Ptrs * d >= Ptrs * Ptrs
    BY <1>1, <1>2
  <2> QED BY <2>1, <1>1, <1>2
<1>4. d >= 0
  <2> SUFFICES ASSUME d <= -1 PROVE FALSE
    BY <1>2
  <2>1. Ptrs * d <= Ptrs * (-1)
    BY <1>1, <1>2
  <2> QED BY <2>1, <1>1, <1>2
<1>5. d + 1 \in 1..Ptrs /\ r + 1 \in 1..Ptrs
  BY <1>1, <1>2, <1>3, <1>4
<1> QED BY <1>5 DEF d, r

\* A logical block that can be mapped has its place in the map.
LEMMA PlaceOfIs ==
  ASSUME NEW l \in Nat, Mappable(l)
  PROVE  PlaceOf(l) \in MapPlaces /\ PathTo(l) \subseteq MapPlaces
<1>1. PlaceOf(l) \in MapPlaces
  <2>1. CASE l < NDirect
    <3>1. l \in 0..Dind
      BY <2>1, Sizes
    <3> QED BY <2>1, <3>1, PlaceIs DEF PlaceOf
  <2>2. CASE ~(l < NDirect) /\ l < NDirect + Ptrs
    <3>1. l - NDirect + 1 \in 1..Ptrs
      BY <2>2, Sizes
    <3> QED BY <2>2, <3>1, PlaceIs DEF PlaceOf
  <2>3. CASE ~(l < NDirect + Ptrs)
    <3> DEFINE k == l - NDirect - Ptrs
    <3>1. k \in Nat /\ k < Ptrs * Ptrs /\ ~(l < NDirect)
      BY <2>3, Sizes DEF Mappable
    <3> HIDE DEF k
    <3>2. (k \div Ptrs) + 1 \in 1..Ptrs /\ (k % Ptrs) + 1 \in 1..Ptrs
      BY <3>1, DoubleIndex
    <3>3. PlaceOf(l) = <<Dind, (k \div Ptrs) + 1, (k % Ptrs) + 1>>
      BY <2>3, <3>1 DEF PlaceOf, k
    <3> QED BY <3>2, <3>3, PlaceIs
  <2> QED BY <2>1, <2>2, <2>3
<1> QED BY <1>1, PlaceParts DEF PathTo

\* Different logical blocks have different places, none on the way to another.
LEMMA PlacesDiffer ==
  ASSUME NEW l \in Nat, NEW h \in Nat, Mappable(l), Mappable(h), l # h
  PROVE  PlaceOf(h) \notin PathTo(l)
<1> DEFINE k == l - NDirect - Ptrs
           g == h - NDirect - Ptrs
<1>1. CASE h < NDirect
  <2>1. PlaceOf(h) = <<h, 0, 0>>
    BY <1>1 DEF PlaceOf
  <2>2. h # Ind /\ h # Dind
    BY <1>1, Sizes
  <2> QED BY <2>1, <2>2 DEF PathTo, PlaceOf
<1>2. CASE ~(h < NDirect) /\ h < NDirect + Ptrs
  <2>1. PlaceOf(h) = <<Ind, h - NDirect + 1, 0>>
    BY <1>2 DEF PlaceOf
  <2>2. h - NDirect + 1 # 0 /\ Ind # Dind /\ h - NDirect + 1 # l - NDirect + 1
    BY <1>2, Sizes
  <2>3. l < NDirect => l # Ind
    BY Sizes
  <2> QED BY <2>1, <2>2, <2>3 DEF PathTo, PlaceOf
<1>3. CASE ~(h < NDirect + Ptrs)
  <2>1. g \in Nat /\ g < Ptrs * Ptrs /\ ~(h < NDirect)
    BY <1>3, Sizes DEF Mappable
  <2>2. PlaceOf(h) = <<Dind, (g \div Ptrs) + 1, (g % Ptrs) + 1>>
    BY <1>3, <2>1 DEF PlaceOf
  <2>3. (g % Ptrs) + 1 # 0 /\ Ind # Dind
    <3> HIDE DEF g
    <3> QED BY <2>1, DoubleIndex, Sizes
  <2>4. CASE l < NDirect + Ptrs
    <3>1. PlaceOf(l)[3] = 0
      BY <2>4 DEF PlaceOf
    <3>2. \A q \in PathTo(l) : q[3] = 0
      BY <3>1 DEF PathTo
    <3>3. PlaceOf(h)[3] = (g % Ptrs) + 1
      BY <2>2
    <3> HIDE DEF g
    <3> QED BY <2>3, <3>2, <3>3
  <2>5. CASE ~(l < NDirect + Ptrs)
    <3>1. k \in Nat /\ k < Ptrs * Ptrs /\ ~(l < NDirect) /\ k # g
      BY <2>5, Sizes DEF Mappable
    <3>2. PlaceOf(l) = <<Dind, (k \div Ptrs) + 1, (k % Ptrs) + 1>>
      BY <2>5, <3>1 DEF PlaceOf
    <3> HIDE DEF g, k
    <3>3. ~((k \div Ptrs) + 1 = (g \div Ptrs) + 1 /\ (k % Ptrs) + 1 = (g % Ptrs) + 1)
      <4>1. k \div Ptrs \in Int /\ k % Ptrs \in 0..Ptrs - 1 /\ k = Ptrs * (k \div Ptrs) + (k % Ptrs)
        <5>1. k \in Int /\ Ptrs \in Nat \ {0}
          BY <3>1, Sizes
        <5> QED BY <5>1, DivMod
      <4>2. g \div Ptrs \in Int /\ g % Ptrs \in 0..Ptrs - 1 /\ g = Ptrs * (g \div Ptrs) + (g % Ptrs)
        <5>1. g \in Int /\ Ptrs \in Nat \ {0}
          BY <2>1, Sizes
        <5> QED BY <5>1, DivMod
      <4>3. ASSUME (k \div Ptrs) + 1 = (g \div Ptrs) + 1, (k % Ptrs) + 1 = (g % Ptrs) + 1 PROVE FALSE
        <5>1. k \div Ptrs = g \div Ptrs /\ k % Ptrs = g % Ptrs
          BY <4>1, <4>2, <4>3
        <5> QED BY <5>1, <4>1, <4>2, <3>1
      <4> QED BY <4>3
    <3>4. PathTo(l) = {<<Dind, 0, 0>>, <<Dind, (k \div Ptrs) + 1, 0>>, <<Dind, (k \div Ptrs) + 1, (k % Ptrs) + 1>>}
      BY <3>2 DEF PathTo
    <3> QED BY <2>2, <2>3, <3>3, <3>4
  <2> QED BY <2>4, <2>5
<1> QED BY <1>1, <1>2, <1>3

\* The block that a query finds.
LEMMA PhysIs ==
  ASSUME NEW D \in DiskT, NEW m \in MapT, NEW l \in Nat
  PROVE  Phys(D, m, l) = IF Mappable(l) THEN BlockAt(D, m, PlaceOf(l)) ELSE 0
<1> DEFINE k == l - NDirect - Ptrs
<1>3. k \in Int
  BY Sizes
<1>4. CASE l < NDirect
  <2>1. k < 0 /\ Mappable(l)
    BY <1>4, Sizes DEF Mappable
  <2>2. Phys(D, m, l) = m[l]
    <3>1. ~(l >= NDirect /\ k < 0) /\ ~(k >= 0 /\ k < Ptrs * Ptrs)
      BY <1>4, <2>1, Sizes
    <3> QED BY <1>4, <3>1 DEF Phys
  <2>3. PlaceOf(l) = <<l, 0, 0>>
    BY <1>4 DEF PlaceOf
  <2>4. BlockAt(D, m, PlaceOf(l)) = m[l]
    BY <2>3 DEF BlockAt, ext2_ind_get
  <2> QED BY <2>1, <2>2, <2>4
<1>5. CASE ~(l < NDirect) /\ k < 0
  <2>1. Mappable(l) /\ l < NDirect + Ptrs
    BY <1>5, Sizes DEF Mappable
  <2>2. Phys(D, m, l) = ext2_ind_get(D, m[Ind], l - NDirect + 1)
    <3>1. l >= NDirect /\ ~(k >= 0 /\ k < Ptrs * Ptrs)
      BY <1>5, <1>3, Sizes
    <3> QED BY <1>5, <3>1 DEF Phys
  <2>3. PlaceOf(l) = <<Ind, l - NDirect + 1, 0>>
    BY <1>5, <2>1 DEF PlaceOf
  <2>4. BlockAt(D, m, PlaceOf(l)) = ext2_ind_get(D, m[Ind], l - NDirect + 1)
    BY <2>3 DEF BlockAt, ext2_ind_get
  <2> QED BY <2>1, <2>2, <2>4
<1>6. CASE k >= 0 /\ k < Ptrs * Ptrs
  <2> DEFINE j == (k \div Ptrs) + 1
             n == (k % Ptrs) + 1
  <2>1. ~(l < NDirect) /\ ~(l < NDirect + Ptrs) /\ Mappable(l)
    BY <1>3, <1>6, Sizes DEF Mappable
  <2>2. Phys(D, m, l) = ext2_ind_get(D, ext2_ind_get(D, m[Dind], j), n)
    <3>1. ~(l >= NDirect /\ k < 0)
      BY <1>6, <1>3, Sizes
    <3> QED BY <1>6, <2>1, <3>1 DEF Phys
  <2>3. PlaceOf(l) = <<Dind, j, n>>
    BY <2>1 DEF PlaceOf
  <2> HIDE DEF j, n
  <2>4. BlockAt(D, m, PlaceOf(l)) = ext2_ind_get(D, ext2_ind_get(D, m[Dind], j), n)
    BY <2>3 DEF BlockAt
  <2> QED BY <2>1, <2>2, <2>4
<1>7. CASE ~(l < NDirect) /\ ~(k < 0) /\ ~(k >= 0 /\ k < Ptrs * Ptrs)
  <2>1. ~Mappable(l)
    BY <1>7, <1>3, Sizes DEF Mappable
  <2>2. Phys(D, m, l) = 0
    <3>1. ~(l >= NDirect /\ k < 0)
      BY <1>7
    <3> QED BY <1>7, <3>1 DEF Phys
  <2> QED BY <2>1, <2>2
<1> QED BY <1>4, <1>5, <1>6, <1>7

\* An allocating call grows the map on the way to the logical block.
LEMMA GetGot ==
  ASSUME NEW U \in SUBSET EInos, NEW i \in U, NEW D \in DiskT, NEW M \in [EInos -> MapT], Apart(D, U, M),
         NEW l \in Nat
  PROVE  LET g == ext2_get_block(D, M[i], l) IN
         /\ Mappable(l) => Got(U, i, PathTo(l), D, M, g, PlaceOf(l))
         /\ ~Mappable(l) => g = [ok |-> FALSE, D |-> D, m |-> M[i], b |-> 0]
<1> DEFINE k == l - NDirect - Ptrs
           g == ext2_get_block(D, M[i], l)
           Z == PathTo(l)
<1>3. k \in Int
  BY Sizes
<1>4. CASE l < NDirect
  <2>1. l \in 0..Dind /\ k < 0 /\ Mappable(l)
    BY <1>4, Sizes DEF Mappable
  <2>2. g = TopPtr(D, M[i], l)
    <3>1. ~(l >= NDirect /\ k < 0) /\ ~(k >= 0 /\ k < Ptrs * Ptrs)
      BY <1>4, <2>1, Sizes
    <3> QED BY <1>4, <3>1 DEF ext2_get_block
  <2>3. PlaceOf(l) = <<l, 0, 0>> /\ <<l, 0, 0>> \in Z
    BY <1>4 DEF PlaceOf, PathTo
  <2> HIDE DEF Z, g
  <2> QED BY <2>1, <2>2, <2>3, TopGot DEF Z, g
<1>5. CASE ~(l < NDirect) /\ k < 0
  <2> DEFINE j == l - NDirect + 1
             r == TopPtr(D, M[i], Ind)
  <2>1. j \in 1..Ptrs /\ Mappable(l) /\ l < NDirect + Ptrs
    BY <1>5, Sizes DEF Mappable
  <2>2. g = SubPtr(r, j)
    <3>1. l >= NDirect /\ ~(k >= 0 /\ k < Ptrs * Ptrs)
      BY <1>5, <1>3, Sizes
    <3> QED BY <1>5, <3>1 DEF ext2_get_block
  <2>3. PlaceOf(l) = <<Ind, j, 0>>
    BY <1>5, <2>1 DEF PlaceOf
  <2>4. <<Ind, 0, 0>> \in Z /\ <<Ind, j, 0>> \in Z
    BY <2>3 DEF PathTo
  <2> HIDE DEF Z, g, j, r
  <2>5. Got(U, i, Z, D, M, r, <<Ind, 0, 0>>)
    BY <2>4, Sizes, TopGot DEF r
  <2>6. IsChild(<<Ind, 0, 0>>, j, <<Ind, j, 0>>) /\ <<Ind, 0, 0>> \in MapPlaces
    BY PlaceIs, Sizes DEF IsChild
  <2>7. Got(U, i, Z, D, M, g, <<Ind, j, 0>>)
    BY <2>1, <2>2, <2>4, <2>5, <2>6, SubGot
  <2> QED BY <2>1, <2>3, <2>7 DEF Z, g
<1>6. CASE k >= 0 /\ k < Ptrs * Ptrs
  <2> DEFINE j == (k \div Ptrs) + 1
             n == (k % Ptrs) + 1
             r == TopPtr(D, M[i], Dind)
             s == SubPtr(r, j)
  <2>1. k \in Nat /\ ~(l < NDirect) /\ ~(l < NDirect + Ptrs) /\ Mappable(l)
    BY <1>3, <1>6, Sizes DEF Mappable
  <2>2. j \in 1..Ptrs /\ n \in 1..Ptrs
    <3> HIDE DEF k
    <3> QED BY <2>1, <1>6, DoubleIndex
  <2>3. g = SubPtr(s, n)
    <3>1. ~(l >= NDirect /\ k < 0)
      BY <1>6, <1>3, Sizes
    <3> QED BY <1>6, <2>1, <3>1 DEF ext2_get_block
  <2>4. PlaceOf(l) = <<Dind, j, n>>
    BY <2>1 DEF PlaceOf
  <2> HIDE DEF j, n
  <2>5. <<Dind, 0, 0>> \in Z /\ <<Dind, j, 0>> \in Z /\ <<Dind, j, n>> \in Z
    BY <2>4 DEF PathTo
  <2> HIDE DEF Z, g, r, s
  <2>6. Got(U, i, Z, D, M, r, <<Dind, 0, 0>>)
    BY <2>5, Sizes, TopGot DEF r
  <2>7. IsChild(<<Dind, 0, 0>>, j, <<Dind, j, 0>>) /\ <<Dind, 0, 0>> \in MapPlaces
    BY PlaceIs, Sizes DEF IsChild
  <2>8. Got(U, i, Z, D, M, s, <<Dind, j, 0>>)
    BY <2>2, <2>5, <2>6, <2>7, SubGot DEF s
  <2>9. IsChild(<<Dind, j, 0>>, n, <<Dind, j, n>>) /\ <<Dind, j, 0>> \in MapPlaces
    <3>1. j # 0
      BY <2>2, Sizes
    <3> QED BY <3>1, <2>2, PlaceIs, Sizes DEF IsChild
  <2>10. Got(U, i, Z, D, M, g, <<Dind, j, n>>)
    BY <2>2, <2>3, <2>5, <2>8, <2>9, SubGot
  <2> QED BY <2>1, <2>4, <2>10 DEF Z, g
<1>7. CASE ~(l < NDirect) /\ ~(k < 0) /\ ~(k >= 0 /\ k < Ptrs * Ptrs)
  <2>1. ~Mappable(l)
    BY <1>7, <1>3, Sizes DEF Mappable
  <2>2. g = [ok |-> FALSE, D |-> D, m |-> M[i], b |-> 0]
    <3>1. ~(l >= NDirect /\ k < 0)
      BY <1>7
    <3> QED BY <1>7, <3>1 DEF ext2_get_block
  <2> QED BY <2>1, <2>2
<1> QED BY <1>4, <1>5, <1>6, <1>7

-----------------------------------------------------------------------------
(* Directory blocks                                                         *)

\* A directory block is a function from offsets to entries.
LEMMA DirTIs ==
  ASSUME NEW s \in DirT
  PROVE  s \in [DOMAIN s -> EntryT] /\ DOMAIN s \subseteq Nat
BY DEF DirT

\* Every such function is a directory block.
LEMMA IsDirT ==
  ASSUME NEW S \in SUBSET Nat, NEW s \in [S -> EntryT]
  PROVE  s \in DirT /\ DOMAIN s = S
BY DEF DirT

\* What is known of a record of a chain.
LEMMA Record ==
  ASSUME NEW s \in DirT, Tiled(s), NEW o \in DOMAIN s
  PROVE  /\ o \in 0..BlockSpace - 1 /\ s[o] \in EntryT /\ s[o].rec \in Nat /\ RealLen(s[o]) \in Nat
         /\ RealLen(s[o]) >= 2 /\ s[o].rec >= RealLen(s[o]) /\ o + s[o].rec <= BlockSpace
         /\ o + s[o].rec \in DOMAIN s \cup {BlockSpace}
         /\ \A x \in DOMAIN s : o < x => o + s[o].rec <= x
<1>1. s[o] \in EntryT
  BY DirTIs
<1>2. s[o].rec \in Int /\ s[o].len \in Nat
  BY <1>1 DEF EntryT
<1>3. RealLen(s[o]) \in Nat /\ RealLen(s[o]) >= 2
  BY <1>2 DEF RealLen
<1>4. /\ o \in 0..BlockSpace - 1 /\ s[o].rec >= RealLen(s[o])
      /\ o + s[o].rec \in DOMAIN s \cup {BlockSpace} /\ DOMAIN s \subseteq 0..BlockSpace - 1
      /\ \A x \in DOMAIN s : o < x => o + s[o].rec <= x
  BY DEF Tiled
<1>5. BlockSpace \in Nat
  BY Ext2Assumption
<1> QED BY <1>1, <1>2, <1>3, <1>4, <1>5

\* To show a chain.
LEMMA IsTiled ==
  ASSUME NEW S \in SUBSET Nat, NEW s \in [S -> EntryT], 0 \in S, S \subseteq 0..BlockSpace - 1,
         \A o \in S : s[o].rec >= RealLen(s[o]),
         \A o \in S : o + s[o].rec \in S \cup {BlockSpace},
         \A o \in S : \A x \in S : o < x => o + s[o].rec <= x
  PROVE  Tiled(s)
<1>1. DOMAIN s = S
  OBVIOUS
<1> QED BY <1>1 DEF Tiled

\* Every name fits an empty block.
LEMMA NeedIs ==
  ASSUME NEW n \in ENames
  PROVE  NameSpace[n] \in Nat /\ Need(n) = 2 + NameSpace[n] /\ Need(n) \in Nat /\ Need(n) >= 3
         /\ Need(n) <= BlockSpace
BY Ext2Assumption DEF Need

\* A free slot takes an entry.
LEMMA SlotWhole ==
  ASSUME NEW s \in DirT, Tiled(s), NEW n \in ENames, NEW i \in EInos, NEW o \in Slots(s, n),
         s[o].rec - Need(n) < 2
  PROVE  LET r == SplitSlot(s, o, n, i) IN
         r \in DirT /\ Tiled(r) /\ Shown(r) = Shown(s) \cup {<<o, n, i>>}
<1> DEFINE S == DOMAIN s
           e == Dirent(i, s[o].rec, n, NameSpace[n])
           r == SplitSlot(s, o, n, i)
<1>1. o \in S /\ s[o].ino = 0 /\ s[o].rec >= Need(n)
  BY DEF Slots
<1>2. S \in SUBSET Nat /\ s \in [S -> EntryT] /\ S \subseteq 0..BlockSpace - 1 /\ 0 \in S
  BY DirTIs DEF Tiled
<1>3. e \in EntryT /\ e.ino = i /\ e.rec = s[o].rec /\ e.name = n /\ RealLen(e) = Need(n)
  <2>1. i \in 0..NInodes /\ s[o].rec \in Int
    BY <1>1, Record DEF EInos
  <2> QED BY <2>1, NeedIs DEF Dirent, EntryT, RealLen
<1>4. r = [s EXCEPT ![o] = e]
  BY DEF SplitSlot
<1> HIDE DEF e, r
<1>5. r \in [S -> EntryT] /\ r[o] = e /\ \A x \in S \ {o} : r[x] = s[x]
  BY <1>1, <1>2, <1>3, <1>4
<1>6. \A x \in S : r[x].rec = s[x].rec
  BY <1>3, <1>5
<1>7. \A x \in S : s[x].rec >= RealLen(s[x]) /\ x + s[x].rec \in S \cup {BlockSpace}
                    /\ \A y \in S : x < y => x + s[x].rec <= y
  BY DEF Tiled
<1>8. \A x \in S : r[x].rec >= RealLen(r[x])
  BY <1>1, <1>3, <1>5, <1>7
<1>9. Tiled(r) /\ r \in DirT /\ DOMAIN r = S
  <2> HIDE DEF S
  <2>1. \A x \in S : x + r[x].rec \in S \cup {BlockSpace}
    BY <1>6, <1>7
  <2>2. \A x \in S : \A y \in S : x < y => x + r[x].rec <= y
    BY <1>6, <1>7
  <2> QED BY <2>1, <2>2, <1>2, <1>5, <1>8, IsTiled, IsDirT
<1>10. i # 0
  BY DEF EInos
<1>11. Shown(r) = Shown(s) \cup {<<o, n, i>>}
  <2>1. \A t : t \in Shown(r) <=> \E x \in S : r[x].ino # 0 /\ t = <<x, r[x].name, r[x].ino>>
    BY <1>9 DEF Shown
  <2>2. \A t : t \in Shown(s) <=> \E x \in S : s[x].ino # 0 /\ t = <<x, s[x].name, s[x].ino>>
    BY DEF Shown
  <2> HIDE DEF S
  <2>3. ASSUME NEW t PROVE t \in Shown(r) <=> t \in Shown(s) \/ t = <<o, n, i>>
    BY <2>1, <2>2, <1>1, <1>3, <1>5, <1>10
  <2> QED BY <2>3
<1> QED BY <1>9, <1>11 DEF r

\* A free slot that is larger is split: the rest stays a free slot of the chain.
LEMMA SlotSplit ==
  ASSUME NEW s \in DirT, Tiled(s), NEW n \in ENames, NEW i \in EInos, NEW o \in Slots(s, n),
         ~(s[o].rec - Need(n) < 2)
  PROVE  LET r == SplitSlot(s, o, n, i) IN
         r \in DirT /\ Tiled(r) /\ Shown(r) = Shown(s) \cup {<<o, n, i>>}
<1> DEFINE S == DOMAIN s
           w == o + Need(n)
           rest == s[o].rec - Need(n)
           e == Dirent(i, Need(n), n, NameSpace[n])
           f == Dirent(0, rest, "", 0)
           R == S \cup {w}
           r == SplitSlot(s, o, n, i)
<1>1. o \in S /\ s[o].ino = 0 /\ s[o].rec >= Need(n)
  BY DEF Slots
<1>2. S \in SUBSET Nat /\ s \in [S -> EntryT] /\ S \subseteq 0..BlockSpace - 1 /\ 0 \in S
  BY DirTIs DEF Tiled
<1>3. Need(n) \in Nat /\ Need(n) >= 3 /\ NameSpace[n] \in Nat /\ Need(n) = 2 + NameSpace[n] /\ BlockSpace \in Nat
  BY NeedIs, Ext2Assumption
<1>4. /\ s[o].rec \in Nat /\ o \in 0..BlockSpace - 1 /\ o + s[o].rec <= BlockSpace
      /\ o + s[o].rec \in S \cup {BlockSpace} /\ \A x \in S : o < x => o + s[o].rec <= x
  BY <1>1, Record
<1>5. rest \in Nat /\ rest >= 2 /\ w \in Nat /\ o < w /\ w + rest = o + s[o].rec
  BY <1>3, <1>4
<1>6. w \notin S /\ w \in 0..BlockSpace - 1
  BY <1>3, <1>4, <1>5
<1>7. e \in EntryT /\ e.ino = i /\ e.rec = Need(n) /\ e.name = n /\ RealLen(e) = Need(n)
  <2>1. i \in 0..NInodes /\ Need(n) \in Int
    BY <1>3 DEF EInos
  <2> QED BY <2>1, <1>3 DEF Dirent, EntryT, RealLen
<1>8. f \in EntryT /\ f.ino = 0 /\ f.rec = rest /\ RealLen(f) = 2
  <2>1. 0 \in 0..NInodes /\ rest \in Int /\ 0 \in Nat /\ "" \in ENames \cup {""}
    BY <1>5, Sizes
  <2> HIDE DEF rest
  <2> QED BY <2>1 DEF Dirent, EntryT, RealLen
<1>9. r = [x \in R |-> CASE x = o -> e [] x = w -> f [] OTHER -> s[x]]
  BY DEF SplitSlot
<1> HIDE DEF e, f, r
<1>10. r \in [R -> EntryT] /\ r[o] = e /\ r[w] = f /\ \A x \in S \ {o} : r[x] = s[x]
  <2> HIDE DEF w
  <2> QED BY <1>1, <1>2, <1>5, <1>6, <1>7, <1>8, <1>9
<1>11. \A x \in S : /\ s[x].rec \in Nat /\ s[x].rec >= RealLen(s[x]) /\ x + s[x].rec \in S \cup {BlockSpace}
                    /\ \A y \in S : x < y => x + s[x].rec <= y
  BY Record
<1> HIDE DEF rest, w
<1>12. \A x \in R : r[x].rec >= RealLen(r[x])
  BY <1>3, <1>5, <1>7, <1>8, <1>10, <1>11
<1>13. \A x \in R : x + r[x].rec \in R \cup {BlockSpace}
  <2>1. o + r[o].rec = w
    BY <1>7, <1>10 DEF w
  <2>2. w + r[w].rec = o + s[o].rec
    BY <1>5, <1>8, <1>10
  <2> QED BY <2>1, <2>2, <1>4, <1>10, <1>11
<1>14. \A x \in R : \A y \in R : x < y => x + r[x].rec <= y
  <2> TAKE x \in R
  <2> TAKE y \in R
  <2>1. CASE x = o
    <3>1. x + r[x].rec = w /\ w <= o + s[o].rec
      BY <2>1, <1>3, <1>4, <1>5, <1>7, <1>10 DEF w
    <3>2. y \in Nat /\ o \in Nat
      BY <1>2, <1>4, <1>5
    <3> QED BY <3>1, <3>2, <2>1, <1>4, <1>5
  <2>2. CASE x = w
    <3>1. x + r[x].rec = o + s[o].rec
      BY <2>2, <1>5, <1>8, <1>10
    <3>2. y \in Nat /\ o \in Nat
      BY <1>2, <1>4, <1>5
    <3> QED BY <3>1, <3>2, <2>2, <1>4, <1>5
  <2>3. CASE x \in S \ {o} /\ y \in S
    BY <2>3, <1>10, <1>11
  <2>4. CASE x \in S \ {o} /\ y = w
    <3>1. x \in Nat /\ o \in Nat /\ r[x] = s[x] /\ s[x].rec \in Nat
      BY <2>4, <1>2, <1>4, <1>10, <1>11
    <3>2. x < o => x + s[x].rec <= o
      BY <2>4, <1>1, <1>11
    <3>3. o < x => o + s[o].rec <= x
      BY <2>4, <1>4
    <3>4. rest \in Nat /\ rest >= 2 /\ w \in Nat /\ o < w /\ w + rest = o + s[o].rec
      BY <1>5
    <3>5. ASSUME x < w PROVE x + s[x].rec <= w
      <4>1. ~(o < x)
        <5> SUFFICES ASSUME o < x PROVE FALSE
          OBVIOUS
        <5>1. w + rest <= x
          BY <3>3, <3>4
        <5> QED BY <5>1, <3>1, <3>4, <3>5
      <4>2. x # o
        BY <2>4
      <4>3. x < o
        BY <4>1, <4>2, <3>1
      <4> QED BY <4>3, <3>1, <3>2, <3>4
    <3> QED BY <3>1, <3>5, <2>4
  <2> QED BY <2>1, <2>2, <2>3, <2>4
<1>15. Tiled(r) /\ r \in DirT /\ DOMAIN r = R
  <2>1. R \in SUBSET Nat /\ 0 \in R /\ R \subseteq 0..BlockSpace - 1
    BY <1>2, <1>5, <1>6
  <2> HIDE DEF R
  <2> QED BY <2>1, <1>10, <1>12, <1>13, <1>14, IsTiled, IsDirT
<1>16. i # 0
  BY DEF EInos
<1>17. Shown(r) = Shown(s) \cup {<<o, n, i>>}
  <2>1. \A t : t \in Shown(r) <=> \E x \in R : r[x].ino # 0 /\ t = <<x, r[x].name, r[x].ino>>
    BY <1>15 DEF Shown
  <2>2. \A t : t \in Shown(s) <=> \E x \in S : s[x].ino # 0 /\ t = <<x, s[x].name, s[x].ino>>
    BY DEF Shown
  <2> HIDE DEF S
  <2>3. ASSUME NEW t PROVE t \in Shown(r) <=> t \in Shown(s) \/ t = <<o, n, i>>
    BY <2>1, <2>2, <1>1, <1>7, <1>8, <1>10, <1>16
  <2> QED BY <2>3
<1> QED BY <1>15, <1>17 DEF r

\* There is a last entry, and it ends where the block ends.
LEMMA LastIs ==
  ASSUME NEW s \in DirT, Tiled(s)
  PROVE  LET o == LastOff(s) IN
         o \in DOMAIN s /\ o + s[o].rec = BlockSpace /\ \A x \in DOMAIN s : x <= o
<1> DEFINE S == DOMAIN s
           T == {BlockSpace - x : x \in S}
<1>1. 0 \in S /\ S \subseteq 0..BlockSpace - 1 /\ BlockSpace \in Nat
  BY Ext2Assumption DEF Tiled
<1>2. T \subseteq Nat /\ T # {}
  BY <1>1
<1>3. PICK t \in T : \A y \in T : t <= y
  <2> HIDE DEF T
  <2> QED BY <1>2, Least
<1>4. PICK z \in S : t = BlockSpace - z
  BY <1>3
<1>5. \A x \in S : x <= z
  <2> TAKE x \in S
  <2>1. BlockSpace - x \in T
    OBVIOUS
  <2>2. BlockSpace - z <= BlockSpace - x
    BY <2>1, <1>3, <1>4
  <2> QED BY <2>2, <1>1, <1>4
<1> DEFINE o == LastOff(s)
<1>6. o \in S /\ \A x \in S : x <= o
  <2>1. \E y \in S : \A x \in S : x <= y
    BY <1>5
  <2> QED BY <2>1 DEF LastOff
<1> HIDE DEF o, S
<1>7. o + s[o].rec = BlockSpace
  <2>1. o \in Nat /\ s[o].rec \in Nat /\ s[o].rec >= 2 /\ o + s[o].rec \in S \cup {BlockSpace}
    <3>1. o \in 0..BlockSpace - 1
      BY <1>6, <1>1
    <3> QED BY <1>6, <3>1, <1>1, Record DEF S
  <2> QED BY <2>1, <1>6
<1> QED BY <1>6, <1>7 DEF o, S

\* The last entry gives its slack to a new one.
LEMMA TailSplit ==
  ASSUME NEW s \in DirT, Tiled(s), NEW n \in ENames, NEW i \in EInos, TailFits(s, n)
  PROVE  LET o == LastOff(s)
             r == SplitTail(s, o, n, i)
             w == o + RealLen(s[o])
         IN /\ r \in DirT /\ Tiled(r) /\ w \in 0..BlockSpace - 1 /\ w \notin DOMAIN s
            /\ Shown(r) = Shown(s) \cup {<<w, n, i>>}
<1> DEFINE S == DOMAIN s
           o == LastOff(s)
           real == RealLen(s[o])
           w == o + real
           tail == s[o].rec - real
           e == [s[o] EXCEPT !.rec = real]
           f == Dirent(i, tail, n, NameSpace[n])
           R == S \cup {w}
           r == SplitTail(s, o, n, i)
<1>1. o \in S /\ o + s[o].rec = BlockSpace /\ \A x \in S : x <= o
  BY LastIs
<1>2. S \in SUBSET Nat /\ s \in [S -> EntryT] /\ S \subseteq 0..BlockSpace - 1 /\ 0 \in S
  BY DirTIs DEF Tiled
<1>3. Need(n) \in Nat /\ Need(n) >= 3 /\ NameSpace[n] \in Nat /\ Need(n) = 2 + NameSpace[n] /\ BlockSpace \in Nat
  BY NeedIs, Ext2Assumption
<1>4. tail >= Need(n)
  BY DEF TailFits
<1> HIDE DEF o
<1>5. s[o] \in EntryT /\ s[o].rec \in Nat /\ real \in Nat /\ real >= 2 /\ o \in 0..BlockSpace - 1
  BY <1>1, Record
<1>6. tail \in Nat /\ w \in 0..BlockSpace - 1 /\ w \notin S /\ o < w /\ w + tail = BlockSpace /\ w \in Nat
  BY <1>1, <1>3, <1>4, <1>5
<1>7. e \in EntryT /\ e.ino = s[o].ino /\ e.name = s[o].name /\ e.rec = real /\ RealLen(e) = real
  <2>1. e \in EntryT /\ e.ino = s[o].ino /\ e.name = s[o].name /\ e.rec = real /\ e.len = s[o].len
    <3>1. \A z \in EntryT, v \in Int : LET y == [z EXCEPT !.rec = v] IN
            y \in EntryT /\ y.ino = z.ino /\ y.name = z.name /\ y.rec = v /\ y.len = z.len
      BY DEF EntryT
    <3> HIDE DEF real
    <3>2. real \in Int /\ s[o] \in EntryT
      BY <1>5
    <3> QED BY <3>1, <3>2
  <2> QED BY <2>1 DEF RealLen
<1>8. f \in EntryT /\ f.ino = i /\ f.name = n /\ f.rec = tail /\ RealLen(f) = Need(n)
  <2>1. i \in 0..NInodes /\ tail \in Int
    BY <1>6 DEF EInos
  <2> HIDE DEF tail
  <2> QED BY <2>1, <1>3 DEF Dirent, EntryT, RealLen
<1>9. r = [x \in R |-> CASE x = o -> e [] x = w -> f [] OTHER -> s[x]]
  BY DEF SplitTail
<1> HIDE DEF e, f, r
<1>10. r \in [R -> EntryT] /\ r[o] = e /\ r[w] = f /\ \A x \in S \ {o} : r[x] = s[x]
  <2> HIDE DEF w
  <2> QED BY <1>1, <1>2, <1>5, <1>6, <1>7, <1>8, <1>9
<1>11. \A x \in S : /\ s[x].rec \in Nat /\ s[x].rec >= RealLen(s[x]) /\ x + s[x].rec \in S \cup {BlockSpace}
                    /\ \A y \in S : x < y => x + s[x].rec <= y
  BY Record
<1>12. w = o + real
  OBVIOUS
<1> HIDE DEF w, real, tail
<1>13. \A x \in R : r[x].rec >= RealLen(r[x])
  BY <1>3, <1>4, <1>5, <1>6, <1>7, <1>8, <1>10, <1>11
<1>14. \A x \in R : x + r[x].rec \in R \cup {BlockSpace}
  <2>1. o + r[o].rec = w /\ w + r[w].rec = BlockSpace
    BY <1>6, <1>7, <1>8, <1>10, <1>12
  <2> QED BY <2>1, <1>10, <1>11
<1>15. \A x \in R : \A y \in R : x < y => x + r[x].rec <= y
  <2> TAKE x \in R
  <2> TAKE y \in R
  <2>0. x \in Nat /\ y \in Nat /\ o \in Nat /\ w \in Nat /\ o < w /\ x <= w /\ y <= w
    BY <1>1, <1>2, <1>5, <1>6
  <2>1. CASE x = o
    <3>1. x + r[x].rec = w
      BY <2>1, <1>7, <1>10, <1>12
    <3>2. x < y => y = w
      BY <2>0, <2>1, <1>1
    <3> QED BY <3>1, <3>2, <2>0
  <2>2. CASE x = w
    BY <2>0, <2>2
  <2>3. CASE x \in S \ {o} /\ y \in S
    BY <2>3, <1>10, <1>11
  <2>4. CASE x \in S \ {o} /\ y = w
    <3>1. x < o /\ r[x] = s[x] /\ s[x].rec \in Nat
      BY <2>4, <2>0, <1>1, <1>10, <1>11
    <3>2. x + s[x].rec <= o
      BY <3>1, <2>4, <1>1, <1>11
    <3> QED BY <3>1, <3>2, <2>0, <2>4
  <2> QED BY <2>1, <2>2, <2>3, <2>4
<1>16. Tiled(r) /\ r \in DirT /\ DOMAIN r = R
  <2>1. R \in SUBSET Nat /\ 0 \in R /\ R \subseteq 0..BlockSpace - 1
    BY <1>2, <1>6
  <2> HIDE DEF R
  <2> QED BY <2>1, <1>10, <1>13, <1>14, <1>15, IsTiled, IsDirT
<1>17. i # 0
  BY DEF EInos
<1>18. Shown(r) = Shown(s) \cup {<<w, n, i>>}
  <2>1. \A t : t \in Shown(r) <=> \E x \in R : r[x].ino # 0 /\ t = <<x, r[x].name, r[x].ino>>
    BY <1>16 DEF Shown
  <2>2. \A t : t \in Shown(s) <=> \E x \in S : s[x].ino # 0 /\ t = <<x, s[x].name, s[x].ino>>
    BY DEF Shown
  <2> HIDE DEF S
  <2>3. ASSUME NEW t PROVE t \in Shown(r) <=> t \in Shown(s) \/ t = <<w, n, i>>
    BY <2>1, <2>2, <1>1, <1>6, <1>7, <1>8, <1>10, <1>17
  <2> QED BY <2>3
<1> QED BY <1>6, <1>16, <1>18 DEF r, o, w, real, S

\* A block with room takes one more entry.
LEMMA AddIs ==
  ASSUME NEW s \in DirT, Tiled(s), NEW n \in ENames, NEW i \in EInos, Slots(s, n) # {} \/ TailFits(s, n)
  PROVE  /\ AddToBlock(s, n, i) \in DirT /\ Tiled(AddToBlock(s, n, i))
         /\ \E o \in 0..BlockSpace - 1 : /\ \A t \in Shown(s) : t[1] # o
                                         /\ Shown(AddToBlock(s, n, i)) = Shown(s) \cup {<<o, n, i>>}
<1>1. CASE Slots(s, n) # {}
  <2> DEFINE o == First(Slots(s, n))
  <2>1. Slots(s, n) \subseteq Nat
    BY DirTIs DEF Slots
  <2>2. o \in Slots(s, n)
    BY <1>1, <2>1, FirstIs
  <2> HIDE DEF o
  <2>3. o \in DOMAIN s /\ s[o].ino = 0 /\ o \in 0..BlockSpace - 1
    <3>1. o \in DOMAIN s /\ s[o].ino = 0
      BY <2>2 DEF Slots
    <3> QED BY <3>1, Record
  <2>4. \A t \in Shown(s) : t[1] # o
    BY <2>3 DEF Shown
  <2>5. AddToBlock(s, n, i) = SplitSlot(s, o, n, i)
    BY <1>1 DEF AddToBlock, o
  <2>6. SplitSlot(s, o, n, i) \in DirT /\ Tiled(SplitSlot(s, o, n, i))
        /\ Shown(SplitSlot(s, o, n, i)) = Shown(s) \cup {<<o, n, i>>}
    BY <2>2, SlotWhole, SlotSplit
  <2> QED BY <2>3, <2>4, <2>5, <2>6
<1>2. CASE Slots(s, n) = {}
  <2> DEFINE w == LastOff(s) + RealLen(s[LastOff(s)])
             r == SplitTail(s, LastOff(s), n, i)
  <2>1. TailFits(s, n) /\ AddToBlock(s, n, i) = r
    BY <1>2 DEF AddToBlock
  <2>2. r \in DirT /\ Tiled(r) /\ w \in 0..BlockSpace - 1 /\ w \notin DOMAIN s
        /\ Shown(r) = Shown(s) \cup {<<w, n, i>>}
    BY <2>1, TailSplit
  <2> HIDE DEF w, r
  <2>3. \A t \in Shown(s) : t[1] # w
    BY <2>2 DEF Shown
  <2> QED BY <2>1, <2>2, <2>3
<1> QED BY <1>1, <1>2

\* An entry is taken out.
LEMMA RemoveIs ==
  ASSUME NEW s \in DirT, Tiled(s), NEW o \in DOMAIN s, s[o].ino # 0
  PROVE  LET r == RemoveEntry(s, o) IN
         r \in DirT /\ Tiled(r) /\ Shown(r) = Shown(s) \ {<<o, s[o].name, s[o].ino>>}
<1> DEFINE S == DOMAIN s
           r == RemoveEntry(s, o)
<1>1. S \in SUBSET Nat /\ s \in [S -> EntryT] /\ S \subseteq 0..BlockSpace - 1 /\ 0 \in S /\ BlockSpace \in Nat
  BY DirTIs, Ext2Assumption DEF Tiled
<1>2. \A x \in S : /\ s[x].rec \in Nat /\ s[x].rec >= RealLen(s[x]) /\ x + s[x].rec \in S \cup {BlockSpace}
                   /\ RealLen(s[x]) \in Nat /\ \A y \in S : x < y => x + s[x].rec <= y
  BY Record
<1>3. \A t : t \in Shown(s) <=> \E x \in S : s[x].ino # 0 /\ t = <<x, s[x].name, s[x].ino>>
  BY DEF Shown
<1>4. CASE o = 0
  <2>1. r = [s EXCEPT ![0].ino = 0]
    BY <1>4 DEF RemoveEntry
  <2> HIDE DEF r
  <2>2. s[0] \in EntryT /\ 0 \in 0..NInodes
    BY <1>1, Sizes
  <2>3. [s[0] EXCEPT !.ino = 0] \in EntryT
    BY <2>2 DEF EntryT
  <2>4. r \in [S -> EntryT] /\ r[0] = [s[0] EXCEPT !.ino = 0] /\ \A x \in S \ {0} : r[x] = s[x]
    BY <2>1, <2>3, <1>1
  <2>5. r[0].ino = 0 /\ r[0].rec = s[0].rec /\ r[0].len = s[0].len
    BY <2>2, <2>4 DEF EntryT
  <2>6. \A x \in S : r[x].rec = s[x].rec /\ RealLen(r[x]) = RealLen(s[x])
    BY <2>4, <2>5 DEF RealLen
  <2>7. Tiled(r) /\ r \in DirT /\ DOMAIN r = S
    <3> HIDE DEF S
    <3>1. \A x \in S : x + r[x].rec \in S \cup {BlockSpace}
      BY <2>6, <1>2
    <3>2. \A x \in S : \A y \in S : x < y => x + r[x].rec <= y
      BY <2>6, <1>2
    <3>3. \A x \in S : r[x].rec >= RealLen(r[x])
      BY <2>6, <1>2
    <3> QED BY <3>1, <3>2, <3>3, <1>1, <2>4, IsTiled, IsDirT
  <2>8. \A t : t \in Shown(r) <=> \E x \in S : r[x].ino # 0 /\ t = <<x, r[x].name, r[x].ino>>
    BY <2>7 DEF Shown
  <2>9. ASSUME NEW t PROVE t \in Shown(r) <=> t \in Shown(s) /\ t # <<o, s[o].name, s[o].ino>>
    <3>1. \A x \in S : r[x].ino # 0 <=> s[x].ino # 0 /\ x # o
      BY <2>4, <2>5, <1>4
    <3>2. \A x \in S : x # o => r[x] = s[x]
      BY <2>4, <1>4
    <3> HIDE DEF S
    <3> QED BY <3>1, <3>2, <2>8, <1>3
  <2> QED BY <2>7, <2>9 DEF r
<1>5. CASE o # 0
  <2> DEFINE R == S \ {o}
             m(x) == [s[x] EXCEPT !.rec = @ + s[o].rec]
  <2>1. r = [x \in R |-> IF x + s[x].rec = o THEN m(x) ELSE s[x]]
    BY <1>5 DEF RemoveEntry
  <2>2. \A x \in S : /\ m(x) \in EntryT /\ m(x).ino = s[x].ino /\ m(x).name = s[x].name /\ m(x).len = s[x].len
                     /\ m(x).rec = s[x].rec + s[o].rec
    <3> TAKE x \in S
    <3>1. s[x] \in EntryT /\ s[x].rec + s[o].rec \in Int
      BY <1>1, <1>2
    <3> QED BY <3>1 DEF EntryT
  <2> HIDE DEF r
  <2>3. R \in SUBSET Nat /\ 0 \in R /\ R \subseteq 0..BlockSpace - 1
    BY <1>1, <1>5
  <2>4. r \in [R -> EntryT] /\ \A x \in R : r[x] = IF x + s[x].rec = o THEN m(x) ELSE s[x]
    <3> HIDE DEF m
    <3> QED BY <2>1, <2>2, <1>1
  <2>5. \A x \in R : r[x].ino = s[x].ino /\ r[x].name = s[x].name /\ RealLen(r[x]) = RealLen(s[x])
                     /\ r[x].rec = IF x + s[x].rec = o THEN s[x].rec + s[o].rec ELSE s[x].rec
    <3> HIDE DEF m
    <3> QED BY <2>2, <2>4 DEF RealLen
  <2> HIDE DEF m
  <2>6. o \in Nat /\ s[o].rec \in Nat /\ o + s[o].rec \in S \cup {BlockSpace} /\ o + s[o].rec # o
        /\ \A y \in S : o < y => o + s[o].rec <= y
    <3>1. s[o].rec >= 2
      BY Record
    <3> QED BY <3>1, <1>1, <1>2
  <2>7. \A x \in R : r[x].rec >= RealLen(r[x])
    BY <2>5, <2>6, <1>2
  <2>8. \A x \in R : x + r[x].rec \in R \cup {BlockSpace}
    <3> TAKE x \in R
    <3>1. x \in Nat /\ s[x].rec \in Nat /\ x + s[x].rec \in S \cup {BlockSpace}
      BY <1>1, <1>2
    <3>2. CASE x + s[x].rec = o
      <4>1. x + r[x].rec = o + s[o].rec
        BY <3>1, <3>2, <2>5, <2>6
      <4> QED BY <4>1, <2>6
    <3>3. CASE x + s[x].rec # o
      BY <3>1, <3>3, <2>5
    <3> QED BY <3>2, <3>3
  <2>9. \A x \in R : \A y \in R : x < y => x + r[x].rec <= y
    <3> TAKE x \in R
    <3> TAKE y \in R
    <3>1. x \in Nat /\ y \in Nat /\ s[x].rec \in Nat /\ (x < y => x + s[x].rec <= y) /\ y # o
      BY <1>1, <1>2
    <3>2. CASE x + s[x].rec = o
      <4>1. x + r[x].rec = o + s[o].rec
        BY <3>1, <3>2, <2>5, <2>6
      <4> QED BY <4>1, <2>6, <3>1, <3>2
    <3>3. CASE x + s[x].rec # o
      BY <3>1, <3>3, <2>5
    <3> QED BY <3>2, <3>3
  <2>10. Tiled(r) /\ r \in DirT /\ DOMAIN r = R
    <3> HIDE DEF R
    <3> QED BY <2>3, <2>4, <2>7, <2>8, <2>9, IsTiled, IsDirT
  <2>11. \A t : t \in Shown(r) <=> \E x \in R : r[x].ino # 0 /\ t = <<x, r[x].name, r[x].ino>>
    BY <2>10 DEF Shown
  <2> HIDE DEF S
  <2>12. ASSUME NEW t PROVE t \in Shown(r) <=> t \in Shown(s) /\ t # <<o, s[o].name, s[o].ino>>
    BY <2>5, <2>11, <1>3
  <2> QED BY <2>10, <2>12 DEF r
<1> QED BY <1>4, <1>5

-----------------------------------------------------------------------------
(* The tree                                                                 *)

\* Directories other than d list what they did.
SameBut(U, d, C, N, C2, N2) ==
  \A j \in U \ {d} : /\ C2[j].kind = C[j].kind /\ C2[j].links = C[j].links
                     /\ C[j].kind = "dir" => N2[j] = N[j]

\* A file i, or a directory i, that directory d gets under the name n at x.
FileMade(d, i, C, C2, N2) == C2[i].kind = "file" /\ C2[i].links = 1 /\ C2[d].links = C[d].links
DirMade(d, i, C, C2, N2) ==
  /\ C2[i].kind = "dir" /\ C2[i].links = 2 /\ C2[d].links = C[d].links + 1
  /\ \E y, z : y # z /\ N2[i] = {<<y, ".", i>>, <<z, "..", d>>}

GetsName(U, C, N, C2, N2, d, i, n, x) ==
  /\ RootIno \in U /\ C[d].kind = "dir" /\ C2[d].kind = "dir" /\ i \notin U /\ n \notin Dots
  /\ \A j \in U : C[j].kind \in {"file", "dir"}
  /\ C[d].links \in Int /\ \A t \in N[d] : t[2] # n /\ t[1] # x
  /\ SameBut(U, d, C, N, C2, N2) /\ N2[d] = N[d] \cup {<<x, n, i>>}
  /\ FileMade(d, i, C, C2, N2) \/ DirMade(d, i, C, C2, N2)

\* A new inode with one new name keeps the tree whole.
LEMMA TreeAdd ==
  ASSUME NEW U \in SUBSET EInos, NEW C, NEW N, NEW C2, NEW N2, TreeOK(U, C, N),
         NEW d \in U, NEW i, NEW n, NEW x, GetsName(U, C, N, C2, N2, d, i, n, x)
  PROVE  TreeOK(U \cup {i}, C2, N2)
<1>0. /\ RootIno \in U /\ C[d].kind = "dir" /\ C2[d].kind = "dir" /\ i \notin U /\ n \notin Dots
      /\ \A j \in U : C[j].kind \in {"file", "dir"}
      /\ C[d].links \in Int /\ \A t \in N[d] : t[2] # n /\ t[1] # x
      /\ SameBut(U, d, C, N, C2, N2) /\ N2[d] = N[d] \cup {<<x, n, i>>}
      /\ FileMade(d, i, C, C2, N2) \/ DirMade(d, i, C, C2, N2)
  BY DEF GetsName
<1> USE <1>0
<1> DEFINE V == U \cup {i}
<1>1. \A j \in U : C2[j].kind = C[j].kind
  BY DEF SameBut
<1>2. \A j \in U : j # d /\ C[j].kind = "dir" => N2[j] = N[j]
  BY DEF SameBut
<1>3. \A j \in U : C[j].kind = "dir" => \A t \in N[j] : t[3] \in U /\ t[3] # i
  BY DEF TreeOK
<1>4. C2[i].kind \in {"file", "dir"} /\ d # i /\ i # RootIno
  BY DEF FileMade, DirMade
<1>5. ASSUME NEW j \in U, C[j].kind = "dir", NEW t \in N2[j] PROVE t \in N[j] \/ (j = d /\ t = <<x, n, i>>)
  <2>1. CASE j = d
    BY <2>1, <1>5
  <2>2. CASE j # d
    BY <2>2, <1>2, <1>5
  <2> QED BY <2>1, <2>2
<1>6. ASSUME NEW j \in U, C[j].kind = "dir" PROVE N[j] \subseteq N2[j]
  <2>1. CASE j = d
    BY <2>1
  <2>2. CASE j # d
    BY <2>2, <1>2, <1>6
  <2> QED BY <2>1, <2>2
<1>7. C2[i].kind = "dir" => \A t \in N2[i] : t[2] \in Dots
  BY DEF DirMade, FileMade, Dots
<1>8. \A j \in U, h \in U : C[j].kind = "dir" => Names(N2, j, h) = Names(N, j, h)
  <2> TAKE j \in U, h \in U
  <2>1. h # i
    OBVIOUS
  <2> QED BY <2>1, <1>5, <1>6 DEF Names
<1>9. \A j \in U : C[j].kind = "dir" => Names(N2, j, i) = IF j = d THEN {<<x, n, i>>} ELSE {}
  <2> TAKE j \in U
  <2>1. CASE j = d
    BY <2>1, <1>3 DEF Names
  <2>2. CASE j # d
    BY <2>2, <1>2, <1>3 DEF Names
  <2> QED BY <2>1, <2>2
<1>10. C2[i].kind = "dir" => \A h \in V : Names(N2, i, h) = {}
  BY <1>7 DEF Names
<1>11. \A j \in U : j # d /\ C[j].kind = "dir" => SubDirs(V, C2, N2, j) = SubDirs(U, C, N, j)
  <2> TAKE j \in U
  <2> HAVE j # d /\ C[j].kind = "dir"
  <2>1. \A t \in N[j] : (t[3] \in V /\ C2[t[3]].kind = "dir") <=> (t[3] \in U /\ C[t[3]].kind = "dir")
    BY <1>1, <1>3
  <2> QED BY <2>1, <1>2 DEF SubDirs
<1>12. /\ C2[i].kind = "dir" => SubDirs(V, C2, N2, d) = SubDirs(U, C, N, d) \cup {x}
       /\ C2[i].kind # "dir" => SubDirs(V, C2, N2, d) = SubDirs(U, C, N, d)
  <2>1. \A t \in N[d] : (t[3] \in V /\ C2[t[3]].kind = "dir") <=> (t[3] \in U /\ C[t[3]].kind = "dir")
    BY <1>1, <1>3
  <2>2. ASSUME NEW y PROVE y \in SubDirs(V, C2, N2, d) <=> y \in SubDirs(U, C, N, d) \/ (y = x /\ C2[i].kind = "dir")
    <3>1. y \in SubDirs(V, C2, N2, d)
            <=> \E t \in N2[d] : y = t[1] /\ t[2] \notin Dots /\ t[3] \in V /\ C2[t[3]].kind = "dir"
      BY DEF SubDirs
    <3>2. y \in SubDirs(U, C, N, d)
            <=> \E t \in N[d] : y = t[1] /\ t[2] \notin Dots /\ t[3] \in U /\ C[t[3]].kind = "dir"
      BY DEF SubDirs
    <3>3. \A t \in N2[d] : t \in N[d] \/ t = <<x, n, i>>
      OBVIOUS
    <3>4. <<x, n, i>>[1] = x /\ <<x, n, i>>[2] = n /\ <<x, n, i>>[3] = i /\ <<x, n, i>> \in N2[d]
      OBVIOUS
    <3> QED BY <3>1, <3>2, <3>3, <3>4, <2>1, <1>6
  <2> DEFINE A == SubDirs(V, C2, N2, d)
             B == SubDirs(U, C, N, d)
  <2>3. \A y : y \in A <=> y \in B \/ (y = x /\ C2[i].kind = "dir")
    BY <2>2
  <2> HIDE DEF A, B
  <2>4. C2[i].kind = "dir" => A = B \cup {x}
    BY <2>3
  <2>5. C2[i].kind # "dir" => A = B
    BY <2>3
  <2> QED BY <2>4, <2>5 DEF A, B
<1>13. x \notin SubDirs(U, C, N, d)
  BY DEF SubDirs
<1>14. C2[i].kind = "dir" => SubDirs(V, C2, N2, i) = {}
  BY <1>7 DEF SubDirs
<1>15. \A j \in U : C[j].kind = "dir" => IsFiniteSet(SubDirs(U, C, N, j))
  BY DEF TreeOK
<1>16. \A j \in V : C2[j].kind = "dir" => IsFiniteSet(SubDirs(V, C2, N2, j))
  <2>1. IsFiniteSet(SubDirs(U, C, N, d) \cup {x}) /\ IsFiniteSet({})
    BY <1>15, FS_AddElement, FS_EmptySet
  <2> QED BY <2>1, <1>1, <1>11, <1>12, <1>14, <1>15
<1>17. \A j \in V : C2[j].kind = "dir" => \A s, t \in N2[j] : s[1] = t[1] \/ s[2] = t[2] => s = t
  <2> SUFFICES ASSUME NEW j \in V, C2[j].kind = "dir", NEW s \in N2[j], NEW t \in N2[j], s[1] = t[1] \/ s[2] = t[2]
               PROVE  s = t
    OBVIOUS
  <2>1. CASE j = i
    BY <2>1, <1>4 DEF DirMade, FileMade
  <2>2. CASE j = d
    <3>1. \A u, v \in N[d] : u[1] = v[1] \/ u[2] = v[2] => u = v
      BY DEF TreeOK
    <3>2. (s \in N[d] \/ s = <<x, n, i>>) /\ (t \in N[d] \/ t = <<x, n, i>>)
      BY <2>2
    <3> QED BY <3>1, <3>2
  <2>3. CASE j \in U \ {d}
    BY <2>3, <1>1, <1>2 DEF TreeOK
  <2> QED BY <2>1, <2>2, <2>3
<1>18. ASSUME NEW j \in V, C2[j].kind = "dir", NEW t \in N2[j]
       PROVE  /\ t[3] \in V
              /\ t[2] \notin Dots => t[3] \notin {j, RootIno}
              /\ t[2] = ".." => \/ j = RootIno /\ t[3] = RootIno
                                \/ C2[t[3]].kind = "dir" /\ Names(N2, t[3], j) # {}
              /\ t[2] = "." => t[3] = j
  <2>1. CASE j = i
    <3>1. (t[2] = "." /\ t[3] = i) \/ (t[2] = ".." /\ t[3] = d)
      BY <2>1, <1>4, <1>18 DEF DirMade, FileMade
    <3>2. Names(N2, d, i) # {}
      BY <1>9
    <3> QED BY <3>1, <3>2, <2>1 DEF Dots
  <2>2. CASE j \in U /\ t \in N[j]
    <3>1. C[j].kind = "dir"
      BY <2>2, <1>1, <1>18
    <3>2. /\ t[3] \in U
          /\ t[2] \notin Dots => t[3] \notin {j, RootIno}
          /\ t[2] = ".." => \/ j = RootIno /\ t[3] = RootIno
                            \/ C[t[3]].kind = "dir" /\ Names(N, t[3], j) # {}
          /\ t[2] = "." => t[3] = j
      BY <2>2, <3>1 DEF TreeOK
    <3> QED BY <3>2, <2>2, <1>1, <1>8
  <2>3. CASE j = d /\ t = <<x, n, i>>
    BY <2>3, <1>4 DEF Dots
  <2> QED BY <2>1, <2>2, <2>3, <1>1, <1>5, <1>18
<1>19. ASSUME NEW h \in V \ {RootIno} PROVE \E j \in V : C2[j].kind = "dir" /\ Names(N2, j, h) # {}
  <2>1. CASE h = i
    BY <2>1, <1>9
  <2>2. CASE h \in U
    <3>1. PICK j \in U : C[j].kind = "dir" /\ Names(N, j, h) # {}
      BY <2>2 DEF TreeOK
    <3> QED BY <3>1, <2>2, <1>1, <1>8
  <2> QED BY <2>1, <2>2
<1>20. ASSUME NEW h \in V, NEW j \in V, NEW e \in V, C2[j].kind = "dir", C2[e].kind = "dir",
              NEW s \in Names(N2, j, h), NEW t \in Names(N2, e, h)
       PROVE  j = e /\ s = t
  <2>1. j \in U /\ e \in U
    BY <1>10, <1>20
  <2>2. CASE h = i
    BY <2>1, <2>2, <1>1, <1>9, <1>20
  <2>3. CASE h \in U
    BY <2>1, <2>3, <1>1, <1>8, <1>20 DEF TreeOK
  <2> QED BY <2>2, <2>3
<1>21. ASSUME NEW h \in V
       PROVE  C2[h].links = IF C2[h].kind = "file" THEN 1 ELSE 2 + Cardinality(SubDirs(V, C2, N2, h))
  <2>1. CASE h = i
    <3>1. CASE C2[i].kind = "file"
      BY <2>1, <3>1 DEF FileMade, DirMade
    <3>2. CASE C2[i].kind = "dir"
      <4>1. C2[i].links = 2
        BY <3>2 DEF FileMade, DirMade
      <4>2. Cardinality(SubDirs(V, C2, N2, i)) = 0
        BY <3>2, <1>14, FS_EmptySet
      <4> HIDE DEF V
      <4>3. C2[i].links = 2 + Cardinality(SubDirs(V, C2, N2, i))
        BY <4>1, <4>2
      <4> QED BY <4>3, <3>2, <2>1
    <3> QED BY <3>1, <3>2, <1>4
  <2>2. CASE h \in U \ {d}
    <3>1. C2[h].links = C[h].links /\ C2[h].kind = C[h].kind /\ C[h].kind \in {"file", "dir"}
      BY <2>2 DEF SameBut
    <3> QED BY <3>1, <2>2, <1>11 DEF TreeOK
  <2>3. CASE h = d
    <3> DEFINE B == SubDirs(U, C, N, d)
    <3>1. C[d].links = 2 + Cardinality(B) /\ IsFiniteSet(B)
      BY <1>15 DEF TreeOK
    <3>2. Cardinality(B \cup {x}) = Cardinality(B) + 1 /\ Cardinality(B) \in Nat
      BY <3>1, <1>13, FS_AddElement, FS_CardinalityType
    <3> HIDE DEF B
    <3>3. CASE C2[i].kind = "dir"
      <4>1. C2[d].links = C[d].links + 1
        BY <3>3 DEF FileMade, DirMade
      <4>2. SubDirs(V, C2, N2, d) = B \cup {x}
        BY <3>3, <1>12 DEF B
      <4>3. Cardinality(SubDirs(V, C2, N2, d)) = Cardinality(B) + 1
        BY <4>2, <3>2
      <4> HIDE DEF V
      <4>4. C2[d].links = 2 + Cardinality(SubDirs(V, C2, N2, d))
        BY <4>1, <4>3, <3>1, <3>2
      <4> QED BY <4>4, <2>3
    <3>4. CASE C2[i].kind = "file"
      <4>1. C2[d].links = C[d].links
        BY <3>4 DEF FileMade, DirMade
      <4>2. SubDirs(V, C2, N2, d) = B
        BY <3>4, <1>12 DEF B
      <4> QED BY <4>1, <4>2, <3>1, <2>3
    <3> QED BY <3>3, <3>4, <1>4
  <2> QED BY <2>1, <2>2, <2>3
<1> HIDE DEF V
<1>22. TreeOK(V, C2, N2)
  BY <1>16, <1>17, <1>18, <1>19, <1>20, <1>21 DEF TreeOK
<1> QED BY <1>22 DEF V

\* Directory d loses the name n of i, a file or an empty directory.
LosesName(U, C, N, C2, N2, d, i, n, x) ==
  /\ RootIno \in U /\ C[d].kind = "dir" /\ C2[d].kind = "dir" /\ n \notin Dots
  /\ \A j \in U : C[j].kind \in {"file", "dir"}
  /\ <<x, n, i>> \in N[d] /\ (C[i].kind = "dir" => \A t \in N[i] : t[2] \in Dots)
  /\ SameBut(U, d, C, N, C2, N2) /\ N2[d] = N[d] \ {<<x, n, i>>}
  /\ C2[d].links = IF C[i].kind = "dir" THEN C[d].links - 1 ELSE C[d].links

\* An inode that goes with its only name keeps the tree whole.
LEMMA TreeRemove ==
  ASSUME NEW U \in SUBSET EInos, NEW C, NEW N, NEW C2, NEW N2, TreeOK(U, C, N),
         NEW d \in U, NEW i, NEW n, NEW x, LosesName(U, C, N, C2, N2, d, i, n, x)
  PROVE  TreeOK(U \ {i}, C2, N2) /\ i \in U \ {d, RootIno}
<1>0. /\ RootIno \in U /\ C[d].kind = "dir" /\ C2[d].kind = "dir" /\ n \notin Dots
      /\ \A j \in U : C[j].kind \in {"file", "dir"}
      /\ <<x, n, i>> \in N[d] /\ (C[i].kind = "dir" => \A t \in N[i] : t[2] \in Dots)
      /\ SameBut(U, d, C, N, C2, N2) /\ N2[d] = N[d] \ {<<x, n, i>>}
      /\ C2[d].links = IF C[i].kind = "dir" THEN C[d].links - 1 ELSE C[d].links
  BY DEF LosesName
<1> USE <1>0
<1> DEFINE V == U \ {i}
           z == <<x, n, i>>
<1>1. i \in U \ {d, RootIno} /\ z[1] = x /\ z[2] = n /\ z[3] = i
  BY DEF TreeOK
<1>2. \A j \in U : C2[j].kind = C[j].kind
  BY DEF SameBut
<1>3. \A j \in U : j # d /\ C[j].kind = "dir" => N2[j] = N[j]
  BY DEF SameBut
<1>4. z \in Names(N, d, i)
  BY DEF Names
<1>5. \A j \in U : C[j].kind = "dir" => \A t \in Names(N, j, i) : j = d /\ t = z
  BY <1>1, <1>4 DEF TreeOK
<1>6. ASSUME NEW j \in U, C[j].kind = "dir"
      PROVE  N2[j] \subseteq N[j] /\ \A t \in N[j] : t \in N2[j] \/ (j = d /\ t = z)
  <2>1. CASE j = d
    BY <2>1
  <2>2. CASE j # d
    BY <2>2, <1>3, <1>6
  <2> QED BY <2>1, <2>2
<1>7. \A j \in V, h \in V : C[j].kind = "dir" => Names(N2, j, h) = Names(N, j, h)
  <2> TAKE j \in V, h \in V
  <2>1. h # z[3]
    BY <1>1
  <2> HIDE DEF z
  <2> QED BY <2>1, <1>6 DEF Names
<1>8. \A j \in V : C[j].kind = "dir" => \A t \in N2[j] : t[3] \in V
  <2> SUFFICES ASSUME NEW j \in V, C[j].kind = "dir", NEW t \in N2[j] PROVE t[3] \in V
    OBVIOUS
  <2>1. t \in N[j] /\ t[3] \in U
    BY <1>6 DEF TreeOK
  <2>2. ASSUME t[3] = i PROVE FALSE
    <3>1. CASE t[2] \notin Dots
      <4>1. t \in Names(N, j, i)
        BY <2>1, <2>2, <3>1 DEF Names
      <4>2. j = d /\ t = z
        BY <4>1, <1>5
      <4> QED BY <4>2
    <3>2. CASE t[2] = "."
      BY <3>2, <2>1, <2>2 DEF TreeOK
    <3>3. CASE t[2] = ".."
      <4>1. C[i].kind = "dir" /\ Names(N, i, j) # {}
        BY <3>3, <2>1, <2>2, <1>1 DEF TreeOK
      <4> QED BY <4>1 DEF Names
    <3> QED BY <3>1, <3>2, <3>3 DEF Dots
  <2> QED BY <2>1, <2>2
<1>9. \A j \in V : j # d /\ C[j].kind = "dir" => SubDirs(V, C2, N2, j) = SubDirs(U, C, N, j)
  <2> TAKE j \in V
  <2> HAVE j # d /\ C[j].kind = "dir"
  <2>1. N2[j] = N[j]
    BY <1>3
  <2>2. \A t \in N[j] : (t[3] \in V /\ C2[t[3]].kind = "dir") <=> (t[3] \in U /\ C[t[3]].kind = "dir")
    BY <2>1, <1>2, <1>8
  <2> QED BY <2>1, <2>2 DEF SubDirs
<1>10. SubDirs(V, C2, N2, d) = SubDirs(U, C, N, d) \ {x}
  <2>1. \A t \in N2[d] : t \in N[d] /\ t # z /\ t[3] \in V
    BY <1>1, <1>8
  <2>2. \A t \in N[d] : t # z => t[1] # x
    BY <1>1 DEF TreeOK
  <2>3. \A t \in N[d] : t # z => t \in N2[d]
    OBVIOUS
  <2> HIDE DEF z
  <2>4. ASSUME NEW y PROVE y \in SubDirs(V, C2, N2, d) <=> y \in SubDirs(U, C, N, d) /\ y # x
    <3>1. y \in SubDirs(V, C2, N2, d)
            <=> \E t \in N2[d] : y = t[1] /\ t[2] \notin Dots /\ t[3] \in V /\ C2[t[3]].kind = "dir"
      BY DEF SubDirs
    <3>2. y \in SubDirs(U, C, N, d)
            <=> \E t \in N[d] : y = t[1] /\ t[2] \notin Dots /\ t[3] \in U /\ C[t[3]].kind = "dir"
      BY DEF SubDirs
    <3> QED BY <3>1, <3>2, <2>1, <2>2, <2>3, <1>1, <1>2
  <2> QED BY <2>4
<1>11. x \in SubDirs(U, C, N, d) <=> C[i].kind = "dir"
  <2>1. \A t \in N[d] : t[1] = x => t = z
    BY <1>1 DEF TreeOK
  <2> QED BY <2>1, <1>1 DEF SubDirs
<1>12. \A j \in U : C[j].kind = "dir" => IsFiniteSet(SubDirs(U, C, N, j))
  BY DEF TreeOK
<1>13. \A j \in V : C2[j].kind = "dir" => IsFiniteSet(SubDirs(V, C2, N2, j))
  <2>1. IsFiniteSet(SubDirs(U, C, N, d) \ {x})
    BY <1>12, FS_RemoveElement
  <2> QED BY <2>1, <1>2, <1>9, <1>10, <1>12
<1>14. \A j \in V : C2[j].kind = "dir" => \A s, t \in N2[j] : s[1] = t[1] \/ s[2] = t[2] => s = t
  BY <1>2, <1>6 DEF TreeOK
<1>15. ASSUME NEW j \in V, C2[j].kind = "dir", NEW t \in N2[j]
       PROVE  /\ t[3] \in V
              /\ t[2] \notin Dots => t[3] \notin {j, RootIno}
              /\ t[2] = ".." => \/ j = RootIno /\ t[3] = RootIno
                                \/ C2[t[3]].kind = "dir" /\ Names(N2, t[3], j) # {}
              /\ t[2] = "." => t[3] = j
  <2>1. C[j].kind = "dir" /\ t \in N[j] /\ t[3] \in V
    BY <1>2, <1>6, <1>8, <1>15
  <2>2. /\ t[2] \notin Dots => t[3] \notin {j, RootIno}
        /\ t[2] = ".." => \/ j = RootIno /\ t[3] = RootIno
                          \/ C[t[3]].kind = "dir" /\ Names(N, t[3], j) # {}
        /\ t[2] = "." => t[3] = j
    BY <2>1 DEF TreeOK
  <2> QED BY <2>1, <2>2, <1>2, <1>7
<1>16. ASSUME NEW h \in V \ {RootIno} PROVE \E j \in V : C2[j].kind = "dir" /\ Names(N2, j, h) # {}
  <2>1. PICK j \in U : C[j].kind = "dir" /\ Names(N, j, h) # {}
    BY DEF TreeOK
  <2>2. j # i
    <3> SUFFICES ASSUME j = i PROVE FALSE
      OBVIOUS
    <3> QED BY <2>1 DEF Names
  <2> QED BY <2>1, <2>2, <1>2, <1>7
<1>17. ASSUME NEW h \in V, NEW j \in V, NEW e \in V, C2[j].kind = "dir", C2[e].kind = "dir",
              NEW s \in Names(N2, j, h), NEW t \in Names(N2, e, h)
       PROVE  j = e /\ s = t
  BY <1>2, <1>7, <1>17 DEF TreeOK
<1>18. ASSUME NEW h \in V
       PROVE  C2[h].links = IF C2[h].kind = "file" THEN 1 ELSE 2 + Cardinality(SubDirs(V, C2, N2, h))
  <2>1. CASE h # d
    <3>1. C2[h].links = C[h].links /\ C2[h].kind = C[h].kind /\ C[h].kind \in {"file", "dir"}
      BY <2>1 DEF SameBut
    <3> QED BY <3>1, <2>1, <1>9 DEF TreeOK
  <2>2. CASE h = d
    <3> DEFINE B == SubDirs(U, C, N, d)
    <3>1. C[d].links = 2 + Cardinality(B) /\ IsFiniteSet(B)
      BY <1>12 DEF TreeOK
    <3>2. Cardinality(B \ {x}) = (IF x \in B THEN Cardinality(B) - 1 ELSE Cardinality(B)) /\ Cardinality(B) \in Nat
      BY <3>1, FS_RemoveElement, FS_CardinalityType
    <3>3. SubDirs(V, C2, N2, d) = B \ {x} /\ (x \in B <=> C[i].kind = "dir")
      BY <1>10, <1>11
    <3> HIDE DEF B
    <3>4. CASE C[i].kind = "dir"
      <4>1. Cardinality(SubDirs(V, C2, N2, d)) = Cardinality(B) - 1 /\ C2[d].links = C[d].links - 1
        BY <3>4, <3>2, <3>3
      <4> HIDE DEF V
      <4>2. C2[d].links = 2 + Cardinality(SubDirs(V, C2, N2, d))
        BY <4>1, <3>1, <3>2
      <4> QED BY <4>2, <2>2
    <3>5. CASE C[i].kind # "dir"
      <4>1. Cardinality(SubDirs(V, C2, N2, d)) = Cardinality(B) /\ C2[d].links = C[d].links
        BY <3>5, <3>2, <3>3
      <4> QED BY <4>1, <3>1, <2>2
    <3> QED BY <3>4, <3>5
  <2> QED BY <2>1, <2>2
<1> HIDE DEF V, z
<1>19. TreeOK(V, C2, N2)
  BY <1>13, <1>14, <1>15, <1>16, <1>17, <1>18 DEF TreeOK
<1> QED BY <1>1, <1>19 DEF V

\* Nothing is listed that was not, and nothing is missing.
LEMMA TreeSame ==
  ASSUME NEW U, NEW C, NEW N, NEW C2, NEW N2, TreeOK(U, C, N),
         \A j \in U : /\ C[j].kind \in {"file", "dir"} /\ C2[j].kind = C[j].kind /\ C2[j].links = C[j].links
                      /\ C[j].kind = "dir" => N2[j] = N[j]
  PROVE  TreeOK(U, C2, N2)
<1>1. \A j \in U, h \in U : C[j].kind = "dir" => Names(N2, j, h) = Names(N, j, h)
  BY DEF Names
<1>2. \A j \in U : C[j].kind = "dir" => SubDirs(U, C2, N2, j) = SubDirs(U, C, N, j)
  BY DEF SubDirs
<1>3. ASSUME NEW j \in U, C2[j].kind = "dir"
      PROVE  /\ IsFiniteSet(SubDirs(U, C2, N2, j))
             /\ \A s, t \in N2[j] : s[1] = t[1] \/ s[2] = t[2] => s = t
  BY <1>2, <1>3 DEF TreeOK
<1>4. ASSUME NEW j \in U, C2[j].kind = "dir", NEW t \in N2[j]
      PROVE  /\ t[3] \in U
             /\ t[2] \notin Dots => t[3] \notin {j, RootIno}
             /\ t[2] = ".." => \/ j = RootIno /\ t[3] = RootIno
                               \/ C2[t[3]].kind = "dir" /\ Names(N2, t[3], j) # {}
             /\ t[2] = "." => t[3] = j
  <2>1. C[j].kind = "dir" /\ t \in N[j]
    BY <1>4
  <2>2. /\ t[3] \in U
        /\ t[2] \notin Dots => t[3] \notin {j, RootIno}
        /\ t[2] = ".." => \/ j = RootIno /\ t[3] = RootIno
                          \/ C[t[3]].kind = "dir" /\ Names(N, t[3], j) # {}
        /\ t[2] = "." => t[3] = j
    BY <2>1 DEF TreeOK
  <2> QED BY <2>2, <1>1
<1>5. ASSUME NEW h \in U \ {RootIno} PROVE \E j \in U : C2[j].kind = "dir" /\ Names(N2, j, h) # {}
  <2>1. PICK j \in U : C[j].kind = "dir" /\ Names(N, j, h) # {}
    BY DEF TreeOK
  <2> QED BY <2>1, <1>1
<1>6. ASSUME NEW h \in U, NEW j \in U, NEW e \in U, C2[j].kind = "dir", C2[e].kind = "dir",
             NEW s \in Names(N2, j, h), NEW t \in Names(N2, e, h)
      PROVE  j = e /\ s = t
  BY <1>1, <1>6 DEF TreeOK
<1>7. ASSUME NEW h \in U
      PROVE  C2[h].links = IF C2[h].kind = "file" THEN 1 ELSE 2 + Cardinality(SubDirs(U, C2, N2, h))
  BY <1>2 DEF TreeOK
<1> QED BY <1>3, <1>4, <1>5, <1>6, <1>7 DEF TreeOK

-----------------------------------------------------------------------------
(* What an operation leaves as it was                                       *)

\* On D2 the inode p2 is to its readers what p is on D.
Looks(D, p, D2, p2) ==
  /\ p2.kind = p.kind /\ p2.links = p.links /\ p2.size = p.size
  /\ \A x \in 0..Dind : p.map[x] \in {0, p2.map[x]}
  /\ \A l \in Nat : Phys(D2, p2.map, l) = Phys(D, p.map, l)
  /\ \A l \in Nat : Phys(D, p.map, l) # 0 =>
       /\ D2.dat[Phys(D, p.map, l)] = D.dat[Phys(D, p.map, l)]
       /\ D2.dir[Phys(D, p.map, l)] = D.dir[Phys(D, p.map, l)]

\* A map that was saved has a part of the pointers.
LEMMA SavedAt ==
  ASSUME NEW D, NEW c, NEW s, \A x \in 0..Dind : s[x] \in {0, c[x]}, NEW p \in MapPlaces
  PROVE  BlockAt(D, s, p) = IF s[p[1]] = 0 THEN 0 ELSE BlockAt(D, c, p)
<1>1. p[1] \in 0..Dind
  BY PlaceParts
<1>2. CASE s[p[1]] = 0
  BY <1>2, AtZero
<1>3. CASE s[p[1]] # 0
  <2>1. s[p[1]] = c[p[1]]
    BY <1>1, <1>3
  <2> QED BY <2>1, <1>3 DEF BlockAt
<1> QED BY <1>2, <1>3

\* A logical block by the map on the disk: as by the map in memory, or none.
LEMMA SavedPhys ==
  ASSUME NEW D \in DiskT, NEW c \in MapT, NEW s \in MapT, \A x \in 0..Dind : s[x] \in {0, c[x]}, NEW l \in Nat
  PROVE  Phys(D, s, l) = IF Mappable(l) /\ s[PlaceOf(l)[1]] # 0 THEN Phys(D, c, l) ELSE 0
<1>1. CASE Mappable(l)
  <2>1. PlaceOf(l) \in MapPlaces
    BY <1>1, PlaceOfIs
  <2>2. BlockAt(D, s, PlaceOf(l)) = IF s[PlaceOf(l)[1]] = 0 THEN 0 ELSE BlockAt(D, c, PlaceOf(l))
    BY <2>1, SavedAt
  <2> QED BY <2>2, <1>1, PhysIs
<1>2. CASE ~Mappable(l)
  BY <1>2, PhysIs
<1> QED BY <1>1, <1>2

\* A logical block is a block of the disk or a hole.
LEMMA PhysType ==
  ASSUME NEW D \in DiskT, NEW m \in MapT, NEW l \in Nat
  PROVE  Phys(D, m, l) \in 0..NBlocks
<1>1. CASE Mappable(l)
  BY <1>1, PhysIs, PlaceOfIs, AtType
<1>2. CASE ~Mappable(l)
  BY <1>2, PhysIs, Sizes
<1> QED BY <1>1, <1>2

\* What a directory lists.
LEMMA InListing ==
  ASSUME NEW D, NEW p, NEW t
  PROVE  t \in Listing(D, p) <=>
           \E l \in 0..p.size - 1, o \in 0..BlockSpace - 1 :
             /\ Phys(D, p.map, l) # 0 /\ o \in DOMAIN DirAt(D, p, l) /\ DirAt(D, p, l)[o].ino # 0
             /\ t = <<<<l, o>>, DirAt(D, p, l)[o].name, DirAt(D, p, l)[o].ino>>
<1>1. \A l, o : <<l, o>>[1] = l /\ <<l, o>>[2] = o
  OBVIOUS
<1>2. ASSUME t \in Listing(D, p)
      PROVE  \E l \in 0..p.size - 1, o \in 0..BlockSpace - 1 :
             /\ Phys(D, p.map, l) # 0 /\ o \in DOMAIN DirAt(D, p, l) /\ DirAt(D, p, l)[o].ino # 0
             /\ t = <<<<l, o>>, DirAt(D, p, l)[o].name, DirAt(D, p, l)[o].ino>>
  <2>1. PICK x \in Entries(D, p) : t = <<x, EntryAt(D, p, x).name, EntryAt(D, p, x).ino>>
    BY <1>2 DEF Listing
  <2>2. /\ x \in (0..p.size - 1) \X (0..BlockSpace - 1) /\ Phys(D, p.map, x[1]) # 0
        /\ x[2] \in DOMAIN DirAt(D, p, x[1]) /\ EntryAt(D, p, x).ino # 0
    BY DEF Entries, Positions
  <2>3. x = <<x[1], x[2]>> /\ x[1] \in 0..p.size - 1 /\ x[2] \in 0..BlockSpace - 1
    BY <2>2
  <2>4. EntryAt(D, p, x) = DirAt(D, p, x[1])[x[2]]
    BY DEF EntryAt
  <2>5. /\ Phys(D, p.map, x[1]) # 0 /\ x[2] \in DOMAIN DirAt(D, p, x[1]) /\ DirAt(D, p, x[1])[x[2]].ino # 0
        /\ t = <<<<x[1], x[2]>>, DirAt(D, p, x[1])[x[2]].name, DirAt(D, p, x[1])[x[2]].ino>>
    BY <2>1, <2>2, <2>3, <2>4
  <2> QED BY <2>3, <2>5
<1>3. ASSUME NEW l \in 0..p.size - 1, NEW o \in 0..BlockSpace - 1,
             Phys(D, p.map, l) # 0, o \in DOMAIN DirAt(D, p, l), DirAt(D, p, l)[o].ino # 0
      PROVE  <<<<l, o>>, DirAt(D, p, l)[o].name, DirAt(D, p, l)[o].ino>> \in Listing(D, p)
  <2>1. <<l, o>> \in Entries(D, p)
    BY <1>1, <1>3 DEF Entries, Positions, EntryAt
  <2>2. EntryAt(D, p, <<l, o>>) = DirAt(D, p, l)[o]
    BY <1>1 DEF EntryAt
  <2> QED BY <2>1, <2>2 DEF Listing
<1> QED BY <1>2, <1>3

\* A directory that looks the same lists the same.
LEMMA LooksListing ==
  ASSUME NEW D, NEW D2, NEW p, NEW p2, p.size \in Nat, Looks(D, p, D2, p2)
  PROVE  Listing(D2, p2) = Listing(D, p)
<1>1. \A l \in 0..p.size - 1 : /\ Phys(D2, p2.map, l) = Phys(D, p.map, l)
                               /\ Phys(D, p.map, l) # 0 => DirAt(D2, p2, l) = DirAt(D, p, l)
  BY DEF Looks, DirAt
<1>2. p2.size = p.size
  BY DEF Looks
<1>3. ASSUME NEW t PROVE t \in Listing(D2, p2) <=> t \in Listing(D, p)
  BY <1>1, <1>2, InListing
<1> QED BY <1>3

\* A directory that looks the same is still a chain of records.
LEMMA LooksChained ==
  ASSUME NEW D, NEW D2, NEW p, NEW p2, p.size \in Nat, Looks(D, p, D2, p2), Chained(D, p)
  PROVE  Chained(D2, p2)
<1>1. \A l \in 0..p.size - 1 : /\ Phys(D2, p2.map, l) = Phys(D, p.map, l)
                               /\ Phys(D, p.map, l) # 0 => DirAt(D2, p2, l) = DirAt(D, p, l)
  BY DEF Looks, DirAt
<1>2. p2.size = p.size
  BY DEF Looks
<1> QED BY <1>1, <1>2 DEF Chained

\* The inode on the disk fits as before.
LEMMA LooksSaved ==
  ASSUME NEW D \in DiskT, NEW D2 \in DiskT, NEW p \in InodeT, NEW p2 \in InodeT, NEW s \in InodeT,
         Looks(D, p, D2, p2), Saved(D, p, s)
  PROVE  Saved(D2, p2, s)
<1>1. p.map \in MapT /\ p2.map \in MapT /\ s.map \in MapT /\ p.size \in Nat /\ s.size \in Nat
  BY DEF InodeT
<1>2. Listing(D2, p2) = Listing(D, p)
  BY <1>1, LooksListing
<1>3. \A x \in 0..Dind : s.map[x] \in {0, p2.map[x]}
  BY DEF Looks, Saved
<1>4. \A x \in 0..Dind : s.map[x] \in {0, p.map[x]}
  BY DEF Saved
<1>5. ASSUME NEW l \in 0..s.size - 1 PROVE Phys(D2, s.map, l) = Phys(D2, p2.map, l)
  <2>1. l \in Nat
    BY <1>1
  <2>2. Phys(D, s.map, l) = Phys(D, p.map, l) /\ Phys(D2, p2.map, l) = Phys(D, p.map, l)
    BY <2>1 DEF Saved, Looks
  <2>3. Phys(D, s.map, l) = IF Mappable(l) /\ s.map[PlaceOf(l)[1]] # 0 THEN Phys(D, p.map, l) ELSE 0
    BY <1>1, <1>4, <2>1, SavedPhys
  <2>4. Phys(D2, s.map, l) = IF Mappable(l) /\ s.map[PlaceOf(l)[1]] # 0 THEN Phys(D2, p2.map, l) ELSE 0
    BY <1>1, <1>3, <2>1, SavedPhys
  <2> QED BY <2>2, <2>3, <2>4
<1>6. p2.kind = p.kind /\ p2.links = p.links /\ p2.size = p.size
  BY DEF Looks
<1> QED BY <1>2, <1>3, <1>5, <1>6 DEF Saved

\* A file that looks the same reads the same.
LEMMA LooksFile ==
  ASSUME NEW D, NEW D2, NEW p, NEW p2, p.size \in Nat, NEW w, Looks(D, p, D2, p2), FileOK(D, p, w)
  PROVE  FileOK(D2, p2, w)
<1>1. p2.size = p.size /\ \A l \in Nat : Phys(D2, p2.map, l) = Phys(D, p.map, l)
  BY DEF Looks
<1>2. MaxLblk \in Nat
  BY Ext2Assumption
<1>3. ASSUME NEW l \in 0..MaxLblk PROVE ext2_read_data(D2, p2, l) = ext2_read_data(D, p, l)
  <2>1. l \in Nat
    BY <1>2
  <2>2. Phys(D, p.map, l) # 0 => D2.dat[Phys(D, p.map, l)] = D.dat[Phys(D, p.map, l)]
    BY <2>1 DEF Looks
  <2>3. Phys(D2, p2.map, l) = Phys(D, p.map, l)
    BY <2>1, <1>1
  <2> QED BY <2>2, <2>3, <1>1 DEF ext2_read_data
<1> QED BY <1>1, <1>3 DEF FileOK

\* Two steps that leave an inode as it looked.
LEMMA LooksTwice ==
  ASSUME NEW D, NEW D2, NEW D3, NEW p, NEW p2, NEW p3, Looks(D, p, D2, p2), Looks(D2, p2, D3, p3)
  PROVE  Looks(D, p, D3, p3)
BY DEF Looks

\* So an inode that looks the same stays good.
LEMMA LooksGood ==
  ASSUME NEW D \in DiskT, NEW D2 \in DiskT, NEW p \in InodeT, NEW p2 \in InodeT, NEW s \in InodeT, NEW w,
         Looks(D, p, D2, p2), Good(D, p, s, w)
  PROVE  Good(D2, p2, s, w)
<1>1. p.size \in Nat /\ p2.kind = p.kind
  BY DEF InodeT, Looks
<1>2. Saved(D2, p2, s)
  BY LooksSaved DEF Good
<1>3. p.kind = "file" => FileOK(D2, p2, w)
  BY <1>1, LooksFile DEF Good
<1>4. p.kind = "dir" => Chained(D2, p2)
  BY <1>1, LooksChained DEF Good
<1> QED BY <1>1, <1>2, <1>3, <1>4 DEF Good

\* The maps of the inodes.
LEMMA MapsType ==
  ASSUME NEW C \in [EInos -> InodeT]
  PROVE  Maps(C) \in [EInos -> MapT] /\ \A i \in EInos : Maps(C)[i] = C[i].map /\ C[i].map \in MapT /\ C[i].size \in Nat
BY DEF Maps, InodeT

\* Blocks of the same places are the same logical blocks.
LEMMA PhysSame ==
  ASSUME NEW D \in DiskT, NEW D2 \in DiskT, NEW m \in MapT, NEW m2 \in MapT, NEW l \in Nat,
         Mappable(l) => BlockAt(D2, m2, PlaceOf(l)) = BlockAt(D, m, PlaceOf(l))
  PROVE  Phys(D2, m2, l) = Phys(D, m, l)
BY PhysIs

\* What a place holds depends on the pointers alone.
LEMMA PtrSame ==
  ASSUME NEW D, NEW D2, D2.ptr = D.ptr, NEW m, NEW q
  PROVE  BlockAt(D2, m, q) = BlockAt(D, m, q)
BY DEF BlockAt, ext2_ind_get

\* A logical block is a place of the map, and marked.
LEMMA PhysUsed ==
  ASSUME NEW U \in SUBSET EInos, NEW D \in DiskT, NEW M \in [EInos -> MapT], Apart(D, U, M),
         NEW j \in U, NEW l \in Nat, Phys(D, M[j], l) # 0
  PROVE  /\ Mappable(l) /\ PlaceOf(l) \in MapPlaces /\ Phys(D, M[j], l) = BlockAt(D, M[j], PlaceOf(l))
         /\ Phys(D, M[j], l) \in D.used /\ Phys(D, M[j], l) \in EBlks
<1>1. Phys(D, M[j], l) = IF Mappable(l) THEN BlockAt(D, M[j], PlaceOf(l)) ELSE 0
  BY PhysIs
<1>2. Mappable(l) /\ Phys(D, M[j], l) = BlockAt(D, M[j], PlaceOf(l))
  BY <1>1
<1>3. PlaceOf(l) \in MapPlaces
  BY <1>2, PlaceOfIs
<1>4. Phys(D, M[j], l) \in D.used
  BY <1>2, <1>3 DEF Apart
<1> QED BY <1>2, <1>3, <1>4 DEF DiskT

\* Two logical blocks in one place are one.
LEMMA PhysApart ==
  ASSUME NEW U \in SUBSET EInos, NEW D \in DiskT, NEW M \in [EInos -> MapT], Apart(D, U, M),
         NEW i \in U, NEW j \in U, NEW l \in Nat, NEW h \in Nat, Phys(D, M[i], l) # 0, Phys(D, M[i], l) = Phys(D, M[j], h)
  PROVE  i = j /\ l = h
<1>1. /\ Mappable(l) /\ PlaceOf(l) \in MapPlaces /\ Phys(D, M[i], l) = BlockAt(D, M[i], PlaceOf(l))
      /\ Mappable(h) /\ PlaceOf(h) \in MapPlaces /\ Phys(D, M[j], h) = BlockAt(D, M[j], PlaceOf(h))
  BY PhysUsed
<1> DEFINE p == PlaceOf(l)
           q == PlaceOf(h)
<1>a. p \in MapPlaces /\ q \in MapPlaces /\ BlockAt(D, M[i], p) # 0 /\ BlockAt(D, M[j], q) = BlockAt(D, M[i], p)
  BY <1>1
<1> HIDE DEF p, q
<1>b. i = j /\ p = q
  BY <1>a DEF Apart
<1>2. i = j /\ PlaceOf(l) = PlaceOf(h)
  BY <1>b DEF p, q
<1>3. PlaceOf(h) \in PathTo(l)
  BY <1>2 DEF PathTo
<1> QED BY <1>1, <1>2, <1>3, PlacesDiffer

\* Another map has grown.
LEMMA GrowLooks ==
  ASSUME NEW U \in SUBSET EInos, NEW i \in U, NEW Z, NEW D \in DiskT, NEW C \in [EInos -> InodeT],
         Apart(D, U, Maps(C)), NEW D2, NEW M2, Grow(U, i, Z, D, Maps(C), D2, M2), NEW j \in U \ {i}
  PROVE  Looks(D, C[j], D2, C[j])
<1>1. Maps(C) \in [EInos -> MapT] /\ C[j].map = Maps(C)[j] /\ C[j].map \in MapT /\ C[j].map = M2[j] /\ D2 \in DiskT
  BY MapsType DEF Grow
<1>2. ASSUME NEW l \in Nat PROVE Phys(D2, C[j].map, l) = Phys(D, C[j].map, l)
  <2>1. \A q \in MapPlaces : BlockAt(D2, M2[j], q) = BlockAt(D, Maps(C)[j], q)
    BY DEF Grow
  <2>2. Mappable(l) => BlockAt(D2, C[j].map, PlaceOf(l)) = BlockAt(D, C[j].map, PlaceOf(l))
    BY <2>1, <1>1, PlaceOfIs
  <2> QED BY <2>2, <1>1, PhysSame
<1>3. ASSUME NEW l \in Nat, Phys(D, C[j].map, l) # 0 PROVE Phys(D, C[j].map, l) \in D.used
  <2>1. j \in U /\ Phys(D, Maps(C)[j], l) # 0
    BY <1>1, <1>3
  <2>2. Phys(D, Maps(C)[j], l) \in D.used
    BY <2>1, <1>1, PhysUsed
  <2> QED BY <2>2, <1>1
<1>4. \A b \in D.used : D2.dat[b] = D.dat[b] /\ D2.dir[b] = D.dir[b]
  BY DEF Grow
<1> QED BY <1>2, <1>3, <1>4 DEF Looks

\* The map of i has grown by what g has found; l is no longer a hole, or still is.
Mapped(U, i, D, C, l, g) ==
  /\ g.ok \in BOOLEAN /\ g.D \in DiskT /\ g.m \in MapT /\ Phys(g.D, g.m, l) = g.b /\ (g.ok <=> g.b # 0)
  /\ Apart(g.D, U, [Maps(C) EXCEPT ![i] = g.m])
  /\ \A x \in 0..Dind : C[i].map[x] \in {0, g.m[x]}
  /\ \A h \in Nat \ {l} : Phys(g.D, g.m, h) = Phys(D, C[i].map, h)
  /\ Phys(D, C[i].map, l) # 0 => Phys(g.D, g.m, l) = Phys(D, C[i].map, l)
  /\ \A b \in D.used : g.D.dat[b] = D.dat[b] /\ g.D.dir[b] = D.dir[b]
  /\ \A j \in U \ {i} : Looks(D, C[j], g.D, C[j])
  /\ AllOwned(D, U, Maps(C)) => AllOwned(g.D, U, [Maps(C) EXCEPT ![i] = g.m])

\* What ext2_get_block() does for one inode, as the others see it.
LEMMA GrowMine ==
  ASSUME NEW U \in SUBSET EInos, NEW i \in U, NEW D \in DiskT, NEW C \in [EInos -> InodeT],
         Apart(D, U, Maps(C)), NEW l \in Nat, Mappable(l), NEW g, Got(U, i, PathTo(l), D, Maps(C), g, PlaceOf(l))
  PROVE  Mapped(U, i, D, C, l, g)
<1> DEFINE M2 == [Maps(C) EXCEPT ![i] = g.m]
<1>1. Maps(C) \in [EInos -> MapT] /\ C[i].map = Maps(C)[i] /\ C[i].map \in MapT
  BY MapsType
<1>2. g.ok \in BOOLEAN /\ g.D \in DiskT /\ g.m \in MapT /\ g.b = BlockAt(g.D, g.m, PlaceOf(l)) /\ (g.ok <=> g.b # 0)
      /\ Grow(U, i, PathTo(l), D, Maps(C), g.D, M2)
  BY DEF Got, FoundT
<1>3. M2[i] = g.m
  BY <1>1
<1> HIDE DEF M2
<1>4. Phys(g.D, g.m, l) = g.b
  BY <1>2, PhysIs
<1>5. Apart(g.D, U, M2) /\ \A b \in D.used : g.D.dat[b] = D.dat[b] /\ g.D.dir[b] = D.dir[b]
  BY <1>2 DEF Grow
<1>6. \A x \in 0..Dind : C[i].map[x] \in {0, g.m[x]}
  BY <1>1, <1>2, <1>3 DEF Grow
<1>7. ASSUME NEW h \in Nat \ {l} PROVE Phys(g.D, g.m, h) = Phys(D, C[i].map, h)
  <2>1. \A q \in MapPlaces : q \notin PathTo(l) => BlockAt(g.D, g.m, q) = BlockAt(D, C[i].map, q)
    BY <1>1, <1>2, <1>3 DEF Grow
  <2>2. Mappable(h) => PlaceOf(h) \in MapPlaces /\ PlaceOf(h) \notin PathTo(l)
    BY PlaceOfIs, PlacesDiffer
  <2> QED BY <2>1, <2>2, <1>1, <1>2, PhysSame
<1>8. Phys(D, C[i].map, l) # 0 => Phys(g.D, g.m, l) = Phys(D, C[i].map, l)
  <2>1. PlaceOf(l) \in MapPlaces
    BY PlaceOfIs
  <2>2. BlockAt(D, C[i].map, PlaceOf(l)) # 0 => BlockAt(g.D, g.m, PlaceOf(l)) = BlockAt(D, C[i].map, PlaceOf(l))
    BY <2>1, <1>1, <1>2, <1>3 DEF Grow
  <2> QED BY <2>2, <1>1, <1>2, PhysIs
<1> DEFINE D2 == g.D
<1>9. Grow(U, i, PathTo(l), D, Maps(C), D2, M2)
  BY <1>2
<1> HIDE DEF D2
<1>10. \A j \in U \ {i} : Looks(D, C[j], D2, C[j])
  BY <1>9, GrowLooks
<1>11. ASSUME AllOwned(D, U, Maps(C)) PROVE AllOwned(D2, U, M2)
  <2> SUFFICES ASSUME NEW b \in D2.used PROVE \E j \in U, q \in MapPlaces : BlockAt(D2, M2[j], q) = b
    BY DEF AllOwned
  <2>1. CASE b \in D.used
    <3>1. PICK j \in U, q \in MapPlaces : BlockAt(D, Maps(C)[j], q) = b
      BY <2>1, <1>11 DEF AllOwned
    <3>2. b # 0
      BY <2>1 DEF DiskT, EBlks
    <3> QED BY <3>1, <3>2, <1>9 DEF Grow
  <2>2. CASE b \notin D.used
    BY <2>2, <1>9 DEF Grow
  <2> QED BY <2>1, <2>2
<1> QED BY <1>2, <1>4, <1>5, <1>6, <1>7, <1>8, <1>10, <1>11 DEF M2, D2, Mapped

\* Nothing has changed for the readers of the inodes U.
AllLook(U, D, C, D2, C2) ==
  /\ D2 \in DiskT /\ C2 \in [EInos -> InodeT] /\ Apart(D2, U, Maps(C2))
  /\ \A j \in U : Looks(D, C[j], D2, C2[j])

\* The fields of what ext2_get_block() returns for a block past the map's reach.
LEMMA RefusedIs ==
  ASSUME NEW D, NEW m, NEW g, g = [ok |-> FALSE, D |-> D, m |-> m, b |-> 0]
  PROVE  ~g.ok /\ g.D = D /\ g.m = m
OBVIOUS

\* No block was found: what was mapped on the way shows nowhere.
LEMMA GrowFails ==
  ASSUME NEW U \in SUBSET EInos, NEW i \in U, NEW D \in DiskT, NEW C \in [EInos -> InodeT],
         Apart(D, U, Maps(C)), NEW l \in Nat, NEW g, g = ext2_get_block(D, C[i].map, l), ~g.ok
  PROVE  AllLook(U, D, C, g.D, [C EXCEPT ![i].map = g.m])
<1> DEFINE C2 == [C EXCEPT ![i].map = g.m]
<1>1. Maps(C) \in [EInos -> MapT] /\ C[i].map = Maps(C)[i] /\ C[i].map \in MapT
  BY MapsType
<1>2. C[i] \in InodeT
  OBVIOUS
<1>3. CASE Mappable(l)
  <2>1. Got(U, i, PathTo(l), D, Maps(C), g, PlaceOf(l))
    BY <1>1, <1>3, GetGot
  <2>2. Mapped(U, i, D, C, l, g)
    BY <2>1, <1>3, GrowMine
  <2>a. /\ g.D \in DiskT /\ g.m \in MapT /\ Phys(g.D, g.m, l) = 0 /\ Apart(g.D, U, [Maps(C) EXCEPT ![i] = g.m])
    BY <2>2 DEF Mapped
  <2>3. \A h \in Nat : Phys(g.D, g.m, h) = Phys(D, C[i].map, h)
    BY <2>2, <2>a DEF Mapped
  <2>4. [C[i] EXCEPT !.map = g.m] \in InodeT
    BY <2>a, <1>2 DEF InodeT
  <2>5. C2 \in [EInos -> InodeT] /\ C2[i].map = g.m /\ C2[i].kind = C[i].kind /\ C2[i].size = C[i].size
        /\ C2[i].links = C[i].links /\ \A j \in EInos \ {i} : C2[j] = C[j]
    BY <2>4, <1>2 DEF InodeT
  <2> HIDE DEF C2
  <2>6. Maps(C2) = [Maps(C) EXCEPT ![i] = g.m]
    BY <2>5 DEF Maps
  <2>b. U \in SUBSET EInos /\ i \in U /\ D \in DiskT /\ Apart(D, U, Maps(C))
    OBVIOUS
  <2>7. \A h \in Nat : Phys(D, C[i].map, h) # 0 => Phys(D, C[i].map, h) \in D.used
    BY ONLY <1>1, <2>b, PhysUsed
  <2>8. Looks(D, C[i], g.D, C2[i])
    BY <2>2, <2>3, <2>5, <2>7 DEF Looks, Mapped
  <2>9. ASSUME NEW j \in U \ {i} PROVE Looks(D, C[j], g.D, C2[j])
    BY <2>2, <2>5 DEF Mapped
  <2>10. AllLook(U, D, C, g.D, C2)
    BY <2>a, <2>5, <2>6, <2>8, <2>9 DEF AllLook
  <2> QED BY <2>10 DEF C2
<1>4. CASE ~Mappable(l)
  <2>1. g = [ok |-> FALSE, D |-> D, m |-> C[i].map, b |-> 0]
    BY <1>1, <1>4, GetGot
  <2>2. [C[i] EXCEPT !.map = C[i].map] = C[i]
    BY <1>2 DEF InodeT
  <2>a. g.m = C[i].map /\ g.D = D
    BY ONLY <2>1, RefusedIs
  <2>b. C2 = [C EXCEPT ![i] = [C[i] EXCEPT !.map = g.m]]
    OBVIOUS
  <2>c. C2 = [C EXCEPT ![i] = C[i]]
    BY <2>2, <2>a, <2>b
  <2>3. C2 = C /\ g.D = D
    BY <2>a, <2>c
  <2>4. \A j \in U : Looks(D, C[j], D, C[j])
    BY DEF Looks
  <2> QED BY <2>3, <2>4 DEF AllLook
<1> QED BY <1>3, <1>4

\* A mapped logical block is marked in the bitmap.
LEMMA PhysIn ==
  ASSUME NEW U \in SUBSET EInos, NEW D \in DiskT, NEW C \in [EInos -> InodeT], Apart(D, U, Maps(C)),
         NEW j \in U, NEW l \in Nat, Phys(D, C[j].map, l) # 0
  PROVE  Phys(D, C[j].map, l) \in D.used /\ Phys(D, C[j].map, l) \in EBlks
<1>1. Maps(C) \in [EInos -> MapT] /\ Maps(C)[j] = C[j].map
  BY MapsType
<1>2. Phys(D, Maps(C)[j], l) # 0
  BY <1>1
<1>3. Phys(D, Maps(C)[j], l) \in D.used /\ Phys(D, Maps(C)[j], l) \in EBlks
  BY <1>1, <1>2, PhysUsed
<1> QED BY <1>1, <1>3

\* Two logical blocks are never the same block.
LEMMA PhysDiffer ==
  ASSUME NEW U \in SUBSET EInos, NEW D \in DiskT, NEW C \in [EInos -> InodeT], Apart(D, U, Maps(C)),
         NEW i \in U, NEW j \in U, NEW l \in Nat, NEW h \in Nat, Phys(D, C[i].map, l) # 0, i # j \/ l # h
  PROVE  Phys(D, C[i].map, l) # Phys(D, C[j].map, h)
<1>1. Maps(C) \in [EInos -> MapT] /\ Maps(C)[j] = C[j].map /\ Maps(C)[i] = C[i].map
  BY MapsType
<1>2. Phys(D, Maps(C)[i], l) # 0
  BY <1>1
<1>3. Phys(D, Maps(C)[i], l) # Phys(D, Maps(C)[j], h)
  BY <1>1, <1>2, PhysApart
<1> QED BY <1>1, <1>3

-----------------------------------------------------------------------------
(* A block gets a new content                                               *)

Leaf(D, D2, b) ==
  /\ D2 \in DiskT /\ D2.used = D.used /\ D2.ptr = D.ptr
  /\ \A c \in EBlks \ {b} : D2.dat[c] = D.dat[c] /\ D2.dir[c] = D.dir[c]

\* A directory block is written.
LEMMA DirPut ==
  ASSUME NEW D \in DiskT, NEW b \in EBlks, NEW s \in DirT
  PROVE  LET D2 == [D EXCEPT !.dir[b] = s] IN Leaf(D, D2, b) /\ D2.dir[b] = s /\ D2.dat = D.dat
<1> DEFINE f == [D.dir EXCEPT ![b] = s]
           D2 == [D EXCEPT !.dir[b] = s]
<1>1. f \in [EBlks -> DirT] /\ f[b] = s /\ \A c \in EBlks \ {b} : f[c] = D.dir[c]
  BY DEF DiskT
<1>2. D2.used = D.used /\ D2.ptr = D.ptr /\ D2.dat = D.dat /\ D2.dir = f /\ D2.free = D.free
  BY DEF DiskT
<1>3. D2 = [D EXCEPT !.dir = f]
  OBVIOUS
<1> HIDE DEF f
<1>4. D2 \in DiskT
  BY <1>1, <1>3 DEF DiskT
<1> HIDE DEF D2
<1>5. Leaf(D, D2, b) /\ D2.dir[b] = s /\ D2.dat = D.dat
  BY <1>1, <1>2, <1>4 DEF Leaf
<1> QED BY <1>5 DEF D2

\* A data block is written.
LEMMA DatPut ==
  ASSUME NEW D \in DiskT, NEW b \in EBlks, NEW v \in Values
  PROVE  LET D2 == [D EXCEPT !.dat[b] = v] IN Leaf(D, D2, b) /\ D2.dat[b] = v /\ D2.dir = D.dir
<1> DEFINE f == [D.dat EXCEPT ![b] = v]
           D2 == [D EXCEPT !.dat[b] = v]
<1>1. f \in [EBlks -> Values \cup {0}] /\ f[b] = v /\ \A c \in EBlks \ {b} : f[c] = D.dat[c]
  BY DEF DiskT
<1>2. D2.used = D.used /\ D2.ptr = D.ptr /\ D2.dat = f /\ D2.dir = D.dir /\ D2.free = D.free
  BY DEF DiskT
<1>3. D2 = [D EXCEPT !.dat = f]
  OBVIOUS
<1> HIDE DEF f
<1>4. D2 \in DiskT
  BY <1>1, <1>3 DEF DiskT
<1> HIDE DEF D2
<1>5. Leaf(D, D2, b) /\ D2.dat[b] = v /\ D2.dir = D.dir
  BY <1>1, <1>2, <1>4 DEF Leaf
<1> QED BY <1>5 DEF D2

\* A write to a block that is no indirect block leaves every map as it was.
LEMMA LeafSame ==
  ASSUME NEW U, NEW D \in DiskT, NEW M, NEW D2, NEW b, Leaf(D, D2, b)
  PROVE  /\ Apart(D, U, M) => Apart(D2, U, M)
         /\ AllOwned(D, U, M) => AllOwned(D2, U, M)
         /\ \A m \in MapT, l \in Nat : Phys(D2, m, l) = Phys(D, m, l)
<1>1. \A m, q : BlockAt(D2, m, q) = BlockAt(D, m, q)
  BY PtrSame DEF Leaf
<1>2. D2.used = D.used /\ D2 \in DiskT
  BY DEF Leaf
<1>3. \A m \in MapT, l \in Nat : Phys(D2, m, l) = Phys(D, m, l)
  BY <1>1, <1>2, PhysSame
<1>4. Apart(D, U, M) => Apart(D2, U, M)
  BY <1>1, <1>2 DEF Apart
<1>5. AllOwned(D, U, M) => AllOwned(D2, U, M)
  BY <1>1, <1>2 DEF AllOwned
<1> QED BY <1>3, <1>4, <1>5

\* and leaves every other inode as it looked.
LEMMA LeafLooks ==
  ASSUME NEW U \in SUBSET EInos, NEW i \in U, NEW D \in DiskT, NEW C \in [EInos -> InodeT], Apart(D, U, Maps(C)),
         NEW l \in Nat, Phys(D, C[i].map, l) # 0, NEW D2, Leaf(D, D2, Phys(D, C[i].map, l)), NEW j \in U \ {i}
  PROVE  Looks(D, C[j], D2, C[j])
<1> DEFINE b == Phys(D, C[i].map, l)
<1>1. Maps(C) \in [EInos -> MapT] /\ Maps(C)[i] = C[i].map /\ Maps(C)[j] = C[j].map /\ C[j].map \in MapT
  BY MapsType
<1>2. \A h \in Nat : Phys(D2, C[j].map, h) = Phys(D, C[j].map, h)
  BY <1>1, LeafSame
<1>3. ASSUME NEW h \in Nat, Phys(D, C[j].map, h) # 0 PROVE Phys(D, C[j].map, h) \in EBlks \ {b}
  <2>1. j \in U /\ Phys(D, Maps(C)[j], h) # 0 /\ Phys(D, Maps(C)[i], l) # 0
    BY <1>1, <1>3
  <2>2. Phys(D, Maps(C)[j], h) \in EBlks
    BY <2>1, <1>1, PhysUsed
  <2>3. Phys(D, Maps(C)[i], l) # Phys(D, Maps(C)[j], h)
    BY <2>1, <1>1, PhysApart
  <2> QED BY <2>2, <2>3, <1>1
<1>4. \A c \in EBlks \ {b} : D2.dat[c] = D.dat[c] /\ D2.dir[c] = D.dir[c]
  BY DEF Leaf
<1> QED BY <1>2, <1>3, <1>4 DEF Looks

-----------------------------------------------------------------------------
(* What a directory lists, block by block                                   *)

Part(D, p, l) == IF l < p.size THEN Shown(DirAt(D, p, l)) ELSE {}

\* The entries a block shows.
LEMMA InShown ==
  ASSUME NEW s, NEW u
  PROVE  u \in Shown(s) <=> \E o \in DOMAIN s : s[o].ino # 0 /\ u = <<o, s[o].name, s[o].ino>>
BY DEF Shown

\* A directory lists what its blocks show.
LEMMA ListingIs ==
  ASSUME NEW D, NEW p, p.size \in Nat, Chained(D, p), NEW t
  PROVE  t \in Listing(D, p) <=> \E l \in Nat : \E u \in Part(D, p, l) : t = <<<<l, u[1]>>, u[2], u[3]>>
<1>1. BlockSpace \in Nat
  BY Ext2Assumption
<1>2. ASSUME t \in Listing(D, p) PROVE \E l \in Nat : \E u \in Part(D, p, l) : t = <<<<l, u[1]>>, u[2], u[3]>>
  <2>1. PICK l \in 0..p.size - 1, o \in 0..BlockSpace - 1 :
             /\ Phys(D, p.map, l) # 0 /\ o \in DOMAIN DirAt(D, p, l) /\ DirAt(D, p, l)[o].ino # 0
             /\ t = <<<<l, o>>, DirAt(D, p, l)[o].name, DirAt(D, p, l)[o].ino>>
    BY <1>2, InListing
  <2> DEFINE u == <<o, DirAt(D, p, l)[o].name, DirAt(D, p, l)[o].ino>>
  <2>2. u \in Shown(DirAt(D, p, l))
    BY <2>1, InShown
  <2>3. l \in Nat /\ l < p.size
    OBVIOUS
  <2>4. u \in Part(D, p, l)
    BY <2>2, <2>3 DEF Part
  <2>5. t = <<<<l, u[1]>>, u[2], u[3]>>
    BY <2>1
  <2> QED BY <2>3, <2>4, <2>5
<1>3. ASSUME NEW l \in Nat, NEW u \in Part(D, p, l), t = <<<<l, u[1]>>, u[2], u[3]>> PROVE t \in Listing(D, p)
  <2>1. l \in 0..p.size - 1 /\ u \in Shown(DirAt(D, p, l))
    BY <1>3 DEF Part
  <2>2. PICK o \in DOMAIN DirAt(D, p, l) : DirAt(D, p, l)[o].ino # 0 /\ u = <<o, DirAt(D, p, l)[o].name, DirAt(D, p, l)[o].ino>>
    BY <2>1, InShown
  <2>3. Phys(D, p.map, l) # 0 /\ o \in 0..BlockSpace - 1
    BY <2>1, <2>2 DEF Chained, Tiled
  <2>4. t = <<<<l, o>>, DirAt(D, p, l)[o].name, DirAt(D, p, l)[o].ino>>
    BY <1>3, <2>2
  <2> QED BY <2>1, <2>2, <2>3, <2>4, InListing
<1> QED BY <1>2, <1>3

\* An entry of block l is the same in the block and in the directory.
LEMMA ListingPart ==
  ASSUME NEW D, NEW p, p.size \in Nat, Chained(D, p), NEW l \in Nat, NEW o, NEW n, NEW i
  PROVE  <<<<l, o>>, n, i>> \in Listing(D, p) <=> <<o, n, i>> \in Part(D, p, l)
<1>1. ASSUME <<<<l, o>>, n, i>> \in Listing(D, p) PROVE <<o, n, i>> \in Part(D, p, l)
  <2>1. PICK h \in Nat : \E u \in Part(D, p, h) : <<<<l, o>>, n, i>> = <<<<h, u[1]>>, u[2], u[3]>>
    BY <1>1, ListingIs
  <2>2. PICK u \in Part(D, p, h) : <<<<l, o>>, n, i>> = <<<<h, u[1]>>, u[2], u[3]>>
    BY <2>1
  <2>3. h = l /\ u[1] = o /\ u[2] = n /\ u[3] = i
    BY <2>2
  <2>4. u \in Shown(DirAt(D, p, h))
    BY DEF Part
  <2>5. u = <<u[1], u[2], u[3]>>
    BY <2>4 DEF Shown
  <2> QED BY <2>3, <2>5
<1>2. ASSUME <<o, n, i>> \in Part(D, p, l) PROVE <<<<l, o>>, n, i>> \in Listing(D, p)
  <2> DEFINE u == <<o, n, i>>
  <2>1. u \in Part(D, p, l) /\ <<<<l, o>>, n, i>> = <<<<l, u[1]>>, u[2], u[3]>>
    BY <1>2
  <2> QED BY <2>1, ListingIs
<1> QED BY <1>1, <1>2

\* What is listed, by its parts.
LEMMA ListingParts ==
  ASSUME NEW D, NEW p, NEW t \in Listing(D, p)
  PROVE  t = <<<<t[1][1], t[1][2]>>, t[2], t[3]>> /\ t[1][1] \in 0..p.size - 1
<1>1. PICK l \in 0..p.size - 1, o \in 0..BlockSpace - 1 :
         t = <<<<l, o>>, DirAt(D, p, l)[o].name, DirAt(D, p, l)[o].ino>>
  BY InListing
<1> QED BY <1>1

\* Block l has got the entry u, where there was none, or has lost it.
PartAdds(D, p, D2, p2, l, u) ==
  /\ \A h \in Nat \ {l} : Part(D2, p2, h) = Part(D, p, h)
  /\ Part(D2, p2, l) = Part(D, p, l) \cup {u}
  /\ \A v \in Part(D, p, l) : v[1] # u[1]
PartDrops(D, p, D2, p2, l, u) ==
  /\ \A h \in Nat \ {l} : Part(D2, p2, h) = Part(D, p, h)
  /\ Part(D2, p2, l) = Part(D, p, l) \ {u}

\* One block shows one entry more, and so the directory lists it.
LEMMA ListingAdd ==
  ASSUME NEW D, NEW p, NEW D2, NEW p2, p.size \in Nat, p2.size \in Nat, Chained(D, p), Chained(D2, p2),
         NEW l \in Nat, NEW o, NEW n, NEW i, PartAdds(D, p, D2, p2, l, <<o, n, i>>)
  PROVE  /\ Listing(D2, p2) = Listing(D, p) \cup {<<<<l, o>>, n, i>>}
         /\ \A t \in Listing(D, p) : t[1] # <<l, o>>
<1> DEFINE z == <<<<l, o>>, n, i>>
           c == <<o, n, i>>
<1>1. z = <<<<l, c[1]>>, c[2], c[3]>>
  OBVIOUS
<1>a. /\ \A h \in Nat \ {l} : Part(D2, p2, h) = Part(D, p, h)
      /\ Part(D2, p2, l) = Part(D, p, l) \cup {<<o, n, i>>} /\ \A u \in Part(D, p, l) : u[1] # o
  BY DEF PartAdds
<1> HIDE DEF z, c
<1> USE <1>a
<1>2. ASSUME NEW t \in Listing(D2, p2) PROVE t \in Listing(D, p) \cup {z}
  <2>1. PICK h \in Nat : \E u \in Part(D2, p2, h) : t = <<<<h, u[1]>>, u[2], u[3]>>
    BY ListingIs
  <2>2. PICK u \in Part(D2, p2, h) : t = <<<<h, u[1]>>, u[2], u[3]>>
    BY <2>1
  <2>3. CASE u \in Part(D, p, h)
    BY <2>2, <2>3, ListingIs
  <2>4. CASE u \notin Part(D, p, h)
    <3>1. h = l /\ u = c
      BY <2>4 DEF c
    <3> QED BY <3>1, <2>2, <1>1
  <2> QED BY <2>3, <2>4
<1>3. ASSUME NEW t \in Listing(D, p) PROVE t \in Listing(D2, p2) /\ t[1] # <<l, o>>
  <2>1. PICK h \in Nat : \E u \in Part(D, p, h) : t = <<<<h, u[1]>>, u[2], u[3]>>
    BY ListingIs
  <2>2. PICK u \in Part(D, p, h) : t = <<<<h, u[1]>>, u[2], u[3]>>
    BY <2>1
  <2>3. u \in Part(D2, p2, h)
    BY <2>2
  <2>4. t[1] # <<l, o>>
    BY <2>2
  <2> QED BY <2>2, <2>3, <2>4, ListingIs
<1>4. z \in Listing(D2, p2)
  <2>1. c \in Part(D2, p2, l)
    BY DEF c
  <2> QED BY <2>1, <1>1, ListingIs
<1>5. Listing(D2, p2) = Listing(D, p) \cup {z}
  BY <1>2, <1>3, <1>4
<1> QED BY <1>3, <1>5 DEF z

\* One block shows one entry less.
LEMMA ListingRemove ==
  ASSUME NEW D, NEW p, NEW D2, NEW p2, p.size \in Nat, p2.size \in Nat, Chained(D, p), Chained(D2, p2),
         NEW l \in Nat, NEW o, NEW n, NEW i, PartDrops(D, p, D2, p2, l, <<o, n, i>>)
  PROVE  Listing(D2, p2) = Listing(D, p) \ {<<<<l, o>>, n, i>>}
<1> DEFINE z == <<<<l, o>>, n, i>>
           c == <<o, n, i>>
<1>1. z = <<<<l, c[1]>>, c[2], c[3]>>
  OBVIOUS
<1>a. /\ \A h \in Nat \ {l} : Part(D2, p2, h) = Part(D, p, h)
      /\ Part(D2, p2, l) = Part(D, p, l) \ {<<o, n, i>>}
  BY DEF PartDrops
<1> USE <1>a
<1>2. ASSUME NEW t \in Listing(D2, p2) PROVE t \in Listing(D, p) /\ t # z
  <2>1. PICK h \in Nat : \E u \in Part(D2, p2, h) : t = <<<<h, u[1]>>, u[2], u[3]>>
    BY ListingIs
  <2>2. PICK u \in Part(D2, p2, h) : t = <<<<h, u[1]>>, u[2], u[3]>>
    BY <2>1
  <2>3. u \in Part(D, p, h)
    BY <2>2
  <2>4. ASSUME t = z PROVE FALSE
    <3>1. <<o, n, i>> \in Part(D2, p2, l)
      BY <2>4, ListingPart
    <3> QED BY <3>1
  <2> QED BY <2>2, <2>3, <2>4, ListingIs
<1>3. ASSUME NEW t \in Listing(D, p), t # z PROVE t \in Listing(D2, p2)
  <2>1. PICK h \in Nat : \E u \in Part(D, p, h) : t = <<<<h, u[1]>>, u[2], u[3]>>
    BY ListingIs
  <2>2. PICK u \in Part(D, p, h) : t = <<<<h, u[1]>>, u[2], u[3]>>
    BY <2>1
  <2>3. u \in Part(D2, p2, h)
    <3>1. CASE h = l
      <4>1. u # c
        BY <3>1, <2>2, <1>3, <1>1
      <4> QED BY <4>1, <3>1, <2>2
    <3>2. CASE h # l
      BY <3>2, <2>2
    <3> QED BY <3>1, <3>2
  <2> QED BY <2>2, <2>3, ListingIs
<1> HIDE DEF z
<1>4. Listing(D2, p2) = Listing(D, p) \ {z}
  BY <1>2, <1>3
<1> QED BY <1>4 DEF z

-----------------------------------------------------------------------------
(* A directory changes                                                      *)

\* D2 is D with another content, r, in block l of directory d.
PutIn(U, d, D, C, D2, l, r) ==
  /\ D2 \in DiskT /\ D2.used = D.used /\ D2.ptr = D.ptr /\ Apart(D2, U, Maps(C))
  /\ AllOwned(D, U, Maps(C)) => AllOwned(D2, U, Maps(C))
  /\ \A j \in U \ {d} : Looks(D, C[j], D2, C[j])
  /\ \A h \in Nat : Phys(D2, C[d].map, h) = Phys(D, C[d].map, h)
  /\ Chained(D2, C[d]) /\ DirAt(D2, C[d], l) = r
  /\ \A h \in Nat \ {l} : Part(D2, C[d], h) = Part(D, C[d], h)
  /\ Part(D2, C[d], l) = Shown(r)

\* A block of directory d is replaced by another chain.
LEMMA DirBlockPut ==
  ASSUME NEW U \in SUBSET EInos, NEW d \in U, NEW D \in DiskT, NEW C \in [EInos -> InodeT], Apart(D, U, Maps(C)),
         Chained(D, C[d]), NEW l \in 0..C[d].size - 1, NEW r \in DirT, Tiled(r),
         NEW D2, D2 = [D EXCEPT !.dir[Phys(D, C[d].map, l)] = r]
  PROVE  PutIn(U, d, D, C, D2, l, r)
<1> DEFINE b == Phys(D, C[d].map, l)
<1>1. Maps(C) \in [EInos -> MapT] /\ Maps(C)[d] = C[d].map /\ C[d].map \in MapT /\ C[d].size \in Nat
  BY MapsType
<1>2. l \in Nat /\ b # 0
  BY <1>1 DEF Chained
<1>3. b \in EBlks
  BY <1>2, PhysIn
<1>4. Leaf(D, D2, b) /\ D2.dir[b] = r
  BY <1>3, DirPut
<1>a. U \in SUBSET EInos /\ d \in U /\ D \in DiskT /\ C \in [EInos -> InodeT] /\ Apart(D, U, Maps(C))
  OBVIOUS
<1>5. /\ Apart(D2, U, Maps(C))
      /\ AllOwned(D, U, Maps(C)) => AllOwned(D2, U, Maps(C))
      /\ \A h \in Nat : Phys(D2, C[d].map, h) = Phys(D, C[d].map, h)
  BY ONLY <1>1, <1>4, <1>a, LeafSame
<1>6. \A j \in U \ {d} : Looks(D, C[j], D2, C[j])
  BY ONLY <1>2, <1>4, <1>a, LeafLooks
<1>7. ASSUME NEW h \in 0..C[d].size - 1, h # l PROVE DirAt(D2, C[d], h) = DirAt(D, C[d], h)
  <2>1. h \in Nat /\ Phys(D, C[d].map, h) # 0
    BY <1>1 DEF Chained
  <2>2. Phys(D, C[d].map, h) \in EBlks
    BY <2>1, PhysIn
  <2>3. Phys(D, C[d].map, h) # Phys(D, C[d].map, l)
    BY <2>1, <1>2, <1>7, PhysDiffer
  <2>4. Phys(D, C[d].map, h) \in EBlks \ {b}
    BY <2>2, <2>3, <1>1
  <2> QED BY <2>1, <2>4, <1>4, <1>5 DEF DirAt, Leaf
<1>8. DirAt(D2, C[d], l) = r
  BY <1>2, <1>4, <1>5 DEF DirAt
<1>9. ASSUME NEW h \in 0..C[d].size - 1 PROVE Phys(D2, C[d].map, h) # 0 /\ Tiled(DirAt(D2, C[d], h))
  <2>1. h \in Nat
    BY <1>1
  <2>2. Phys(D, C[d].map, h) # 0 /\ Tiled(DirAt(D, C[d], h))
    BY DEF Chained
  <2>3. Phys(D2, C[d].map, h) # 0
    BY <2>1, <2>2, <1>5
  <2>4. CASE h = l
    BY <2>3, <2>4, <1>8
  <2>5. CASE h # l
    BY <2>2, <2>3, <2>5, <1>7
  <2> QED BY <2>4, <2>5
<1>10. Chained(D2, C[d])
  BY <1>9 DEF Chained
<1>11. ASSUME NEW h \in Nat \ {l} PROVE Part(D2, C[d], h) = Part(D, C[d], h)
  <2>1. CASE h < C[d].size
    <3>1. h \in 0..C[d].size - 1
      BY <2>1, <1>1
    <3> QED BY <3>1, <2>1, <1>7 DEF Part
  <2>2. CASE ~(h < C[d].size)
    BY <2>2 DEF Part
  <2> QED BY <2>1, <2>2
<1>12. Part(D2, C[d], l) = Shown(r)
  BY <1>1, <1>8 DEF Part
<1> QED BY <1>4, <1>5, <1>6, <1>8, <1>10, <1>11, <1>12 DEF PutIn, Leaf

\* The copy p2 of a directory has what p has, and perhaps one block more.
Longer(D, p, D2, p2) ==
  /\ p2.kind = p.kind /\ p2.links = p.links /\ p.size <= p2.size
  /\ \A x \in 0..Dind : p.map[x] \in {0, p2.map[x]}
  /\ \A l \in 0..p.size - 1 : Phys(D2, p2.map, l) = Phys(D, p.map, l)

\* Directory d has got the entry n for i.
Added(U, d, D, C, D2, C2, n, i) ==
  /\ D2 \in DiskT /\ C2 \in [EInos -> InodeT] /\ \A j \in EInos \ {d} : C2[j] = C[j]
  /\ Apart(D2, U, Maps(C2))
  /\ AllOwned(D, U, Maps(C)) => AllOwned(D2, U, Maps(C2))
  /\ \A j \in U \ {d} : Looks(D, C[j], D2, C[j])
  /\ Longer(D, C[d], D2, C2[d]) /\ Chained(D2, C2[d])
  /\ \E x : /\ \A t \in Listing(D, C[d]) : t[1] # x
            /\ Listing(D2, C2[d]) = Listing(D, C[d]) \cup {<<x, n, i>>}

\* ext2_dir_add() when a block has room.
LEMMA AddAt ==
  ASSUME NEW U \in SUBSET EInos, NEW d \in U, NEW D \in DiskT, NEW C \in [EInos -> InodeT], Apart(D, U, Maps(C)),
         Chained(D, C[d]), NEW n \in ENames, NEW i \in EInos, Roomy(D, C[d], n) # {}
  PROVE  LET a == ext2_dir_add(D, C[d], n, i) IN a.ok /\ a.p = C[d] /\ Added(U, d, D, C, a.D, C, n, i)
<1> DEFINE l == First(Roomy(D, C[d], n))
           s == DirAt(D, C[d], l)
           r == AddToBlock(s, n, i)
           D2 == [D EXCEPT !.dir[Phys(D, C[d].map, l)] = r]
<1>1. Maps(C) \in [EInos -> MapT] /\ Maps(C)[d] = C[d].map /\ C[d].map \in MapT /\ C[d].size \in Nat
  BY MapsType
<1>2. Roomy(D, C[d], n) \subseteq 0..C[d].size - 1
  BY DEF Roomy
<1>3. Roomy(D, C[d], n) \subseteq Nat
  BY <1>1, <1>2
<1>4. l \in Roomy(D, C[d], n)
  BY <1>3, FirstIs
<1> HIDE DEF l
<1>5. l \in 0..C[d].size - 1 /\ l \in Nat /\ (Slots(s, n) # {} \/ TailFits(s, n))
  BY <1>1, <1>4 DEF Roomy
<1>6. Phys(D, C[d].map, l) # 0 /\ Tiled(s)
  BY <1>5 DEF Chained
<1>7. Phys(D, C[d].map, l) \in EBlks
  BY <1>5, <1>6, PhysIn
<1>8. s \in DirT
  BY <1>7 DEF DirAt, DiskT
<1> HIDE DEF s
<1>9. /\ r \in DirT /\ Tiled(r)
      /\ \E o \in 0..BlockSpace - 1 : (\A t \in Shown(s) : t[1] # o) /\ Shown(r) = Shown(s) \cup {<<o, n, i>>}
  BY <1>5, <1>6, <1>8, AddIs
<1> HIDE DEF r
<1>10. PICK o \in 0..BlockSpace - 1 : (\A t \in Shown(s) : t[1] # o) /\ Shown(r) = Shown(s) \cup {<<o, n, i>>}
  BY <1>9
<1>11. PutIn(U, d, D, C, D2, l, r)
  BY <1>5, <1>9, DirBlockPut
<1> HIDE DEF D2
<1>12. Part(D, C[d], l) = Shown(s)
  BY <1>1, <1>5 DEF Part, s
<1>13. /\ Chained(D2, C[d]) /\ \A h \in Nat \ {l} : Part(D2, C[d], h) = Part(D, C[d], h)
       /\ Part(D2, C[d], l) = Part(D, C[d], l) \cup {<<o, n, i>>} /\ \A u \in Part(D, C[d], l) : u[1] # o
  BY <1>10, <1>11, <1>12 DEF PutIn
<1>14. /\ Listing(D2, C[d]) = Listing(D, C[d]) \cup {<<<<l, o>>, n, i>>}
       /\ \A t \in Listing(D, C[d]) : t[1] # <<l, o>>
  <2> DEFINE p == C[d]
  <2>1. /\ p.size \in Nat /\ Chained(D, p) /\ Chained(D2, p)
        /\ PartAdds(D, p, D2, p, l, <<o, n, i>>)
    BY <1>1, <1>13 DEF PartAdds
  <2> HIDE DEF p
  <2>2. /\ Listing(D2, p) = Listing(D, p) \cup {<<<<l, o>>, n, i>>}
        /\ \A t \in Listing(D, p) : t[1] # <<l, o>>
    BY <2>1, <1>5, ListingAdd
  <2> QED BY <2>2 DEF p
<1>15. Longer(D, C[d], D2, C[d])
  <2>1. \A h \in 0..C[d].size - 1 : Phys(D2, C[d].map, h) = Phys(D, C[d].map, h)
    BY <1>1, <1>11 DEF PutIn
  <2> QED BY <2>1, <1>1 DEF Longer
<1>16. Added(U, d, D, C, D2, C, n, i)
  BY <1>11, <1>14, <1>15 DEF Added, PutIn
<1>17. ext2_dir_add(D, C[d], n, i) = [ok |-> TRUE, p |-> C[d], D |-> D2]
  <2>1. D.dir[Phys(D, C[d].map, l)] = s
    BY DEF s, DirAt
  <2>2. ext2_dir_add(D, C[d], n, i) = [ok |-> TRUE, p |-> C[d],
          D |-> [D EXCEPT !.dir[Phys(D, C[d].map, l)] = AddToBlock(D.dir[Phys(D, C[d].map, l)], n, i)]]
    BY DEF ext2_dir_add, l, DiskT
  <2> QED BY <2>1, <2>2 DEF D2, r
<1> QED BY <1>16, <1>17

\* The block that a directory grows by holds the one new entry.
LEMMA OneEntry ==
  ASSUME NEW n \in ENames, NEW i \in EInos
  PROVE  LET s == [o \in {0} |-> Dirent(i, BlockSpace, n, NameSpace[n])] IN
         s \in DirT /\ Tiled(s) /\ Shown(s) = {<<0, n, i>>}
<1> DEFINE e == Dirent(i, BlockSpace, n, NameSpace[n])
           s == [o \in {0} |-> e]
<1>1. BlockSpace \in Nat /\ BlockSpace >= 6 /\ NameSpace[n] \in Nat /\ 2 + NameSpace[n] <= BlockSpace
  BY Ext2Assumption
<1>2. e \in EntryT /\ e.rec = BlockSpace /\ e.len = NameSpace[n] /\ e.name = n /\ e.ino = i /\ i # 0
  <2>1. e = [ino |-> i, rec |-> BlockSpace, name |-> n, len |-> NameSpace[n]] /\ i \in 0..NInodes /\ i # 0
    BY DEF Dirent, EInos
  <2> HIDE DEF e
  <2>a. n \in ENames \cup {"", ".", ".."}
    OBVIOUS
  <2>b. BlockSpace \in Int /\ NameSpace[n] \in Nat
    BY <1>1
  <2>2. e \in EntryT
    BY <2>1, <2>a, <2>b DEF EntryT
  <2> QED BY <2>1, <2>2
<1> HIDE DEF e
<1>3. s \in [{0} -> EntryT] /\ DOMAIN s = {0} /\ s[0] = e
  BY <1>2
<1> HIDE DEF s
<1>4. s \in DirT
  BY <1>3, IsDirT
<1>5. Tiled(s)
  BY <1>1, <1>2, <1>3 DEF Tiled, RealLen
<1>6. \A u : u \in Shown(s) <=> u = <<0, n, i>>
  BY <1>2, <1>3, InShown
<1>7. Shown(s) = {<<0, n, i>>}
  BY <1>6
<1> QED BY <1>4, <1>5, <1>7 DEF s, e

\* ext2_dir_add() when the directory grows.
LEMMA AddGrow ==
  ASSUME NEW U \in SUBSET EInos, NEW d \in U, NEW D \in DiskT, NEW C \in [EInos -> InodeT], Apart(D, U, Maps(C)),
         Chained(D, C[d]), NEW n \in ENames, NEW i \in EInos, NEW g,
         g = ext2_get_block(D, C[d].map, C[d].size), g.ok
  PROVE  LET a == GrowDir(C[d], n, i, g) IN Added(U, d, D, C, a.D, [C EXCEPT ![d] = a.p], n, i)
<1> DEFINE p == C[d]
           k == p.size
           one == [o \in {0} |-> Dirent(i, BlockSpace, n, NameSpace[n])]
           q == [p EXCEPT !.map = g.m, !.size = @ + 1]
           D1 == g.D
           D2 == [D1 EXCEPT !.dir[g.b] = one]
           C2 == [C EXCEPT ![d] = q]
<1>1. Maps(C) \in [EInos -> MapT] /\ Maps(C)[d] = p.map /\ p.map \in MapT /\ k \in Nat /\ p \in InodeT
  BY MapsType
<1>2. Mappable(k) /\ Got(U, d, PathTo(k), D, Maps(C), g, PlaceOf(k))
  <2>1. CASE Mappable(k)
    BY <2>1, <1>1, GetGot
  <2>2. CASE ~Mappable(k)
    <3>a. g = ext2_get_block(D, Maps(C)[d], k)
      BY <1>1
    <3> HIDE DEF k, p
    <3>1. g = [ok |-> FALSE, D |-> D, m |-> Maps(C)[d], b |-> 0]
      BY <3>a, <2>2, <1>1, GetGot
    <3>2. ~g.ok
      BY ONLY <3>1, RefusedIs
    <3> QED BY <3>2
  <2> QED BY <2>1, <2>2
<1>3. Mapped(U, d, D, C, k, g)
  BY <1>1, <1>2, GrowMine
<1>4. one \in DirT /\ Tiled(one) /\ Shown(one) = {<<0, n, i>>}
  BY OneEntry
<1>5. D1 \in DiskT /\ g.m \in MapT /\ Phys(D1, g.m, k) = g.b /\ g.b # 0
  BY <1>3 DEF Mapped
<1>6. q \in InodeT /\ q.map = g.m /\ q.size = k + 1 /\ q.kind = p.kind /\ q.links = p.links
  <2>1. q = [p EXCEPT !.map = g.m, !.size = k + 1]
    OBVIOUS
  <2>2. k + 1 \in Nat
    BY <1>1
  <2> DEFINE e == k + 1
             m == g.m
  <2> HIDE DEF p, e, m
  <2>3. [p EXCEPT !.map = m, !.size = e] \in InodeT
    BY <2>2, <1>1, <1>5 DEF InodeT, m, e
  <2>4. LET r == [p EXCEPT !.map = m, !.size = e] IN r.map = m /\ r.size = e /\ r.kind = p.kind /\ r.links = p.links
    BY <1>1 DEF InodeT
  <2> QED BY <2>1, <2>3, <2>4 DEF m, e
<1> HIDE DEF q, one
<1>7. C2 \in [EInos -> InodeT] /\ C2[d] = q /\ \A j \in EInos \ {d} : C2[j] = C[j]
  BY <1>6
<1> HIDE DEF C2
<1>8. Maps(C2) = [Maps(C) EXCEPT ![d] = g.m]
  BY <1>6, <1>7 DEF Maps
<1>9. Apart(D1, U, Maps(C2)) /\ (AllOwned(D, U, Maps(C)) => AllOwned(D1, U, Maps(C2)))
  BY <1>3, <1>8 DEF Mapped
<1> HIDE DEF D1
<1>10. Phys(D1, C2[d].map, k) = g.b
  BY <1>5, <1>6, <1>7
<1>a. U \in SUBSET EInos /\ d \in U
  OBVIOUS
<1>11. g.b \in EBlks
  BY ONLY <1>1, <1>5, <1>7, <1>9, <1>10, <1>a, PhysIn
<1>b. D2 = [D1 EXCEPT !.dir[g.b] = one]
  OBVIOUS
<1> HIDE DEF D2
<1>12. Leaf(D1, D2, g.b) /\ D2.dir[g.b] = one
  BY ONLY <1>4, <1>5, <1>11, <1>b, DirPut
<1>13. /\ Apart(D2, U, Maps(C2)) /\ (AllOwned(D1, U, Maps(C2)) => AllOwned(D2, U, Maps(C2)))
       /\ \A h \in Nat : Phys(D2, g.m, h) = Phys(D1, g.m, h)
  BY <1>5, <1>9, <1>12, LeafSame
<1>14. ASSUME NEW j \in U \ {d} PROVE Looks(D, C[j], D2, C[j])
  <2>1. Looks(D, C[j], D1, C[j])
    BY <1>3 DEF Mapped, D1
  <2>2. Looks(D1, C2[j], D2, C2[j])
    <3>1. Phys(D1, C2[d].map, k) # 0 /\ Leaf(D1, D2, Phys(D1, C2[d].map, k)) /\ D1 \in DiskT /\ k \in Nat
      BY <1>1, <1>5, <1>10, <1>12
    <3> QED BY <3>1, <1>7, <1>9, LeafLooks
  <2>3. C2[j] = C[j]
    BY <1>7
  <2> QED BY <2>1, <2>2, <2>3, LooksTwice
<1>15. \A h \in Nat \ {k} : Phys(D2, q.map, h) = Phys(D, p.map, h)
  BY <1>3, <1>6, <1>13 DEF Mapped, D1
<1>16. Phys(D2, q.map, k) = g.b /\ DirAt(D2, q, k) = one
  BY <1>1, <1>5, <1>6, <1>12, <1>13 DEF DirAt
<1>17. ASSUME NEW h \in 0..k - 1 PROVE h \in Nat \ {k} /\ Phys(D2, q.map, h) # 0 /\ DirAt(D2, q, h) = DirAt(D, p, h)
  <2>1. h \in Nat \ {k}
    BY <1>1
  <2>2. Phys(D, p.map, h) # 0 /\ Phys(D2, q.map, h) = Phys(D, p.map, h) /\ Phys(D1, q.map, h) = Phys(D, p.map, h)
    BY <2>1, <1>6, <1>13, <1>15 DEF Chained
  <2>3. Phys(D, p.map, h) \in D.used /\ Phys(D, p.map, h) \in EBlks
    BY <2>1, <2>2, PhysIn
  <2>4. Phys(D1, C2[d].map, h) # Phys(D1, C2[d].map, k)
    BY <2>1, <2>2, <1>1, <1>5, <1>7, <1>9, PhysDiffer
  <2>5. Phys(D, p.map, h) \in EBlks \ {g.b}
    BY <2>2, <2>3, <2>4, <1>7, <1>10
  <2>6. D2.dir[Phys(D, p.map, h)] = D1.dir[Phys(D, p.map, h)]
    BY <2>5, <1>12 DEF Leaf
  <2>7. D1.dir[Phys(D, p.map, h)] = D.dir[Phys(D, p.map, h)]
    BY <2>3, <1>3 DEF Mapped, D1
  <2> QED BY <2>1, <2>2, <2>6, <2>7 DEF DirAt
<1>18. Chained(D2, q)
  <2>1. ASSUME NEW h \in 0..q.size - 1 PROVE Phys(D2, q.map, h) # 0 /\ Tiled(DirAt(D2, q, h))
    <3>1. CASE h = k
      BY <3>1, <1>4, <1>5, <1>16
    <3>2. CASE h # k
      <4>1. h \in 0..k - 1
        BY <3>2, <1>1, <1>6
      <4>2. Tiled(DirAt(D, p, h))
        BY <4>1 DEF Chained
      <4> QED BY <4>1, <4>2, <1>17
    <3> QED BY <3>1, <3>2
  <2> QED BY <2>1 DEF Chained
<1>19. PartAdds(D, p, D2, q, k, <<0, n, i>>)
  <2>1. ASSUME NEW h \in Nat \ {k} PROVE Part(D2, q, h) = Part(D, p, h)
    <3>1. CASE h < k
      <4>1. h \in 0..k - 1 /\ h < q.size
        BY <3>1, <1>1, <1>6
      <4> QED BY <4>1, <3>1, <1>17 DEF Part
    <3>2. CASE ~(h < k)
      <4>1. ~(h < q.size)
        BY <3>2, <1>1, <1>6
      <4> QED BY <4>1, <3>2 DEF Part
    <3> QED BY <3>1, <3>2
  <2>2. Part(D, p, k) = {}
    BY <1>1 DEF Part
  <2>3. k < q.size
    BY <1>1, <1>6
  <2>4. Part(D2, q, k) = {<<0, n, i>>}
    BY <2>3, <1>4, <1>16 DEF Part
  <2> HIDE DEF p, k
  <2> QED BY <2>1, <2>2, <2>4 DEF PartAdds
<1>20. Longer(D, p, D2, q)
  <2>1. \A h \in 0..k - 1 : Phys(D2, q.map, h) = Phys(D, p.map, h)
    BY <1>15, <1>17
  <2>2. \A x \in 0..Dind : p.map[x] \in {0, q.map[x]}
    BY <1>3, <1>6 DEF Mapped
  <2>3. p.size <= q.size
    BY <1>1, <1>6
  <2> QED BY <2>1, <2>2, <2>3, <1>6 DEF Longer
<1>21. p.size \in Nat /\ q.size \in Nat /\ k \in Nat /\ Chained(D, p)
  BY <1>1, <1>6
<1> HIDE DEF p, k
<1>22. /\ Listing(D2, q) = Listing(D, p) \cup {<<<<k, 0>>, n, i>>}
       /\ \A t \in Listing(D, p) : t[1] # <<k, 0>>
  BY <1>18, <1>19, <1>21, ListingAdd
<1>23. Added(U, d, D, C, D2, C2, n, i)
  <2>1. D2 \in DiskT
    BY <1>12 DEF Leaf
  <2>2. C[d] = p /\ C2[d] = q
    BY <1>7 DEF p
  <2> QED BY <2>1, <2>2, <1>7, <1>9, <1>13, <1>14, <1>18, <1>20, <1>22 DEF Added
<1>24. GrowDir(C[d], n, i, g) = [ok |-> TRUE, p |-> q, D |-> D2]
  BY DEF GrowDir, q, p, D2, D1, one
<1> QED BY ONLY <1>23, <1>24 DEF C2

\* What ext2_dir_add() does to the directory and the disk.
DirAddIs(U, d, D, C, n, i, a, C2) ==
  /\ a.ok \in BOOLEAN
  /\ a.ok => Added(U, d, D, C, a.D, C2, n, i)
  /\ ~a.ok => AllLook(U, D, C, a.D, C2)

\* ext2_dir_add(): the entry is there, or the disk is full and everything looks as before.
LEMMA DirAdd ==
  ASSUME NEW U \in SUBSET EInos, NEW d \in U, NEW D \in DiskT, NEW C \in [EInos -> InodeT], Apart(D, U, Maps(C)),
         Chained(D, C[d]), NEW n \in ENames, NEW i \in EInos, NEW a, a = ext2_dir_add(D, C[d], n, i)
  PROVE  DirAddIs(U, d, D, C, n, i, a, [C EXCEPT ![d] = a.p])
<1>1. C[d] \in InodeT /\ C[d].size \in Nat /\ C[d].map \in MapT
  BY DEF InodeT
<1>2. CASE Roomy(D, C[d], n) # {}
  <2>1. a.ok /\ a.p = C[d] /\ Added(U, d, D, C, a.D, C, n, i)
    BY <1>2, AddAt
  <2>2. a.ok \in BOOLEAN
    BY <1>2 DEF ext2_dir_add
  <2>3. [C EXCEPT ![d] = a.p] = C
    BY <2>1
  <2> QED BY <2>1, <2>2, <2>3 DEF DirAddIs
<1>3. CASE Roomy(D, C[d], n) = {}
  <2> DEFINE g == ext2_get_block(D, C[d].map, C[d].size)
  <2>1. a = GrowDir(C[d], n, i, g)
    BY <1>3 DEF ext2_dir_add
  <2>2. CASE g.ok
    <3>1. a.ok = TRUE
      BY <2>1, <2>2 DEF GrowDir
    <3>2. Added(U, d, D, C, a.D, [C EXCEPT ![d] = a.p], n, i)
      BY <2>1, <2>2, AddGrow
    <3> QED BY <3>1, <3>2 DEF DirAddIs
  <2>3. CASE ~g.ok
    <3>1. a = [ok |-> FALSE, p |-> [C[d] EXCEPT !.map = g.m], D |-> g.D]
      BY <2>1, <2>3 DEF GrowDir
    <3>2. AllLook(U, D, C, g.D, [C EXCEPT ![d].map = g.m])
      BY <2>3, <1>1, GrowFails
    <3> HIDE DEF g
    <3>3. [C EXCEPT ![d].map = g.m] = [C EXCEPT ![d] = a.p]
      BY <3>1
    <3> QED BY <3>1, <3>2, <3>3 DEF DirAddIs
  <2> QED BY <2>2, <2>3
<1> QED BY <1>2, <1>3

-----------------------------------------------------------------------------
(* An entry is found and removed                                            *)

\* ext2_dir_find() finds what is listed.
LEMMA Find ==
  ASSUME NEW D, NEW p, NEW n, NEW i
  PROVE  i \in ext2_dir_find(D, p, n) <=> \E t \in Listing(D, p) : t[2] = n /\ t[3] = i
<1>1. ASSUME i \in ext2_dir_find(D, p, n) PROVE \E t \in Listing(D, p) : t[2] = n /\ t[3] = i
  <2>1. PICK x \in Entries(D, p) : EntryAt(D, p, x).name = n /\ EntryAt(D, p, x).ino = i
    BY <1>1 DEF ext2_dir_find, Under
  <2>2. <<x, n, i>> \in Listing(D, p)
    BY <2>1 DEF Listing
  <2> QED BY <2>2
<1>2. ASSUME NEW t \in Listing(D, p), t[2] = n, t[3] = i PROVE i \in ext2_dir_find(D, p, n)
  <2>1. PICK x \in Entries(D, p) : t = <<x, EntryAt(D, p, x).name, EntryAt(D, p, x).ino>>
    BY DEF Listing
  <2> QED BY <2>1, <1>2 DEF ext2_dir_find, Under
<1> QED BY <1>1, <1>2

\* A name that is not found is not listed.
LEMMA FindNone ==
  ASSUME NEW D, NEW p, NEW n, ext2_dir_find(D, p, n) = {}, NEW t \in Listing(D, p)
  PROVE  t[2] # n
<1>1. PICK x \in Entries(D, p) : t = <<x, EntryAt(D, p, x).name, EntryAt(D, p, x).ino>>
  BY DEF Listing
<1> QED BY <1>1 DEF ext2_dir_find, Under

\* Directory d has lost the entry t.
Removed(U, d, D, C, D2, t) ==
  /\ D2 \in DiskT /\ D2.used = D.used /\ D2.ptr = D.ptr /\ Apart(D2, U, Maps(C))
  /\ AllOwned(D, U, Maps(C)) => AllOwned(D2, U, Maps(C))
  /\ \A j \in U \ {d} : Looks(D, C[j], D2, C[j])
  /\ Longer(D, C[d], D2, C[d]) /\ Chained(D2, C[d])
  /\ Listing(D2, C[d]) = Listing(D, C[d]) \ {t}

\* ext2_dir_remove() removes the one entry of the name.
LEMMA DirRemove ==
  ASSUME NEW U \in SUBSET EInos, NEW d \in U, NEW D \in DiskT, NEW C \in [EInos -> InodeT], Apart(D, U, Maps(C)),
         Chained(D, C[d]), NEW n, NEW i, i \in ext2_dir_find(D, C[d], n),
         \A s, t \in Listing(D, C[d]) : s[2] = t[2] => s = t
  PROVE  \E x : /\ <<x, n, i>> \in Listing(D, C[d])
                /\ Removed(U, d, D, C, ext2_dir_remove(D, C[d], n), <<x, n, i>>)
<1> DEFINE p == C[d]
           x == CHOOSE y \in Under(D, p, n) : TRUE
           l == x[1]
           o == x[2]
           s == DirAt(D, p, l)
           r == RemoveEntry(s, o)
           D2 == [D EXCEPT !.dir[Phys(D, p.map, l)] = r]
           t == <<x, n, i>>
<1>1. p.map \in MapT /\ p.size \in Nat /\ p \in InodeT
  BY DEF InodeT
<1>2. Under(D, p, n) # {}
  BY DEF ext2_dir_find
<1>3. x \in Under(D, p, n)
  BY <1>2
<1> HIDE DEF x
<1>4. /\ x \in (0..p.size - 1) \X (0..BlockSpace - 1) /\ Phys(D, p.map, l) # 0 /\ o \in DOMAIN s
      /\ s[o].ino # 0 /\ s[o].name = n /\ x \in Entries(D, p)
  BY <1>3 DEF Under, Entries, Positions, EntryAt
<1>5. l \in 0..p.size - 1 /\ l \in Nat /\ x = <<l, o>>
  BY <1>1, <1>4
<1>6. <<x, n, s[o].ino>> \in Listing(D, p)
  BY <1>4 DEF Listing, EntryAt
<1>7. s[o].ino = i /\ t \in Listing(D, p)
  <2>1. PICK u \in Listing(D, p) : u[2] = n /\ u[3] = i
    BY Find
  <2>2. u = <<x, n, s[o].ino>>
    BY <2>1, <1>6
  <2> QED BY <2>1, <2>2, <1>6
<1>8. Tiled(s)
  BY <1>5 DEF Chained
<1>9. Phys(D, p.map, l) \in EBlks
  BY <1>4, <1>5, PhysIn
<1>10. s \in DirT
  BY <1>9 DEF DirAt, DiskT
<1> HIDE DEF s
<1>11. r \in DirT /\ Tiled(r) /\ Shown(r) = Shown(s) \ {<<o, s[o].name, s[o].ino>>}
  BY <1>4, <1>8, <1>10, RemoveIs
<1> HIDE DEF r, l, o
<1>12. PutIn(U, d, D, C, D2, l, r)
  BY <1>5, <1>11, DirBlockPut
<1> HIDE DEF D2
<1>13. Part(D, p, l) = Shown(s)
  BY <1>1, <1>5 DEF Part, s
<1>14. PartDrops(D, p, D2, p, l, <<o, n, i>>)
  BY <1>4, <1>7, <1>11, <1>12, <1>13 DEF PutIn, PartDrops
<1>15. Chained(D2, p) /\ Chained(D, p)
  BY <1>12 DEF PutIn
<1>16. Longer(D, p, D2, p)
  <2>1. \A h \in 0..p.size - 1 : Phys(D2, p.map, h) = Phys(D, p.map, h)
    BY <1>1, <1>12 DEF PutIn
  <2> QED BY <2>1, <1>1 DEF Longer
<1>17. C[d] = p
  OBVIOUS
<1> HIDE DEF p
<1>18. Listing(D2, p) = Listing(D, p) \ {<<<<l, o>>, n, i>>}
  BY <1>1, <1>5, <1>14, <1>15, ListingRemove
<1>19. Removed(U, d, D, C, D2, t)
  BY <1>5, <1>12, <1>15, <1>16, <1>17, <1>18 DEF Removed, PutIn
<1>20. ext2_dir_remove(D, p, n) = D2
  <2>1. D.dir[Phys(D, p.map, l)] = s
    BY DEF s, DirAt
  <2>2. ext2_dir_remove(D, p, n) = [D EXCEPT !.dir[Phys(D, p.map, l)] = RemoveEntry(D.dir[Phys(D, p.map, l)], o)]
    BY DEF ext2_dir_remove, l, o, x, DiskT
  <2> QED BY <2>1, <2>2 DEF D2, r
<1> QED BY <1>7, <1>17, <1>19, <1>20

-----------------------------------------------------------------------------
(* Blocks are freed                                                         *)

Freed(D, D2, B) ==
  D2 \in DiskT /\ D2.used = D.used \ B /\ D2.ptr = D.ptr /\ D2.dat = D.dat /\ D2.dir = D.dir

\* Freeing blocks changes the bitmap and the counter only.
LEMMA FreeIs ==
  ASSUME NEW D \in DiskT, NEW B, NEW k \in Int
  PROVE  Freed(D, FreeBlocks(D, B, k), B)
<1> DEFINE E == [D EXCEPT !.used = @ \ B]
           D2 == [E EXCEPT !.free = @ + k]
<1>1. E \in DiskT /\ E.used = D.used \ B /\ E.ptr = D.ptr /\ E.dat = D.dat /\ E.dir = D.dir /\ E.free \in Int
  BY DEF DiskT
<1>2. FreeBlocks(D, B, k) = D2
  BY DEF FreeBlocks, save_counts, ext2_bitmap_clear
<1> HIDE DEF E
<1>3. D2 \in DiskT /\ D2.used = E.used /\ D2.ptr = E.ptr /\ D2.dat = E.dat /\ D2.dir = E.dir
  BY <1>1 DEF DiskT
<1> QED BY <1>1, <1>2, <1>3 DEF Freed

\* A map has finitely many places.
LEMMA PlacesFinite == IsFiniteSet(MapPlaces)
<1> DEFINE X == (0..Dind) \X (0..Ptrs)
           Y == X \X (0..Ptrs)
           f == [p \in MapPlaces |-> <<<<p[1], p[2]>>, p[3]>>]
<1>1. IsFiniteSet(0..Dind) /\ IsFiniteSet(0..Ptrs)
  BY Sizes, FS_Interval
<1>2. IsFiniteSet(X)
  BY <1>1, FS_Product
<1>3. IsFiniteSet(Y)
  BY <1>1, <1>2, FS_Product
<1>4. f \in [MapPlaces -> Y]
  BY PlaceParts
<1>5. ASSUME NEW p \in MapPlaces, NEW q \in MapPlaces, f[p] = f[q] PROVE p = q
  <2>1. p[1] = q[1] /\ p[2] = q[2] /\ p[3] = q[3]
    BY <1>5
  <2>2. p = <<p[1], p[2], p[3]>> /\ q = <<q[1], q[2], q[3]>>
    BY PlaceParts
  <2> QED BY <2>1, <2>2
<1>6. f \in Injection(MapPlaces, Y)
  BY <1>4, <1>5 DEF Injection, IsInjective
<1> QED BY <1>3, <1>6, FS_Injection

FreedOf(D, m) == {BlockAt(D, m, p) : p \in PlacesUsed(D, m)}

\* ext2_free_all_blocks() frees what the map holds.
LEMMA FreeAllIs ==
  ASSUME NEW D \in DiskT, NEW m
  PROVE  Freed(D, ext2_free_all_blocks(D, m), FreedOf(D, m))
<1>1. PlacesUsed(D, m) \subseteq MapPlaces
  BY DEF PlacesUsed
<1>2. Cardinality(PlacesUsed(D, m)) \in Int
  BY <1>1, PlacesFinite, FS_Subset, FS_CardinalityType
<1> QED BY <1>2, FreeIs DEF ext2_free_all_blocks, FreedOf

\* No inode looks different when blocks are freed: their content stays.
LEMMA FreedLooks ==
  ASSUME NEW D \in DiskT, NEW D2, NEW B, Freed(D, D2, B), NEW p \in InodeT
  PROVE  Looks(D, p, D2, p)
<1>1. p.map \in MapT
  BY DEF InodeT
<1>2. \A l \in Nat : Phys(D2, p.map, l) = Phys(D, p.map, l)
  BY <1>1, PtrSame, PhysSame DEF Freed
<1> QED BY <1>2 DEF Looks, Freed

\* Nothing of inode i is left among the inodes V, and only what it had is freed.
Without(U, i, C, V, C2) ==
  /\ V \subseteq U /\ \A j \in V \ {i} : C2[j].map = C[j].map
  /\ i \in V => C2[i].map = ZeroMap

\* Freeing the blocks of one inode leaves the others their own, still marked.
LEMMA FreedApart ==
  ASSUME NEW U \in SUBSET EInos, NEW i \in U, NEW D, NEW C, Apart(D, U, Maps(C)), NEW D2, NEW B, Freed(D, D2, B),
         \A b \in B : b # 0 /\ \E p \in MapPlaces : BlockAt(D, C[i].map, p) = b,
         NEW V, NEW C2, Without(U, i, C, V, C2)
  PROVE  Apart(D2, V, Maps(C2))
<1>1. ASSUME NEW j \in V, NEW p \in MapPlaces, BlockAt(D2, Maps(C2)[j], p) # 0
      PROVE  j \in U /\ j # i /\ BlockAt(D2, Maps(C2)[j], p) = BlockAt(D, Maps(C)[j], p)
  <2>1. j \in EInos /\ j \in U
    BY DEF Without
  <2>2. j # i
    <3> SUFFICES ASSUME j = i PROVE FALSE
      OBVIOUS
    <3>1. p[1] \in 0..Dind
      BY PlaceParts
    <3>2. Maps(C2)[j][p[1]] = 0
      BY <2>1, <3>1 DEF Without, Maps, ZeroMap
    <3> QED BY <3>2, <1>1, AtZero
  <2>3. Maps(C2)[j] = Maps(C)[j]
    BY <2>1, <2>2 DEF Without, Maps
  <2>4. D2.ptr = D.ptr
    BY DEF Freed
  <2> QED BY <2>1, <2>2, <2>3, <2>4, PtrSame
<1>2. Maps(C)[i] = C[i].map
  BY DEF Maps
<1>3. ASSUME NEW j \in V, NEW p \in MapPlaces, BlockAt(D2, Maps(C2)[j], p) # 0
      PROVE  BlockAt(D2, Maps(C2)[j], p) \in D2.used
  <2> DEFINE b == BlockAt(D, Maps(C)[j], p)
  <2>1. j \in U /\ j # i /\ b # 0 /\ BlockAt(D2, Maps(C2)[j], p) = b
    BY <1>1, <1>3
  <2>2. b \in D.used
    BY <2>1 DEF Apart
  <2>3. b \notin B
    <3> SUFFICES ASSUME b \in B PROVE FALSE
      OBVIOUS
    <3>1. PICK q \in MapPlaces : BlockAt(D, Maps(C)[i], q) = b
      BY <1>2
    <3> QED BY <3>1, <2>1 DEF Apart
  <2> QED BY <2>1, <2>2, <2>3 DEF Freed
<1>4. ASSUME NEW j \in V, NEW p \in MapPlaces, BlockAt(D2, Maps(C2)[j], p) # 0,
             NEW h \in V, NEW q \in MapPlaces, BlockAt(D2, Maps(C2)[h], q) = BlockAt(D2, Maps(C2)[j], p)
      PROVE  j = h /\ p = q
  <2>1. j \in U /\ BlockAt(D2, Maps(C2)[j], p) = BlockAt(D, Maps(C)[j], p)
    BY <1>1, <1>4
  <2>2. h \in U /\ BlockAt(D2, Maps(C2)[h], q) = BlockAt(D, Maps(C)[h], q)
    BY <1>1, <1>4
  <2>3. BlockAt(D, Maps(C)[j], p) # 0 /\ BlockAt(D, Maps(C)[h], q) = BlockAt(D, Maps(C)[j], p)
    BY <2>1, <2>2, <1>4
  <2> QED BY <2>1, <2>2, <2>3 DEF Apart
<1> QED BY <1>3, <1>4 DEF Apart

\* Freeing all the blocks of one inode leaves no block without owner.
LEMMA FreedOwned ==
  ASSUME NEW U \in SUBSET EInos, NEW i \in U, NEW D \in DiskT, NEW C, AllOwned(D, U, Maps(C)), NEW D2, NEW B, Freed(D, D2, B),
         \A p \in MapPlaces : BlockAt(D, C[i].map, p) # 0 => BlockAt(D, C[i].map, p) \in B,
         NEW V, NEW C2, Without(U, i, C, V, C2), U \ {i} \subseteq V
  PROVE  AllOwned(D2, V, Maps(C2))
<1> SUFFICES ASSUME NEW b \in D2.used PROVE \E j \in V, p \in MapPlaces : BlockAt(D2, Maps(C2)[j], p) = b
  BY DEF AllOwned
<1>1. b \in D.used /\ b \notin B /\ b # 0
  BY DEF Freed, DiskT, EBlks
<1>2. PICK j \in U, p \in MapPlaces : BlockAt(D, Maps(C)[j], p) = b
  BY <1>1 DEF AllOwned
<1>3. j # i
  BY <1>1, <1>2 DEF Maps
<1>4. j \in V /\ Maps(C2)[j] = Maps(C)[j]
  BY <1>3 DEF Without, Maps
<1>5. BlockAt(D2, Maps(C2)[j], p) = b
  BY <1>2, <1>4, PtrSame DEF Freed
<1> QED BY <1>4, <1>5

-----------------------------------------------------------------------------
(* What the operations leave                                                *)

\* An inode just written is saved.
LEMMA SavedSelf ==
  ASSUME NEW D, NEW c \in InodeT
  PROVE  Saved(D, c, c)
<1>1. c.size \in Nat
  BY DEF InodeT
<1>2. \A t \in Listing(D, c) : t[1][1] < c.size
  BY <1>1, ListingParts
<1> QED BY <1>1, <1>2 DEF Saved

\* A directory that has grown by a block without entries is still saved.
LEMMA LongerSaved ==
  ASSUME NEW D \in DiskT, NEW D2 \in DiskT, NEW p \in InodeT, NEW p2 \in InodeT, NEW s \in InodeT, p.kind = "dir",
         Longer(D, p, D2, p2), Listing(D2, p2) = Listing(D, p), Saved(D, p, s)
  PROVE  Saved(D2, p2, s)
<1>1. p.map \in MapT /\ p2.map \in MapT /\ s.map \in MapT /\ p.size \in Nat /\ p2.size \in Nat /\ s.size \in Nat
  BY DEF InodeT
<1>2. \A x \in 0..Dind : s.map[x] \in {0, p2.map[x]}
  BY DEF Longer, Saved
<1>3. \A x \in 0..Dind : s.map[x] \in {0, p.map[x]}
  BY DEF Saved
<1>4. s.size <= p.size /\ p.size <= p2.size
  BY DEF Longer, Saved
<1>5. ASSUME NEW l \in 0..s.size - 1 PROVE Phys(D2, s.map, l) = Phys(D2, p2.map, l)
  <2>1. l \in Nat /\ l \in 0..p.size - 1
    BY <1>1, <1>4
  <2>2. Phys(D, s.map, l) = Phys(D, p.map, l) /\ Phys(D2, p2.map, l) = Phys(D, p.map, l)
    BY <2>1 DEF Saved, Longer
  <2>3. Phys(D, s.map, l) = IF Mappable(l) /\ s.map[PlaceOf(l)[1]] # 0 THEN Phys(D, p.map, l) ELSE 0
    BY <1>1, <1>3, <2>1, SavedPhys
  <2>4. Phys(D2, s.map, l) = IF Mappable(l) /\ s.map[PlaceOf(l)[1]] # 0 THEN Phys(D2, p2.map, l) ELSE 0
    BY <1>1, <1>2, <2>1, SavedPhys
  <2> QED BY <2>2, <2>3, <2>4
<1>6. p2.kind = p.kind /\ p2.links = p.links /\ s.size <= p2.size
  BY <1>1, <1>4 DEF Longer
<1> QED BY <1>2, <1>5, <1>6 DEF Saved

\* The tree is the same when every directory lists what it did.
LEMMA ListsAre ==
  ASSUME NEW D, NEW C, NEW i \in EInos
  PROVE  Lists(D, C)[i] = Listing(D, C[i])
BY DEF Lists

\* Nothing shows of an operation that failed for want of a block.
LEMMA FineLook ==
  ASSUME NEW D \in DiskT, NEW U \in SUBSET EInos, NEW C \in [EInos -> InodeT], NEW S \in [EInos -> InodeT], NEW W,
         NEW full, Fine(D, U, C, S, W, full), NEW D2, NEW C2, AllLook(U, D, C, D2, C2)
  PROVE  Fine(D2, U, C2, S, W, TRUE)
<1>1. D2 \in DiskT /\ C2 \in [EInos -> InodeT] /\ Apart(D2, U, Maps(C2)) /\ \A j \in U : Looks(D, C[j], D2, C2[j])
  BY DEF AllLook
<1>2. \A j \in U : C[j] \in InodeT /\ C2[j] \in InodeT /\ S[j] \in InodeT /\ C[j].size \in Nat
  BY <1>1 DEF InodeT
<1>3. \A j \in U : Good(D2, C2[j], S[j], W[j])
  BY <1>1, <1>2, LooksGood DEF Fine
<1>4. \A j \in U : C[j].kind \in {"file", "dir"} /\ C2[j].kind = C[j].kind /\ C2[j].links = C[j].links
  BY <1>1 DEF Looks, Fine, Good
<1>5. \A j \in U : Listing(D2, C2[j]) = Listing(D, C[j])
  BY <1>1, <1>2, LooksListing
<1>6. \A j \in U : Lists(D2, C2)[j] = Lists(D, C)[j]
  BY <1>5, ListsAre
<1>7. TreeOK(U, C2, Lists(D2, C2))
  <2> DEFINE N == Lists(D, C)
             N2 == Lists(D2, C2)
  <2>1. TreeOK(U, C, N) /\ \A j \in U : N2[j] = N[j]
    BY <1>6 DEF Fine
  <2> HIDE DEF N, N2
  <2>2. TreeOK(U, C2, N2)
    BY <2>1, <1>4, TreeSame
  <2> QED BY <2>2 DEF N2
<1>8. RootIno \in U /\ C2[RootIno].kind = "dir"
  BY <1>4 DEF Fine
<1> QED BY <1>1, <1>3, <1>7, <1>8 DEF Fine

\* Inode i is new, and directory d names it.
Enters(U, d, i, D, C, S, W, D2, C2, S2, W2, full) ==
  /\ D2 \in DiskT /\ C2 \in [EInos -> InodeT] /\ Apart(D2, U \cup {i}, Maps(C2))
  /\ \A j \in U \ {d} : C2[j] = C[j] /\ Looks(D, C[j], D2, C[j]) /\ S2[j] = S[j] /\ W2[j] = W[j]
  /\ C2[d].kind = "dir" /\ Chained(D2, C2[d]) /\ S2[d] = C2[d] /\ S2[i] = C2[i] /\ Good(D2, C2[i], S2[i], W2[i])
  /\ FileMade(d, i, C, C2, Lists(D2, C2)) \/ DirMade(d, i, C, C2, Lists(D2, C2))
  /\ ~full => AllOwned(D2, U \cup {i}, Maps(C2))

NewEntry(D, p, D2, p2, n, i) ==
  \E x : /\ \A t \in Listing(D, p) : t[1] # x /\ t[2] # n
         /\ Listing(D2, p2) = Listing(D, p) \cup {<<x, n, i>>}

\* An inode enters the tree under a new name.
LEMMA FineEnters ==
  ASSUME NEW D \in DiskT, NEW U \in SUBSET EInos, NEW C \in [EInos -> InodeT], NEW S \in [EInos -> InodeT], NEW W,
         NEW full \in BOOLEAN, Fine(D, U, C, S, W, full), NEW D2, NEW C2, NEW S2, NEW W2,
         NEW d \in U, C[d].kind = "dir", NEW i \in EInos \ U, Enters(U, d, i, D, C, S, W, D2, C2, S2, W2, full),
         NEW n, n \notin Dots, NewEntry(D, C[d], D2, C2[d], n, i)
  PROVE  Fine(D2, U \cup {i}, C2, S2, W2, full)
<1> DEFINE V == U \cup {i}
           N == Lists(D, C)
           N2 == Lists(D2, C2)
<1>1. /\ D2 \in DiskT /\ C2 \in [EInos -> InodeT] /\ Apart(D2, V, Maps(C2)) /\ (~full => AllOwned(D2, V, Maps(C2)))
      /\ \A j \in U \ {d} : C2[j] = C[j] /\ Looks(D, C[j], D2, C2[j]) /\ S2[j] = S[j] /\ W2[j] = W[j]
      /\ C2[d].kind = "dir" /\ Chained(D2, C2[d]) /\ S2[d] = C2[d] /\ S2[i] = C2[i] /\ Good(D2, C2[i], S2[i], W2[i])
      /\ FileMade(d, i, C, C2, N2) \/ DirMade(d, i, C, C2, N2)
  BY DEF Enters
<1>2. \A j \in U : C[j] \in InodeT /\ C2[j] \in InodeT /\ S[j] \in InodeT /\ C[j].size \in Nat /\ C[j].links \in Int
  BY <1>1 DEF InodeT
<1>3. ASSUME NEW j \in V PROVE Good(D2, C2[j], S2[j], W2[j])
  <2>1. CASE j = i
    BY <2>1, <1>1
  <2>2. CASE j = d
    <3>1. Saved(D2, C2[d], C2[d])
      BY <1>2, SavedSelf
    <3> QED BY <3>1, <2>2, <1>1 DEF Good
  <2>3. CASE j \in U \ {d}
    <3>1. Good(D, C[j], S[j], W[j]) /\ Looks(D, C[j], D2, C2[j])
      BY <2>3, <1>1 DEF Fine
    <3>2. Good(D2, C2[j], S[j], W[j])
      BY <3>1, <2>3, <1>1, <1>2, LooksGood
    <3> QED BY <3>2, <2>3, <1>1
  <2> QED BY <2>1, <2>2, <2>3
<1>4. \A j \in U : C[j].kind \in {"file", "dir"}
  BY DEF Fine, Good
<1>5. ASSUME NEW j \in U \ {d} PROVE N2[j] = N[j]
  <2>1. Listing(D2, C2[j]) = Listing(D, C[j])
    BY <1>1, <1>2, LooksListing
  <2> QED BY <2>1, ListsAre
<1>6. N2[d] = Listing(D2, C2[d]) /\ N[d] = Listing(D, C[d])
  BY ListsAre
<1>7. TreeOK(U, C, N) /\ RootIno \in U /\ C[RootIno].kind = "dir"
  BY DEF Fine
<1> HIDE DEF N, N2
<1>8. SameBut(U, d, C, N, C2, N2)
  BY <1>1, <1>5 DEF SameBut
<1>x. PICK x : /\ \A t \in Listing(D, C[d]) : t[1] # x /\ t[2] # n
               /\ Listing(D2, C2[d]) = Listing(D, C[d]) \cup {<<x, n, i>>}
  BY DEF NewEntry
<1>9. (\A t \in N[d] : t[2] # n /\ t[1] # x) /\ N2[d] = N[d] \cup {<<x, n, i>>}
  BY <1>6, <1>x
<1>10. TreeOK(U \cup {i}, C2, N2)
  <2>1. i \notin U /\ C[d].links \in Int /\ C2[d].kind = "dir"
    BY <1>1, <1>2
  <2>2. FileMade(d, i, C, C2, N2) \/ DirMade(d, i, C, C2, N2)
    BY <1>1
  <2>3. GetsName(U, C, N, C2, N2, d, i, n, x)
    BY <2>1, <2>2, <1>4, <1>7, <1>8, <1>9 DEF GetsName
  <2> QED BY <2>3, <1>7, TreeAdd
<1>11. ~full => \A j \in V : S2[j] = C2[j]
  BY <1>1 DEF Fine
<1>12. RootIno \in V /\ C2[RootIno].kind = "dir"
  BY <1>1, <1>7
<1> HIDE DEF V
<1>13. Fine(D2, V, C2, S2, W2, full)
  BY <1>1, <1>3, <1>10, <1>11, <1>12 DEF Fine, N2, V
<1> QED BY <1>13 DEF V

\* The empty map.
LEMMA ZeroMapIs == ZeroMap \in MapT /\ \A x \in 0..Dind : ZeroMap[x] = 0
BY Sizes DEF ZeroMap, MapT

\* Nothing is in it,
LEMMA AtZeroMap ==
  ASSUME NEW D, NEW p \in MapPlaces
  PROVE  BlockAt(D, ZeroMap, p) = 0
BY ZeroMapIs, PlaceParts, AtZero

\* so every logical block is a hole.
LEMMA PhysZeroMap ==
  ASSUME NEW D \in DiskT, NEW l \in Nat
  PROVE  Phys(D, ZeroMap, l) = 0
<1>1. CASE Mappable(l)
  BY <1>1, ZeroMapIs, PhysIs, PlaceOfIs, AtZeroMap
<1>2. CASE ~Mappable(l)
  BY <1>2, ZeroMapIs, PhysIs
<1> QED BY <1>1, <1>2

\* An inode without blocks.
LEMMA ApartAdd ==
  ASSUME NEW U \in SUBSET EInos, NEW D, NEW C, NEW i \in EInos \ U, NEW C2, C2[i].map = ZeroMap,
         \A j \in U : C2[j].map = C[j].map
  PROVE  /\ Apart(D, U, Maps(C)) => Apart(D, U \cup {i}, Maps(C2))
         /\ AllOwned(D, U, Maps(C)) => AllOwned(D, U \cup {i}, Maps(C2))
<1> DEFINE M == Maps(C)
           M2 == Maps(C2)
<1>1. M2[i] = ZeroMap /\ \A j \in U : M2[j] = M[j]
  BY DEF Maps
<1> HIDE DEF M, M2
<1>2. \A p \in MapPlaces : BlockAt(D, M2[i], p) = 0
  BY <1>1, AtZeroMap
<1>3. Apart(D, U, M) => Apart(D, U \cup {i}, M2)
  <2> SUFFICES ASSUME Apart(D, U, M), NEW j \in U \cup {i}, NEW p \in MapPlaces, BlockAt(D, M2[j], p) # 0
               PROVE  /\ BlockAt(D, M2[j], p) \in D.used
                      /\ \A h \in U \cup {i}, q \in MapPlaces : BlockAt(D, M2[h], q) = BlockAt(D, M2[j], p) => j = h /\ p = q
    BY DEF Apart
  <2>1. j \in U /\ M2[j] = M[j]
    BY <1>1, <1>2
  <2>2. /\ BlockAt(D, M[j], p) \in D.used
        /\ \A h \in U, q \in MapPlaces : BlockAt(D, M[h], q) = BlockAt(D, M[j], p) => j = h /\ p = q
    BY <2>1 DEF Apart
  <2> QED BY <2>1, <2>2, <1>1, <1>2
<1>4. AllOwned(D, U, M) => AllOwned(D, U \cup {i}, M2)
  BY <1>1 DEF AllOwned
<1> QED BY <1>3, <1>4 DEF M, M2

\* What a directory lists depends on its map and size alone.
LEMMA SameMap ==
  ASSUME NEW D, NEW p, NEW p2, p2.map = p.map, p2.size = p.size
  PROVE  Listing(D, p2) = Listing(D, p) /\ (Chained(D, p) => Chained(D, p2))
<1>1. \A l : DirAt(D, p2, l) = DirAt(D, p, l)
  BY DEF DirAt
<1>2. \A t : t \in Listing(D, p2) <=> t \in Listing(D, p)
  BY <1>1, InListing
<1> QED BY <1>1, <1>2 DEF Chained

FileNode == [NoInode EXCEPT !.kind = "file", !.links = 1]

\* The inode of a new file.
LEMMA FileNodeIs ==
  /\ FileNode \in InodeT /\ FileNode.kind = "file" /\ FileNode.links = 1 /\ FileNode.size = 0 /\ FileNode.map = ZeroMap
  /\ NoInode \in InodeT /\ NoInode.kind = "none"
<1>1. NoInode \in InodeT /\ NoInode.kind = "none" /\ NoInode.size = 0 /\ NoInode.map = ZeroMap
  BY ZeroMapIs DEF NoInode, InodeT
<1> DEFINE N == NoInode
           G == [N EXCEPT !.kind = "file"]
           F == [G EXCEPT !.links = 1]
<1>2. "file" \in {"none", "file", "dir"}
  OBVIOUS
<1> HIDE DEF N
<1>3. G \in InodeT
  BY <1>1, <1>2 DEF InodeT, N
<1>4. G.kind = "file" /\ G.size = N.size /\ G.map = N.map
  BY <1>1 DEF InodeT, N
<1> HIDE DEF G
<1>5. F \in InodeT
  BY <1>3 DEF InodeT
<1>6. F.kind = G.kind /\ F.size = G.size /\ F.map = G.map /\ F.links = 1
  BY <1>3 DEF InodeT
<1>7. FileNode = F
  BY DEF FileNode, F, G, N
<1> QED BY <1>1, <1>4, <1>5, <1>6, <1>7 DEF N

\* A new file is empty and reads as nothing.
LEMMA NewFileGood ==
  ASSUME NEW D \in DiskT
  PROVE  Good(D, FileNode, FileNode, NoContent)
<1>1. FileOK(D, FileNode, NoContent)
  <2>1. \A l \in Nat : Phys(D, FileNode.map, l) = 0
    BY FileNodeIs, PhysZeroMap
  <2>2. \A l \in 0..MaxLblk : NoContent[l] = 0 /\ l \in Nat
    BY Ext2Assumption DEF NoContent
  <2>3. \A l \in 0..MaxLblk : ext2_read_data(D, FileNode, l) = 0
    BY <2>1, <2>2 DEF ext2_read_data
  <2> QED BY <2>1, <2>2, <2>3 DEF FileOK
<1> QED BY <1>1, FileNodeIs, SavedSelf DEF Good

\* The inodes, on the disk and in memory, and the contents after i was made in d.
Makes(U, d, i, C1, S, W, C2, S2, W2, new) ==
  /\ C2 \in [EInos -> InodeT] /\ C2[i] = new /\ S2[i] = new /\ S2[d] = C2[d] /\ W2[i] = NoContent
  /\ \A j \in U \ {d} : C2[j] = C1[j] /\ S2[j] = S[j] /\ W2[j] = W[j]

\* ext2_create() leaves the file system sound.
LEMMA FineCreate ==
  ASSUME NEW D \in DiskT, NEW U \in SUBSET EInos, NEW C \in [EInos -> InodeT], NEW S \in [EInos -> InodeT], NEW W,
         NEW full \in BOOLEAN, Fine(D, U, C, S, W, full), NEW d \in U, C[d].kind = "dir", NEW i \in EInos \ U,
         NEW n \in ENames, ext2_dir_find(D, C[d], n) = {}, NEW D2, NEW C1, Added(U, d, D, C, D2, C1, n, i),
         NEW C2, NEW S2, NEW W2, Makes(U, d, i, C1, S, W, C2, S2, W2, FileNode), C2[d] = C1[d]
  PROVE  Fine(D2, U \cup {i}, C2, S2, W2, full)
<1>1. /\ D2 \in DiskT /\ C1 \in [EInos -> InodeT] /\ Apart(D2, U, Maps(C1)) /\ Chained(D2, C1[d])
      /\ \A j \in U \ {d} : C1[j] = C[j] /\ Looks(D, C[j], D2, C[j])
      /\ AllOwned(D, U, Maps(C)) => AllOwned(D2, U, Maps(C1))
      /\ C1[d].kind = C[d].kind /\ C1[d].links = C[d].links
  BY DEF Added, Longer
<1>2. /\ C2 \in [EInos -> InodeT] /\ C2[i] = FileNode /\ S2[i] = FileNode /\ S2[d] = C2[d] /\ W2[i] = NoContent
      /\ \A j \in U \ {d} : C2[j] = C1[j] /\ S2[j] = S[j] /\ W2[j] = W[j]
  BY DEF Makes
<1>3. C2[i].map = ZeroMap /\ \A j \in U : C2[j].map = C1[j].map
  BY <1>2, FileNodeIs
<1>4. Apart(D2, U \cup {i}, Maps(C2)) /\ (AllOwned(D2, U, Maps(C1)) => AllOwned(D2, U \cup {i}, Maps(C2)))
  BY <1>1, <1>3, ApartAdd
<1>5. Good(D2, C2[i], S2[i], W2[i])
  BY <1>1, <1>2, NewFileGood
<1>6. FileMade(d, i, C, C2, Lists(D2, C2))
  BY <1>1, <1>2, FileNodeIs DEF FileMade
<1>7. ~full => AllOwned(D2, U \cup {i}, Maps(C2))
  BY <1>1, <1>4 DEF Fine
<1>8. Enters(U, d, i, D, C, S, W, D2, C2, S2, W2, full)
  BY <1>1, <1>2, <1>4, <1>5, <1>6, <1>7 DEF Enters
<1>9. PICK x : (\A t \in Listing(D, C[d]) : t[1] # x) /\ Listing(D2, C1[d]) = Listing(D, C[d]) \cup {<<x, n, i>>}
  BY DEF Added
<1>10. \A t \in Listing(D, C[d]) : t[1] # x /\ t[2] # n
  BY <1>9, FindNone
<1>11. n \notin Dots
  BY Ext2Assumption DEF Dots
<1>12. NewEntry(D, C[d], D2, C2[d], n, i)
  BY <1>9, <1>10 DEF NewEntry
<1> QED BY <1>8, <1>11, <1>12, FineEnters

-----------------------------------------------------------------------------
(* A new directory                                                          *)

\* The block with "." and "..".
LEMMA DotEntriesAre ==
  ASSUME NEW i \in EInos, NEW d \in EInos
  PROVE  /\ DotEntries(i, d) \in DirT /\ Tiled(DotEntries(i, d))
         /\ Shown(DotEntries(i, d)) = {<<0, ".", i>>, <<3, "..", d>>}
<1> DEFINE e == Dirent(i, 3, ".", 1)
           f == Dirent(d, BlockSpace - 3, "..", 1)
           s == DotEntries(i, d)
<1>1. BlockSpace \in Nat /\ BlockSpace >= 6
  BY Ext2Assumption
<1>2. e \in EntryT /\ e.ino = i /\ e.rec = 3 /\ e.name = "." /\ e.len = 1 /\ i # 0
  <2>1. i \in 0..NInodes /\ i # 0 /\ e = [ino |-> i, rec |-> 3, name |-> ".", len |-> 1]
    BY DEF EInos, Dirent
  <2>2. "." \in ENames \cup {"", ".", ".."}
    OBVIOUS
  <2> HIDE DEF e
  <2>3. e \in EntryT
    BY <2>1, <2>2 DEF EntryT
  <2> QED BY <2>1, <2>3
<1>3. f \in EntryT /\ f.ino = d /\ f.rec = BlockSpace - 3 /\ f.name = ".." /\ f.len = 1 /\ d # 0
  <2>1. d \in 0..NInodes /\ d # 0 /\ f = [ino |-> d, rec |-> BlockSpace - 3, name |-> "..", len |-> 1]
    BY DEF EInos, Dirent
  <2>2. ".." \in ENames \cup {"", ".", ".."}
    OBVIOUS
  <2>3. BlockSpace - 3 \in Int
    BY <1>1
  <2> HIDE DEF f
  <2>4. f \in EntryT
    BY <2>1, <2>2, <2>3 DEF EntryT
  <2> QED BY <2>1, <2>4
<1>4. s = [o \in {0, 3} |-> IF o = 0 THEN e ELSE f]
  BY DEF DotEntries
<1> HIDE DEF e, f, s
<1>5. s \in [{0, 3} -> EntryT] /\ DOMAIN s = {0, 3} /\ s[0] = e /\ s[3] = f
  BY <1>2, <1>3, <1>4
<1>6. s \in DirT
  <2>1. {0, 3} \in SUBSET Nat
    OBVIOUS
  <2> QED BY <2>1, <1>5, IsDirT
<1>7. RealLen(e) = 3 /\ RealLen(f) = 3
  BY <1>2, <1>3 DEF RealLen
<1>8. Tiled(s)
  <2> DEFINE T == {0, 3}
  <2>1. T \in SUBSET Nat /\ s \in [T -> EntryT] /\ 0 \in T /\ T \subseteq 0..BlockSpace - 1
    BY <1>1, <1>5
  <2>2. \A o \in T : s[o].rec >= RealLen(s[o])
    BY <1>1, <1>2, <1>3, <1>5, <1>7
  <2>3. \A o \in T : o + s[o].rec \in T \cup {BlockSpace}
    BY <1>1, <1>2, <1>3, <1>5
  <2>4. \A o \in T : \A x \in T : o < x => o + s[o].rec <= x
    BY <1>1, <1>2, <1>3, <1>5
  <2> HIDE DEF T
  <2> QED BY <2>1, <2>2, <2>3, <2>4, IsTiled
<1>9. ASSUME NEW u PROVE u \in Shown(s) <=> u = <<0, ".", i>> \/ u = <<3, "..", d>>
  <2>1. u \in Shown(s) <=> \E o \in {0, 3} : s[o].ino # 0 /\ u = <<o, s[o].name, s[o].ino>>
    BY <1>5, InShown
  <2> QED BY <2>1, <1>2, <1>3, <1>5
<1>10. Shown(s) = {<<0, ".", i>>, <<3, "..", d>>}
  BY <1>9
<1> QED BY <1>6, <1>8, <1>10 DEF s

\* The directory with its first block at b of D2, as g has found it.
LEMMA NewDirIs ==
  ASSUME NEW D2 \in DiskT, NEW c \in InodeT, c.size = 1, NEW i \in EInos, NEW d \in EInos,
         Phys(D2, c.map, 0) # 0, D2.dir[Phys(D2, c.map, 0)] = DotEntries(i, d)
  PROVE  Chained(D2, c) /\ Listing(D2, c) = {<<<<0, 0>>, ".", i>>, <<<<0, 3>>, "..", d>>}
<1>1. DirAt(D2, c, 0) = DotEntries(i, d)
  BY DEF DirAt
<1>2. \A l \in 0..c.size - 1 : l = 0
  OBVIOUS
<1>3. Chained(D2, c)
  BY <1>1, <1>2, DotEntriesAre DEF Chained
<1>4. Part(D2, c, 0) = {<<0, ".", i>>, <<3, "..", d>>}
  BY <1>1, DotEntriesAre DEF Part
<1>5. \A l \in Nat : l # 0 => Part(D2, c, l) = {}
  BY DEF Part
<1>6. ASSUME NEW t PROVE t \in Listing(D2, c) <=> t = <<<<0, 0>>, ".", i>> \/ t = <<<<0, 3>>, "..", d>>
  <2>1. t \in Listing(D2, c) <=> \E l \in Nat : \E u \in Part(D2, c, l) : t = <<<<l, u[1]>>, u[2], u[3]>>
    BY <1>3, ListingIs
  <2>2. t \in Listing(D2, c) <=> \E u \in Part(D2, c, 0) : t = <<<<0, u[1]>>, u[2], u[3]>>
    BY <2>1, <1>5
  <2> DEFINE a == <<0, ".", i>>
             b == <<3, "..", d>>
  <2>3. a[1] = 0 /\ a[2] = "." /\ a[3] = i /\ b[1] = 3 /\ b[2] = ".." /\ b[3] = d
    OBVIOUS
  <2>4. Part(D2, c, 0) = {a, b}
    BY <1>4
  <2> HIDE DEF a, b
  <2>5. t \in Listing(D2, c) <=> t = <<<<0, a[1]>>, a[2], a[3]>> \/ t = <<<<0, b[1]>>, b[2], b[3]>>
    BY <2>2, <2>4
  <2> QED BY <2>3, <2>5
<1> QED BY <1>3, <1>6

\* Directory i, new in d, on the block g has found.
FirstIn(D1, d, i, g, D2, new) ==
  /\ g = ext2_get_block(D1, ZeroMap, 0) /\ g.ok
  /\ D2 = [g.D EXCEPT !.dir[g.b] = DotEntries(i, d)]
  /\ new = [kind |-> "dir", size |-> 1, links |-> 2, map |-> g.m]

\* ext2_mkdir() leaves the file system sound.
LEMMA FineMkdir ==
  ASSUME NEW D \in DiskT, NEW U \in SUBSET EInos, NEW C \in [EInos -> InodeT], NEW S \in [EInos -> InodeT], NEW W,
         NEW full \in BOOLEAN, Fine(D, U, C, S, W, full), NEW d \in U, C[d].kind = "dir", NEW i \in EInos \ U,
         NEW n \in ENames, ext2_dir_find(D, C[d], n) = {}, NEW D1, NEW C1, Added(U, d, D, C, D1, C1, n, i),
         NEW g, NEW D2, NEW new, FirstIn(D1, d, i, g, D2, new),
         NEW C2, NEW S2, NEW W2, Makes(U, d, i, C1, S, W, C2, S2, W2, new),
         C2[d].map = C1[d].map, C2[d].size = C1[d].size, C2[d].kind = C1[d].kind, C2[d].links = C1[d].links + 1
  PROVE  Fine(D2, U \cup {i}, C2, S2, W2, full) /\ D2 \in DiskT
<1> DEFINE V == U \cup {i}
           CZ == [C1 EXCEPT ![i] = FileNode]
           G == g.D
<1>1. /\ D1 \in DiskT /\ C1 \in [EInos -> InodeT] /\ Apart(D1, U, Maps(C1)) /\ Chained(D1, C1[d])
      /\ \A j \in U \ {d} : C1[j] = C[j] /\ Looks(D, C[j], D1, C[j])
      /\ AllOwned(D, U, Maps(C)) => AllOwned(D1, U, Maps(C1))
      /\ C1[d].kind = C[d].kind /\ C1[d].links = C[d].links
  BY DEF Added, Longer
<1>2. /\ C2 \in [EInos -> InodeT] /\ C2[i] = new /\ S2[i] = new /\ S2[d] = C2[d] /\ W2[i] = NoContent
      /\ \A j \in U \ {d} : C2[j] = C1[j] /\ S2[j] = S[j] /\ W2[j] = W[j]
  BY DEF Makes
<1>3. CZ \in [EInos -> InodeT] /\ CZ[i].map = ZeroMap /\ \A j \in U : CZ[j] = C1[j]
  BY <1>1, FileNodeIs
<1> HIDE DEF CZ
<1>4. Apart(D1, V, Maps(CZ)) /\ (AllOwned(D1, U, Maps(C1)) => AllOwned(D1, V, Maps(CZ)))
  BY <1>1, <1>3, ApartAdd
<1>5. V \in SUBSET EInos /\ i \in V /\ Mappable(0) /\ 0 \in Nat
  BY Sizes DEF Mappable
<1> HIDE DEF V
<1>6. Maps(CZ) \in [EInos -> MapT] /\ Maps(CZ)[i] = ZeroMap
  BY <1>3, MapsType
<1>7. Got(V, i, PathTo(0), D1, Maps(CZ), g, PlaceOf(0))
  <2>1. g = ext2_get_block(D1, ZeroMap, 0)
    BY DEF FirstIn
  <2> QED BY <2>1, <1>1, <1>4, <1>5, <1>6, GetGot
<1>a. g.ok
  BY DEF FirstIn
<1>8. Mapped(V, i, D1, CZ, 0, g)
  BY <1>1, <1>3, <1>4, <1>5, <1>7, GrowMine
<1>9. /\ G \in DiskT /\ g.m \in MapT /\ Phys(G, g.m, 0) = g.b /\ g.b # 0 /\ Apart(G, V, [Maps(CZ) EXCEPT ![i] = g.m])
      /\ \A j \in V \ {i} : Looks(D1, CZ[j], G, CZ[j])
      /\ AllOwned(D1, V, Maps(CZ)) => AllOwned(G, V, [Maps(CZ) EXCEPT ![i] = g.m])
  BY <1>8, <1>a DEF Mapped
<1> HIDE DEF G
<1>10. new.map = g.m /\ new.kind = "dir" /\ new.size = 1 /\ new.links = 2
  <2>1. new = [kind |-> "dir", size |-> 1, links |-> 2, map |-> g.m]
    BY DEF FirstIn
  <2> QED BY <2>1
<1>11. ASSUME NEW j \in V PROVE C2[j].map = IF j = i THEN g.m ELSE CZ[j].map
  <2>1. CASE j = i
    BY <2>1, <1>2, <1>10
  <2>2. CASE j # i
    <3>1. j \in U
      BY <2>2 DEF V
    <3> QED BY <3>1, <2>2, <1>2, <1>3
  <2> QED BY <2>1, <2>2
<1> DEFINE M == [Maps(CZ) EXCEPT ![i] = g.m]
<1>12. \A j \in V : M[j] = Maps(C2)[j]
  <2>1. \A j \in V : j \in EInos
    BY <1>5
  <2> QED BY <2>1, <1>5, <1>6, <1>11 DEF Maps
<1>13. Apart(G, V, M) /\ (AllOwned(D1, V, Maps(CZ)) => AllOwned(G, V, M))
  BY <1>9
<1> HIDE DEF M
<1>14. Apart(G, V, Maps(C2)) /\ (AllOwned(G, V, M) => AllOwned(G, V, Maps(C2)))
  <2> DEFINE M2 == Maps(C2)
  <2>1. \A j \in V : M2[j] = M[j]
    BY <1>12
  <2> HIDE DEF M2
  <2>2. Apart(G, V, M2)
    BY <2>1, <1>13 DEF Apart
  <2>3. AllOwned(G, V, M) => AllOwned(G, V, M2)
    BY <2>1 DEF AllOwned
  <2> QED BY <2>2, <2>3 DEF M2
<1>15. Phys(G, C2[i].map, 0) = g.b /\ Phys(G, C2[i].map, 0) # 0
  BY <1>2, <1>9, <1>10
<1>16. g.b \in EBlks
  BY <1>2, <1>5, <1>9, <1>14, <1>15, PhysIn
<1>17. DotEntries(i, d) \in DirT
  BY DotEntriesAre
<1>18. Leaf(G, D2, g.b) /\ D2.dir[g.b] = DotEntries(i, d)
  <2>1. D2 = [g.D EXCEPT !.dir[g.b] = DotEntries(i, d)]
    BY DEF FirstIn
  <2> QED BY <2>1, <1>9, <1>16, <1>17, DirPut DEF G
<1>19. D2 \in DiskT
  BY <1>18 DEF Leaf
<1>20. /\ Apart(D2, V, Maps(C2)) /\ (AllOwned(G, V, Maps(C2)) => AllOwned(D2, V, Maps(C2)))
       /\ \A m \in MapT, l \in Nat : Phys(D2, m, l) = Phys(G, m, l)
  BY ONLY <1>9, <1>14, <1>18, LeafSame
<1>21. ASSUME NEW j \in U PROVE Looks(D1, C1[j], D2, C1[j])
  <2>1. j \in V \ {i} /\ CZ[j] = C1[j]
    BY <1>3 DEF V
  <2>2. Looks(D1, C1[j], G, C1[j])
    BY <2>1, <1>9
  <2>3. Leaf(G, D2, Phys(G, C2[i].map, 0))
    BY <1>15, <1>18
  <2>4. Looks(G, C2[j], D2, C2[j])
    BY <2>1, <2>3, <1>2, <1>5, <1>9, <1>14, <1>15, LeafLooks
  <2>5. C2[j].map = C1[j].map
    BY <1>2
  <2>6. Looks(G, C1[j], D2, C1[j])
    BY <2>4, <2>5 DEF Looks
  <2> QED BY <2>2, <2>6, LooksTwice
<1>22. \A j \in U \ {d} : Looks(D, C[j], D2, C[j])
  <2> TAKE j \in U \ {d}
  <2>1. Looks(D, C[j], D1, C[j]) /\ C1[j] = C[j]
    BY <1>1
  <2> QED BY <2>1, <1>21, LooksTwice
<1>23. C1[d].size \in Nat /\ C2[i] \in InodeT
  BY <1>1, <1>2 DEF InodeT
<1>24. Chained(D2, C1[d]) /\ Listing(D2, C1[d]) = Listing(D1, C1[d])
  BY <1>1, <1>21, <1>23, LooksChained, LooksListing
<1>25. Chained(D2, C2[d]) /\ Listing(D2, C2[d]) = Listing(D1, C1[d])
  BY <1>24, SameMap
<1>26. C2[i].map \in MapT /\ Phys(D2, C2[i].map, 0) = g.b
  BY <1>15, <1>20, <1>23 DEF InodeT
<1>27. Chained(D2, C2[i]) /\ Listing(D2, C2[i]) = {<<<<0, 0>>, ".", i>>, <<<<0, 3>>, "..", d>>}
  <2>1. C2[i].size = 1 /\ Phys(D2, C2[i].map, 0) # 0 /\ D2.dir[Phys(D2, C2[i].map, 0)] = DotEntries(i, d)
    BY <1>2, <1>9, <1>10, <1>18, <1>26
  <2> QED BY <2>1, <1>19, <1>23, NewDirIs
<1>28. Good(D2, C2[i], S2[i], W2[i])
  BY <1>2, <1>10, <1>23, <1>27, SavedSelf DEF Good
<1>29. DirMade(d, i, C, C2, Lists(D2, C2))
  <2>1. Lists(D2, C2)[i] = Listing(D2, C2[i])
    BY ListsAre
  <2>2. <<0, 0>> # <<0, 3>>
    OBVIOUS
  <2>3. C2[i].kind = "dir" /\ C2[i].links = 2 /\ C2[d].links = C[d].links + 1
    BY <1>1, <1>2, <1>10
  <2> QED BY <2>1, <2>2, <2>3, <1>27 DEF DirMade
<1>30. ~full => AllOwned(D2, V, Maps(C2))
  BY <1>1, <1>4, <1>13, <1>14, <1>20 DEF Fine
<1>31. Enters(U, d, i, D, C, S, W, D2, C2, S2, W2, full)
  BY <1>1, <1>2, <1>19, <1>20, <1>22, <1>25, <1>28, <1>29, <1>30 DEF Enters, V
<1>32. PICK x : (\A t \in Listing(D, C[d]) : t[1] # x) /\ Listing(D1, C1[d]) = Listing(D, C[d]) \cup {<<x, n, i>>}
  BY DEF Added
<1>33. \A t \in Listing(D, C[d]) : t[1] # x /\ t[2] # n
  BY <1>32, FindNone
<1>34. n \notin Dots
  BY Ext2Assumption DEF Dots
<1>35. NewEntry(D, C[d], D2, C2[d], n, i)
  BY <1>25, <1>32, <1>33 DEF NewEntry
<1>36. Fine(D2, U \cup {i}, C2, S2, W2, full)
  BY <1>31, <1>34, <1>35, FineEnters
<1> QED BY <1>19, <1>36

\* The entry that was added is removed again; the directory has perhaps grown.
LEMMA FineRollback ==
  ASSUME NEW D \in DiskT, NEW U \in SUBSET EInos, NEW C \in [EInos -> InodeT], NEW S \in [EInos -> InodeT], NEW W,
         NEW full, Fine(D, U, C, S, W, full), NEW d \in U, C[d].kind = "dir", NEW i,
         NEW n, ext2_dir_find(D, C[d], n) = {}, NEW D1, NEW C1, Added(U, d, D, C, D1, C1, n, i),
         NEW D2, D2 = ext2_dir_remove(D1, C1[d], n)
  PROVE  Fine(D2, U, C1, S, W, TRUE) /\ D2 \in DiskT
<1> DEFINE L == Listing(D, C[d])
<1>1. /\ D1 \in DiskT /\ C1 \in [EInos -> InodeT] /\ Apart(D1, U, Maps(C1)) /\ Chained(D1, C1[d])
      /\ \A j \in U \ {d} : C1[j] = C[j] /\ Looks(D, C[j], D1, C[j])
      /\ Longer(D, C[d], D1, C1[d])
  BY DEF Added
<1>2. PICK x : (\A t \in L : t[1] # x) /\ Listing(D1, C1[d]) = L \cup {<<x, n, i>>}
  BY DEF Added
<1>3. \A t \in L : t[2] # n
  BY FindNone
<1>4. TreeOK(U, C, Lists(D, C)) /\ \A j \in U : Good(D, C[j], S[j], W[j])
  BY DEF Fine
<1>5. \A s, t \in L : s[2] = t[2] => s = t
  BY <1>4, ListsAre DEF TreeOK
<1> HIDE DEF L
<1>6. \A s, t \in Listing(D1, C1[d]) : s[2] = t[2] => s = t
  <2>1. \A s \in Listing(D1, C1[d]) : s \in L \/ s = <<x, n, i>>
    BY <1>2
  <2>2. <<x, n, i>>[2] = n
    OBVIOUS
  <2> QED BY <2>1, <2>2, <1>3, <1>5
<1>7. i \in ext2_dir_find(D1, C1[d], n)
  <2>1. <<x, n, i>> \in Listing(D1, C1[d])
    BY <1>2
  <2>2. \E t \in Listing(D1, C1[d]) : t[2] = n /\ t[3] = i
    BY <2>1
  <2> QED BY <2>2, Find
<1>8. PICK y : <<y, n, i>> \in Listing(D1, C1[d]) /\ Removed(U, d, D1, C1, D2, <<y, n, i>>)
  BY <1>1, <1>6, <1>7, DirRemove
<1>9. <<y, n, i>> = <<x, n, i>>
  <2>1. <<y, n, i>>[2] = n
    OBVIOUS
  <2> QED BY <2>1, <1>2, <1>3, <1>8
<1>10. Listing(D2, C1[d]) = L
  <2>1. <<x, n, i>> \notin L
    <3>1. <<x, n, i>>[2] = n
      OBVIOUS
    <3> QED BY <3>1, <1>3
  <2>2. Listing(D2, C1[d]) = Listing(D1, C1[d]) \ {<<x, n, i>>}
    BY <1>8, <1>9 DEF Removed
  <2> QED BY <2>1, <2>2, <1>2
<1>11. /\ D2 \in DiskT /\ Apart(D2, U, Maps(C1)) /\ Chained(D2, C1[d]) /\ Longer(D1, C1[d], D2, C1[d])
       /\ \A j \in U \ {d} : Looks(D1, C1[j], D2, C1[j])
  BY <1>8 DEF Removed
<1>12. \A j \in U : C[j] \in InodeT /\ C1[j] \in InodeT /\ S[j] \in InodeT /\ C[j].size \in Nat /\ C1[j].size \in Nat
  BY <1>1 DEF InodeT
<1>13. Longer(D, C[d], D2, C1[d])
  <2>1. C[d].size \in Nat /\ C1[d].size \in Nat /\ C[d].size <= C1[d].size
    BY <1>1, <1>12 DEF Longer
  <2>2. \A l \in 0..C[d].size - 1 : l \in 0..C1[d].size - 1
    BY <2>1
  <2> QED BY <2>1, <2>2, <1>1, <1>11 DEF Longer
<1>14. Saved(D2, C1[d], S[d])
  BY <1>4, <1>10, <1>11, <1>12, <1>13, LongerSaved DEF Good, L
<1>15. C1[d].kind = "dir" /\ C1[d].links = C[d].links
  BY <1>1 DEF Longer
<1>16. \A j \in U \ {d} : Looks(D, C[j], D2, C1[j])
  BY <1>1, <1>11, LooksTwice
<1>17. ASSUME NEW j \in U PROVE Good(D2, C1[j], S[j], W[j])
  <2>1. CASE j = d
    BY <2>1, <1>11, <1>14, <1>15 DEF Good
  <2>2. CASE j # d
    BY <2>2, <1>4, <1>11, <1>12, <1>16, LooksGood
  <2> QED BY <2>1, <2>2
<1>18. ASSUME NEW j \in U PROVE Lists(D2, C1)[j] = Lists(D, C)[j]
  <2>1. CASE j = d
    BY <2>1, <1>10, ListsAre DEF L
  <2>2. CASE j # d
    <3>1. Listing(D2, C1[j]) = Listing(D, C[j])
      BY <2>2, <1>12, <1>16, LooksListing
    <3> QED BY <3>1, ListsAre
  <2> QED BY <2>1, <2>2
<1>19. TreeOK(U, C1, Lists(D2, C1))
  <2> DEFINE N == Lists(D, C)
             N2 == Lists(D2, C1)
  <2>1. TreeOK(U, C, N) /\ \A j \in U : N2[j] = N[j]
    BY <1>4, <1>18
  <2>2. \A j \in U : C[j].kind \in {"file", "dir"} /\ C1[j].kind = C[j].kind /\ C1[j].links = C[j].links
    BY <1>1, <1>4, <1>15 DEF Good
  <2> HIDE DEF N, N2
  <2>3. TreeOK(U, C1, N2)
    BY <2>1, <2>2, TreeSame
  <2> QED BY <2>3 DEF N2
<1>20. RootIno \in U /\ C1[RootIno].kind = "dir"
  BY <1>1, <1>15 DEF Fine
<1> QED BY <1>11, <1>17, <1>19, <1>20 DEF Fine

\* What is found on the disk lists the same: the block a failed mkdir left has no entry.
LEMMA SavedListing ==
  ASSUME NEW D, NEW c \in InodeT, NEW s \in InodeT, c.kind = "dir", Saved(D, c, s)
  PROVE  Listing(D, s) = Listing(D, c) /\ (Chained(D, c) => Chained(D, s))
<1>1. s.size \in Nat /\ c.size \in Nat /\ s.size <= c.size
  BY DEF InodeT, Saved
<1>2. \A l \in 0..s.size - 1 : l \in 0..c.size - 1
  BY <1>1
<1>3. \A l \in 0..s.size - 1 : Phys(D, s.map, l) = Phys(D, c.map, l) /\ DirAt(D, s, l) = DirAt(D, c, l)
  BY DEF Saved, DirAt
<1>4. \A t \in Listing(D, c) : t[1][1] < s.size
  BY DEF Saved
<1>5. ASSUME NEW t \in Listing(D, s) PROVE t \in Listing(D, c)
  <2>1. PICK l \in 0..s.size - 1, o \in 0..BlockSpace - 1 :
             /\ Phys(D, s.map, l) # 0 /\ o \in DOMAIN DirAt(D, s, l) /\ DirAt(D, s, l)[o].ino # 0
             /\ t = <<<<l, o>>, DirAt(D, s, l)[o].name, DirAt(D, s, l)[o].ino>>
    BY InListing
  <2> QED BY <2>1, <1>2, <1>3, InListing
<1>6. ASSUME NEW t \in Listing(D, c) PROVE t \in Listing(D, s)
  <2>1. PICK l \in 0..c.size - 1, o \in 0..BlockSpace - 1 :
             /\ Phys(D, c.map, l) # 0 /\ o \in DOMAIN DirAt(D, c, l) /\ DirAt(D, c, l)[o].ino # 0
             /\ t = <<<<l, o>>, DirAt(D, c, l)[o].name, DirAt(D, c, l)[o].ino>>
    BY InListing
  <2>2. t[1][1] = l
    BY <2>1
  <2>3. l \in 0..s.size - 1
    BY <2>2, <1>1, <1>4
  <2> QED BY <2>1, <2>3, <1>3, InListing
<1>7. Chained(D, c) => Chained(D, s)
  BY <1>2, <1>3 DEF Chained
<1> QED BY <1>5, <1>6, <1>7

\* What is found on the disk of a file reads the same.
LEMMA SavedFile ==
  ASSUME NEW D \in DiskT, NEW c \in InodeT, NEW s \in InodeT, c.kind = "file", Saved(D, c, s), NEW w, FileOK(D, c, w)
  PROVE  FileOK(D, s, w)
<1>1. s.size \in Nat /\ c.size = s.size /\ s.map \in MapT /\ c.map \in MapT
  BY DEF InodeT, Saved
<1>2. ASSUME NEW l \in Nat PROVE Phys(D, s.map, l) = Phys(D, c.map, l)
  <2>1. CASE l < s.size
    BY <2>1, <1>1 DEF Saved
  <2>2. CASE l >= s.size
    <3>1. Phys(D, c.map, l) = 0
      BY <2>2, <1>1 DEF FileOK
    <3>2. \A x \in 0..Dind : s.map[x] \in {0, c.map[x]}
      BY DEF Saved
    <3>3. Phys(D, s.map, l) = IF Mappable(l) /\ s.map[PlaceOf(l)[1]] # 0 THEN Phys(D, c.map, l) ELSE 0
      BY <3>2, <1>1, SavedPhys
    <3> QED BY <3>1, <3>3
  <2> QED BY <2>1, <2>2, <1>1
<1>3. \A l \in 0..MaxLblk : ext2_read_data(D, s, l) = ext2_read_data(D, c, l)
  <2>1. \A l \in 0..MaxLblk : l \in Nat
    BY Ext2Assumption
  <2> QED BY <2>1, <1>1, <1>2 DEF ext2_read_data
<1> QED BY <1>1, <1>2, <1>3 DEF FileOK

\* The file system as it is found on the disk.
LEMMA FineRemount ==
  ASSUME NEW D \in DiskT, NEW U \in SUBSET EInos, NEW C \in [EInos -> InodeT], NEW S \in [EInos -> InodeT], NEW W,
         NEW full \in BOOLEAN, Fine(D, U, C, S, W, full), NEW C2, \A j \in U : C2[j] = S[j]
  PROVE  Fine(D, U, C2, S, W, full)
<1>1. \A j \in U : Good(D, C[j], S[j], W[j]) /\ C[j] \in InodeT /\ S[j] \in InodeT /\ Saved(D, C[j], S[j])
  BY DEF Fine, Good
<1>2. \A j \in U : C[j].kind \in {"file", "dir"} /\ C2[j].kind = C[j].kind /\ C2[j].links = C[j].links
  BY <1>1 DEF Good, Saved
<1>3. ASSUME NEW j \in U PROVE Good(D, C2[j], S[j], W[j])
  <2>1. Saved(D, S[j], S[j])
    BY <1>1, SavedSelf
  <2>2. C[j].kind = "file" => FileOK(D, S[j], W[j])
    BY <1>1, SavedFile DEF Good
  <2>3. C[j].kind = "dir" => Chained(D, S[j])
    BY <1>1, SavedListing DEF Good
  <2> QED BY <2>1, <2>2, <2>3, <1>2 DEF Good
<1>4. ASSUME NEW j \in U, NEW p \in MapPlaces PROVE BlockAt(D, Maps(C2)[j], p) \in {0, BlockAt(D, Maps(C)[j], p)}
  <2>1. \A x \in 0..Dind : S[j].map[x] \in {0, C[j].map[x]}
    BY <1>1 DEF Saved
  <2>2. BlockAt(D, S[j].map, p) = IF S[j].map[p[1]] = 0 THEN 0 ELSE BlockAt(D, C[j].map, p)
    BY <2>1, SavedAt
  <2>3. Maps(C2)[j] = S[j].map /\ Maps(C)[j] = C[j].map
    BY DEF Maps
  <2> QED BY <2>2, <2>3
<1> DEFINE M == Maps(C)
           M2 == Maps(C2)
<1>5. Apart(D, U, M) /\ (~full => AllOwned(D, U, M) /\ \A i \in U : S[i] = C[i])
  BY DEF Fine
<1>6. \A j \in U : S[j] = C[j] => M2[j] = M[j]
  BY DEF Maps
<1>a. \A j \in U, p \in MapPlaces : BlockAt(D, M2[j], p) \in {0, BlockAt(D, M[j], p)}
  BY <1>4
<1> HIDE DEF M, M2
<1>7. Apart(D, U, M2)
  <2> SUFFICES ASSUME NEW j \in U, NEW p \in MapPlaces, BlockAt(D, M2[j], p) # 0
               PROVE  /\ BlockAt(D, M2[j], p) \in D.used
                      /\ \A h \in U, q \in MapPlaces : BlockAt(D, M2[h], q) = BlockAt(D, M2[j], p) => j = h /\ p = q
    BY DEF Apart
  <2>1. BlockAt(D, M2[j], p) = BlockAt(D, M[j], p) /\ BlockAt(D, M[j], p) # 0
    BY <1>a
  <2>2. /\ BlockAt(D, M[j], p) \in D.used
        /\ \A h \in U, q \in MapPlaces : BlockAt(D, M[h], q) = BlockAt(D, M[j], p) => j = h /\ p = q
    BY <2>1, <1>5 DEF Apart
  <2>3. ASSUME NEW h \in U, NEW q \in MapPlaces, BlockAt(D, M2[h], q) = BlockAt(D, M2[j], p) PROVE j = h /\ p = q
    <3>1. BlockAt(D, M2[h], q) = BlockAt(D, M[h], q)
      BY <2>1, <2>3, <1>a
    <3> QED BY <3>1, <2>1, <2>2, <2>3
  <2> QED BY <2>1, <2>2, <2>3
<1>8. ~full => AllOwned(D, U, M2)
  BY <1>5, <1>6 DEF AllOwned
<1>9. ASSUME NEW j \in U, C[j].kind = "dir" PROVE Lists(D, C2)[j] = Lists(D, C)[j]
  <2>1. Listing(D, S[j]) = Listing(D, C[j])
    BY <1>1, <1>9, SavedListing
  <2> QED BY <2>1, ListsAre
<1>10. TreeOK(U, C2, Lists(D, C2))
  <2> DEFINE N == Lists(D, C)
             N2 == Lists(D, C2)
  <2>1. TreeOK(U, C, N) /\ \A j \in U : C[j].kind = "dir" => N2[j] = N[j]
    BY <1>9 DEF Fine
  <2> HIDE DEF N, N2
  <2>2. TreeOK(U, C2, N2)
    BY <2>1, <1>2, TreeSame
  <2> QED BY <2>2 DEF N2
<1>11. RootIno \in U /\ C2[RootIno].kind = "dir"
  BY <1>2 DEF Fine
<1>12. ~full => \A j \in U : S[j] = C2[j]
  OBVIOUS
<1> QED BY <1>3, <1>7, <1>8, <1>10, <1>11, <1>12 DEF Fine, M2

\* The inodes after i has left directory d.
Leaves(U, d, i, C, S, C2, S2) ==
  /\ C2 \in [EInos -> InodeT] /\ S2[d] = C2[d]
  /\ \A j \in U \ {i, d} : C2[j] = C[j] /\ S2[j] = S[j]
  /\ C2[d].map = C[d].map /\ C2[d].size = C[d].size /\ C2[d].kind = C[d].kind
  /\ C2[d].links = IF C[i].kind = "dir" THEN C[d].links - 1 ELSE C[d].links

Empty(D, c) == c.kind = "dir" => \A t \in Listing(D, c) : t[2] \in Dots

\* The entry n of p is removed, then the blocks of s are freed.
Drops(D, p, n, s, D1, D2) == D1 = ext2_dir_remove(D, p, n) /\ D2 = ext2_free_all_blocks(D1, s.map)

\* Inode i is dropped from directory d.
Leaving(D, U, C, S, d, i, n, D1, D2, C2, S2) ==
  /\ i \in ext2_dir_find(D, C[d], n) /\ Empty(D, C[i]) /\ Drops(D, C[d], n, S[i], D1, D2)
  /\ Leaves(U, d, i, C, S, C2, S2)

\* ext2_unlink() and ext2_rmdir() leave the file system sound.
LEMMA FineLeaves ==
  ASSUME NEW D \in DiskT, NEW U \in SUBSET EInos, NEW C \in [EInos -> InodeT], NEW S \in [EInos -> InodeT], NEW W,
         NEW full, Fine(D, U, C, S, W, full), NEW d \in U, C[d].kind = "dir", NEW i,
         NEW n \in ENames, NEW D1, NEW D2, NEW C2, NEW S2, Leaving(D, U, C, S, d, i, n, D1, D2, C2, S2)
  PROVE  Fine(D2, U \ {i}, C2, S2, W, full) /\ i \in U \ {d, RootIno} /\ D2 \in DiskT
<1> DEFINE V == U \ {i}
           B == FreedOf(D1, S[i].map)
           N == Lists(D, C)
           N2 == Lists(D2, C2)
<1>a. /\ i \in ext2_dir_find(D, C[d], n) /\ Empty(D, C[i]) /\ Drops(D, C[d], n, S[i], D1, D2)
      /\ Leaves(U, d, i, C, S, C2, S2)
  BY DEF Leaving
<1>1. TreeOK(U, C, N) /\ Apart(D, U, Maps(C)) /\ RootIno \in U /\ C[RootIno].kind = "dir"
      /\ \A j \in U : Good(D, C[j], S[j], W[j])
  BY DEF Fine
<1>2. N[d] = Listing(D, C[d]) /\ \A s, t \in Listing(D, C[d]) : s[2] = t[2] => s = t
  BY <1>1, ListsAre DEF TreeOK
<1>3. Chained(D, C[d])
  BY <1>1 DEF Good
<1>4. PICK x : <<x, n, i>> \in Listing(D, C[d]) /\ Removed(U, d, D, C, D1, <<x, n, i>>)
  BY <1>a, <1>1, <1>2, <1>3, DirRemove DEF Drops
<1>5. n \notin Dots
  BY Ext2Assumption DEF Dots
<1>6. i \in U /\ i # d /\ i # RootIno
  <2> DEFINE t == <<x, n, i>>
  <2>1. t \in N[d] /\ t[2] = n /\ t[3] = i
    BY <1>2, <1>4
  <2> HIDE DEF t, N
  <2>2. t[3] \in U /\ t[3] \notin {d, RootIno}
    BY <2>1, <1>1, <1>5 DEF TreeOK
  <2> QED BY <2>1, <2>2
<1>7. /\ D1 \in DiskT /\ Apart(D1, U, Maps(C)) /\ Chained(D1, C[d])
      /\ AllOwned(D, U, Maps(C)) => AllOwned(D1, U, Maps(C))
      /\ \A j \in U \ {d} : Looks(D, C[j], D1, C[j])
      /\ Listing(D1, C[d]) = Listing(D, C[d]) \ {<<x, n, i>>}
  BY <1>4 DEF Removed
<1>8. Freed(D1, D2, B)
  BY <1>a, <1>7, FreeAllIs DEF Drops
<1>9. \A p \in MapPlaces : BlockAt(D1, S[i].map, p) = IF S[i].map[p[1]] = 0 THEN 0 ELSE BlockAt(D1, C[i].map, p)
  <2>1. \A y \in 0..Dind : S[i].map[y] \in {0, C[i].map[y]}
    BY <1>1, <1>6 DEF Good, Saved
  <2> QED BY <2>1, SavedAt
<1>10. \A b \in B : b # 0 /\ \E p \in MapPlaces : BlockAt(D1, C[i].map, p) = b
  BY <1>9 DEF FreedOf, PlacesUsed
<1>11. /\ C2 \in [EInos -> InodeT] /\ S2[d] = C2[d]
       /\ \A j \in U \ {i, d} : C2[j] = C[j] /\ S2[j] = S[j]
       /\ C2[d].map = C[d].map /\ C2[d].size = C[d].size /\ C2[d].kind = C[d].kind
       /\ C2[d].links = IF C[i].kind = "dir" THEN C[d].links - 1 ELSE C[d].links
  BY <1>a DEF Leaves
<1>12. Without(U, i, C, V, C2)
  BY <1>11 DEF Without
<1>13. V \in SUBSET EInos /\ d \in V /\ U \ {i} \subseteq V
  BY <1>6
<1>14. ~full => \A p \in MapPlaces : BlockAt(D1, C[i].map, p) # 0 => BlockAt(D1, C[i].map, p) \in B
  <2>1. ~full => S[i] = C[i]
    BY <1>6 DEF Fine
  <2> QED BY <2>1 DEF FreedOf, PlacesUsed
<1> HIDE DEF B
<1>15. Apart(D2, V, Maps(C2))
  BY <1>6, <1>7, <1>8, <1>10, <1>12, FreedApart
<1>16. ~full => AllOwned(D2, V, Maps(C2))
  <2> SUFFICES ASSUME ~full PROVE AllOwned(D2, V, Maps(C2))
    OBVIOUS
  <2>1. AllOwned(D1, U, Maps(C))
    BY <1>7 DEF Fine
  <2> QED BY <2>1, <1>6, <1>7, <1>8, <1>12, <1>13, <1>14, FreedOwned
<1>17. D2 \in DiskT
  BY <1>8 DEF Freed
<1>18. \A j \in U : C[j] \in InodeT /\ C2[j] \in InodeT /\ S[j] \in InodeT /\ C[j].size \in Nat
  BY <1>11 DEF InodeT
<1>19. \A j \in U : Looks(D1, C[j], D2, C[j])
  BY <1>7, <1>8, <1>18, FreedLooks
<1>20. \A j \in V \ {d} : Looks(D, C[j], D2, C[j]) /\ C2[j] = C[j] /\ S2[j] = S[j]
  BY <1>7, <1>11, <1>19, LooksTwice
<1>21. Chained(D2, C[d]) /\ Listing(D2, C[d]) = Listing(D1, C[d])
  BY <1>7, <1>18, <1>19, LooksChained, LooksListing
<1>22. Chained(D2, C2[d]) /\ Listing(D2, C2[d]) = Listing(D, C[d]) \ {<<x, n, i>>}
  BY <1>7, <1>11, <1>21, SameMap
<1>23. ASSUME NEW j \in V PROVE Good(D2, C2[j], S2[j], W[j])
  <2>1. CASE j = d
    <3>1. Saved(D2, C2[d], C2[d])
      BY <1>18, SavedSelf
    <3> QED BY <3>1, <2>1, <1>11, <1>22 DEF Good
  <2>2. CASE j # d
    <3>1. Good(D, C[j], S[j], W[j]) /\ Looks(D, C[j], D2, C[j])
      BY <2>2, <1>1, <1>20
    <3>2. Good(D2, C[j], S[j], W[j])
      BY <3>1, <1>17, <1>18, LooksGood
    <3> QED BY <3>2, <2>2, <1>20
  <2> QED BY <2>1, <2>2
<1>24. TreeOK(V, C2, N2)
  <2>1. \A j \in U \ {d, i} : N2[j] = N[j]
    <3> TAKE j \in U \ {d, i}
    <3>1. Listing(D2, C2[j]) = Listing(D, C[j])
      BY <1>18, <1>20, LooksListing
    <3> QED BY <3>1, ListsAre
  <2>2. N2[d] = N[d] \ {<<x, n, i>>} /\ <<x, n, i>> \in N[d] /\ N[i] = Listing(D, C[i])
    BY <1>2, <1>4, <1>6, <1>22, ListsAre
  <2> HIDE DEF N, N2
  \* In the tree inode i is left as it was until its name is gone.
  <2> DEFINE C3 == [C2 EXCEPT ![i] = C[i]]
             N3 == [j \in EInos |-> IF j = i THEN N[i] ELSE N2[j]]
  <2>3. C3[i] = C[i] /\ N3[i] = N[i] /\ \A j \in V : C3[j] = C2[j] /\ N3[j] = N2[j]
    BY <1>6, <1>11
  <2> HIDE DEF C3, N3
  <2>4. SameBut(U, d, C, N, C3, N3)
    BY <2>1, <2>3, <1>11 DEF SameBut
  <2>5. LosesName(U, C, N, C3, N3, d, i, n, x)
    BY <2>2, <2>3, <2>4, <1>a, <1>1, <1>5, <1>11, <1>13 DEF LosesName, Good, Empty
  <2>6. TreeOK(V, C3, N3)
    BY <2>5, <1>1, TreeRemove
  <2>7. \A j \in V : /\ C3[j].kind \in {"file", "dir"} /\ C2[j].kind = C3[j].kind /\ C2[j].links = C3[j].links
                     /\ C3[j].kind = "dir" => N2[j] = N3[j]
    BY <2>3, <1>23 DEF Good
  <2> HIDE DEF V
  <2> QED BY <2>6, <2>7, TreeSame
<1>25. RootIno \in V /\ C2[RootIno].kind = "dir"
  BY <1>1, <1>6, <1>11
<1>26. ~full => \A j \in V : S2[j] = C2[j]
  BY <1>11, <1>20 DEF Fine
<1> HIDE DEF V
<1>27. Fine(D2, V, C2, S2, W, full)
  BY <1>15, <1>16, <1>23, <1>24, <1>25, <1>26 DEF Fine, N2
<1> QED BY <1>6, <1>17, <1>27 DEF V

-----------------------------------------------------------------------------
(* Files change                                                             *)

\* The inodes and contents after file i, and nothing else, has changed.
Rewrites(U, i, C, S, W, C2, S2, W2, p) ==
  /\ C2 \in [EInos -> InodeT] /\ C2[i] = p /\ S2[i] = p
  /\ p.kind = "file" /\ p.links = C[i].links
  /\ \A j \in U \ {i} : C2[j] = C[j] /\ S2[j] = S[j] /\ W2[j] = W[j]

\* A file changes alone.
LEMMA FineFile ==
  ASSUME NEW D \in DiskT, NEW U \in SUBSET EInos, NEW C \in [EInos -> InodeT], NEW S \in [EInos -> InodeT], NEW W,
         NEW full, Fine(D, U, C, S, W, full), NEW i \in U, C[i].kind = "file",
         NEW D2 \in DiskT, NEW C2, NEW S2, NEW W2, NEW p \in InodeT, Rewrites(U, i, C, S, W, C2, S2, W2, p),
         \A j \in U \ {i} : Looks(D, C[j], D2, C[j]), FileOK(D2, p, W2[i]),
         Apart(D2, U, Maps(C2)), ~full => AllOwned(D2, U, Maps(C2))
  PROVE  Fine(D2, U, C2, S2, W2, full)
<1>1. /\ C2 \in [EInos -> InodeT] /\ C2[i] = p /\ S2[i] = p /\ p.kind = "file" /\ p.links = C[i].links
      /\ \A j \in U \ {i} : C2[j] = C[j] /\ S2[j] = S[j] /\ W2[j] = W[j]
  BY DEF Rewrites
<1>2. \A j \in U : C[j] \in InodeT /\ C2[j] \in InodeT /\ S[j] \in InodeT /\ C[j].size \in Nat
  BY <1>1 DEF InodeT
<1>3. TreeOK(U, C, Lists(D, C)) /\ \A j \in U : Good(D, C[j], S[j], W[j])
  BY DEF Fine
<1>4. ASSUME NEW j \in U PROVE Good(D2, C2[j], S2[j], W2[j])
  <2>1. CASE j = i
    <3>1. Saved(D2, p, p)
      BY SavedSelf
    <3> QED BY <3>1, <2>1, <1>1 DEF Good
  <2>2. CASE j # i
    <3>1. Good(D2, C[j], S[j], W[j])
      BY <2>2, <1>2, <1>3, LooksGood
    <3> QED BY <3>1, <2>2, <1>1
  <2> QED BY <2>1, <2>2
<1>5. \A j \in U : C[j].kind \in {"file", "dir"} /\ C2[j].kind = C[j].kind /\ C2[j].links = C[j].links
  BY <1>1, <1>3 DEF Good
<1>6. ASSUME NEW j \in U, C[j].kind = "dir" PROVE Lists(D2, C2)[j] = Lists(D, C)[j]
  <2>1. j \in U \ {i}
    BY <1>6
  <2>2. Listing(D2, C[j]) = Listing(D, C[j])
    BY <2>1, <1>2, LooksListing
  <2> QED BY <2>1, <2>2, <1>1, ListsAre
<1>7. TreeOK(U, C2, Lists(D2, C2))
  <2> DEFINE N == Lists(D, C)
             N2 == Lists(D2, C2)
  <2>1. TreeOK(U, C, N) /\ \A j \in U : C[j].kind = "dir" => N2[j] = N[j]
    BY <1>3, <1>6
  <2> HIDE DEF N, N2
  <2>2. TreeOK(U, C2, N2)
    BY <2>1, <1>5, TreeSame
  <2> QED BY <2>2 DEF N2
<1>8. RootIno \in U /\ C2[RootIno].kind = "dir"
  BY <1>5 DEF Fine
<1>9. ~full => \A j \in U : S2[j] = C2[j]
  BY <1>1 DEF Fine
<1> QED BY <1>4, <1>7, <1>8, <1>9 DEF Fine

\* The block ext2_get_block() finds is where the map puts it.
LEMMA FoundGot ==
  ASSUME NEW U \in SUBSET EInos, NEW i \in U, NEW D \in DiskT, NEW C \in [EInos -> InodeT], Apart(D, U, Maps(C)),
         NEW l \in Nat, NEW g, g = ext2_get_block(D, C[i].map, l), g.ok
  PROVE  Mappable(l) /\ Got(U, i, PathTo(l), D, Maps(C), g, PlaceOf(l))
<1> DEFINE M == Maps(C)
<1>1. M \in [EInos -> MapT] /\ M[i] = C[i].map /\ Apart(D, U, M)
  BY MapsType
<1> HIDE DEF M
<1>2. g = ext2_get_block(D, M[i], l)
  BY <1>1
<1>3. ~Mappable(l) => g = [ok |-> FALSE, D |-> D, m |-> M[i], b |-> 0]
  BY <1>1, <1>2, GetGot
<1>4. Mappable(l) => Got(U, i, PathTo(l), D, M, g, PlaceOf(l))
  BY <1>1, <1>2, GetGot
<1>5. ~Mappable(l) => ~g.ok
  BY ONLY <1>3, RefusedIs
<1> QED BY <1>4, <1>5 DEF M

\* The value v is written to block l of a file.
Writing(c, l, v, g, D2, p, w, w2) ==
  /\ g.ok
  /\ D2 = [g.D EXCEPT !.dat[g.b] = v]
  /\ p.map = g.m /\ p.size = IF l >= c.size THEN l + 1 ELSE c.size
  /\ w2 = [w EXCEPT ![l] = v]

\* A write to the block that was found leaves the file system sound, and the file as written.
LEMMA FineWrite ==
  ASSUME NEW D \in DiskT, NEW U \in SUBSET EInos, NEW C \in [EInos -> InodeT], NEW S \in [EInos -> InodeT],
         NEW W \in [EInos -> ContentT], NEW full, Fine(D, U, C, S, W, full), NEW i \in U, C[i].kind = "file",
         NEW l \in 0..MaxLblk, NEW v \in Values, NEW g, NEW D2, NEW p \in InodeT,
         Mappable(l), Got(U, i, PathTo(l), D, Maps(C), g, PlaceOf(l)),
         NEW C2, NEW S2, NEW W2, Writing(C[i], l, v, g, D2, p, W[i], W2[i]), Rewrites(U, i, C, S, W, C2, S2, W2, p)
  PROVE  Fine(D2, U, C2, S2, W2, full) /\ D2 \in DiskT
<1> DEFINE G == g.D
           M == [Maps(C) EXCEPT ![i] = g.m]
<1>1. Apart(D, U, Maps(C)) /\ Maps(C) \in [EInos -> MapT] /\ Maps(C)[i] = C[i].map /\ C[i].size \in Nat
      /\ FileOK(D, C[i], W[i]) /\ MaxLblk \in Nat /\ l \in Nat
  BY MapsType, Ext2Assumption DEF Fine, Good
<1>2. Mappable(l) /\ Got(U, i, PathTo(l), D, Maps(C), g, PlaceOf(l))
  OBVIOUS
<1>b. W2[i] = [W[i] EXCEPT ![l] = v]
  BY DEF Writing
<1>a. g.ok /\ p.map = g.m /\ p.size = IF l >= C[i].size THEN l + 1 ELSE C[i].size
  BY DEF Writing
<1>3. Mapped(U, i, D, C, l, g)
  BY <1>1, <1>2, GrowMine
<1>4. /\ G \in DiskT /\ g.m \in MapT /\ Phys(G, g.m, l) = g.b /\ g.b # 0 /\ Apart(G, U, M)
      /\ \A h \in Nat \ {l} : Phys(G, g.m, h) = Phys(D, C[i].map, h)
      /\ \A b \in D.used : G.dat[b] = D.dat[b]
      /\ \A j \in U \ {i} : Looks(D, C[j], G, C[j])
      /\ AllOwned(D, U, Maps(C)) => AllOwned(G, U, M)
  BY <1>a, <1>3 DEF Mapped
<1> HIDE DEF G
<1>5. C2 \in [EInos -> InodeT] /\ C2[i] = p /\ \A j \in U \ {i} : C2[j] = C[j]
  BY DEF Rewrites
<1>6. \A j \in U : Maps(C2)[j] = M[j]
  <2>1. \A j \in U : j \in EInos
    OBVIOUS
  <2> QED BY <2>1, <1>a, <1>1, <1>5 DEF Maps
<1> HIDE DEF M
<1>7. Apart(G, U, Maps(C2)) /\ (AllOwned(G, U, M) => AllOwned(G, U, Maps(C2)))
  <2> DEFINE M2 == Maps(C2)
  <2>1. \A j \in U : M2[j] = M[j]
    BY <1>6
  <2> HIDE DEF M2
  <2>2. Apart(G, U, M2)
    BY <2>1, <1>4 DEF Apart
  <2>3. AllOwned(G, U, M) => AllOwned(G, U, M2)
    BY <2>1 DEF AllOwned
  <2> QED BY <2>2, <2>3 DEF M2
<1>8. Phys(G, C2[i].map, l) = g.b /\ Phys(G, C2[i].map, l) # 0
  BY <1>a, <1>4, <1>5
<1>9. g.b \in EBlks
  BY <1>1, <1>4, <1>5, <1>7, <1>8, PhysIn
<1>10. Leaf(G, D2, g.b) /\ D2.dat[g.b] = v
  <2>1. D2 = [g.D EXCEPT !.dat[g.b] = v]
    BY DEF Writing
  <2> QED BY <2>1, <1>4, <1>9, DatPut DEF G
<1>11. D2 \in DiskT
  BY <1>10 DEF Leaf
<1>12. /\ Apart(D2, U, Maps(C2)) /\ (AllOwned(G, U, Maps(C2)) => AllOwned(D2, U, Maps(C2)))
       /\ \A h \in Nat : Phys(D2, g.m, h) = Phys(G, g.m, h)
  BY <1>4, <1>7, <1>10, LeafSame
<1>13. ASSUME NEW j \in U \ {i} PROVE Looks(D, C[j], D2, C[j])
  <2>1. Leaf(G, D2, Phys(G, C2[i].map, l))
    BY <1>8, <1>10
  <2>2. Looks(G, C2[j], D2, C2[j])
    BY <2>1, <1>1, <1>4, <1>5, <1>7, <1>8, LeafLooks
  <2> QED BY <2>2, <1>4, <1>5, LooksTwice
<1>14. ASSUME NEW h \in Nat \ {l}
       PROVE  /\ Phys(D2, p.map, h) = Phys(D, C[i].map, h)
              /\ Phys(D, C[i].map, h) # 0 => D2.dat[Phys(D, C[i].map, h)] = D.dat[Phys(D, C[i].map, h)]
  <2>1. Phys(D2, p.map, h) = Phys(D, C[i].map, h)
    BY <1>a, <1>4, <1>12
  <2>2. ASSUME Phys(D, C[i].map, h) # 0 PROVE D2.dat[Phys(D, C[i].map, h)] = D.dat[Phys(D, C[i].map, h)]
    <3>1. Phys(D, C[i].map, h) \in D.used /\ Phys(D, C[i].map, h) \in EBlks
      BY <2>2, <1>1, PhysIn
    <3>2. Phys(G, C2[i].map, h) = Phys(D, C[i].map, h)
      BY <1>a, <1>4, <1>5
    <3>3. Phys(G, C2[i].map, l) # Phys(G, C2[i].map, h)
      BY <1>1, <1>4, <1>5, <1>7, <1>8, PhysDiffer
    <3>4. Phys(D, C[i].map, h) \in EBlks \ {g.b}
      BY <3>1, <3>2, <3>3, <1>8
    <3>5. D2.dat[Phys(D, C[i].map, h)] = G.dat[Phys(D, C[i].map, h)]
      BY <3>4, <1>10 DEF Leaf
    <3> QED BY <3>1, <3>5, <1>4
  <2> QED BY <2>1, <2>2
<1>15. Phys(D2, p.map, l) = g.b
  BY <1>a, <1>1, <1>4, <1>12
<1>16. p.size \in Nat /\ l < p.size /\ p.size >= C[i].size /\ \A h \in Nat : h >= C[i].size /\ h < p.size => h <= l
  BY <1>a, <1>1
<1>17. ASSUME NEW h \in Nat, h >= p.size PROVE Phys(D2, p.map, h) = 0
  <2>1. h # l /\ h >= C[i].size
    BY <1>1, <1>16, <1>17
  <2>2. Phys(D, C[i].map, h) = 0
    BY <2>1, <1>1 DEF FileOK
  <2> QED BY <2>1, <2>2, <1>14
<1>18. ASSUME NEW h \in 0..MaxLblk PROVE W2[i][h] = ext2_read_data(D2, p, h)
  <2>1. h \in Nat /\ W[i] \in ContentT
    BY <1>1
  <2>2. CASE h = l
    <3>1. W2[i][h] = v
      BY <2>1, <2>2, <1>b DEF ContentT
    <3>2. ext2_read_data(D2, p, l) = v
      BY <1>4, <1>10, <1>15, <1>16 DEF ext2_read_data
    <3> QED BY <3>1, <3>2, <2>2
  <2>3. CASE h # l
    <3>1. W2[i][h] = W[i][h]
      BY <2>1, <2>3, <1>b DEF ContentT
    <3>2. W[i][h] = ext2_read_data(D, C[i], h)
      BY <1>1 DEF FileOK
    <3>3. CASE h < C[i].size
      <4>1. h < p.size
        BY <3>3, <2>1, <1>1, <1>16
      <4> QED BY <4>1, <3>1, <3>2, <3>3, <2>1, <2>3, <1>14 DEF ext2_read_data
    <3>4. CASE h >= C[i].size
      <4>1. Phys(D, C[i].map, h) = 0
        BY <3>4, <2>1, <1>1 DEF FileOK
      <4>2. Phys(D2, p.map, h) = 0
        BY <4>1, <2>1, <2>3, <1>14
      <4> QED BY <4>1, <4>2, <3>1, <3>2 DEF ext2_read_data
    <3> QED BY <3>3, <3>4, <2>1, <1>1
  <2> QED BY <2>2, <2>3
<1>19. FileOK(D2, p, W2[i])
  BY <1>17, <1>18 DEF FileOK
<1>20. ~full => AllOwned(D2, U, Maps(C2))
  BY <1>4, <1>7, <1>12 DEF Fine
<1>21. Fine(D2, U, C2, S2, W2, full)
  BY <1>11, <1>12, <1>13, <1>19, <1>20, FineFile
<1> QED BY <1>11, <1>21

\* The logical blocks before the end of a file, and the map without the direct ones.
Before(D, p) == {l \in 0..p.size - 1 : Phys(D, p.map, l) # 0}
BlocksBefore(D, p) == {Phys(D, p.map, l) : l \in Before(D, p)}
ClearedMap(p) == [x \in 0..Dind |-> IF x < NDirect /\ x < p.size THEN 0 ELSE p.map[x]]

\* Both rounds of ext2_truncate() together free what the file had.
LEMMA TruncateFrees ==
  ASSUME NEW D \in DiskT, NEW p \in InodeT, NEW D1, D1 = FreeBlocks(D, BlocksBefore(D, p), Cardinality(Before(D, p))),
         NEW D2, D2 = ext2_free_all_blocks(D1, ClearedMap(p))
  PROVE  /\ Freed(D, D2, FreedOf(D, p.map))
<1> DEFINE m == p.map
           s == ClearedMap(p)
           B1 == BlocksBefore(D, p)
           B2 == FreedOf(D1, s)
<1>1. p.size \in Nat /\ m \in MapT
  BY DEF InodeT
<1>2. Cardinality(Before(D, p)) \in Int
  <2>1. IsFiniteSet(0..p.size - 1)
    BY <1>1, FS_Interval
  <2>2. Before(D, p) \subseteq 0..p.size - 1
    BY DEF Before
  <2> DEFINE X == Before(D, p)
  <2>3. IsFiniteSet(X)
    BY <2>1, <2>2, FS_Subset
  <2> HIDE DEF X
  <2>4. Cardinality(X) \in Int
    BY <2>3, FS_CardinalityType
  <2> QED BY <2>4 DEF X
<1>3. Freed(D, D1, B1)
  BY <1>2, FreeIs
<1>4. D1 \in DiskT
  BY <1>3 DEF Freed
<1>5. Freed(D1, D2, B2)
  BY <1>4, FreeAllIs
<1>6. \A q \in MapPlaces : BlockAt(D1, s, q) = IF s[q[1]] = 0 THEN 0 ELSE BlockAt(D, m, q)
  <2>1. \A x \in 0..Dind : s[x] \in {0, m[x]}
    BY DEF ClearedMap
  <2> TAKE q \in MapPlaces
  <2>2. BlockAt(D, s, q) = IF s[q[1]] = 0 THEN 0 ELSE BlockAt(D, m, q)
    BY <2>1, SavedAt
  <2>3. BlockAt(D1, s, q) = BlockAt(D, s, q)
    BY <1>3, PtrSame DEF Freed
  <2> QED BY <2>2, <2>3
<1>7. ASSUME NEW b \in B1 PROVE b \in FreedOf(D, m)
  <2>1. PICK l \in 0..p.size - 1 : Phys(D, m, l) # 0 /\ b = Phys(D, m, l)
    BY DEF BlocksBefore, Before
  <2>2. l \in Nat
    BY <1>1
  <2>3. Mappable(l) /\ Phys(D, m, l) = BlockAt(D, m, PlaceOf(l))
    BY <2>1, <2>2, <1>1, PhysIs
  <2>4. PlaceOf(l) \in MapPlaces
    BY <2>2, <2>3, PlaceOfIs
  <2> QED BY <2>1, <2>3, <2>4 DEF FreedOf, PlacesUsed
<1>8. ASSUME NEW b \in B2 PROVE b \in FreedOf(D, m)
  <2>1. PICK q \in MapPlaces : BlockAt(D1, s, q) # 0 /\ b = BlockAt(D1, s, q)
    BY DEF FreedOf, PlacesUsed
  <2>2. b = BlockAt(D, m, q) /\ b # 0
    BY <2>1, <1>6
  <2> QED BY <2>2 DEF FreedOf, PlacesUsed
<1>9. ASSUME NEW b \in FreedOf(D, m) PROVE b \in B1 \cup B2
  <2>1. PICK q \in MapPlaces : BlockAt(D, m, q) # 0 /\ b = BlockAt(D, m, q)
    BY DEF FreedOf, PlacesUsed
  <2>2. CASE s[q[1]] # 0
    <3>1. BlockAt(D1, s, q) = b /\ b # 0
      BY <2>1, <2>2, <1>6
    <3> QED BY <3>1 DEF FreedOf, PlacesUsed
  <2>3. CASE s[q[1]] = 0
    <3>1. q[1] \in 0..Dind /\ q = <<q[1], q[2], q[3]>> /\ (q[2] = 0 => q[3] = 0) /\ (q[2] # 0 => q[1] \in {Ind, Dind})
      BY PlaceParts
    <3>2. m[q[1]] # 0
      BY <2>1, AtZero
    <3>3. q[1] < NDirect /\ q[1] < p.size
      BY <3>1, <3>2, <2>3 DEF ClearedMap
    <3>4. q[2] = 0 /\ q[3] = 0 /\ q[1] \in Nat
      BY <3>1, <3>3, Sizes
    <3>5. PlaceOf(q[1]) = q
      BY <3>1, <3>3, <3>4 DEF PlaceOf
    <3>6. Mappable(q[1])
      BY <3>3, <3>4, Sizes DEF Mappable
    <3>7. Phys(D, m, q[1]) = b /\ b # 0
      BY <3>4, <3>5, <3>6, <2>1, <1>1, PhysIs
    <3>8. q[1] \in 0..p.size - 1
      BY <3>3, <3>4, <1>1
    <3>9. b \in B1
      BY <3>7, <3>8 DEF BlocksBefore, Before
    <3> QED BY <3>9
  <2> QED BY <2>2, <2>3
<1>10. B1 \cup B2 = FreedOf(D, m)
  BY <1>7, <1>8, <1>9
<1> HIDE DEF B1, B2, s
<1>11. D2.used = D.used \ (B1 \cup B2)
  BY <1>3, <1>5 DEF Freed
<1> QED BY <1>3, <1>5, <1>10, <1>11 DEF Freed

\* ext2_truncate() leaves the file system sound, and the file empty.
LEMMA FineTruncate ==
  ASSUME NEW D \in DiskT, NEW U \in SUBSET EInos, NEW C \in [EInos -> InodeT], NEW S \in [EInos -> InodeT], NEW W,
         NEW full, Fine(D, U, C, S, W, full), NEW i \in U, C[i].kind = "file",
         NEW D2, Freed(D, D2, FreedOf(D, C[i].map)), NEW C2, NEW S2, NEW W2, NEW p \in InodeT, p.map = ZeroMap, p.size = 0,
         Rewrites(U, i, C, S, W, C2, S2, W2, p), W2[i] = NoContent
  PROVE  Fine(D2, U, C2, S2, W2, full)
<1> DEFINE B == FreedOf(D, C[i].map)
<1>1. Apart(D, U, Maps(C)) /\ (~full => AllOwned(D, U, Maps(C)))
  BY DEF Fine
<1>2. C2[i].map = ZeroMap /\ \A j \in U \ {i} : C2[j] = C[j]
  BY DEF Rewrites
<1>3. Without(U, i, C, U, C2)
  BY <1>2 DEF Without
<1>4. \A b \in B : b # 0 /\ \E q \in MapPlaces : BlockAt(D, C[i].map, q) = b
  BY DEF FreedOf, PlacesUsed
<1>5. \A q \in MapPlaces : BlockAt(D, C[i].map, q) # 0 => BlockAt(D, C[i].map, q) \in B
  BY DEF FreedOf, PlacesUsed
<1>6. Freed(D, D2, B) /\ D2 \in DiskT
  BY DEF Freed
<1> HIDE DEF B
<1>7. Apart(D2, U, Maps(C2))
  BY <1>1, <1>3, <1>4, <1>6, FreedApart
<1>8. ~full => AllOwned(D2, U, Maps(C2))
  <2> SUFFICES ASSUME ~full PROVE AllOwned(D2, U, Maps(C2))
    OBVIOUS
  <2> QED BY <1>1, <1>3, <1>5, <1>6, FreedOwned
<1>9. \A j \in U \ {i} : Looks(D, C[j], D2, C[j])
  BY <1>6, FreedLooks
<1>10. FileOK(D2, p, W2[i])
  <2>1. \A l \in Nat : Phys(D2, p.map, l) = 0
    BY <1>6, PhysZeroMap
  <2>2. \A l \in 0..MaxLblk : l \in Nat
    BY Ext2Assumption
  <2>3. \A l \in 0..MaxLblk : W2[i][l] = ext2_read_data(D2, p, l)
    BY <2>1, <2>2 DEF NoContent, ext2_read_data
  <2> QED BY <2>1, <2>3 DEF FileOK
<1> QED BY <1>6, <1>7, <1>8, <1>9, <1>10, FineFile

-----------------------------------------------------------------------------
(* The steps keep the invariant                                             *)

\* The first block of a new directory.
LEMMA NewBlock ==
  ASSUME NEW D \in DiskT, NEW g, g = ext2_get_block(D, ZeroMap, 0)
  PROVE  (g.ok => g.m \in MapT) /\ (~g.ok => g.D = D)
<1> DEFINE a == ext2_alloc_zero_block(D)
<1>1. 0 < NDirect /\ 0 \in 0..Dind /\ ZeroMap[0] = 0
  BY Sizes, ZeroMapIs
<1>2. g = [ok |-> a.ok, D |-> a.D, m |-> [ZeroMap EXCEPT ![0] = a.b], b |-> a.b]
  <2>1. 0 - NDirect - Ptrs < 0 /\ ~(0 >= NDirect) /\ ~(0 - NDirect - Ptrs >= 0)
    BY Sizes
  <2>2. g = TopPtr(D, ZeroMap, 0)
    BY <2>1, <1>1 DEF ext2_get_block
  <2> QED BY <2>2, <1>1 DEF TopPtr, FillTop
<1>3. a.ok => Takes(D, a.D, a.b)
  BY AllocIs
<1>4. ~a.ok => a.D = D
  BY AllocIs
<1> HIDE DEF a
<1>5. a.ok => a.b \in 0..NBlocks
  BY <1>3, Sizes DEF Takes, EBlks
<1>6. a.ok => [ZeroMap EXCEPT ![0] = a.b] \in MapT
  BY <1>1, <1>5, ZeroMapIs DEF MapT
<1>7. g.ok = a.ok /\ g.D = a.D /\ g.m = [ZeroMap EXCEPT ![0] = a.b]
  BY ONLY <1>2
<1> QED BY <1>4, <1>6, <1>7

\* What the parts of the invariant say of the state.
LEMMA InvParts ==
  ASSUME Ext2Inv
  PROVE  /\ edisk \in DiskT /\ iused \in SUBSET EInos /\ efull \in BOOLEAN
         /\ itable \in [EInos -> InodeT] /\ priv \in [EInos -> InodeT]
         /\ content \in [EInos -> ContentT] /\ eops \in Nat
         /\ Cur \in [EInos -> InodeT] /\ Fine(edisk, iused, Cur, itable, content, efull)
         /\ \A i \in EInos : priv[i].kind # "none" => i \in iused /\ Cur[i] = priv[i]
         /\ \A i \in EInos : priv[i].kind = "none" => Cur[i] = itable[i]
         /\ \A i \in EInos \ iused : priv[i] = NoInode
<1>1. ETypeOK /\ Fine(edisk, iused, Cur, itable, content, efull) /\ \A i \in EInos \ iused : priv[i] = NoInode
  BY DEF Ext2Inv
<1>2. \A i \in EInos : Cur[i] = IF priv[i].kind # "none" THEN priv[i] ELSE itable[i]
  BY DEF Cur, Current
<1>3. Cur \in [EInos -> InodeT]
  BY <1>1, <1>2 DEF Cur, ETypeOK
<1>4. NoInode.kind = "none"
  BY FileNodeIs
<1> HIDE DEF Cur
<1>5. \A i \in EInos : priv[i].kind # "none" => i \in iused
  BY <1>1, <1>4
<1> QED BY <1>1, <1>2, <1>3, <1>5 DEF ETypeOK

\* The inode that counts after a step.
LEMMA CurNext == /\ Cur' = [i \in EInos |-> IF priv'[i].kind # "none" THEN priv'[i] ELSE itable'[i]]
                 /\ \A i \in EInos : Cur'[i] = IF priv'[i].kind # "none" THEN priv'[i] ELSE itable'[i]
  BY DEF Cur, Current

\* The invariant after a step, from its parts.
LEMMA InvNext ==
  ASSUME edisk' \in DiskT, iused' \in SUBSET EInos, efull' \in BOOLEAN,
         itable' \in [EInos -> InodeT], priv' \in [EInos -> InodeT],
         content' \in [EInos -> ContentT], eops' \in Nat,
         \A i \in EInos \ iused' : priv'[i] = NoInode,
         Fine(edisk', iused', Cur', itable', content', efull')
  PROVE  Ext2Inv'
  BY DEF Ext2Inv, ETypeOK

\* A directory in memory is in use, and its copy is the one that counts.
LEMMA DirKnown ==
  ASSUME Ext2Inv, NEW d \in EInos, priv[d].kind = "dir"
  PROVE  d \in iused /\ Cur[d] = priv[d] /\ Cur[d].kind = "dir" /\ Chained(edisk, Cur[d])
<1>1. d \in iused /\ Cur[d] = priv[d]
  BY InvParts
<1>2. Good(edisk, Cur[d], itable[d], content[d])
  BY <1>1, InvParts DEF Fine
<1> QED BY <1>1, <1>2 DEF Good

\* A name leads to an inode in use, neither the directory itself nor the root.
LEMMA FoundUsed ==
  ASSUME Ext2Inv, NEW d \in EInos, priv[d].kind = "dir", NEW n \in ENames, NEW i, i \in ext2_dir_find(edisk, priv[d], n)
  PROVE  i \in iused /\ i # d /\ i # RootIno
<1>1. d \in iused /\ Cur[d] = priv[d] /\ Cur[d].kind = "dir"
  BY DirKnown
<1>2. PICK t \in Listing(edisk, Cur[d]) : t[2] = n /\ t[3] = i
  BY <1>1, Find
<1> DEFINE N == Lists(edisk, Cur)
<1>3. t \in N[d] /\ t[2] \notin Dots
  BY <1>1, <1>2, ListsAre, Ext2Assumption DEF Dots
<1>4. TreeOK(iused, Cur, N)
  BY InvParts DEF Fine
<1> HIDE DEF N
<1>5. t[3] \in iused /\ t[3] \notin {d, RootIno}
  BY <1>1, <1>3, <1>4 DEF TreeOK
<1> QED BY <1>2, <1>5

\* ext2_lookup(): what was read from the disk is what counts.
LEMMA StepLookup ==
  ASSUME Ext2Inv, NEW d \in EInos, NEW i \in EInos, ext2_lookup(d, i)
  PROVE  Ext2Inv'
<1>1. /\ eops' = eops + 1 /\ priv[d].kind = "dir" /\ priv[i].kind = "none"
      /\ \E n \in ENames : i \in ext2_dir_find(edisk, priv[d], n)
      /\ priv' = [priv EXCEPT ![i] = itable[i]]
      /\ UNCHANGED <<edisk, iused, itable, efull, content>>
  BY DEF ext2_lookup, Begins, Starts, InMemory, ext2_inode_read
<1>2. i \in iused
  BY <1>1, FoundUsed
<1>3. Cur' = Cur
  <2>1. \A j \in EInos : Cur'[j] = Cur[j]
    BY <1>1, CurNext, InvParts
  <2> QED BY <2>1, CurNext DEF Cur
<1>4. eops' \in Nat /\ priv' \in [EInos -> InodeT] /\ \A j \in EInos \ iused' : priv'[j] = NoInode
  BY <1>1, <1>2, InvParts
<1>5. Fine(edisk', iused', Cur', itable', content', efull')
  BY <1>1, <1>3, InvParts
<1> QED BY <1>1, <1>4, <1>5, InvParts, InvNext

\* What ext2_dir_add() does to the directory d.
LEMMA AddedTo ==
  ASSUME Ext2Inv, NEW d \in EInos, NEW n \in ENames, NEW i \in EInos, NEW a, a \in DirAdded(d, n, i), priv[d].kind = "dir",
         NEW C1, C1 = [Cur EXCEPT ![d] = a.p]
  PROVE  /\ DirAddIs(iused, d, edisk, Cur, n, i, a, C1) /\ C1[d] = a.p /\ \A j \in EInos \ {d} : C1[j] = Cur[j]
         /\ d \in iused /\ Cur[d] = priv[d] /\ Cur[d].kind = "dir"
<1>1. d \in iused /\ Cur[d] = priv[d] /\ Cur[d].kind = "dir" /\ Chained(edisk, Cur[d])
  BY DirKnown
<1>2. a = ext2_dir_add(edisk, Cur[d], n, i)
  BY <1>1 DEF DirAdded
<1>3. Apart(edisk, iused, Maps(Cur))
  BY InvParts DEF Fine
<1>4. DirAddIs(iused, d, edisk, Cur, n, i, a, C1)
  BY <1>1, <1>2, <1>3, InvParts, DirAdd
<1>5. C1[d] = a.p /\ \A j \in EInos \ {d} : C1[j] = Cur[j]
  BY InvParts
<1> QED BY <1>1, <1>4, <1>5

\* A fresh inode is not in memory.
LEMMA FreshIs ==
  ASSUME Ext2Inv, NEW i \in EInos, FreshInode(i)
  PROVE  i \in EInos \ iused /\ priv[i] = NoInode
  BY InvParts DEF FreshInode

\* What both kinds of new inode have in common.
LEMMA StepMakes ==
  ASSUME Ext2Inv, NEW d \in EInos, NEW i \in EInos, d # i, NEW p \in InodeT, p.kind = "dir", NEW new \in InodeT, new.kind # "none",
         itable' = ext2_inode_write(ext2_inode_write(itable, i, new), d, p),
         priv' = [priv EXCEPT ![d] = p, ![i] = new], content' = [content EXCEPT ![i] = NoContent],
         iused' = iused \cup {i}, d \in iused, i \notin iused,
         NEW C1, \A j \in EInos \ {d} : C1[j] = Cur[j]
  PROVE  /\ itable' \in [EInos -> InodeT] /\ priv' \in [EInos -> InodeT] /\ content' \in [EInos -> ContentT]
         /\ \A j \in EInos \ iused' : priv'[j] = NoInode
         /\ Makes(iused, d, i, C1, itable, content, Cur', itable', content', new) /\ Cur'[d] = p
<1>1. itable' \in [EInos -> InodeT] /\ itable'[i] = new /\ itable'[d] = p /\ \A j \in EInos \ {d, i} : itable'[j] = itable[j]
  <2> DEFINE T == [itable EXCEPT ![i] = new]
  <2>1. T \in [EInos -> InodeT] /\ T[i] = new /\ \A j \in EInos \ {i} : T[j] = itable[j]
    BY InvParts
  <2>2. itable' = [T EXCEPT ![d] = p]
    BY DEF ext2_inode_write
  <2> HIDE DEF T
  <2> QED BY <2>1, <2>2
<1>2. priv' \in [EInos -> InodeT] /\ priv'[i] = new /\ priv'[d] = p /\ \A j \in EInos \ {d, i} : priv'[j] = priv[j]
  BY InvParts
<1>3. content' \in [EInos -> ContentT] /\ content'[i] = NoContent /\ \A j \in EInos \ {i} : content'[j] = content[j]
  <2>1. NoContent \in ContentT
    BY DEF NoContent, ContentT
  <2> QED BY <2>1, InvParts
<1>4. \A j \in EInos \ iused' : priv'[j] = NoInode
  BY <1>2, InvParts
<1>5. Cur' \in [EInos -> InodeT] /\ Cur'[i] = new /\ Cur'[d] = p
  BY <1>1, <1>2, CurNext
<1>6. \A j \in EInos \ {d, i} : Cur'[j] = Cur[j]
  <2> TAKE j \in EInos \ {d, i}
  <2>1. Cur'[j] = IF priv[j].kind # "none" THEN priv[j] ELSE itable[j]
    BY <1>1, <1>2, CurNext
  <2> QED BY <2>1, InvParts
<1>7. \A j \in iused \ {d} : j \in EInos \ {d, i}
  BY InvParts
<1>8. Makes(iused, d, i, C1, itable, content, Cur', itable', content', new)
  BY <1>1, <1>3, <1>5, <1>6, <1>7 DEF Makes
<1> QED BY <1>1, <1>2, <1>3, <1>4, <1>5, <1>8

\* ext2_create() keeps the invariant.
LEMMA StepCreate ==
  ASSUME Ext2Inv, NEW d \in EInos, NEW n \in ENames, NEW i \in EInos, ext2_create(d, n, i)
  PROVE  Ext2Inv'
<1>1. /\ eops' = eops + 1 /\ priv[d].kind = "dir" /\ ext2_dir_find(edisk, priv[d], n) = {} /\ FreshInode(i)
      /\ iused' = iused \cup {i} /\ content' = [content EXCEPT ![i] = NoContent] /\ efull' = efull
  BY DEF ext2_create, MayAdd, MayBegin, Starts, Begins, InMemory
<1>2. PICK a \in DirAdded(d, n, i) :
           /\ a.ok /\ edisk' = a.D
           /\ itable' = ext2_inode_write(ext2_inode_write(itable, i, FileNode), d, a.p)
           /\ priv' = [priv EXCEPT ![d] = a.p, ![i] = FileNode]
  BY DEF ext2_create, FileNode
<1> DEFINE C1 == [Cur EXCEPT ![d] = a.p]
<1>3. /\ DirAddIs(iused, d, edisk, Cur, n, i, a, C1) /\ C1[d] = a.p /\ \A j \in EInos \ {d} : C1[j] = Cur[j]
      /\ d \in iused /\ Cur[d] = priv[d] /\ Cur[d].kind = "dir"
  BY <1>1, <1>2, AddedTo
<1> HIDE DEF C1
<1>4. Added(iused, d, edisk, Cur, edisk', C1, n, i)
  BY <1>2, <1>3 DEF DirAddIs
<1>5. edisk' \in DiskT /\ a.p \in InodeT /\ a.p.kind = "dir"
  BY <1>3, <1>4 DEF Added, Longer
<1>6. i \in EInos \ iused /\ d # i
  BY <1>1, <1>3, FreshIs
<1>7. FileNode \in InodeT /\ FileNode.kind # "none"
  BY FileNodeIs
<1>8. /\ itable' \in [EInos -> InodeT] /\ priv' \in [EInos -> InodeT] /\ content' \in [EInos -> ContentT]
      /\ \A j \in EInos \ iused' : priv'[j] = NoInode
      /\ Makes(iused, d, i, C1, itable, content, Cur', itable', content', FileNode) /\ Cur'[d] = a.p
  <2> DEFINE p == a.p
             new == FileNode
  <2>1. p \in InodeT /\ p.kind = "dir" /\ new \in InodeT /\ new.kind # "none" /\ d \in iused /\ i \notin iused /\ d # i
    BY <1>3, <1>5, <1>6, <1>7
  <2>2. /\ itable' = ext2_inode_write(ext2_inode_write(itable, i, new), d, p)
        /\ priv' = [priv EXCEPT ![d] = p, ![i] = new] /\ content' = [content EXCEPT ![i] = NoContent]
        /\ iused' = iused \cup {i} /\ \A j \in EInos \ {d} : C1[j] = Cur[j]
    BY <1>1, <1>2, <1>3
  <2> HIDE DEF p, new
  <2>3. /\ itable' \in [EInos -> InodeT] /\ priv' \in [EInos -> InodeT] /\ content' \in [EInos -> ContentT]
        /\ \A j \in EInos \ iused' : priv'[j] = NoInode
        /\ Makes(iused, d, i, C1, itable, content, Cur', itable', content', new) /\ Cur'[d] = p
    BY <2>1, <2>2, StepMakes
  <2> QED BY <2>3 DEF p, new
<1>9. Fine(edisk', iused \cup {i}, Cur', itable', content', efull)
  BY <1>1, <1>3, <1>4, <1>6, <1>8, InvParts, FineCreate
<1>10. eops' \in Nat /\ iused' \in SUBSET EInos
  BY <1>1, InvParts
<1> QED BY <1>1, <1>5, <1>8, <1>9, <1>10, InvParts, InvNext

\* A create or mkdir for which the directory cannot grow keeps it.
LEMMA StepAddFails ==
  ASSUME Ext2Inv, NEW d \in EInos, NEW n \in ENames, NEW i \in EInos, AddFails(d, n, i)
  PROVE  Ext2Inv'
<1>1. /\ eops' = eops + 1 /\ priv[d].kind = "dir" /\ efull' = TRUE /\ UNCHANGED <<iused, itable, content>>
  BY DEF AddFails, MayAdd, MayBegin, Starts, Begins, InMemory
<1>2. PICK a \in DirAdded(d, n, i) : ~a.ok /\ edisk' = a.D /\ priv' = [priv EXCEPT ![d] = a.p]
  BY DEF AddFails
<1> DEFINE C1 == [Cur EXCEPT ![d] = a.p]
<1>3. /\ DirAddIs(iused, d, edisk, Cur, n, i, a, C1) /\ C1[d] = a.p /\ \A j \in EInos \ {d} : C1[j] = Cur[j]
      /\ d \in iused /\ Cur[d] = priv[d] /\ Cur[d].kind = "dir"
  BY <1>1, <1>2, AddedTo
<1> HIDE DEF C1
<1>4. AllLook(iused, edisk, Cur, edisk', C1)
  BY <1>2, <1>3 DEF DirAddIs
<1>5. edisk' \in DiskT /\ C1 \in [EInos -> InodeT] /\ a.p \in InodeT /\ a.p.kind = "dir"
  BY <1>3, <1>4 DEF AllLook, Looks
<1>6. priv' \in [EInos -> InodeT] /\ priv'[d] = a.p /\ \A j \in EInos \ {d} : priv'[j] = priv[j]
  BY <1>2, <1>5, InvParts
<1>7. Cur' = C1
  <2>1. \A j \in EInos \ {d} : Cur'[j] = Cur[j]
    <3> TAKE j \in EInos \ {d}
    <3>1. Cur'[j] = IF priv[j].kind # "none" THEN priv[j] ELSE itable[j]
      BY <1>1, <1>6, CurNext
    <3> QED BY <3>1, InvParts
  <2>2. Cur'[d] = a.p
    BY <1>5, <1>6, CurNext
  <2>3. \A j \in EInos : Cur'[j] = C1[j]
    BY <2>1, <2>2, <1>3
  <2>4. Cur' \in [EInos -> InodeT]
    BY <1>1, <1>6, InvParts, CurNext
  <2> HIDE DEF Cur
  <2> QED BY <2>3, <2>4, <1>5
<1>8. Fine(edisk', iused, Cur', itable, content, TRUE)
  BY <1>4, <1>7, InvParts, FineLook
<1>9. eops' \in Nat /\ \A j \in EInos \ iused' : priv'[j] = NoInode
  BY <1>1, <1>3, <1>6, InvParts
<1> QED BY <1>1, <1>5, <1>6, <1>8, <1>9, InvParts, InvNext

\* A link count changes alone.
LEMMA MoreLinks ==
  ASSUME NEW p \in InodeT, NEW k \in Int, NEW q, q = [p EXCEPT !.links = @ + k]
  PROVE  q \in InodeT /\ q.map = p.map /\ q.size = p.size /\ q.kind = p.kind /\ q.links = p.links + k
  BY DEF InodeT

\* Only the inodes in use count.
LEMMA FineSame ==
  ASSUME NEW D, NEW U \in SUBSET EInos, NEW C, NEW S, NEW W, NEW full, Fine(D, U, C, S, W, full),
         NEW C2, NEW S2, \A j \in U : C2[j] = C[j] /\ S2[j] = S[j]
  PROVE  Fine(D, U, C2, S2, W, full)
<1> DEFINE M == Maps(C)
           M2 == Maps(C2)
           N == Lists(D, C)
           N2 == Lists(D, C2)
<1>1. Apart(D, U, M) /\ TreeOK(U, C, N) /\ (~full => AllOwned(D, U, M))
  BY DEF Fine
<1>2. \A j \in U : Good(D, C2[j], S2[j], W[j])
  BY DEF Fine
<1>3. \A j \in U : M2[j] = M[j]
  BY DEF Maps
<1>4. \A j \in U : N2[j] = N[j]
  BY ListsAre
<1>5. RootIno \in U /\ C2[RootIno].kind = "dir" /\ (~full => \A j \in U : S2[j] = C2[j])
  BY DEF Fine
<1> HIDE DEF M, M2, N, N2
<1>6. Apart(D, U, M2)
  BY <1>1, <1>3 DEF Apart
<1>7. ~full => AllOwned(D, U, M2)
  BY <1>1, <1>3 DEF AllOwned
<1>8. \A j \in U : C[j].kind \in {"file", "dir"} /\ C2[j].kind = C[j].kind /\ C2[j].links = C[j].links
  BY <1>2 DEF Good
<1>9. TreeOK(U, C2, N2)
  BY <1>1, <1>4, <1>8, TreeSame
<1> QED BY <1>2, <1>5, <1>6, <1>7, <1>9 DEF Fine, M2, N2

\* ext2_mkdir() keeps the invariant.
LEMMA StepMkdir ==
  ASSUME Ext2Inv, NEW d \in EInos, NEW n \in ENames, NEW i \in EInos, ext2_mkdir(d, n, i)
  PROVE  Ext2Inv'
<1>1. /\ eops' = eops + 1 /\ priv[d].kind = "dir" /\ ext2_dir_find(edisk, priv[d], n) = {} /\ FreshInode(i)
      /\ iused' = iused \cup {i} /\ content' = [content EXCEPT ![i] = NoContent] /\ efull' = efull
  BY DEF ext2_mkdir, MayAdd, MayBegin, Starts, Begins, InMemory
<1>a. PICK a \in DirAdded(d, n, i) : \E g \in FirstBlock(a.D) :
           /\ a.ok /\ g.ok /\ edisk' = [g.D EXCEPT !.dir[g.b] = DotEntries(i, d)]
           /\ itable' = ext2_inode_write(ext2_inode_write(itable, i, [kind |-> "dir", size |-> 1, links |-> 2, map |-> g.m]),
                                         d, [a.p EXCEPT !.links = @ + 1])
           /\ priv' = [priv EXCEPT ![d] = [a.p EXCEPT !.links = @ + 1],
                                   ![i] = [kind |-> "dir", size |-> 1, links |-> 2, map |-> g.m]]
  BY DEF ext2_mkdir
<1>2. PICK g \in FirstBlock(a.D) :
           /\ a.ok /\ g.ok /\ edisk' = [g.D EXCEPT !.dir[g.b] = DotEntries(i, d)]
           /\ itable' = ext2_inode_write(ext2_inode_write(itable, i, [kind |-> "dir", size |-> 1, links |-> 2, map |-> g.m]),
                                         d, [a.p EXCEPT !.links = @ + 1])
           /\ priv' = [priv EXCEPT ![d] = [a.p EXCEPT !.links = @ + 1],
                                   ![i] = [kind |-> "dir", size |-> 1, links |-> 2, map |-> g.m]]
  BY <1>a
<1> DEFINE C1 == [Cur EXCEPT ![d] = a.p]
           p == [a.p EXCEPT !.links = @ + 1]
           new == [kind |-> "dir", size |-> 1, links |-> 2, map |-> g.m]
           D1 == a.D
<1>3. /\ DirAddIs(iused, d, edisk, Cur, n, i, a, C1) /\ C1[d] = a.p /\ \A j \in EInos \ {d} : C1[j] = Cur[j]
      /\ d \in iused /\ Cur[d] = priv[d] /\ Cur[d].kind = "dir"
  BY <1>1, AddedTo
<1> HIDE DEF C1
<1>4. Added(iused, d, edisk, Cur, D1, C1, n, i)
  BY <1>2, <1>3 DEF DirAddIs
<1>5. D1 \in DiskT /\ a.p \in InodeT /\ a.p.kind = "dir"
  BY <1>3, <1>4 DEF Added, Longer
<1>6. i \in EInos \ iused /\ d # i
  BY <1>1, <1>3, FreshIs
<1>7. g = ext2_get_block(D1, ZeroMap, 0)
  BY DEF FirstBlock
<1>8. g.m \in MapT
  BY <1>2, <1>5, <1>7, NewBlock
<1>9. new \in InodeT /\ new.kind # "none"
  BY <1>8 DEF InodeT
<1>10. p \in InodeT /\ p.map = a.p.map /\ p.size = a.p.size /\ p.kind = "dir" /\ p.links = a.p.links + 1
  <2> DEFINE q == a.p
  <2>1. q \in InodeT /\ p = [q EXCEPT !.links = @ + 1]
    BY <1>5
  <2> HIDE DEF q, p
  <2>2. p \in InodeT /\ p.map = q.map /\ p.size = q.size /\ p.kind = q.kind /\ p.links = q.links + 1
    BY <2>1, MoreLinks
  <2> QED BY <2>2, <1>5 DEF q
<1>11. /\ itable' = ext2_inode_write(ext2_inode_write(itable, i, new), d, p)
       /\ priv' = [priv EXCEPT ![d] = p, ![i] = new] /\ content' = [content EXCEPT ![i] = NoContent]
       /\ edisk' = [g.D EXCEPT !.dir[g.b] = DotEntries(i, d)]
  BY <1>1, <1>2
<1>12. FirstIn(D1, d, i, g, edisk', new)
  BY <1>2, <1>7, <1>11 DEF FirstIn
<1>b. iused' = iused \cup {i} /\ d \in iused /\ i \notin iused /\ \A j \in EInos \ {d} : C1[j] = Cur[j]
  BY <1>1, <1>3, <1>6
<1> HIDE DEF p, new, D1
<1>13. /\ itable' \in [EInos -> InodeT] /\ priv' \in [EInos -> InodeT] /\ content' \in [EInos -> ContentT]
       /\ \A j \in EInos \ iused' : priv'[j] = NoInode
       /\ Makes(iused, d, i, C1, itable, content, Cur', itable', content', new) /\ Cur'[d] = p
  <2>1. p \in InodeT /\ p.kind = "dir" /\ new \in InodeT /\ new.kind # "none" /\ d # i
    BY <1>6, <1>9, <1>10
  <2>2. /\ itable' = ext2_inode_write(ext2_inode_write(itable, i, new), d, p)
        /\ priv' = [priv EXCEPT ![d] = p, ![i] = new] /\ content' = [content EXCEPT ![i] = NoContent]
    BY <1>11
  <2> QED BY <2>1, <2>2, <1>b, StepMakes
<1>14. /\ Cur'[d].map = C1[d].map /\ Cur'[d].size = C1[d].size /\ Cur'[d].kind = C1[d].kind
       /\ Cur'[d].links = C1[d].links + 1
  BY <1>3, <1>5, <1>10, <1>13
<1>15. Fine(edisk', iused \cup {i}, Cur', itable', content', efull) /\ edisk' \in DiskT
  <2> DEFINE C2 == Cur'
             S2 == itable'
             W2 == content'
             D2 == edisk'
             C == Cur
  <2>1. Makes(iused, d, i, C1, itable, content, C2, S2, W2, new) /\ FirstIn(D1, d, i, g, D2, new)
    BY <1>12, <1>13
  <2>2. C2[d].map = C1[d].map /\ C2[d].size = C1[d].size /\ C2[d].kind = C1[d].kind /\ C2[d].links = C1[d].links + 1
    BY <1>14
  <2>3. /\ edisk \in DiskT /\ iused \in SUBSET EInos /\ C \in [EInos -> InodeT] /\ itable \in [EInos -> InodeT]
        /\ efull \in BOOLEAN /\ Fine(edisk, iused, C, itable, content, efull) /\ d \in iused /\ C[d].kind = "dir"
        /\ ext2_dir_find(edisk, C[d], n) = {} /\ Added(iused, d, edisk, C, D1, C1, n, i)
    BY <1>1, <1>3, <1>4, InvParts
  <2> HIDE DEF C2, S2, W2, D2, C
  <2>4. Fine(D2, iused \cup {i}, C2, S2, W2, efull) /\ D2 \in DiskT
    BY <2>1, <2>2, <2>3, <1>6, FineMkdir
  <2> QED BY <2>4 DEF C2, S2, W2, D2
<1>16. eops' \in Nat /\ iused' \in SUBSET EInos
  BY <1>1, InvParts
<1> QED BY <1>1, <1>13, <1>15, <1>16, InvParts, InvNext

\* The roll-back of a mkdir keeps it.
LEMMA StepMkdirNoBlock ==
  ASSUME Ext2Inv, NEW d \in EInos, NEW n \in ENames, NEW i \in EInos, MkdirNoBlock(d, n, i)
  PROVE  Ext2Inv'
<1> DEFINE half == [NoInode EXCEPT !.kind = "dir", !.size = 1, !.links = 2]
<1>1. /\ eops' = eops + 1 /\ priv[d].kind = "dir" /\ ext2_dir_find(edisk, priv[d], n) = {} /\ FreshInode(i)
      /\ itable' = [itable EXCEPT ![i] = half] /\ efull' = TRUE /\ UNCHANGED <<iused, content>>
  BY DEF MkdirNoBlock, MayAdd, MayBegin, Starts, Begins, InMemory
<1>a. PICK a \in DirAdded(d, n, i) : \E g \in FirstBlock(a.D) :
           a.ok /\ ~g.ok /\ edisk' = ext2_dir_remove(g.D, a.p, n) /\ priv' = [priv EXCEPT ![d] = a.p]
  BY DEF MkdirNoBlock, RolledBack
<1>2. PICK g \in FirstBlock(a.D) :
           a.ok /\ ~g.ok /\ edisk' = ext2_dir_remove(g.D, a.p, n) /\ priv' = [priv EXCEPT ![d] = a.p]
  BY <1>a
<1> DEFINE C1 == [Cur EXCEPT ![d] = a.p]
<1>3. /\ DirAddIs(iused, d, edisk, Cur, n, i, a, C1) /\ C1[d] = a.p /\ \A j \in EInos \ {d} : C1[j] = Cur[j]
      /\ d \in iused /\ Cur[d] = priv[d] /\ Cur[d].kind = "dir"
  BY <1>1, AddedTo
<1> HIDE DEF C1
<1>4. Added(iused, d, edisk, Cur, a.D, C1, n, i)
  BY <1>2, <1>3 DEF DirAddIs
<1>5. a.D \in DiskT /\ C1 \in [EInos -> InodeT] /\ a.p \in InodeT /\ a.p.kind = "dir"
  BY <1>3, <1>4 DEF Added, Longer
<1>6. i \in EInos \ iused /\ d # i
  BY <1>1, <1>3, FreshIs
<1>7. g.D = a.D
  <2>1. g = ext2_get_block(a.D, ZeroMap, 0)
    BY DEF FirstBlock
  <2> QED BY <2>1, <1>2, <1>5, NewBlock
<1>8. edisk' = ext2_dir_remove(a.D, C1[d], n)
  BY <1>2, <1>3, <1>7
<1>9. half \in InodeT
  <2> DEFINE z == ZeroMap
  <2>1. z \in MapT /\ NoInode = [kind |-> "none", size |-> 0, links |-> 0, map |-> z]
    BY ZeroMapIs DEF NoInode
  <2> HIDE DEF z
  <2> DEFINE h1 == [kind |-> "dir", size |-> 0, links |-> 0, map |-> z]
             h2 == [kind |-> "dir", size |-> 1, links |-> 0, map |-> z]
  <2>2. half = [kind |-> "dir", size |-> 1, links |-> 2, map |-> z]
    <3>1. [NoInode EXCEPT !.kind = "dir"] = h1
      BY <2>1
    <3>2. [h1 EXCEPT !.size = 1] = h2
      OBVIOUS
    <3>3. [h2 EXCEPT !.links = 2] = [kind |-> "dir", size |-> 1, links |-> 2, map |-> z]
      OBVIOUS
    <3>4. half = [[[NoInode EXCEPT !.kind = "dir"] EXCEPT !.size = 1] EXCEPT !.links = 2]
      OBVIOUS
    <3> HIDE DEF half, h1, h2
    <3> QED BY <3>1, <3>2, <3>3, <3>4
  <2> HIDE DEF half
  <2> QED BY <2>1, <2>2 DEF InodeT
<1> HIDE DEF half
<1>10. itable' \in [EInos -> InodeT] /\ \A j \in EInos \ {i} : itable'[j] = itable[j]
  BY <1>1, <1>9, InvParts
<1>11. priv' \in [EInos -> InodeT] /\ priv'[d] = a.p /\ \A j \in EInos \ {d} : priv'[j] = priv[j]
  BY <1>2, <1>5, InvParts
<1> DEFINE D1 == a.D
           D2 == edisk'
           C == Cur
<1>12. /\ edisk \in DiskT /\ iused \in SUBSET EInos /\ C \in [EInos -> InodeT] /\ itable \in [EInos -> InodeT]
       /\ Fine(edisk, iused, C, itable, content, efull) /\ d \in iused /\ C[d].kind = "dir"
       /\ ext2_dir_find(edisk, C[d], n) = {} /\ Added(iused, d, edisk, C, D1, C1, n, i)
       /\ D2 = ext2_dir_remove(D1, C1[d], n)
  BY <1>1, <1>3, <1>4, <1>8, InvParts
<1> HIDE DEF D1, D2, C
<1>13. Fine(D2, iused, C1, itable, content, TRUE) /\ D2 \in DiskT
  BY <1>12, FineRollback
<1>14. \A j \in iused : Cur'[j] = C1[j]
  <2> TAKE j \in iused
  <2>a. j \in EInos /\ j # i
    BY <1>6, <1>12
  <2>1. Cur'[j] = IF priv'[j].kind # "none" THEN priv'[j] ELSE itable[j]
    BY <2>a, <1>10, CurNext
  <2>2. CASE j = d
    BY <2>1, <2>2, <1>3, <1>5, <1>11
  <2>3. CASE j # d
    BY <2>a, <2>1, <2>3, <1>3, <1>11, InvParts
  <2> QED BY <2>2, <2>3
<1>15. Fine(D2, iused, Cur', itable', content, TRUE)
  <2> DEFINE C2 == Cur'
             S2 == itable'
  <2>1. \A j \in iused : C2[j] = C1[j] /\ S2[j] = itable[j]
    BY <1>6, <1>10, <1>12, <1>14
  <2> HIDE DEF C2, S2
  <2>2. Fine(D2, iused, C2, S2, content, TRUE)
    BY <2>1, <1>12, <1>13, FineSame
  <2> QED BY <2>2 DEF C2, S2
<1>16. eops' \in Nat /\ \A j \in EInos \ iused' : priv'[j] = NoInode
  BY <1>1, <1>3, <1>11, InvParts
<1> QED BY <1>1, <1>10, <1>11, <1>13, <1>15, <1>16, InvParts, InvNext DEF D2

\* unlink and rmdir: i leaves the directory d, of which p is written.
LEMMA StepLeaves ==
  ASSUME Ext2Inv, NEW d \in EInos, NEW n \in ENames, NEW i \in EInos, priv[d].kind = "dir",
         i \in ext2_dir_find(edisk, priv[d], n),
         itable[i].kind = "dir" => \A t \in Listing(edisk, itable[i]) : t[2] \in Dots,
         NEW p \in InodeT, p.map = priv[d].map, p.size = priv[d].size, p.kind = priv[d].kind,
         p.links = (IF itable[i].kind = "dir" THEN priv[d].links - 1 ELSE priv[d].links),
         NEW D1, D1 = ext2_dir_remove(edisk, priv[d], n), edisk' = ext2_free_all_blocks(D1, itable[i].map),
         iused' = iused \ {i}, itable' = ext2_inode_write([itable EXCEPT ![i].links = 0], d, p),
         priv' \in [EInos -> InodeT], priv'[i] = NoInode, priv'[d] = p, \A j \in EInos \ {i, d} : priv'[j] = priv[j],
         eops' = eops + 1, efull' = efull, content' = content
  PROVE  Ext2Inv'
<1>1. i \in iused /\ i # d /\ i # RootIno
  BY FoundUsed
<1>2. d \in iused /\ Cur[d] = priv[d] /\ Cur[d].kind = "dir"
  BY DirKnown
<1>3. Good(edisk, Cur[i], itable[i], content[i])
  BY <1>1, InvParts DEF Fine
<1>4. itable[i].kind = Cur[i].kind /\ Saved(edisk, Cur[i], itable[i])
  BY <1>3 DEF Good, Saved
<1>5. Cur[i].kind = "dir" => \A t \in Listing(edisk, Cur[i]) : t[2] \in Dots
  BY <1>1, <1>4, InvParts, SavedListing
<1>6. itable' \in [EInos -> InodeT] /\ itable'[d] = p /\ \A j \in EInos \ {i, d} : itable'[j] = itable[j]
  <2> DEFINE T == [itable EXCEPT ![i].links = 0]
             q == [itable[i] EXCEPT !.links = 0]
  <2>1. q \in InodeT
    BY InvParts DEF InodeT
  <2>2. T = [itable EXCEPT ![i] = q]
    OBVIOUS
  <2> HIDE DEF q
  <2>3. T \in [EInos -> InodeT] /\ \A j \in EInos \ {i} : T[j] = itable[j]
    BY <2>1, <2>2, InvParts
  <2>4. itable' = [T EXCEPT ![d] = p]
    BY DEF ext2_inode_write
  <2> HIDE DEF T
  <2> QED BY <2>3, <2>4
<1>7. Cur' \in [EInos -> InodeT] /\ Cur'[d] = p
  BY <1>2, <1>6, CurNext
<1>8. \A j \in EInos \ {i, d} : Cur'[j] = Cur[j]
  <2> TAKE j \in EInos \ {i, d}
  <2>1. Cur'[j] = IF priv[j].kind # "none" THEN priv[j] ELSE itable[j]
    BY <1>6, CurNext
  <2> QED BY <2>1, InvParts
<1> DEFINE C == Cur
           C2 == Cur'
           S2 == itable'
           D2 == edisk'
<1>9. Leaves(iused, d, i, C, itable, C2, S2)
  <2>1. \A j \in iused \ {i, d} : j \in EInos \ {i, d}
    BY InvParts
  <2>2. p.links = IF C[i].kind = "dir" THEN C[d].links - 1 ELSE C[d].links
    BY <1>2, <1>4
  <2>3. C2[d].map = C[d].map /\ C2[d].size = C[d].size /\ C2[d].kind = C[d].kind
    BY <1>2, <1>7
  <2> QED BY <2>1, <2>2, <2>3, <1>6, <1>7, <1>8 DEF Leaves
<1>10. /\ edisk \in DiskT /\ iused \in SUBSET EInos /\ C \in [EInos -> InodeT] /\ itable \in [EInos -> InodeT]
       /\ Fine(edisk, iused, C, itable, content, efull) /\ d \in iused /\ C[d].kind = "dir"
       /\ Leaving(edisk, iused, C, itable, d, i, n, D1, D2, C2, S2)
  BY <1>2, <1>5, <1>9, InvParts DEF Leaving, Empty, Drops
<1> HIDE DEF C, C2, S2, D2
<1>11. Fine(D2, iused \ {i}, C2, S2, content, efull) /\ D2 \in DiskT
  BY <1>10, FineLeaves
<1>12. Fine(edisk', iused', Cur', itable', content', efull') /\ edisk' \in DiskT
  BY <1>11 DEF C2, S2, D2
<1>13. eops' \in Nat /\ iused' \in SUBSET EInos
  BY InvParts
<1>14. \A j \in EInos \ iused' : priv'[j] = NoInode
  BY <1>2, InvParts
<1> QED BY <1>6, <1>12, <1>13, <1>14, InvParts, InvNext

\* ext2_unlink() keeps the invariant.
LEMMA StepUnlink ==
  ASSUME Ext2Inv, NEW d \in EInos, NEW n \in ENames, NEW i \in EInos, ext2_unlink(d, n, i)
  PROVE  Ext2Inv'
<1> DEFINE D1 == ext2_dir_remove(edisk, priv[d], n)
           p == priv[d]
<1>1. /\ eops' = eops + 1 /\ priv[d].kind = "dir" /\ i \in ext2_dir_find(edisk, priv[d], n) /\ itable[i].kind = "file"
      /\ edisk' = ext2_free_all_blocks(D1, itable[i].map) /\ iused' = iused \ {i}
      /\ itable' = ext2_inode_write([itable EXCEPT ![i].links = 0], d, p)
      /\ priv' = [priv EXCEPT ![i] = NoInode] /\ efull' = efull /\ content' = content
  BY DEF ext2_unlink, Begins, Starts, InMemory
<1>2. i # d
  BY <1>1, FoundUsed
<1>3. NoInode \in InodeT /\ p \in InodeT
  BY FileNodeIs, InvParts
<1>4. /\ priv' \in [EInos -> InodeT] /\ priv'[i] = NoInode /\ priv'[d] = p
      /\ \A j \in EInos \ {i, d} : priv'[j] = priv[j]
  BY <1>1, <1>2, <1>3, InvParts
<1>5. itable[i].kind # "dir"
  BY <1>1
<1>6. p.map = priv[d].map /\ p.size = priv[d].size /\ p.kind = priv[d].kind
      /\ p.links = IF itable[i].kind = "dir" THEN priv[d].links - 1 ELSE priv[d].links
  BY <1>5
<1>7. D1 = ext2_dir_remove(edisk, priv[d], n)
  OBVIOUS
<1> HIDE DEF D1, p
<1> QED BY <1>1, <1>3, <1>4, <1>5, <1>6, <1>7, StepLeaves

\* ext2_rmdir() keeps the invariant.
LEMMA StepRmdir ==
  ASSUME Ext2Inv, NEW d \in EInos, NEW n \in ENames, NEW i \in EInos, ext2_rmdir(d, n, i)
  PROVE  Ext2Inv'
<1> DEFINE D1 == ext2_dir_remove(edisk, priv[d], n)
           p == [priv[d] EXCEPT !.links = @ - 1]
<1>1. /\ eops' = eops + 1 /\ priv[d].kind = "dir" /\ i \in ext2_dir_find(edisk, priv[d], n) /\ itable[i].kind = "dir"
      /\ ext2_dir_empty(edisk, itable[i])
      /\ edisk' = ext2_free_all_blocks(D1, itable[i].map) /\ iused' = iused \ {i}
      /\ itable' = ext2_inode_write([itable EXCEPT ![i].links = 0], d, p)
      /\ priv' = [priv EXCEPT ![i] = NoInode, ![d] = p] /\ efull' = efull /\ content' = content
  BY DEF ext2_rmdir, Begins, Starts, InMemory
<1>2. i # d
  BY <1>1, FoundUsed
<1>3. NoInode \in InodeT /\ p \in InodeT /\ p.map = priv[d].map /\ p.size = priv[d].size /\ p.kind = priv[d].kind
      /\ p.links = priv[d].links - 1
  <2> DEFINE q == priv[d]
  <2>1. q \in InodeT /\ p = [q EXCEPT !.links = @ - 1]
    BY InvParts
  <2> HIDE DEF q
  <2> QED BY <2>1, FileNodeIs DEF InodeT, q
<1>4. D1 = ext2_dir_remove(edisk, priv[d], n)
  OBVIOUS
<1> HIDE DEF D1, p
<1>5. /\ priv' \in [EInos -> InodeT] /\ priv'[i] = NoInode /\ priv'[d] = p
      /\ \A j \in EInos \ {i, d} : priv'[j] = priv[j]
  BY <1>1, <1>2, <1>3, InvParts
<1>6. \A t \in Listing(edisk, itable[i]) : t[2] \in Dots
  BY <1>1 DEF ext2_dir_empty, Listing
<1> QED BY <1>1, <1>3, <1>4, <1>5, <1>6, StepLeaves

\* A file in memory is in use, and its copy is the one that counts.
LEMMA FileKnown ==
  ASSUME Ext2Inv, NEW i \in EInos, priv[i].kind = "file"
  PROVE  i \in iused /\ Cur[i] = priv[i] /\ Cur[i].kind = "file"
  BY InvParts

\* A file has changed, in memory and on the disk.
LEMMA StepFile ==
  ASSUME Ext2Inv, NEW i \in EInos, priv[i].kind = "file", NEW p \in InodeT, p.kind = "file", p.links = priv[i].links,
         priv' = [priv EXCEPT ![i] = p], itable' = ext2_inode_write(itable, i, p), \A j \in EInos \ {i} : content'[j] = content[j]
  PROVE  /\ itable' \in [EInos -> InodeT] /\ priv' \in [EInos -> InodeT]
         /\ \A j \in EInos \ iused : priv'[j] = NoInode
         /\ Rewrites(iused, i, Cur, itable, content, Cur', itable', content', p)
<1>1. i \in iused /\ Cur[i] = priv[i]
  BY FileKnown
<1>2. itable' \in [EInos -> InodeT] /\ itable'[i] = p /\ \A j \in EInos \ {i} : itable'[j] = itable[j]
  BY InvParts DEF ext2_inode_write
<1>3. priv' \in [EInos -> InodeT] /\ priv'[i] = p /\ \A j \in EInos \ {i} : priv'[j] = priv[j]
  BY InvParts
<1>4. \A j \in EInos \ iused : priv'[j] = NoInode
  BY <1>1, <1>3, InvParts
<1>5. Cur' \in [EInos -> InodeT] /\ Cur'[i] = p
  BY <1>2, <1>3, CurNext
<1>6. \A j \in EInos \ {i} : Cur'[j] = Cur[j]
  <2> TAKE j \in EInos \ {i}
  <2>1. Cur'[j] = IF priv[j].kind # "none" THEN priv[j] ELSE itable[j]
    BY <1>2, <1>3, CurNext
  <2> QED BY <2>1, InvParts
<1>7. \A j \in iused \ {i} : j \in EInos \ {i}
  BY InvParts
<1>8. Rewrites(iused, i, Cur, itable, content, Cur', itable', content', p)
  BY <1>1, <1>2, <1>5, <1>6, <1>7 DEF Rewrites
<1> QED BY <1>2, <1>3, <1>4, <1>8

\* A write to the block g that was found keeps the invariant.
LEMMA StepPuts ==
  ASSUME Ext2Inv, NEW i \in EInos, priv[i].kind = "file", NEW l \in 0..MaxLblk, NEW v \in Values, NEW g, g.ok,
         Mappable(l), Got(iused, i, PathTo(l), edisk, Maps(Cur), g, PlaceOf(l)), Puts(i, l, v, g), eops' \in Nat
  PROVE  Ext2Inv'
<1>1. /\ priv[i].kind = "file" /\ content' = [content EXCEPT ![i][l] = v]
      /\ iused' = iused /\ efull' = efull /\ itable' = ext2_inode_write(itable, i, priv'[i])
  BY DEF Puts
<1>2. /\ g.ok /\ edisk' = [g.D EXCEPT !.dat[g.b] = v]
      /\ priv' = [priv EXCEPT ![i].map = g.m, ![i].size = IF l >= @ THEN l + 1 ELSE @]
  BY DEF Puts
<1> DEFINE k == IF l >= priv[i].size THEN l + 1 ELSE priv[i].size
           c == priv[i]
           q == [c EXCEPT !.map = g.m]
           p == [q EXCEPT !.size = k]
<1>3. i \in iused /\ Cur[i] = priv[i] /\ Cur[i].kind = "file"
  BY <1>1, FileKnown
<1>4. priv[i] \in InodeT /\ priv[i].size \in Nat /\ MaxLblk \in Nat /\ l \in Nat
  BY InvParts, Ext2Assumption DEF InodeT
<1>5. Apart(edisk, iused, Maps(Cur))
  BY InvParts DEF Fine
<1>6. g.m \in MapT
  <2>1. Mapped(iused, i, edisk, Cur, l, g)
    BY <1>3, <1>4, <1>5, InvParts, GrowMine
  <2> QED BY <2>1, <1>2 DEF Mapped
<1>7. k \in Nat
  BY <1>4
<1>8. q \in InodeT /\ q.map = g.m /\ q.size = c.size /\ q.kind = c.kind /\ q.links = c.links
  BY <1>4, <1>6 DEF InodeT
<1>9. priv' = [priv EXCEPT ![i] = p]
  <2>1. priv' = [[priv EXCEPT ![i].map = g.m] EXCEPT ![i].size = IF l >= @ THEN l + 1 ELSE @]
    BY <1>2
  <2> DEFINE P == [priv EXCEPT ![i] = q]
  <2>2. [priv EXCEPT ![i].map = g.m] = P
    OBVIOUS
  <2>3. P[i] = q /\ P \in [EInos -> InodeT]
    BY <1>8, InvParts
  <2> HIDE DEF q
  <2>4. [P EXCEPT ![i].size = IF l >= @ THEN l + 1 ELSE @] = [P EXCEPT ![i] = p]
    BY <2>3, <1>8
  <2>5. [P EXCEPT ![i] = p] = [priv EXCEPT ![i] = p]
    BY InvParts
  <2> QED BY <2>1, <2>2, <2>4, <2>5
<1> HIDE DEF q, k
<1>10. p \in InodeT /\ p.map = g.m /\ p.size = k /\ p.kind = "file" /\ p.links = c.links
  BY <1>1, <1>7, <1>8 DEF InodeT
<1> HIDE DEF p
<1>11. priv'[i] = p
  BY <1>9, InvParts
<1>12. /\ content' \in [EInos -> ContentT] /\ content'[i] = [content[i] EXCEPT ![l] = v]
       /\ \A j \in EInos \ {i} : content'[j] = content[j]
  <2> DEFINE w == [content[i] EXCEPT ![l] = v]
  <2>1. w \in ContentT
    BY InvParts DEF ContentT
  <2>2. content' = [content EXCEPT ![i] = w]
    BY <1>1
  <2> HIDE DEF w
  <2>3. content' \in [EInos -> ContentT] /\ content'[i] = w /\ \A j \in EInos \ {i} : content'[j] = content[j]
    BY <2>1, <2>2, InvParts
  <2> QED BY <2>3 DEF w
<1>13. /\ itable' \in [EInos -> InodeT] /\ priv' \in [EInos -> InodeT] /\ \A j \in EInos \ iused : priv'[j] = NoInode
       /\ Rewrites(iused, i, Cur, itable, content, Cur', itable', content', p)
  <2>1. itable' = ext2_inode_write(itable, i, p)
    BY <1>1, <1>11
  <2> QED BY <2>1, <1>1, <1>9, <1>10, <1>12, StepFile
<1> DEFINE C == Cur
           C2 == Cur'
           S2 == itable'
           W2 == content'
           D2 == edisk'
<1>14. /\ edisk \in DiskT /\ iused \in SUBSET EInos /\ C \in [EInos -> InodeT] /\ itable \in [EInos -> InodeT]
       /\ content \in [EInos -> ContentT] /\ Fine(edisk, iused, C, itable, content, efull)
       /\ i \in iused /\ C[i].kind = "file"
       /\ Writing(C[i], l, v, g, D2, p, content[i], W2[i]) /\ Rewrites(iused, i, C, itable, content, C2, S2, W2, p)
       /\ Mappable(l) /\ Got(iused, i, PathTo(l), edisk, Maps(C), g, PlaceOf(l))
  BY <1>2, <1>3, <1>10, <1>12, <1>13, InvParts DEF Writing, k
<1> HIDE DEF C, C2, S2, W2, D2
<1>15. Fine(D2, iused, C2, S2, W2, efull) /\ D2 \in DiskT
  BY <1>10, <1>14, FineWrite
<1>16. Fine(edisk', iused', Cur', itable', content', efull') /\ edisk' \in DiskT
  BY <1>1, <1>15 DEF C2, S2, W2, D2
<1>17. \A j \in EInos \ iused' : priv'[j] = NoInode
  BY <1>1, <1>13
<1> QED BY <1>1, <1>12, <1>13, <1>16, <1>17, InvParts, InvNext

\* ext2_write_data() keeps the invariant.
LEMMA StepWrite ==
  ASSUME Ext2Inv, NEW i \in EInos, NEW l \in 0..MaxLblk, NEW v \in Values, ext2_write_data(i, l, v)
  PROVE  Ext2Inv'
<1>1. eops' \in Nat /\ priv[i].kind = "file"
  BY InvParts DEF ext2_write_data, Begins, Starts, InMemory
<1>2. PICK g \in {ext2_get_block(edisk, priv[i].map, l)} : g.ok /\ Puts(i, l, v, g)
  BY DEF ext2_write_data
<1>3. i \in iused /\ Cur[i] = priv[i] /\ l \in Nat /\ Apart(edisk, iused, Maps(Cur))
  BY <1>1, FileKnown, InvParts, Ext2Assumption DEF Fine
<1>4. g = ext2_get_block(edisk, Cur[i].map, l)
  BY <1>3
<1>5. Mappable(l) /\ Got(iused, i, PathTo(l), edisk, Maps(Cur), g, PlaceOf(l))
  BY <1>2, <1>3, <1>4, InvParts, FoundGot
<1> QED BY <1>1, <1>2, <1>5, StepPuts

\* The write that has found a bit, if there is one.
FoundOK == found = NoBit \/ (found \in [ino : EInos, l : 0..MaxLblk, b : EBlks] /\ found.l < NDirect)

\* WriteSets() keeps the invariant as long as the bit is clear and the block missing.
LEMMA StepSets ==
  ASSUME Ext2Inv, FoundOK, found # NoBit, NEW v \in Values, WriteSets(v), ~astray'
  PROVE  Ext2Inv'
<1>1. PICK i \in EInos : found.ino = i
  BY DEF FoundOK
<1>2. PICK l \in 0..MaxLblk : found.l = l /\ l < NDirect
  BY DEF FoundOK
<1>3. PICK b \in EBlks : found.b = b
  BY DEF FoundOK
<1> DEFINE a == Zeroed(TakeBlock(edisk, b))
           g == FillTop(priv[i].map, l, a)
<1>4. /\ priv[i].kind = "file" /\ Puts(i, l, v, g) /\ eops' = eops
      /\ b \notin edisk.used /\ priv[i].map[l] = 0
  BY <1>1, <1>2, <1>3 DEF WriteSets, InMemory, ext2_bitmap_test
<1>5. i \in iused /\ Cur[i] = priv[i] /\ l \in Nat /\ Apart(edisk, iused, Maps(Cur)) /\ eops \in Nat /\ edisk \in DiskT
  BY <1>4, FileKnown, InvParts, Ext2Assumption DEF Fine
<1>6. a.ok = TRUE /\ Takes(edisk, a.D, a.b) /\ a.D.ptr = [edisk.ptr EXCEPT ![a.b] = NoPtrs]
  <2>1. b \in EBlks \ edisk.used
    BY <1>4
  <2>2. a = Zeroed(TakeBlock(edisk, b))
    OBVIOUS
  <2> HIDE DEF a, g
  <2> QED BY <2>1, <2>2, <1>5, TakeIs
<1>7. Maps(Cur) \in [EInos -> MapT] /\ Maps(Cur)[i] = priv[i].map
  BY <1>5, InvParts, MapsType
<1>8. l \in 0..Dind /\ Mappable(l) /\ PlaceOf(l) = <<l, 0, 0>> /\ <<l, 0, 0>> \in PathTo(l)
  BY <1>2, <1>5, Sizes DEF Mappable, PlaceOf, PathTo
<1> HIDE DEF a
<1>9. Got(iused, i, PathTo(l), edisk, Maps(Cur), FillTop(Maps(Cur)[i], l, a), <<l, 0, 0>>)
  BY <1>4, <1>5, <1>6, <1>7, <1>8, InvParts, FillGot
<1>10. g = FillTop(Maps(Cur)[i], l, a) /\ g.ok
  BY <1>6, <1>7 DEF FillTop
<1> HIDE DEF g
<1>11. Got(iused, i, PathTo(l), edisk, Maps(Cur), g, PlaceOf(l))
  BY <1>8, <1>9, <1>10
<1>12. eops' \in Nat
  BY <1>4, <1>5
<1> QED BY <1>4, <1>8, <1>10, <1>11, <1>12, StepPuts

\* A write that finds the disk full keeps it.
LEMMA StepWriteFails ==
  ASSUME Ext2Inv, NEW i \in EInos, NEW l \in 0..MaxLblk, WriteFails(i, l)
  PROVE  Ext2Inv'
<1>1. eops' = eops + 1 /\ priv[i].kind = "file" /\ efull' = TRUE /\ UNCHANGED <<iused, itable, content>>
  BY DEF WriteFails, Begins, Starts, InMemory
<1>2. PICK g \in {ext2_get_block(edisk, priv[i].map, l)} :
           ~g.ok /\ edisk' = g.D /\ priv' = [priv EXCEPT ![i].map = g.m]
  BY DEF WriteFails
<1>3. i \in iused /\ Cur[i] = priv[i] /\ Cur[i].kind = "file"
  BY <1>1, FileKnown
<1>4. Apart(edisk, iused, Maps(Cur)) /\ l \in Nat
  BY InvParts, Ext2Assumption DEF Fine
<1> DEFINE C1 == [Cur EXCEPT ![i].map = g.m]
<1>5. AllLook(iused, edisk, Cur, edisk', C1)
  <2>1. g = ext2_get_block(edisk, Cur[i].map, l)
    BY <1>3
  <2>2. AllLook(iused, edisk, Cur, g.D, C1)
    BY <2>1, <1>2, <1>3, <1>4, InvParts, GrowFails
  <2> QED BY <2>2, <1>2
<1>6. C1[i] = [Cur[i] EXCEPT !.map = g.m] /\ \A j \in EInos \ {i} : C1[j] = Cur[j]
  BY InvParts
<1> HIDE DEF C1
<1>7. edisk' \in DiskT /\ C1 \in [EInos -> InodeT] /\ C1[i] \in InodeT /\ C1[i].kind = "file"
  BY <1>3, <1>5 DEF AllLook, Looks
<1>8. priv' \in [EInos -> InodeT] /\ priv'[i] = C1[i] /\ \A j \in EInos \ {i} : priv'[j] = priv[j]
  <2> DEFINE e == C1[i]
  <2>1. priv' = [priv EXCEPT ![i] = e]
    BY <1>2, <1>3, <1>6
  <2>2. e \in InodeT
    BY <1>7
  <2> HIDE DEF e
  <2>3. priv' \in [EInos -> InodeT] /\ priv'[i] = e /\ \A j \in EInos \ {i} : priv'[j] = priv[j]
    BY <2>1, <2>2, InvParts
  <2> QED BY <2>3 DEF e
<1>9. Cur' = C1
  <2>1. \A j \in EInos \ {i} : Cur'[j] = Cur[j]
    <3> TAKE j \in EInos \ {i}
    <3>1. Cur'[j] = IF priv[j].kind # "none" THEN priv[j] ELSE itable[j]
      BY <1>1, <1>8, CurNext
    <3> QED BY <3>1, InvParts
  <2>2. Cur'[i] = C1[i]
    BY <1>7, <1>8, CurNext
  <2>3. \A j \in EInos : Cur'[j] = C1[j]
    BY <2>1, <2>2, <1>6
  <2>4. Cur' \in [EInos -> InodeT]
    BY <1>1, <1>8, InvParts, CurNext
  <2> HIDE DEF Cur
  <2> QED BY <2>3, <2>4, <1>7
<1>10. Fine(edisk', iused, Cur', itable, content, TRUE)
  BY <1>5, <1>9, InvParts, FineLook
<1>11. eops' \in Nat /\ \A j \in EInos \ iused' : priv'[j] = NoInode
  BY <1>1, <1>3, <1>8, InvParts
<1> QED BY <1>1, <1>7, <1>8, <1>10, <1>11, InvParts, InvNext

\* ext2_truncate() keeps the invariant.
LEMMA StepTruncate ==
  ASSUME Ext2Inv, NEW i \in EInos, ext2_truncate(i)
  PROVE  Ext2Inv'
<1> DEFINE c == priv[i]
           q == [c EXCEPT !.size = 0]
           p == [q EXCEPT !.map = ZeroMap]
           D1 == FreeBlocks(edisk, BlocksBefore(edisk, c), Cardinality(Before(edisk, c)))
<1>1. /\ eops' = eops + 1 /\ priv[i].kind = "file"
      /\ edisk' = ext2_free_all_blocks(D1, ClearedMap(c))
      /\ priv' = [priv EXCEPT ![i] = [c EXCEPT !.size = 0, !.map = ZeroMap]]
      /\ itable' = ext2_inode_write(itable, i, priv'[i])
      /\ content' = [content EXCEPT ![i] = NoContent] /\ iused' = iused /\ efull' = efull
  BY DEF ext2_truncate, Begins, Starts, InMemory, BlocksBefore, Before, ClearedMap
<1>2. i \in iused /\ Cur[i] = c /\ Cur[i].kind = "file"
  BY <1>1, FileKnown
<1>3. edisk \in DiskT /\ c \in InodeT
  BY InvParts
<1>4. Freed(edisk, edisk', FreedOf(edisk, c.map))
  <2> DEFINE D2 == edisk'
             B == FreedOf(edisk, c.map)
  <2>1. D2 = ext2_free_all_blocks(D1, ClearedMap(c))
    BY <1>1
  <2>2. D1 = FreeBlocks(edisk, BlocksBefore(edisk, c), Cardinality(Before(edisk, c)))
    OBVIOUS
  <2> HIDE DEF D1, D2, c
  <2>3. Freed(edisk, D2, FreedOf(edisk, c.map))
    BY <2>1, <2>2, <1>3, TruncateFrees
  <2> QED BY <2>3 DEF D2
<1>5. priv' = [priv EXCEPT ![i] = p]
  BY <1>1
<1>6. q \in InodeT /\ q.size = 0 /\ q.kind = c.kind /\ q.links = c.links
  BY <1>3 DEF InodeT
<1> HIDE DEF q
<1>7. p \in InodeT /\ p.size = 0 /\ p.map = ZeroMap /\ p.kind = "file" /\ p.links = c.links
  BY <1>1, <1>6, ZeroMapIs DEF InodeT
<1> HIDE DEF p, D1
<1>8. priv'[i] = p
  BY <1>5, InvParts
<1>9. content' \in [EInos -> ContentT] /\ content'[i] = NoContent /\ \A j \in EInos \ {i} : content'[j] = content[j]
  <2>1. NoContent \in ContentT
    BY DEF NoContent, ContentT
  <2> QED BY <2>1, <1>1, InvParts
<1>10. /\ itable' \in [EInos -> InodeT] /\ priv' \in [EInos -> InodeT] /\ \A j \in EInos \ iused : priv'[j] = NoInode
       /\ Rewrites(iused, i, Cur, itable, content, Cur', itable', content', p)
  <2>1. itable' = ext2_inode_write(itable, i, p)
    BY <1>1, <1>8
  <2> QED BY <2>1, <1>1, <1>5, <1>7, <1>9, StepFile
<1> DEFINE C == Cur
           C2 == Cur'
           S2 == itable'
           W2 == content'
           D2 == edisk'
<1>11. /\ edisk \in DiskT /\ iused \in SUBSET EInos /\ C \in [EInos -> InodeT] /\ itable \in [EInos -> InodeT]
       /\ Fine(edisk, iused, C, itable, content, efull) /\ i \in iused /\ C[i].kind = "file"
       /\ Freed(edisk, D2, FreedOf(edisk, C[i].map)) /\ Rewrites(iused, i, C, itable, content, C2, S2, W2, p)
       /\ W2[i] = NoContent
  BY <1>2, <1>4, <1>9, <1>10, InvParts
<1> HIDE DEF C, C2, S2, W2, D2
<1>12. Fine(D2, iused, C2, S2, W2, efull)
  BY <1>7, <1>11, FineTruncate
<1>13. Fine(edisk', iused', Cur', itable', content', efull') /\ edisk' \in DiskT
  BY <1>1, <1>4, <1>12 DEF C2, S2, W2, D2, Freed
<1>14. eops' \in Nat /\ \A j \in EInos \ iused' : priv'[j] = NoInode
  BY <1>1, <1>10, InvParts
<1> QED BY <1>1, <1>9, <1>10, <1>13, <1>14, InvParts, InvNext

\* A new mount keeps the invariant.
LEMMA StepRemount ==
  ASSUME Ext2Inv, Remount
  PROVE  Ext2Inv'
<1>1. /\ eops' = eops + 1 /\ UNCHANGED <<edisk, iused, itable, efull, content>>
      /\ priv' = [j \in EInos |-> IF j = RootIno THEN itable[j] ELSE NoInode]
  BY DEF Remount, Begins, Starts, ext2_inode_read
<1>2. RootIno \in iused /\ NoInode \in InodeT /\ NoInode.kind = "none"
  BY InvParts, FileNodeIs DEF Fine
<1>3. priv' \in [EInos -> InodeT] /\ \A j \in EInos \ iused' : priv'[j] = NoInode
  BY <1>1, <1>2, InvParts
<1>4. \A j \in iused : Cur'[j] = itable[j]
  BY <1>1, <1>2, InvParts, CurNext
<1>5. Fine(edisk, iused, Cur', itable, content, efull)
  <2> DEFINE C2 == Cur'
             C == Cur
  <2>1. /\ edisk \in DiskT /\ iused \in SUBSET EInos /\ C \in [EInos -> InodeT] /\ itable \in [EInos -> InodeT]
        /\ efull \in BOOLEAN /\ Fine(edisk, iused, C, itable, content, efull) /\ \A j \in iused : C2[j] = itable[j]
    BY <1>4, InvParts
  <2> HIDE DEF C, C2
  <2>2. Fine(edisk, iused, C2, itable, content, efull)
    BY <2>1, FineRemount
  <2> QED BY <2>2 DEF C2
<1>6. eops' \in Nat
  BY <1>1, InvParts
<1> QED BY <1>1, <1>3, <1>5, <1>6, InvParts, InvNext

\* A fresh file system has the invariant.
LEMMA InvInit ==
  ASSUME EInit
  PROVE  Ext2Inv
<1> DEFINE D == edisk
           root == [kind |-> "dir", size |-> 1, links |-> 2, map |-> [ZeroMap EXCEPT ![0] = 1]]
           m == [ZeroMap EXCEPT ![0] = 1]
<1>1. RootIno \in EInos /\ 1 \in EBlks /\ 1 \in 0..NBlocks /\ 0 \in 0..Dind /\ RootIno = 1
  BY Sizes DEF RootIno, EInos, EBlks
<1>2. m \in MapT /\ m[0] = 1 /\ \A x \in 0..Dind : x # 0 => m[x] = 0
  BY <1>1, ZeroMapIs DEF MapT
<1> HIDE DEF m
<1>3. root = [kind |-> "dir", size |-> 1, links |-> 2, map |-> m] /\ root \in InodeT /\ NoInode \in InodeT
  BY <1>2, FileNodeIs DEF m, InodeT
<1>4. root.kind = "dir" /\ root.size = 1 /\ root.links = 2 /\ root.map = m
  BY <1>3
<1>5. /\ itable = [i \in EInos |-> IF i = RootIno THEN root ELSE NoInode]
      /\ priv = [i \in EInos |-> IF i = RootIno THEN itable[i] ELSE NoInode]
      /\ iused = {RootIno} /\ efull = FALSE /\ content = [i \in EInos |-> NoContent] /\ eops = 0
  BY DEF EInit
<1> HIDE DEF root
<1>6. edisk \in DiskT /\ edisk.used = {1} /\ edisk.dir[1] = DotEntries(1, 1) /\ edisk.ptr = [b \in EBlks |-> NoPtrs]
  <2> DEFINE U == {1}
             f == NBlocks - 1
             P == [b \in EBlks |-> NoPtrs]
             W == [b \in EBlks |-> 0]
             R == [b \in EBlks |-> IF b = 1 THEN DotEntries(1, 1) ELSE NoEntries]
  <2>1. U \in SUBSET EBlks /\ f \in Int /\ P \in [EBlks -> [1..Ptrs -> 0..NBlocks]] /\ W \in [EBlks -> Values \cup {0}]
    BY <1>1, Sizes DEF NoPtrs
  <2>2. DotEntries(1, 1) \in DirT /\ NoEntries \in DirT
    BY <1>1, DotEntriesAre, NoEntriesType
  <2>3. R \in [EBlks -> DirT] /\ R[1] = DotEntries(1, 1)
    BY <2>2, <1>1
  <2>4. edisk = [used |-> U, free |-> f, ptr |-> P, dat |-> W, dir |-> R]
    BY DEF EInit
  <2> HIDE DEF U, f, P, W, R
  <2>5. edisk \in DiskT /\ edisk.used = U /\ edisk.dir = R /\ edisk.ptr = P
    BY <2>1, <2>3, <2>4 DEF DiskT
  <2> QED BY <2>3, <2>5 DEF U, P
<1>7. \A i \in EInos : priv[i] = IF i = RootIno THEN root ELSE NoInode
  BY <1>1, <1>5
<1>8. Cur[RootIno] = root /\ itable[RootIno] = root
  BY <1>1, <1>4, <1>5, <1>7 DEF Cur, Current
<1>9. ETypeOK
  <2>1. NoContent \in ContentT
    BY DEF NoContent, ContentT
  <2>2. priv \in [EInos -> InodeT] /\ itable \in [EInos -> InodeT]
    BY <1>1, <1>3, <1>5
  <2>3. content \in [EInos -> ContentT]
    BY <2>1, <1>5
  <2> QED BY <2>2, <2>3, <1>1, <1>5, <1>6 DEF ETypeOK
<1>10. \A i \in EInos \ iused : priv[i] = NoInode
  BY <1>5, <1>7
<1>11. ASSUME NEW p \in MapPlaces PROVE BlockAt(D, m, p) = IF p = <<0, 0, 0>> THEN 1 ELSE 0
  <2>1. p = <<p[1], p[2], p[3]>> /\ p[1] \in 0..Dind /\ (p[2] = 0 => p[3] = 0) /\ (p[2] # 0 => p[1] \in {Ind, Dind})
    BY PlaceParts
  <2>2. CASE p[1] # 0
    BY <2>1, <2>2, <1>2, AtZero
  <2>3. CASE p[1] = 0
    <3>1. p[2] = 0 /\ p[3] = 0
      BY <2>1, <2>3, Sizes
    <3>2. p = <<0, 0, 0>>
      BY <3>1, <2>1, <2>3
    <3>3. BlockAt(D, m, p) = 1
      BY <3>2, <1>2 DEF BlockAt, ext2_ind_get
    <3> QED BY <3>2, <3>3
  <2> QED BY <2>2, <2>3
<1>12. <<0, 0, 0>> \in MapPlaces
  BY <1>1 DEF MapPlaces
<1> DEFINE M == Maps(Cur)
<1>13. M[RootIno] = m
  BY <1>1, <1>4, <1>8 DEF Maps
<1> HIDE DEF M
<1>14. Apart(D, iused, M) /\ AllOwned(D, iused, M)
  <2>1. Apart(D, {RootIno}, M)
    BY <1>6, <1>11, <1>13 DEF Apart
  <2>2. AllOwned(D, {RootIno}, M)
    BY <1>6, <1>11, <1>12, <1>13 DEF AllOwned
  <2> QED BY <2>1, <2>2, <1>5
<1>15. Phys(D, m, 0) = 1
  <2>1. PlaceOf(0) = <<0, 0, 0>> /\ Mappable(0) /\ 0 \in Nat
    BY Sizes DEF PlaceOf, Mappable
  <2> QED BY <2>1, <1>2, <1>6, <1>11, <1>12, PhysIs
<1>16. Chained(D, root) /\ Listing(D, root) = {<<<<0, 0>>, ".", 1>>, <<<<0, 3>>, "..", 1>>}
  BY <1>1, <1>3, <1>4, <1>6, <1>15, NewDirIs
<1>17. Good(D, root, root, content[RootIno])
  BY <1>3, <1>4, <1>16, SavedSelf DEF Good
<1> DEFINE N == Lists(D, Cur)
           a == <<<<0, 0>>, ".", 1>>
           b == <<<<0, 3>>, "..", 1>>
<1>18. N[RootIno] = {a, b} /\ Cur[RootIno].kind = "dir" /\ Cur[RootIno].links = 2
  BY <1>1, <1>4, <1>8, <1>16, ListsAre
<1>19. a[1] # b[1] /\ a[2] = "." /\ b[2] = ".." /\ a[3] = RootIno /\ b[3] = RootIno /\ "." \in Dots /\ ".." \in Dots /\ a[2] # b[2]
  BY <1>1 DEF Dots
<1> HIDE DEF N, a, b
<1>20. SubDirs({RootIno}, Cur, N, RootIno) = {} /\ \A i : Names(N, RootIno, i) = {}
  BY <1>18, <1>19 DEF SubDirs, Names
<1>21. TreeOK({RootIno}, Cur, N)
  <2>1. IsFiniteSet({}) /\ Cardinality({}) = 0
    BY FS_EmptySet
  <2>2. Cur[RootIno].links = 2 + Cardinality(SubDirs({RootIno}, Cur, N, RootIno))
    BY <2>1, <1>18, <1>20
  <2>3. \A t \in N[RootIno] : /\ t[3] = RootIno /\ t[2] \in Dots
                              /\ \A s \in N[RootIno] : s[1] = t[1] \/ s[2] = t[2] => s = t
    BY <1>18, <1>19
  <2>4. Cur[RootIno].kind # "file"
    BY <1>18
  <2> QED BY <2>1, <2>2, <2>3, <2>4, <1>18, <1>20 DEF TreeOK
<1>22. Fine(D, {RootIno}, Cur, itable, content, efull)
  BY <1>5, <1>8, <1>14, <1>17, <1>18, <1>21 DEF Fine, M, N
<1> QED BY <1>5, <1>9, <1>10, <1>22 DEF Ext2Inv

\* As long as nothing has gone astray, a step keeps Ext2Inv.
LEMMA StepKeeps ==
  ASSUME Ext2Inv, FoundOK, [Ext2Next]_eVars, ~astray'
  PROVE  Ext2Inv'
<1>1. CASE UNCHANGED eVars
  <2>1. /\ edisk' = edisk /\ iused' = iused /\ itable' = itable /\ priv' = priv /\ efull' = efull /\ content' = content
        /\ eops' = eops
    BY <1>1 DEF eVars
  <2>2. Cur' = Cur
    BY <2>1 DEF Cur, Current
  <2> QED BY <2>1, <2>2, InvParts, InvNext
<1>2. ASSUME NEW d \in EInos, NEW i \in EInos, ext2_lookup(d, i) PROVE Ext2Inv'
  BY <1>2, StepLookup
<1>3. ASSUME NEW d \in EInos, NEW n \in ENames, NEW i \in EInos, ext2_create(d, n, i) PROVE Ext2Inv'
  BY <1>3, StepCreate
<1>4. ASSUME NEW d \in EInos, NEW n \in ENames, NEW i \in EInos, AddFails(d, n, i) PROVE Ext2Inv'
  BY <1>4, StepAddFails
<1>5. ASSUME NEW d \in EInos, NEW n \in ENames, NEW i \in EInos, ext2_mkdir(d, n, i) PROVE Ext2Inv'
  BY <1>5, StepMkdir
<1>6. ASSUME NEW d \in EInos, NEW n \in ENames, NEW i \in EInos, MkdirNoBlock(d, n, i) PROVE Ext2Inv'
  BY <1>6, StepMkdirNoBlock
<1>7. ASSUME NEW d \in EInos, NEW n \in ENames, NEW i \in EInos, ext2_unlink(d, n, i) PROVE Ext2Inv'
  BY <1>7, StepUnlink
<1>8. ASSUME NEW d \in EInos, NEW n \in ENames, NEW i \in EInos, ext2_rmdir(d, n, i) PROVE Ext2Inv'
  BY <1>8, StepRmdir
<1>9. ASSUME NEW i \in EInos, NEW l \in 0..MaxLblk, WriteFails(i, l) PROVE Ext2Inv'
  BY <1>9, StepWriteFails
<1>10. ASSUME NEW i \in EInos, NEW l \in 0..MaxLblk, NEW v \in Values, ext2_write_data(i, l, v) PROVE Ext2Inv'
  BY <1>10, StepWrite
<1>11. ASSUME NEW i \in EInos, ext2_truncate(i) PROVE Ext2Inv'
  BY <1>11, StepTruncate
<1>12. CASE Remount
  BY <1>12, StepRemount
<1>13. CASE EOpsDone
  BY <1>13, <1>1 DEF EOpsDone
<1>14. ASSUME NEW i \in EInos, NEW l \in 0..MaxLblk, WriteTests(i, l) PROVE Ext2Inv'
  <2>1. eops' = eops + 1 /\ UNCHANGED <<edisk, iused, itable, priv, efull, content>>
    BY <1>14 DEF WriteTests, Starts
  <2>2. Cur' = Cur
    BY <2>1 DEF Cur, Current
  <2> QED BY <2>1, <2>2, InvParts, InvNext
<1>15. ASSUME NEW v \in Values, found # NoBit, WriteSets(v) PROVE Ext2Inv'
  BY <1>15, StepSets
<1>16. ASSUME NEW d \in EInos, NEW n \in ENames, NEW i \in EInos, CreateNoInode(d, n, i) \/ MkdirNoInode(d, n, i)
       PROVE  FALSE
  BY <1>16 DEF CreateNoInode, MkdirNoInode
<1> QED BY <1>1, <1>2, <1>3, <1>4, <1>5, <1>6, <1>7, <1>8, <1>9, <1>10, <1>11, <1>12, <1>13,
          <1>14, <1>15, <1>16 DEF Ext2Next

\* No step forgets that something has gone astray, and a write on its way is one the code can make.
LEMMA FoundKept ==
  ASSUME FoundOK, astray \in BOOLEAN, [Ext2Next]_eVars
  PROVE  FoundOK' /\ astray' \in BOOLEAN /\ (astray => astray')
<1>1. CASE UNCHANGED <<found, astray>>
  BY <1>1 DEF FoundOK
<1>2. ASSUME NEW i \in EInos, NEW l \in 0..MaxLblk, WriteTests(i, l) PROVE FoundOK' /\ astray' = astray
  <2>1. found' = [ino |-> i, l |-> l, b |-> First(ClearBits(edisk))] /\ ClearBits(edisk) # {} /\ l < NDirect /\ astray' = astray
    BY <1>2 DEF WriteTests
  <2>2. ClearBits(edisk) \subseteq EBlks /\ EBlks \subseteq Nat
    BY DEF ClearBits, EBlks
  <2>3. First(ClearBits(edisk)) \in EBlks
    BY <2>1, <2>2, FirstIs
  <2> QED BY <2>1, <2>3 DEF FoundOK
<1>3. ASSUME NEW v, WriteSets(v) PROVE FoundOK' /\ astray' \in BOOLEAN /\ (astray => astray')
  <2>1. found' = NoBit /\ astray' = (astray \/ ext2_bitmap_test(edisk, found.b) \/ priv[found.ino].map[found.l] # 0)
    BY <1>3 DEF WriteSets
  <2> QED BY <2>1 DEF FoundOK, ext2_bitmap_test
<1>4. ASSUME NEW d, NEW n, NEW i, CreateNoInode(d, n, i) \/ MkdirNoInode(d, n, i)
      PROVE  found' = found /\ astray' = TRUE
  BY <1>4 DEF CreateNoInode, MkdirNoInode
<1>5. ASSUME NEW d, NEW n, NEW i, found' = found, astray' = TRUE
      PROVE  FoundOK' /\ astray' \in BOOLEAN /\ (astray => astray')
  BY <1>5 DEF FoundOK
<1>6. \A d, i : ext2_lookup(d, i) => UNCHANGED <<found, astray>>
  BY DEF ext2_lookup, Begins
<1>7. \A d, n, i : ext2_create(d, n, i) \/ AddFails(d, n, i) \/ ext2_mkdir(d, n, i) \/ MkdirNoBlock(d, n, i)
                   => UNCHANGED <<found, astray>>
  BY DEF ext2_create, AddFails, ext2_mkdir, MkdirNoBlock, MayAdd
<1>8. \A d, n, i : ext2_unlink(d, n, i) \/ ext2_rmdir(d, n, i) => UNCHANGED <<found, astray>>
  BY DEF ext2_unlink, ext2_rmdir, Begins
<1>9. \A i, l, v : WriteFails(i, l) \/ ext2_write_data(i, l, v) => UNCHANGED <<found, astray>>
  BY DEF WriteFails, ext2_write_data, Begins
<1>10. \A i : ext2_truncate(i) \/ Remount \/ EOpsDone \/ UNCHANGED eVars => UNCHANGED <<found, astray>>
  BY DEF ext2_truncate, Remount, EOpsDone, Begins, eVars
<1> QED BY <1>1, <1>2, <1>3, <1>4, <1>5, <1>6, <1>7, <1>8, <1>9, <1>10 DEF Ext2Next

\* The inductive invariant of the file system, with the write on its way and the history.
AstrayInv == astray \in BOOLEAN /\ FoundOK /\ (~astray => Ext2Inv)

\* Ext2Inv holds until two writes have taken one block or an entry was left behind.
THEOREM Ext2Safe == Ext2Spec => []AstrayInv
<1>1. EInit => AstrayInv
  <2>1. EInit => astray = FALSE /\ found = NoBit
    BY DEF EInit
  <2> QED BY <2>1, InvInit DEF AstrayInv, FoundOK
<1>2. AstrayInv /\ [Ext2Next]_eVars => AstrayInv'
  <2> SUFFICES ASSUME AstrayInv, [Ext2Next]_eVars PROVE AstrayInv'
    OBVIOUS
  <2>1. astray \in BOOLEAN /\ FoundOK /\ (~astray => Ext2Inv)
    BY DEF AstrayInv
  <2>2. FoundOK' /\ astray' \in BOOLEAN /\ (astray => astray')
    BY <2>1, FoundKept
  <2>3. ASSUME ~astray' PROVE Ext2Inv'
    <3>1. ~astray
      BY <2>2, <2>3
    <3>2. Ext2Inv /\ FoundOK
      BY <2>1, <3>1
    <3> QED BY <2>3, <3>2, StepKeeps
  <2> QED BY <2>2, <2>3 DEF AstrayInv
<1> QED BY <1>1, <1>2, PTL DEF Ext2Spec

-----------------------------------------------------------------------------
(* The properties                                                           *)

\* The functions of the invariant and the operators of the properties.
LEMMA CurrentIs == \A i \in EInos : Cur[i] = Current(i) /\ Maps(Cur)[i] = Current(i).map /\ Lists(edisk, Cur)[i] = Listing(edisk, Current(i))
<1>1. \A i \in EInos : Cur[i] = Current(i)
  BY DEF Cur
<1> QED BY <1>1, ListsAre DEF Maps

\* The blocks of the invariant are the ones the property speaks of.
LEMMA InvBlocks ==
  ASSUME Ext2Inv
  PROVE  NoCrossLink /\ NoLeak
<1> DEFINE M == Maps(Cur)
<1>1. Apart(edisk, iused, M) /\ (~efull => AllOwned(edisk, iused, M)) /\ iused \in SUBSET EInos /\ edisk \in DiskT
  BY InvParts DEF Fine
<1>2. \A i \in iused : M[i] = Current(i).map
  BY <1>1, CurrentIs
<1> HIDE DEF M
<1>3. ASSUME NEW x \in Pointing
      PROVE  /\ x[1] \in iused /\ x[2] \in MapPlaces /\ x = <<x[1], x[2]>>
             /\ PointsTo(x) = BlockAt(edisk, M[x[1]], x[2]) /\ PointsTo(x) # 0
  <2>1. x \in iused \X MapPlaces /\ PointsTo(x) # 0
    BY DEF Pointing, PointsTo
  <2>2. x[1] \in iused /\ x[2] \in MapPlaces /\ x = <<x[1], x[2]>>
    BY <2>1
  <2> QED BY <2>1, <2>2, <1>2 DEF PointsTo
<1>4. ASSUME NEW x \in Pointing, NEW y \in Pointing, PointsTo(x) = PointsTo(y) PROVE x = y
  <2> DEFINE i == x[1]
             p == x[2]
             j == y[1]
             q == y[2]
  <2>1. i \in iused /\ p \in MapPlaces /\ x = <<i, p>> /\ PointsTo(x) = BlockAt(edisk, M[i], p) /\ PointsTo(x) # 0
    BY <1>3
  <2>2. j \in iused /\ q \in MapPlaces /\ y = <<j, q>> /\ PointsTo(y) = BlockAt(edisk, M[j], q)
    BY <1>3
  <2> HIDE DEF i, p, j, q
  <2>3. i = j /\ p = q
    <3>1. BlockAt(edisk, M[i], p) # 0 /\ BlockAt(edisk, M[j], q) = BlockAt(edisk, M[i], p)
      BY <2>1, <2>2, <1>4
    <3>2. \A h \in iused, r \in MapPlaces : BlockAt(edisk, M[h], r) = BlockAt(edisk, M[i], p) => i = h /\ p = r
      BY <3>1, <2>1, <1>1 DEF Apart
    <3> QED BY <3>1, <3>2, <2>2
  <2> QED BY <2>1, <2>2, <2>3
<1>5. ASSUME NEW x \in Pointing PROVE PointsTo(x) \in edisk.used
  <2> DEFINE i == x[1]
             p == x[2]
  <2>1. i \in iused /\ p \in MapPlaces /\ PointsTo(x) = BlockAt(edisk, M[i], p) /\ PointsTo(x) # 0
    BY <1>3
  <2> HIDE DEF i, p
  <2> QED BY <2>1, <1>1 DEF Apart
<1>6. ASSUME ~efull, NEW b \in edisk.used PROVE \E x \in Pointing : PointsTo(x) = b
  <2>1. b # 0
    BY <1>1 DEF DiskT, EBlks
  <2>2. PICK i \in iused, p \in MapPlaces : BlockAt(edisk, M[i], p) = b
    BY <1>1, <1>6 DEF AllOwned
  <2>3. BlockAt(edisk, Current(i).map, p) = b
    BY <2>2, <1>2
  <2> DEFINE x == <<i, p>>
  <2>4. x \in iused \X MapPlaces /\ x[1] = i /\ x[2] = p
    OBVIOUS
  <2> HIDE DEF x
  <2>5. x \in Pointing /\ PointsTo(x) = b
    BY <2>1, <2>3, <2>4 DEF Pointing, PointsTo
  <2> QED BY <2>5
<1> QED BY <1>4, <1>5, <1>6 DEF NoCrossLink, NoLeak

\* A file in use reads as it was written.
LEMMA InvData ==
  ASSUME Ext2Inv
  PROVE  FilesIntact
<1> SUFFICES ASSUME NEW i \in iused, Current(i).kind = "file", NEW l \in 0..MaxLblk
             PROVE  content[i][l] = ext2_read_data(edisk, Current(i), l)
  BY DEF FilesIntact
<1>1. Good(edisk, Cur[i], itable[i], content[i]) /\ Cur[i] = Current(i)
  BY InvParts, CurrentIs DEF Fine
<1> QED BY <1>1 DEF Good, FileOK

\* The listings of the invariant are the entries the property speaks of.
LEMMA InvDirs ==
  ASSUME Ext2Inv
  PROVE  DirChains /\ TreeSound
<1> DEFINE N == Lists(edisk, Cur)
           C == Cur
<1>1. /\ TreeOK(iused, C, N) /\ iused \in SUBSET EInos
      /\ \A i \in iused : C[i].kind \in {"file", "dir"} /\ (C[i].kind = "dir" => Chained(edisk, C[i]))
  BY InvParts DEF Fine, Good
<1>2. \A i \in iused : C[i] = Current(i) /\ N[i] = Listing(edisk, Current(i))
  BY <1>1, CurrentIs
<1> HIDE DEF N, C
<1>3. \A d : d \in Directories <=> d \in iused /\ C[d].kind = "dir"
  BY <1>2 DEF Directories
<1> DEFINE At(d, x) == <<x, EntryAt(edisk, Current(d), x).name, Ino(d, x)>>
<1>4. ASSUME NEW d \in iused, NEW x \in Entries(edisk, Current(d))
      PROVE  At(d, x) \in N[d] /\ At(d, x)[1] = x /\ At(d, x)[2] = EntryAt(edisk, Current(d), x).name /\ At(d, x)[3] = Ino(d, x)
  BY <1>2 DEF Listing, Ino
<1>5. ASSUME NEW d \in iused, NEW t \in N[d] PROVE t[1] \in Entries(edisk, Current(d)) /\ t = At(d, t[1])
  <2>1. PICK x \in Entries(edisk, Current(d)) : t = At(d, x)
    BY <1>2 DEF Listing, Ino
  <2> QED BY <2>1
<1>6. \A d \in iused : \A x : x \in Named(d) <=> x \in Entries(edisk, Current(d)) /\ At(d, x)[2] \notin Dots
  BY DEF Named
<1> HIDE DEF At
<1>7. ASSUME NEW d \in Directories
      PROVE  /\ \A l \in 0..Current(d).size - 1 : Phys(edisk, Current(d).map, l) # 0 /\ Tiled(DirAt(edisk, Current(d), l))
             /\ \A x, y \in Entries(edisk, Current(d)) :
                  EntryAt(edisk, Current(d), x).name = EntryAt(edisk, Current(d), y).name => x = y
  <2>1. d \in iused /\ C[d].kind = "dir"
    BY <1>3
  <2>2. Chained(edisk, Current(d))
    BY <2>1, <1>1, <1>2
  <2>3. \A s, t \in N[d] : s[2] = t[2] => s = t
    BY <2>1, <1>1 DEF TreeOK
  <2>4. ASSUME NEW x \in Entries(edisk, Current(d)), NEW y \in Entries(edisk, Current(d)),
               EntryAt(edisk, Current(d), x).name = EntryAt(edisk, Current(d), y).name
        PROVE  x = y
    <3>1. At(d, x) \in N[d] /\ At(d, y) \in N[d] /\ At(d, x)[2] = At(d, y)[2] /\ At(d, x)[1] = x /\ At(d, y)[1] = y
      BY <2>1, <2>4, <1>4
    <3> QED BY <3>1, <2>3
  <2> QED BY <2>2, <2>4 DEF Chained
<1>8. ASSUME NEW d \in Directories, NEW x \in Entries(edisk, Current(d)) PROVE Ino(d, x) \in iused
  <2>1. d \in iused /\ C[d].kind = "dir"
    BY <1>3
  <2>2. At(d, x) \in N[d] /\ At(d, x)[3] = Ino(d, x)
    BY <2>1, <1>4
  <2> QED BY <2>1, <2>2, <1>1 DEF TreeOK
<1>9. ASSUME NEW i \in iused \ {RootIno}
      PROVE  \E d \in Directories : \E x \in Named(d) :
               /\ Ino(d, x) = i
               /\ \A e \in Directories : \A y \in Named(e) : Ino(e, y) = i => e = d /\ y = x
  <2>1. PICK d \in iused : C[d].kind = "dir" /\ Names(N, d, i) # {}
    BY <1>1 DEF TreeOK
  <2>2. PICK t \in N[d] : t[2] \notin Dots /\ t[3] = i
    BY <2>1 DEF Names
  <2> DEFINE x == t[1]
  <2>3. x \in Entries(edisk, Current(d)) /\ t = At(d, x)
    BY <1>5
  <2>4. d \in Directories /\ x \in Named(d) /\ Ino(d, x) = i
    BY <2>1, <2>2, <2>3, <1>3, <1>4, <1>6
  <2>5. ASSUME NEW e \in Directories, NEW y \in Named(e), Ino(e, y) = i PROVE e = d /\ y = x
    <3>1. e \in iused /\ C[e].kind = "dir"
      BY <1>3
    <3>2. y \in Entries(edisk, Current(e)) /\ At(e, y)[2] \notin Dots
      BY <3>1, <1>6
    <3>3. At(e, y) \in N[e] /\ At(e, y)[1] = y /\ At(e, y)[3] = i
      BY <3>1, <3>2, <2>5, <1>4
    <3>4. At(e, y) \in Names(N, e, i) /\ t \in Names(N, d, i)
      BY <3>2, <3>3, <2>2 DEF Names
    <3>5. d = e /\ t = At(e, y)
      BY <3>1, <3>4, <2>1, <1>1 DEF TreeOK
    <3> QED BY <3>3, <3>5
  <2> HIDE DEF x
  <2> QED BY <2>4, <2>5
<1>10. ASSUME NEW i \in iused
       PROVE  Current(i).links = IF Current(i).kind = "file" THEN 1
                                 ELSE 2 + Cardinality({x \in Named(i) : Ino(i, x) \in Directories})
  <2> DEFINE X == {x \in Named(i) : Ino(i, x) \in Directories}
             Y == SubDirs(iused, C, N, i)
  <2>1. ASSUME NEW x \in X PROVE x \in Y
    <3>1. x \in Entries(edisk, Current(i)) /\ At(i, x)[2] \notin Dots /\ Ino(i, x) \in iused /\ C[Ino(i, x)].kind = "dir"
      BY <1>3, <1>6
    <3>2. At(i, x) \in N[i] /\ At(i, x)[1] = x /\ At(i, x)[3] = Ino(i, x)
      BY <3>1, <1>4
    <3> QED BY <3>1, <3>2 DEF SubDirs
  <2>2. ASSUME NEW x \in Y PROVE x \in X
    <3>1. PICK t \in N[i] : t[2] \notin Dots /\ t[3] \in iused /\ C[t[3]].kind = "dir" /\ x = t[1]
      BY DEF SubDirs
    <3>2. x \in Entries(edisk, Current(i)) /\ t = At(i, x)
      BY <3>1, <1>5
    <3>3. x \in Named(i) /\ Ino(i, x) = t[3]
      BY <3>1, <3>2, <1>4, <1>6
    <3> QED BY <3>1, <3>3, <1>3
  <2>3. X = Y
    BY <2>1, <2>2
  <2>4. C[i].links = IF C[i].kind = "file" THEN 1 ELSE 2 + Cardinality(Y)
    BY <1>1 DEF TreeOK
  <2> HIDE DEF X, Y
  <2>5. Current(i).links = IF Current(i).kind = "file" THEN 1 ELSE 2 + Cardinality(X)
    BY <2>3, <2>4, <1>2
  <2> QED BY <2>5 DEF X
<1>11. DirChains
  BY <1>7 DEF DirChains
<1>12. TreeSound
  BY <1>8, <1>9, <1>10 DEF TreeSound
<1> QED BY <1>11, <1>12

\* BlocksOwned: no block of the disk is in two places, and none is lost, as long
\* as no write has set a bit that another has set and no entry was left behind.
THEOREM BlocksOwnedHolds == Ext2Spec => []BlocksOwned
<1>1. AstrayInv => BlocksOwned
  BY InvBlocks DEF AstrayInv, BlocksOwned
<1> QED BY <1>1, Ext2Safe, PTL

\* DataIntact: a file reads as it was written, until something has gone astray.
THEOREM DataIntactHolds == Ext2Spec => []DataIntact
<1>1. AstrayInv => DataIntact
  BY InvData DEF AstrayInv, DataIntact
<1> QED BY <1>1, Ext2Safe, PTL

\* DirsSound: directories, inodes and link counts fit together, until something has gone astray.
THEOREM DirsSoundHolds == Ext2Spec => []DirsSound
<1>1. AstrayInv => DirsSound
  BY InvDirs DEF AstrayInv, DirsSound
<1> QED BY <1>1, Ext2Safe, PTL
=============================================================================
