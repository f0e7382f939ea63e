------------------------------- MODULE Fat32 --------------------------------
(***************************************************************************)
(* FAT32 on the disk (fs/fat32.c): the allocation table with its chains,   *)
(* directories as slots in clusters, and the copy of a directory entry     *)
(* that an inode in memory keeps (first cluster and size).                 *)
(*                                                                         *)
(* One operation at a time ("single writer", fat32.c:24).  A file is a     *)
(* sequence of sectors; a name is its 8.3 form, so fat32_name_to_dos() has *)
(* been applied; time stamps are in FatTime.  The disk may fail while a    *)
(* chain is freed; what else is read and written succeeds.  Where the code *)
(* leaves the disk or a file wrong it is kept as the code does it, and the *)
(* event is noted in a history variable, hurt:                             *)
(*   "head"    an append at a cluster boundary replaced the first cluster  *)
(*   "first"   a first cluster only the inode knew was forgotten           *)
(*   "memory"  the cluster of a new directory was freed, its entry stayed  *)
(*   "full"    an operation ended half way because no cluster was left     *)
(*   "slack"   a growing file took in old sectors that nobody had zeroed   *)
(*   "broken"  freeing failed and the entry still names freed clusters     *)
(*   "cut"     freeing failed behind the new end of a file                 *)
(***************************************************************************)
EXTENDS Integers, Sequences, FiniteSets, SequencesExt

CONSTANTS NClus,          \* cluster_count: clusters 2..NClus+1
          Spc,            \* sectors_per_cluster
          NSlots,         \* directory entries of a cluster
          FNames,         \* 8.3 names
          FValues,        \* what is written; 0 is the zero sector
          MaxSec,         \* bound: sectors of a file
          TruncSizes,     \* sizes given to truncate
          MaxFOps         \* bound: operations

ASSUME Fat32Assumption ==
  /\ NClus \in Nat \ {0} /\ Spc \in Nat \ {0} /\ NSlots \in Nat \ {0} /\ "" \notin FNames
  /\ 0 \notin FValues /\ MaxSec \in Nat /\ TruncSizes \subseteq 0..MaxSec /\ MaxFOps \in Nat

Clusters == 2..NClus + 1
Eof == NClus + 2
RootCluster == 2
Slot == Clusters \X (0..NSlots - 1)
RootLoc == <<0, 0>>
Locs == Slot \cup {RootLoc}

VARIABLES
  fdisk,     \* fat (the table), dat (sectors of a cluster), dir (slots of a cluster)
  finode,    \* the inodes in memory: first cluster and size, by the place of their entry
  written,   \* history: what each file was given, by the place of its entry
  hurt,      \* history: which weak spots of the code were met
  fops       \* operations so far

fVars == <<fdisk, finode, written, hurt, fops>>

FreeSlot == [name |-> "", kind |-> "none", first |-> 0, size |-> 0]
NoFile == [kind |-> "none", first |-> 0, size |-> 0]
RootInode == [kind |-> "dir", first |-> RootCluster, size |-> 0]
ZeroDat == [s \in 0..Spc - 1 |-> 0]
ZeroDir == [k \in 0..NSlots - 1 |-> FreeSlot]

\* fat32_is_valid_cluster()
Valid(c) == c \in Clusters

\* The clusters of a chain, as every walk follows it: while the cluster is
\* valid and at most cluster_count of them.
ChainOf(ft, c) ==
  LET walk[k \in 0..NClus] ==
        IF k = 0 THEN <<>>
        ELSE LET s == walk[k - 1]
                 next == IF s = <<>> THEN c ELSE ft[Last(s)]
             IN IF Valid(next) THEN Append(s, next) ELSE s
  IN walk[NClus]

\* A disk as mkfs leaves it, with one file in its root directory; which of
\* the names it has makes no difference.
ImageFile == [name |-> CHOOSE n \in FNames : TRUE, kind |-> "file", first |-> 3, size |-> 1]
FInitDisk ==
  [fat |-> [c \in Clusters |-> IF c \in {2, 3} THEN Eof ELSE 0],
   dat |-> [c \in Clusters |-> IF c = 3 THEN [ZeroDat EXCEPT ![0] = 1] ELSE ZeroDat],
   dir |-> [c \in Clusters |-> IF c = 2 THEN [ZeroDir EXCEPT ![0] = ImageFile] ELSE ZeroDir]]

\* fat32_get_super(): only the root directory is in memory.
JustMounted == [l \in Locs |-> IF l = RootLoc THEN RootInode ELSE NoFile]

FatInit ==
  /\ fdisk = FInitDisk
  /\ finode = JustMounted
  /\ written = [l \in Slot |-> IF l = <<2, 0>> THEN <<1>> ELSE <<>>]
  /\ hurt = {}
  /\ fops = 0

-----------------------------------------------------------------------------
(* Clusters                                                                 *)

\* The first free cluster becomes a chain of its own, all zero.
fat32_alloc_cluster(D) ==
  LET free == {c \in Clusters : D.fat[c] = 0}
      c == CHOOSE x \in free : \A y \in free : x <= y
  IN IF free = {} THEN [ok |-> FALSE, c |-> 0, D |-> D]
     ELSE [ok |-> TRUE, c |-> c,
           D |-> [D EXCEPT !.fat[c] = Eof, !.dat[c] = ZeroDat, !.dir[c] = ZeroDir]]

\* The first k turns of the loop: what is freed when the next one fails.
FreedTo(D, start, k) ==
  LET ch == ChainOf(D.fat, start)
      s == {ch[j] : j \in DOMAIN ch \cap 1..k}
  IN [D EXCEPT !.fat = [c \in Clusters |-> IF c \in s THEN 0 ELSE @[c]]]

\* Mutant: only the first cluster is freed.
fat32_free_chainFirst(D, start) == IF Valid(start) THEN [D EXCEPT !.fat[start] = 0] ELSE D

fat32_free_chain(D, start) == FreedTo(D, start, NClus)

\* n clusters behind tail (0: the chain is empty), or none is left.
fat32_append_clusters(D, first, tail, n) ==
  LET Link(r, k) ==
        LET a == fat32_alloc_cluster(r.D) IN
        IF ~r.ok THEN r
        ELSE IF ~a.ok THEN [r EXCEPT !.ok = FALSE]
        ELSE IF r.tail = 0 THEN [ok |-> TRUE, D |-> a.D, first |-> a.c, tail |-> a.c]
        ELSE [r EXCEPT !.D = [a.D EXCEPT !.fat[r.tail] = a.c], !.tail = a.c]
  IN FoldLeft(Link, [ok |-> TRUE, D |-> D, first |-> first, tail |-> tail], [k \in 1..n |-> k])

-----------------------------------------------------------------------------
(* Directories                                                              *)

\* fat32_dir_walk(): the slots of a directory, in order.
fat32_dir_walk(D, d) ==
  LET ch == ChainOf(D.fat, d.first) IN
  [k \in 1..Len(ch) * NSlots |-> <<ch[((k - 1) \div NSlots) + 1], (k - 1) % NSlots>>]
Dirents(D, d) == ToSet(fat32_dir_walk(D, d))
FatEntry(D, l) == D.dir[l[1]][l[2]]

\* Mutant: the search ends at the first free slot.
fat32_dir_findEarly(D, d, n) ==
  LET s == fat32_dir_walk(D, d) IN
  {s[k] : k \in {j \in DOMAIN s : FatEntry(D, s[j]).name = n
                                  /\ \A i \in 1..j : FatEntry(D, s[i]).name # ""}}

fat32_dir_find(D, d, n) == {l \in Dirents(D, d) : FatEntry(D, l).name = n}
IsEmpty(D, d) == \A l \in Dirents(D, d) : FatEntry(D, l).name = ""

\* fat32_cb_free_slot(), or the directory is extended by a cluster.
SlotFor(D, d) ==
  LET s == fat32_dir_walk(D, d)
      free == {k \in DOMAIN s : FatEntry(D, s[k]).name = ""}
      a == fat32_alloc_cluster(D)
  IN IF free # {} THEN [ok |-> TRUE, D |-> D, l |-> s[CHOOSE k \in free : \A j \in free : k <= j]]
     ELSE IF ~a.ok THEN [ok |-> FALSE, D |-> D, l |-> RootLoc]
     ELSE [ok |-> TRUE, D |-> [a.D EXCEPT !.fat[Last(ChainOf(D.fat, d.first))] = a.c], l |-> <<a.c, 0>>]

PutEntry(D, l, e) == [D EXCEPT !.dir[l[1]][l[2]] = e]

-----------------------------------------------------------------------------
(* Operations                                                               *)

\* An entry names clusters that are not its own: its first cluster was never
\* saved, its directory was freed for want of memory, or its removal failed half
\* way.  Nothing can be said of the disk afterwards, and the model stops there.
Misnamed == hurt \cap {"first", "memory", "broken"} # {}

FBegins == fops < MaxFOps /\ ~Misnamed /\ fops' = fops + 1
FatIsDir(d) == finode[d].kind = "dir"
Found(d, n, l) == FatIsDir(d) /\ l \in fat32_dir_find(fdisk, finode[d], n)

\* fat32_lookup(): an inode from the directory entry.
fat32_lookup(d, n, l) ==
  LET e == FatEntry(fdisk, l) IN
  /\ FBegins /\ Found(d, n, l) /\ finode[l].kind = "none"
  /\ finode' = [finode EXCEPT ![l] = [kind |-> e.kind, first |-> e.first, size |-> e.size]]
  /\ UNCHANGED <<fdisk, written, hurt>>

\* What fat32_dir_add() has done when the entry is written: a directory got
\* its cluster before the slot was looked for.
EntryAdded(d, n, k) ==
  LET a == IF k = "dir" THEN fat32_alloc_cluster(fdisk) ELSE [ok |-> TRUE, c |-> 0, D |-> fdisk]
      s == SlotFor(a.D, finode[d])
      e == [name |-> n, kind |-> k, first |-> a.c, size |-> 0]
  IN IF ~a.ok THEN [ok |-> FALSE, D |-> fdisk]
     ELSE IF ~s.ok THEN [ok |-> FALSE, D |-> fat32_free_chain(s.D, a.c)]
     ELSE [ok |-> TRUE, D |-> PutEntry(s.D, s.l, e), l |-> s.l, first |-> a.c]

Adds(d, n) == FBegins /\ FatIsDir(d) /\ fat32_dir_find(fdisk, finode[d], n) = {}

\* fat32_create() and fat32_mkdir()
fat32_dir_add(d, n, k) ==
  LET r == EntryAdded(d, n, k) IN
  /\ Adds(d, n) /\ r.ok
  /\ fdisk' = r.D
  /\ finode' = [finode EXCEPT ![r.l] = [kind |-> k, first |-> r.first, size |-> 0]]
  /\ written' = [written EXCEPT ![r.l] = <<>>]
  /\ UNCHANGED hurt

AddFull(d, n, k) ==
  LET r == EntryAdded(d, n, k) IN
  /\ Adds(d, n) /\ ~r.ok
  /\ fdisk' = r.D
  /\ UNCHANGED <<finode, written, hurt>>

\* No memory for the inode: the entry stays on the disk, and the cluster that
\* the entry of a new directory names is freed.
AddNoMemory(d, n, k) ==
  LET r == EntryAdded(d, n, k) IN
  /\ Adds(d, n) /\ r.ok
  /\ fdisk' = IF k = "dir" THEN fat32_free_chain(r.D, r.first) ELSE r.D
  /\ written' = [written EXCEPT ![r.l] = <<>>]
  /\ hurt' = IF k = "dir" THEN hurt \cup {"memory"} ELSE hurt
  /\ UNCHANGED finode

\* The entry on the disk has another first cluster than the inode.
Stale(l) == finode[l].kind = "file" /\ finode[l].first # FatEntry(fdisk, l).first

\* fat32_unlink(): the chain of the entry is freed, then the slot; the VFS
\* drops the inode.
fat32_unlink(d, n, l) ==
  /\ FBegins /\ Found(d, n, l) /\ FatEntry(fdisk, l).kind = "file"
  /\ fdisk' = PutEntry(fat32_free_chain(fdisk, FatEntry(fdisk, l).first), l, FreeSlot)
  /\ finode' = [finode EXCEPT ![l] = NoFile]
  /\ hurt' = IF Stale(l) THEN hurt \cup {"first"} ELSE hurt
  /\ UNCHANGED written

\* Mutant: the directory need not be empty.
RemovableAny(e) == e.kind = "dir" /\ e.first # 0

Removable(e) == e.kind = "dir" /\ e.first # 0 /\ IsEmpty(fdisk, e)

fat32_rmdir(d, n, l) ==
  /\ FBegins /\ Found(d, n, l) /\ Removable(FatEntry(fdisk, l))
  /\ fdisk' = PutEntry(fat32_free_chain(fdisk, FatEntry(fdisk, l).first), l, FreeSlot)
  /\ finode' = [finode EXCEPT ![l] = NoFile]
  /\ UNCHANGED <<written, hurt>>

\* fat32_unlink() and fat32_rmdir() when the disk fails: some clusters, or all
\* of them and not the slot, were freed, and the entry still names the chain.
RemoveFails(d, n, l) ==
  LET e == FatEntry(fdisk, l) IN
  /\ FBegins /\ Found(d, n, l) /\ (e.kind = "file" \/ Removable(e))
  /\ \E k \in 1..Len(ChainOf(fdisk.fat, e.first)) : fdisk' = FreedTo(fdisk, e.first, k)
  /\ hurt' = hurt \cup {"broken"}
  /\ UNCHANGED <<finode, written>>

\* One sector of fat32_write_data(): a cluster is allocated when the chain has
\* ended, and linked to the one before, or made the first when there is none.
WriteSector(w, f, pos, v) ==
  LET a == fat32_alloc_cluster(w.D)
      linked == IF w.prev = 0 THEN a.D ELSE [a.D EXCEPT !.fat[w.prev] = a.c]
      x == IF Valid(w.cur) THEN w
           ELSE IF ~a.ok THEN [w EXCEPT !.ok = FALSE]
           ELSE [w EXCEPT !.D = linked, !.cur = a.c, !.first = IF w.prev = 0 THEN a.c ELSE @]
      D == [x.D EXCEPT !.dat[x.cur][f % Spc] = IF f < pos THEN 0 ELSE v]
  IN IF ~w.ok \/ ~x.ok THEN [w EXCEPT !.ok = FALSE]
     ELSE [x EXCEPT !.D = D, !.prev = x.cur,
                    !.cur = IF f % Spc = Spc - 1 THEN D.fat[x.cur] ELSE @]

\* The write starts at the old end when pos is behind it, and finds its first
\* cluster without remembering the one before.
StartOf(pos, size) == IF pos < size THEN pos ELSE size
WriteAll(i, pos, n, v) ==
  LET start == StartOf(pos, i.size)
      ch == ChainOf(fdisk.fat, i.first)
      k == start \div Spc
      cur == IF k < Len(ch) THEN ch[k + 1] ELSE 0
      Step(w, f) == WriteSector(w, f, pos, v)
  IN IF k > Len(ch) THEN [ok |-> FALSE, D |-> fdisk, first |-> i.first, cur |-> 0, prev |-> 0]
     ELSE FoldLeft(Step, [ok |-> TRUE, D |-> fdisk, first |-> i.first, cur |-> cur, prev |-> 0],
                   [j \in 1..pos + n - start |-> start + j - 1])

\* The chain ends where the write starts: the new cluster becomes the head.
HeadLost(i, pos) ==
  LET k == StartOf(pos, i.size) \div Spc IN k > 0 /\ k = Len(ChainOf(fdisk.fat, i.first))

\* fat32_dirent_update_size(): the size only, not the first cluster.
SaveSize(D, l, size) == [D EXCEPT !.dir[l[1]][l[2]].size = size]

\* n sectors of v at pos.
fat32_write_data(l, pos, n, v) ==
  LET i == finode[l]
      w == WriteAll(i, pos, n, v)
      end == pos + n
      old == written[l]
  IN /\ FBegins /\ i.kind = "file" /\ w.ok
     /\ fdisk' = IF end > i.size THEN SaveSize(w.D, l, end) ELSE w.D
     /\ finode' = [finode EXCEPT ![l] = [@ EXCEPT !.first = w.first, !.size = IF end > @ THEN end ELSE @]]
     /\ written' = [written EXCEPT ![l] =
          [j \in 1..IF end > Len(old) THEN end ELSE Len(old) |->
             IF j - 1 \in pos..end - 1 THEN v ELSE IF j <= Len(old) THEN old[j] ELSE 0]]
     /\ hurt' = IF HeadLost(i, pos) THEN hurt \cup {"head"} ELSE hurt

\* No cluster is left: what was written and linked so far stays.
FWriteFails(l, pos, n) ==
  LET i == finode[l]
      w == WriteAll(i, pos, n, 0)
  IN /\ FBegins /\ i.kind = "file" /\ ~w.ok
     /\ fdisk' = w.D
     /\ finode' = [finode EXCEPT ![l].first = w.first]
     /\ hurt' = hurt \cup {"full"} \cup IF HeadLost(i, pos) THEN {"head"} ELSE {}
     /\ UNCHANGED written

CeilDiv(n, m) == (n + m - 1) \div m

\* fat32_truncate(): the chain is freed, extended or cut.
FileResized(i, size) ==
  LET ch == ChainOf(fdisk.fat, i.first)
      n == CeilDiv(size, Spc)
      a == fat32_append_clusters(fdisk, i.first, IF ch = <<>> THEN 0 ELSE Last(ch), n - Len(ch))
  IN CASE n = 0 -> [ok |-> TRUE, D |-> fat32_free_chain(fdisk, i.first), first |-> 0]
       [] n > Len(ch) -> [ok |-> a.ok, D |-> a.D, first |-> IF a.ok THEN a.first ELSE i.first]
       [] n > 0 /\ n < Len(ch) ->
            [ok |-> TRUE, first |-> i.first,
             D |-> [fat32_free_chain(fdisk, ch[n + 1]) EXCEPT !.fat[ch[n]] = Eof]]
       [] n > 0 /\ n = Len(ch) -> [ok |-> TRUE, D |-> fdisk, first |-> i.first]

\* The size grows over sectors the chain already has; nothing zeroes them.
\* (fat32.c:1688 promises zeros where a file is extended.)
SlackShown(i, size) ==
  LET ch == ChainOf(fdisk.fat, i.first) IN
  \E s \in i.size..size - 1 : s \div Spc < Len(ch) /\ fdisk.dat[ch[(s \div Spc) + 1]][s % Spc] # 0

fat32_truncate(l, size) ==
  LET i == finode[l]
      r == FileResized(i, size)
  IN /\ FBegins /\ i.kind = "file" /\ r.ok
     /\ fdisk' = SaveSize(r.D, l, size)
     /\ finode' = [finode EXCEPT ![l] = [@ EXCEPT !.first = r.first, !.size = size]]
     /\ written' = [written EXCEPT ![l] = [j \in 1..size |-> IF j <= Len(@) THEN @[j] ELSE 0]]
     /\ hurt' = IF SlackShown(i, size) THEN hurt \cup {"slack"} ELSE hurt

\* The disk is full: the clusters that were appended stay, and a first one is
\* known to nobody.
TruncateFails(l, size) ==
  LET r == FileResized(finode[l], size) IN
  /\ FBegins /\ finode[l].kind = "file" /\ ~r.ok
  /\ fdisk' = r.D
  /\ hurt' = hurt \cup {"full"}
  /\ UNCHANGED <<finode, written>>

\* The disk fails while fat32_truncate() frees: a file that was to be empty
\* keeps its freed clusters, and one that was cut keeps its old size.
TruncateBroken(l, size) ==
  LET i == finode[l]
      ch == ChainOf(fdisk.fat, i.first)
      n == CeilDiv(size, Spc)
      cut == [fdisk EXCEPT !.fat[ch[n]] = Eof]
  IN /\ FBegins /\ i.kind = "file" /\ n < Len(ch)
     /\ \E k \in (IF n = 0 THEN 1 ELSE 0)..Len(ch) - n - 1 :
          fdisk' = FreedTo(IF n = 0 THEN fdisk ELSE cut, ch[n + 1], k)
     /\ hurt' = hurt \cup {IF n = 0 THEN "broken" ELSE "cut"}
     /\ UNCHANGED <<finode, written>>

\* fat32_kill_sb() and fat32_get_super(): only the disk is left.
FRemount ==
  /\ FBegins
  /\ finode' = JustMounted
  /\ hurt' = IF \E l \in Slot : Stale(l) THEN hurt \cup {"first"} ELSE hurt
  /\ UNCHANGED <<fdisk, written>>

FOpsDone == (fops = MaxFOps \/ Misnamed) /\ UNCHANGED fVars

OpenDirs == {d \in Locs : FatIsDir(d)}
OpenFiles == {l \in Slot : finode[l].kind = "file"}

Fat32Next ==
  \/ \E d \in OpenDirs, n \in FNames :
       \/ \E l \in fat32_dir_find(fdisk, finode[d], n) :
            fat32_lookup(d, n, l) \/ fat32_unlink(d, n, l) \/ fat32_rmdir(d, n, l) \/ RemoveFails(d, n, l)
       \/ \E k \in {"file", "dir"} : fat32_dir_add(d, n, k) \/ AddFull(d, n, k) \/ AddNoMemory(d, n, k)
  \/ \E l \in OpenFiles :
       \/ \E pos \in 0..MaxSec - 1 : \E n \in 1..MaxSec - pos :
            FWriteFails(l, pos, n) \/ \E v \in FValues : fat32_write_data(l, pos, n, v)
       \/ \E size \in TruncSizes :
            fat32_truncate(l, size) \/ TruncateFails(l, size) \/ TruncateBroken(l, size)
  \/ FRemount \/ FOpsDone

Fat32Spec == FatInit /\ [][Fat32Next]_fVars

-----------------------------------------------------------------------------
(* Properties                                                               *)

\* The files and directories, and where each one's clusters begin.
Live == {RootLoc} \cup {l \in Slot : l[1] \in Clusters /\ FatEntry(fdisk, l).name # ""
                                     /\ fdisk.fat[l[1]] # 0}
Now(l) == IF finode[l].kind # "none" THEN finode[l]
          ELSE [kind |-> FatEntry(fdisk, l).kind, first |-> FatEntry(fdisk, l).first, size |-> FatEntry(fdisk, l).size]
Chain(l) == ChainOf(fdisk.fat, Now(l).first)
Held == UNION {{l} \X ToSet(Chain(l)) : l \in Live}

\* No cluster is in two chains and every chain ends at an end mark, through
\* allocation, growth, cutting, freeing and a cut that the disk broke off,
\* until an entry is misnamed.
ChainsApart ==
  ~Misnamed =>
    /\ LET held == Held IN \A p, q \in held : p[2] = q[2] => p = q
    /\ \A l \in Live : Chain(l) # <<>> => fdisk.fat[Last(Chain(l))] = Eof

\* No cluster is lost as long as the code's weak spots were not met.
ClustersOwned ==
  hurt = {} => {c \in Clusters : fdisk.fat[c] # 0} \subseteq {p[2] : p \in Held}

\* What a file reads: the sectors of its chain up to its size.
Reads(l) ==
  [j \in 1..Now(l).size |->
     IF ((j - 1) \div Spc) < Len(Chain(l)) THEN fdisk.dat[Chain(l)[((j - 1) \div Spc) + 1]][(j - 1) % Spc]
     ELSE 0 - 1]

\* A file reads as it was written, across clusters, gaps, reused clusters and
\* truncation to the middle of a cluster, as long as no weak spot was met.
FDataIntact == hurt = {} => \A l \in Live : Now(l).kind = "file" => Reads(l) = written[l]

\* A directory keeps its name space: no name twice, every directory has its
\* cluster, and every entry is in a directory that can be reached.
FTreeSound ==
  ~Misnamed =>
    LET dirs == {l \in Live : Now(l).kind = "dir"}
        under == UNION {Dirents(fdisk, Now(l)) : l \in dirs}
    IN /\ \A d \in dirs : /\ Chain(d) # <<>>
                          /\ \A n \in FNames : Cardinality(fat32_dir_find(fdisk, Now(d), n)) <= 1
       /\ \A l \in Live \ {RootLoc} : l \in under
       /\ \A l \in Slot : finode[l].kind # "none" => FatEntry(fdisk, l).kind = finode[l].kind

\* What was written to a file is there after the write, and after a new mount.
WrittenStays ==
  hurt \subseteq {"head", "first"} =>
    \A l \in Live : Now(l).kind = "file" => Reads(l) = written[l]

\* Every cluster of the disk is free or in one chain of one file.
ClustersSound == ChainsApart /\ ClustersOwned

\* Names lead to their files and files hold what was written to them.
FFilesSound == FDataIntact /\ FTreeSound
=============================================================================
