----------------------------- MODULE Ext2Cache ------------------------------
(***************************************************************************)
(* The write-back block cache of ext2 (fs/ext2.c): ext2_read_block(),      *)
(* ext2_write_block() and ext2_cache_flush() between the file system and   *)
(* the disk.  The cache has no lock of its own: each access to the hash    *)
(* table, each transfer and each copy is a step, and other users run in    *)
(* between.  A transfer may fail, and so may slab_alloc().                 *)
(*                                                                         *)
(* Nothing keeps two calls about one block apart, and then a write can be  *)
(* lost.  lapsed records the four ways in which the code loses one: it     *)
(* overtakes a read of the block that has missed the table and will put    *)
(* the older data there (ext2.c:358-366); it is copied into an entry that  *)
(* such a read has taken out (358-361); it goes to the disk past an entry  *)
(* that came in between (436); or the table has no memory for its node and *)
(* ext2_write_block() returns 0 all the same (410-428).  What is read      *)
(* afterwards is not defined, and the model stops there.                   *)
(***************************************************************************)
EXTENDS Integers, Sequences, FiniteSets

CONSTANTS CUsers, Blks, Data,
          Blank,          \* the data on the disk at first
          MaxFaults       \* bound: failed transfers and allocations

ASSUME Ext2CacheAssumption ==
  Blank \in Data /\ Blks # {} /\ MaxFaults \in Nat

VARIABLES
  platter,   \* the blocks on the disk
  cached,    \* fs->cache: the entry of a block, or none
  creq,      \* per user: the call in progress
  faults,    \* failures so far
  latest,    \* history: the data of the last completed write of each block
  seen,      \* history: the data a user has read, with what it should have read
  lapsed     \* history: a write has been lost in one of the four ways

cVars == <<platter, cached, creq, faults, latest, seen, lapsed>>

\* struct ext2_cache_entry, the block being its place.
NoEntry == [data |-> Blank, dirty |-> FALSE, here |-> FALSE]
Entry(d, dirty) == [data |-> d, dirty |-> dirty, here |-> TRUE]

\* A call: where it is, its block, its data, and what a flush has collected.
Call(pc, b, d, ents) == [pc |-> pc, blk |-> b, data |-> d, ents |-> ents]
CIdle == Call("idle", CHOOSE b \in Blks : TRUE, Blank, {})

\* The places of a read that holds no entry of the table: it has missed, or its
\* entry has been taken out.
Missed == {"readdisk", "readfill", "readdelete", "readinsert", "readraw", "readgone"}

\* ext2_cache_init()
CInit ==
  /\ platter = [b \in Blks |-> Blank]
  /\ cached = [b \in Blks |-> NoEntry]
  /\ creq = [u \in CUsers |-> CIdle]
  /\ faults = 0
  /\ latest = platter
  /\ seen = [u \in CUsers |-> TRUE]
  /\ lapsed = FALSE

CAt(u, pc) == creq[u].pc = pc
CGo(u, pc, d) == creq' = [creq EXCEPT ![u] = Call(pc, @.blk, d, @.ents)]
CDone(u) == creq' = [creq EXCEPT ![u] = CIdle]
Fault == faults < MaxFaults /\ faults' = faults + 1

CacheBegin(u, pc, b, d) ==
  /\ CAt(u, "idle")
  /\ creq' = [creq EXCEPT ![u] = Call(pc, b, d, {})]
  /\ UNCHANGED <<platter, cached, faults, latest, seen, lapsed>>

\* The user has its data.
ReadReturns(u, d) ==
  /\ seen' = [seen EXCEPT ![u] = (d = latest[creq[u].blk])]
  /\ CDone(u)

\* ext2_read_block(): a hit goes on to the copy, a miss to the disk.
ReadLookup(u) ==
  /\ CAt(u, "read")
  /\ CGo(u, IF cached[creq[u].blk].here THEN "readcopy" ELSE "readdisk", creq[u].data)
  /\ UNCHANGED <<platter, cached, faults, latest, seen, lapsed>>

\* memcpy() from the entry, which may have left the table in between.
ReadCopy(u) ==
  /\ \/ CAt(u, "readcopy") /\ ReadReturns(u, cached[creq[u].blk].data)
     \/ CAt(u, "readgone") /\ ReadReturns(u, creq[u].data)
  /\ UNCHANGED <<platter, cached, faults, latest, lapsed>>

\* ext2_disk_read_raw() into a new entry; without memory for one, or when the
\* transfer fails, fall back to the disk.
ReadDisk(u) ==
  /\ CAt(u, "readdisk")
  /\ \/ CGo(u, "readfill", platter[creq[u].blk]) /\ UNCHANGED faults
     \/ CGo(u, "readraw", creq[u].data) /\ Fault
  /\ UNCHANGED <<platter, cached, latest, seen, lapsed>>

\* The second search: an entry that came in between is to be deleted.
ReadCheck(u) ==
  /\ CAt(u, "readfill")
  /\ CGo(u, IF cached[creq[u].blk].here THEN "readdelete" ELSE "readinsert", creq[u].data)
  /\ UNCHANGED <<platter, cached, faults, latest, seen, lapsed>>

\* The entry of b leaves the table: a flush, a read or a write that holds it goes
\* on with an entry nobody finds any more.
Detached(c, b) ==
  CASE c.blk = b /\ c.pc = "readcopy" -> Call("readgone", b, cached[b].data, c.ents)
    [] c.blk = b /\ c.pc = "writecopy" -> Call("writegone", b, c.data, c.ents)
    [] OTHER -> Call(c.pc, c.blk, c.data, {IF e = <<b>> THEN <<b, cached[b].data>> ELSE e : e \in c.ents})

\* hash_table_delete() of the entry, dirty or not.
ReadDelete(u) ==
  LET r == creq[u] IN
  /\ CAt(u, "readdelete")
  /\ cached' = [cached EXCEPT ![r.blk] = NoEntry]
  /\ creq' = [w \in CUsers |-> IF w = u THEN Call("readinsert", r.blk, r.data, r.ents)
                               ELSE Detached(creq[w], r.blk)]
  /\ UNCHANGED <<platter, faults, latest, seen, lapsed>>

\* hash_table_insert_if_absent() refuses a key that is there, and has no memory for
\* one that is not.
InsertFails(b) ==
  \/ cached[b].here /\ UNCHANGED faults
  \/ ~cached[b].here /\ Fault

\* hash_table_insert_if_absent(), then the copy from the entry; when another entry
\* is there again, or there is no memory, fall back to the disk.
ReadInsert(u) ==
  LET r == creq[u] IN
  /\ CAt(u, "readinsert")
  /\ \/ /\ ~cached[r.blk].here
        /\ cached' = [cached EXCEPT ![r.blk] = Entry(r.data, FALSE)]
        /\ CGo(u, "readcopy", r.data)
        /\ UNCHANGED faults
     \/ /\ InsertFails(r.blk)
        /\ CGo(u, "readraw", r.data)
        /\ UNCHANGED cached
  /\ UNCHANGED <<platter, latest, seen, lapsed>>

\* The fallback: ext2_disk_read_raw() into the caller's buffer, which may fail.
ReadRaw(u) ==
  /\ CAt(u, "readraw")
  /\ \/ ReadReturns(u, platter[creq[u].blk]) /\ UNCHANGED faults
     \/ CDone(u) /\ Fault /\ UNCHANGED seen
  /\ UNCHANGED <<platter, cached, latest, lapsed>>

\* ext2_write_block(): a hit goes on to the copy, a miss to a new entry.
WriteLookup(u) ==
  /\ CAt(u, "write")
  /\ CGo(u, IF cached[creq[u].blk].here THEN "writecopy" ELSE "writefill", creq[u].data)
  /\ UNCHANGED <<platter, cached, faults, latest, seen, lapsed>>

\* The write returns 0; lost says that it has been lost.
WriteReturns(u, lost) ==
  /\ latest' = [latest EXCEPT ![creq[u].blk] = creq[u].data]
  /\ lapsed' = lost
  /\ CDone(u)

\* A read of the block is on its way that will put older data into the table.
Overtakes(u) == \E w \in CUsers \ {u} : creq[w].blk = creq[u].blk /\ creq[w].pc \in Missed

\* The data is in the table, in an entry that is dirty.
WriteStored(u) ==
  /\ cached' = [cached EXCEPT ![creq[u].blk] = Entry(creq[u].data, TRUE)]
  /\ WriteReturns(u, Overtakes(u))
  /\ UNCHANGED <<platter, faults, seen>>

\* memcpy() into the entry; into one that has left the table, nobody will see it.
WriteCopy(u) ==
  \/ CAt(u, "writecopy") /\ WriteStored(u)
  \/ /\ CAt(u, "writegone") /\ WriteReturns(u, TRUE)
     /\ UNCHANGED <<platter, cached, faults, seen>>

\* hash_table_insert_if_absent() of a new dirty entry, which fails when one came
\* in between or there is no memory.
WriteFill(u) ==
  /\ CAt(u, "writefill")
  /\ \/ ~cached[creq[u].blk].here /\ WriteStored(u)
     \/ /\ InsertFails(creq[u].blk)
        /\ CGo(u, "writeold", creq[u].data)
        /\ UNCHANGED <<platter, cached, latest, seen, lapsed>>

\* After a failed insertion the entry is looked for once more; without one the
\* write returns 0 and its data are nowhere.
WriteOld(u) ==
  LET here == cached[creq[u].blk].here IN
  /\ CAt(u, "writeold")
  /\ \/ here /\ CGo(u, "writecopy", creq[u].data) /\ UNCHANGED <<latest, lapsed>>
     \/ ~here /\ WriteReturns(u, TRUE)
  /\ UNCHANGED <<platter, cached, faults, seen>>

\* No memory for an entry: ext2_disk_write_raw(), which may fail (and the caller is
\* told).
WriteUncached(u) ==
  LET r == creq[u] IN
  /\ CAt(u, "writefill") /\ Fault
  /\ \/ /\ platter' = [platter EXCEPT ![r.blk] = r.data]
        /\ WriteReturns(u, Overtakes(u) \/ cached[r.blk].here)
     \/ CDone(u) /\ UNCHANGED <<platter, latest, lapsed>>
  /\ UNCHANGED <<cached, seen>>

\* ext2_cache_flush(): under the lock of the table, collect the dirty entries
\* and clear their flags.
Gather(u) ==
  LET dirty == {<<b>> : b \in {c \in Blks : cached[c].dirty}} IN
  /\ CAt(u, "flush")
  /\ cached' = [b \in Blks |-> [data |-> cached[b].data, dirty |-> FALSE,
                              here |-> cached[b].here]]
  /\ creq' = [creq EXCEPT ![u] = Call("flushing", @.blk, @.data, dirty)]
  /\ UNCHANGED <<platter, faults, latest, seen, lapsed>>

\* The flush has dealt with e.
Written(u, e) == creq' = [creq EXCEPT ![u] = Call(@.pc, @.blk, @.data, @.ents \ {e})]

\* Outside the lock, write them one by one.
FlushWrite(u, e) ==
  /\ CAt(u, "flushing")
  /\ platter' = [platter EXCEPT ![e[1]] = IF Len(e) = 1 THEN cached[e[1]].data ELSE e[2]]
  /\ Written(u, e)
  /\ UNCHANGED <<cached, faults, latest, seen, lapsed>>

\* Mutant: a failed write leaves the entry clean.
FlushWriteFailsClean(u, e) ==
  /\ CAt(u, "flushing") /\ Fault
  /\ Written(u, e)
  /\ UNCHANGED <<platter, cached, latest, seen, lapsed>>

\* A write that fails leaves the entry dirty for the next flush.
FlushWriteFails(u, e) ==
  /\ CAt(u, "flushing") /\ Fault
  /\ cached' = IF Len(e) = 1
               THEN [cached EXCEPT ![e[1]] = [data |-> @.data, dirty |-> TRUE, here |-> @.here]]
               ELSE cached
  /\ Written(u, e)
  /\ UNCHANGED <<platter, latest, seen, lapsed>>

FlushEnd(u) ==
  /\ CAt(u, "flushing") /\ creq[u].ents = {}
  /\ CDone(u)
  /\ UNCHANGED <<platter, cached, faults, latest, seen, lapsed>>

\* No memory for the list of entries: nothing is flushed.
FlushNoMemory(u) ==
  /\ CAt(u, "flush") /\ Fault /\ CDone(u)
  /\ UNCHANGED <<platter, cached, latest, seen, lapsed>>

CacheNext ==
  ~lapsed /\ \E u \in CUsers :
    \/ \E b \in Blks : CacheBegin(u, "read", b, Blank)
    \/ \E b \in Blks, d \in Data : CacheBegin(u, "write", b, d)
    \/ CacheBegin(u, "flush", CIdle.blk, Blank)
    \/ ReadLookup(u) \/ ReadCopy(u) \/ ReadDisk(u) \/ ReadCheck(u)
    \/ ReadDelete(u) \/ ReadInsert(u) \/ ReadRaw(u)
    \/ WriteLookup(u) \/ WriteCopy(u) \/ WriteFill(u) \/ WriteOld(u) \/ WriteUncached(u)
    \/ Gather(u) \/ FlushNoMemory(u) \/ FlushEnd(u)
    \/ \E e \in creq[u].ents : FlushWrite(u, e) \/ FlushWriteFails(u, e)

CacheSpec == CInit /\ [][CacheNext]_cVars

-----------------------------------------------------------------------------
(* Properties                                                               *)

\* A read returns what was last written, through hits, misses, uncached
\* fallbacks and flushes that failed half way.
ReadsLatest == \A u \in CUsers : seen[u]

\* What has been written is not lost: it is on the disk, or in a dirty entry,
\* or in the hands of a flush that has not come to it yet.
NothingLost ==
  \A b \in Blks :
    \/ platter[b] = latest[b]
    \/ cached[b].data = latest[b] /\ (cached[b].dirty \/ \E u \in CUsers : <<b>> \in creq[u].ents)

\* The cache cannot be told from the disk below it, whatever reads, writes and
\* flushes run at once and whichever transfers and allocations fail, up to the
\* first write that is lost in one of the four ways the header names.
CacheSound == ~lapsed => ReadsLatest /\ NothingLost
=============================================================================
