---------------------------- MODULE CacheProofs -----------------------------
(***************************************************************************)
(* Proofs about the two caches of the file systems: the hash table of      *)
(* utils/hashmap.c (module HashMap) and the write-back block cache of ext2 *)
(* (module Ext2Cache); and about the time stamps of fat32 (FatTime).       *)
(*                                                                         *)
(* The hash table computes a bucket before it takes its lock.  TableSound  *)
(* is proved for all interleavings: the table is sound until a call enters *)
(* with the bucket of another size (overtaken), and that never happens     *)
(* when the callers keep the calls apart (Serial), as the inode cache does *)
(* with icache.lock: then the bucket of the one call under way is that of  *)
(* the current size (IndexFresh).                                          *)
(*                                                                         *)
(* The block cache has no lock either.  Until a write is lost (lapsed), an *)
(* entry always holds the latest data (EntriesLatest), and a read that has *)
(* missed finds the latest data on the disk (CallsFresh), however many     *)
(* reads, writes and flushes, with or without failures, run at once.       *)
(*                                                                         *)
(* The two conversions of a time stamp are inverse (StampRoundTrip).  Both *)
(* loops of the first are compared with a closed form: the days before a   *)
(* year and before a month.                                                *)
(***************************************************************************)
EXTENDS HashMap, Ext2Cache, FatTime, NatLemmas, TLAPS, FiniteSetTheorems, FunctionTheorems

-----------------------------------------------------------------------------
(* The hash table                                                           *)

\* The records of a node and of a call.
HNodes == [key : HKeys, val : HVals, bucket : Nat]
HCalls == [pc : {"idle", "lock", "missed", "found"}, op : {"none", "insert", "absent", "lookup", "delete"},
           key : HKeys \cup {0}, val : HVals \cup {0}, index : Nat]

\* The types of the state of the table.
HTypeOK ==
  /\ nodes \in SUBSET HNodes /\ IsFiniteSet(nodes)
  /\ hsize \in Nat /\ hcount \in Nat
  /\ hreq \in [HUsers -> HCalls]

\* Serial: at most one call is under way.
OneCall == \A u, w \in HUsers : hreq[u].pc # "idle" /\ hreq[w].pc # "idle" => u = w

\* A call that waits for ht->lock has a key and a value.
CallsTyped == \A u \in HUsers : hreq[u].pc = "lock" => hreq[u].key \in HKeys /\ hreq[u].val \in HVals

\* A call that waits for ht->lock has computed its bucket from the size the
\* table still has.
Fresh(u) == hreq[u].index = hreq[u].key % hsize
IndexFresh == \A u \in HUsers : hreq[u].pc = "lock" => Fresh(u)

\* The table before any call is overtaken.
HSound ==
  /\ HTypeOK /\ CallsTyped /\ (Serial => OneCall /\ IndexFresh)
  /\ KeysOnce /\ NodesPlaced /\ HCountExact

\* The inductive invariant of the hash table.
HInv == overtaken \in BOOLEAN /\ (overtaken => ~Serial) /\ (~overtaken => HSound)

\* hash_table_resize() neither loses nor doubles a node, and puts each one
\* where its hash belongs: the map from old to new nodes is a bijection because
\* the keys are distinct.
LEMMA RehashCount ==
  ASSUME NEW ns \in SUBSET HNodes, IsFiniteSet(ns), \A m, n \in ns : m.key = n.key => m = n,
      NEW size \in Nat \ {0}
  PROVE  /\ Rehashed(ns, size) \in SUBSET HNodes /\ IsFiniteSet(Rehashed(ns, size))
         /\ Cardinality(Rehashed(ns, size)) = Cardinality(ns)
         /\ \A m, n \in Rehashed(ns, size) : m.key = n.key => m = n
         /\ \A n \in Rehashed(ns, size) : n.bucket = n.key % size
         /\ \A n \in Rehashed(ns, size) : \E m \in ns : m.key = n.key
<1> DEFINE R == Rehashed(ns, size)
           moved(n) == [key |-> n.key, val |-> n.val, bucket |-> n.key % size]
           F == [n \in ns |-> moved(n)]
<1>1. \A n \in ns : n.key \in Nat /\ n.key \in HKeys /\ n.val \in HVals /\ n.key % size \in Nat
  <2> SUFFICES ASSUME NEW n \in ns PROVE n.key \in Nat /\ n.key \in HKeys /\ n.val \in HVals
      /\ n.key % size \in Nat
    OBVIOUS
  <2>1. n.key \in Nat /\ n.key \in HKeys /\ n.val \in HVals
    BY HashMapAssumption DEF HNodes
  <2>2. \A k \in Nat : k % size \in Nat
    OBVIOUS
  <2> QED BY <2>1, <2>2
<1>2. R \in SUBSET HNodes
  BY <1>1 DEF Rehashed, HNodes
<1>3. F \in [ns -> R] /\ \A t \in R : \E n \in ns : F[n] = t
  BY DEF Rehashed
<1>4. \A m, n \in ns : F[m] = F[n] => m = n
  <2>1. \A m, n \in ns : moved(m) = moved(n) => m.key = n.key
    OBVIOUS
  <2> QED BY <2>1
<1> HIDE DEF F
<1>5. F \in Bijection(ns, R)
  BY <1>3, <1>4, Fun_IsBij
<1>6. ExistsBijection(ns, R)
  BY <1>5, Zenon DEF ExistsBijection
<1>7. IsFiniteSet(R) /\ Cardinality(R) = Cardinality(ns)
  BY <1>6, FS_Bijection
<1>8. \A m, n \in R : m.key = n.key => m = n
  <2> SUFFICES ASSUME NEW m \in R, NEW n \in R, m.key = n.key PROVE m = n
    OBVIOUS
  <2>1. PICK a \in ns : m = moved(a)
    BY DEF Rehashed
  <2>2. PICK b \in ns : n = moved(b)
    BY DEF Rehashed
  <2>3. a.key = b.key
    BY <2>1, <2>2
  <2> QED BY <2>1, <2>2, <2>3
<1>9. \A n \in R : n.bucket = n.key % size
  BY DEF Rehashed
<1>10. \A n \in R : \E m \in ns : m.key = n.key
  BY DEF Rehashed
<1> QED BY <1>2, <1>7, <1>8, <1>9, <1>10

\* A set of nodes in which every key occurs once, in its bucket.
Placed(ns, size) ==
  /\ ns \in SUBSET HNodes /\ IsFiniteSet(ns) /\ size \in Nat /\ size >= MinSize
  /\ \A m, n \in ns : m.key = n.key => m = n
  /\ \A n \in ns : n.bucket = n.key % size

\* A resize, done or given up for want of memory, keeps the nodes placed, their
\* number and their keys.
LEMMA ResizeSound ==
  ASSUME NEW ns, Placed(ns, hsize), NEW size, NEW g \in Resized(ns, size)
  PROVE  /\ Placed(g.nodes, g.size) /\ Cardinality(g.nodes) = Cardinality(ns)
         /\ \A n \in g.nodes : \E m \in ns : m.key = n.key
<1>1. CASE g = [nodes |-> ns, size |-> hsize]
  BY <1>1
<1>2. CASE \E s \in {size} \cap (MinSize..MaxSize) : g = [nodes |-> Rehashed(ns, s), size |-> s]
  <2>1. PICK s \in MinSize..MaxSize : g = [nodes |-> Rehashed(ns, s), size |-> s]
    BY <1>2
  <2>2. s \in Nat \ {0} /\ s >= MinSize
    BY <2>1, HashMapAssumption
  <2>3. /\ Rehashed(ns, s) \in SUBSET HNodes /\ IsFiniteSet(Rehashed(ns, s))
        /\ Cardinality(Rehashed(ns, s)) = Cardinality(ns)
        /\ \A m, n \in Rehashed(ns, s) : m.key = n.key => m = n
        /\ \A n \in Rehashed(ns, s) : n.bucket = n.key % s
        /\ \A n \in Rehashed(ns, s) : \E m \in ns : m.key = n.key
    BY <2>2, RehashCount DEF Placed
  <2>4. Placed(Rehashed(ns, s), s)
    BY <2>2, <2>3 DEF Placed
  <2>5. g.nodes = Rehashed(ns, s) /\ g.size = s
    BY <2>1
  <2> QED BY <2>3, <2>4, <2>5
<1> QED BY <1>1, <1>2 DEF Resized

\* The same of the resize of an insertion, which is only tried above the load
\* factor.
LEMMA GrownSound ==
  ASSUME Placed(nodes, hsize), NEW g \in Grown
  PROVE  /\ Placed(g.nodes, g.size) /\ Cardinality(g.nodes) = Cardinality(nodes)
         /\ \A n \in g.nodes : \E m \in nodes : m.key = n.key
         /\ ~Overloaded => g.size = hsize
<1>1. CASE Overloaded
  BY <1>1, ResizeSound DEF Grown
<1>2. CASE ~Overloaded
  BY <1>2 DEF Grown
<1> QED BY <1>1, <1>2

\* What a return leaves of the calls.
LEMMA AfterReturn ==
  ASSUME HSound, NEW u \in HUsers, hreq[u].pc # "idle", HReturn(u)
  PROVE  /\ hreq' \in [HUsers -> HCalls] /\ CallsTyped'
         /\ Serial => OneCall' /\ IndexFresh'
<1>1. HNone \in HCalls /\ HNone.pc = "idle"
  BY DEF HNone, HCalls
<1>2. hreq' \in [HUsers -> HCalls] /\ hreq'[u] = HNone /\ \A w \in HUsers : w # u => hreq'[w] = hreq[w]
  BY <1>1 DEF HReturn, HSound, HTypeOK
<1>3. CallsTyped'
  BY <1>1, <1>2 DEF HSound, CallsTyped
<1>4. ASSUME Serial PROVE OneCall' /\ IndexFresh'
  <2>1. \A w \in HUsers : w # u => hreq[w].pc = "idle"
    BY <1>4 DEF HSound, OneCall
  <2>2. \A w \in HUsers : hreq'[w].pc = "idle"
    BY <1>1, <1>2, <2>1
  <2> QED BY <2>2 DEF OneCall, IndexFresh
<1> QED BY <1>2, <1>3, <1>4

\* The search of one bucket finds exactly the nodes with the key.
LEMMA HolderSees ==
  ASSUME HSound, NEW u \in HUsers, hreq[u].pc = "lock", Fresh(u)
  PROVE  /\ hreq[u].key \in HKeys /\ hreq[u].val \in HVals /\ hreq[u].index = hreq[u].key % hsize
         /\ Matching(hreq[u].key, hreq[u].index) = {n \in nodes : n.key = hreq[u].key}
BY DEF HSound, CallsTyped, Fresh, NodesPlaced, Matching

\* The calls that change the table leave every node in its place and the count
\* exact.
LEMMA TableSteps ==
  ASSUME HSound, NEW u \in HUsers, Fresh(u),
         InsertPresent(u) \/ InsertAbsent(u) \/ InsertNoMemory(u) \/ DeleteFound(u) \/ DeleteMissing(u)
  PROVE  Placed(nodes', hsize') /\ hcount' = Cardinality(nodes') /\ HReturn(u) /\ hreq[u].pc = "lock"
<1>0. hreq[u].pc = "lock" /\ HReturn(u)
  BY Zenon DEF InsertPresent, InsertAbsent, InsertNoMemory, DeleteFound, DeleteMissing, HLocked
<1>1. Placed(nodes, hsize) /\ hcount = Cardinality(nodes) /\ hcount \in Nat
  BY DEF HSound, HTypeOK, KeysOnce, NodesPlaced, HCountExact, Placed
<1>2. PICK r : r = hreq[u] /\ r.key \in HKeys /\ r.val \in HVals /\ r.index = r.key % hsize
               /\ Matching(r.key, r.index) = {n \in nodes : n.key = r.key}
  BY <1>0, HolderSees
<1>3. CASE InsertPresent(u)
  <2>1. PICK n \in nodes : /\ n.key = r.key /\ hsize' = hsize /\ hcount' = hcount
                           /\ nodes' = IF r.op = "insert" THEN (nodes \ {n}) \cup {[key |-> n.key,
                              val |-> r.val, bucket |-> n.bucket]} ELSE nodes
    BY <1>2, <1>3 DEF InsertPresent
  <2>2. CASE nodes' = nodes
    BY <1>0, <1>1, <2>1, <2>2
  <2>3. CASE nodes' = (nodes \ {n}) \cup {[key |-> n.key, val |-> r.val, bucket |-> n.bucket]}
    <3>1. PICK x : x = [key |-> n.key, val |-> r.val, bucket |-> n.bucket]
      OBVIOUS
    <3>2. x \in HNodes /\ x.key = n.key /\ x.bucket = n.bucket
      BY <1>1, <1>2, <3>1 DEF Placed, HNodes
    <3>3. \A m \in nodes \ {n} : m.key # x.key
      BY <1>1, <3>2 DEF Placed
    <3>4. IsFiniteSet(nodes \ {n}) /\ Cardinality(nodes \ {n}) = Cardinality(nodes) - 1
      BY <1>1, FS_RemoveElement DEF Placed
    <3>5. x \notin nodes \ {n}
      BY <3>3
    <3>6. IsFiniteSet(nodes') /\ Cardinality(nodes') = Cardinality(nodes \ {n}) + 1
      BY <2>3, <3>1, <3>4, <3>5, FS_AddElement
    <3>7. Cardinality(nodes') = Cardinality(nodes)
      BY <1>1, <3>4, <3>6
    <3>8. Placed(nodes', hsize')
      BY <1>1, <2>1, <2>3, <3>1, <3>2, <3>3, <3>6 DEF Placed
    <3> QED BY <1>0, <1>1, <2>1, <3>7, <3>8
  <2> QED BY <2>1, <2>2, <2>3
<1>4. CASE InsertAbsent(u)
  <2>1. PICK g \in Grown : /\ nodes' = g.nodes \cup {[key |-> r.key, val |-> r.val, bucket |-> LinkBucket(r, g.size)]}
                           /\ hsize' = g.size /\ hcount' = hcount + 1
    BY <1>2, <1>4 DEF InsertAbsent
  <2>2. \A n \in nodes : n.key # r.key
    BY <1>2, <1>4 DEF InsertAbsent
  <2>3. Placed(g.nodes, g.size) /\ Cardinality(g.nodes) = Cardinality(nodes)
        /\ (\A n \in g.nodes : n.key # r.key)
        /\ (~Overloaded => g.size = hsize)
    BY <1>1, <2>2, GrownSound
  <2>4. LinkBucket(r, g.size) = r.key % g.size
    BY <1>2, <2>3 DEF LinkBucket
  <2>5. r.key % g.size \in Nat
    <3>1. r.key \in Nat
      BY <1>2, HashMapAssumption
    <3>2. g.size \in Nat /\ g.size >= MinSize
      BY <2>3 DEF Placed
    <3>3. \A a, b \in Nat : b >= MinSize => a % b \in Nat
      BY HashMapAssumption
    <3> QED BY <3>1, <3>2, <3>3
  <2>6. PICK x : x = [key |-> r.key, val |-> r.val, bucket |-> r.key % g.size]
    OBVIOUS
  <2>7. x \in HNodes /\ x.key = r.key /\ x.bucket = r.key % g.size
    BY <1>2, <2>5, <2>6 DEF HNodes
  <2>8. nodes' = g.nodes \cup {x} /\ x \notin g.nodes
    BY <2>1, <2>3, <2>4, <2>6, <2>7
  <2>9. IsFiniteSet(nodes') /\ Cardinality(nodes') = Cardinality(g.nodes) + 1
    BY <2>3, <2>8, FS_AddElement DEF Placed
  <2>10. Placed(nodes', hsize')
    BY <2>1, <2>3, <2>7, <2>8, <2>9 DEF Placed
  <2> QED BY <1>0, <1>1, <2>1, <2>3, <2>9, <2>10
<1>5. CASE InsertNoMemory(u)
  <2>1. PICK g \in Grown : nodes' = g.nodes /\ hsize' = g.size /\ hcount' = hcount
    BY <1>5 DEF InsertNoMemory
  <2> QED BY <1>0, <1>1, <2>1, GrownSound
<1>6. CASE DeleteFound(u)
  <2>1. PICK n \in nodes : \E g : /\ nodes' = g.nodes /\ hsize' = g.size /\ hcount' = hcount - 1
                                  /\ g \in Resized(nodes \ {n},
                                     hsize \div 2) \/ g = [nodes |-> nodes \ {n}, size |-> hsize]
    BY <1>2, <1>6 DEF DeleteFound
  <2>2. IsFiniteSet(nodes \ {n}) /\ Cardinality(nodes \ {n}) = Cardinality(nodes) - 1
    BY <1>1, FS_RemoveElement DEF Placed
  <2>3. Placed(nodes \ {n}, hsize)
    BY <1>1, <2>2 DEF Placed
  <2>4. PICK g : /\ nodes' = g.nodes /\ hsize' = g.size
                 /\ g \in Resized(nodes \ {n}, hsize \div 2) \/ g = [nodes |-> nodes \ {n}, size |-> hsize]
    BY <2>1
  <2>5. Placed(g.nodes, g.size) /\ Cardinality(g.nodes) = Cardinality(nodes \ {n})
    <3>1. CASE g \in Resized(nodes \ {n}, hsize \div 2)
      BY <2>3, <3>1, ResizeSound
    <3>2. CASE g = [nodes |-> nodes \ {n}, size |-> hsize]
      BY <2>3, <3>2
    <3> QED BY <2>4, <3>1, <3>2
  <2> QED BY <1>0, <1>1, <2>1, <2>2, <2>4, <2>5
<1>7. CASE DeleteMissing(u)
  BY <1>0, <1>1, <1>7 DEF DeleteMissing
<1> QED BY <1>3, <1>4, <1>5, <1>6, <1>7

\* Every step of the table preserves HInv.
LEMMA HStep == HInv /\ [HNext]_hVars => HInv'
<1> SUFFICES ASSUME HInv, [HNext]_hVars PROVE HInv'
  OBVIOUS
<1>0. ASSUME HNext PROVE HSound /\ ~overtaken
  BY <1>0 DEF HNext, HInv
<1>1. ASSUME HSound, ~overtaken,
             NEW u \in HUsers, NEW op \in {"insert", "absent", "lookup", "delete"}, NEW k \in HKeys,
             NEW v \in HVals, HBegin(u, op, k, v)
      PROVE  HInv'
  <2>1. k % hsize \in Nat
    <3>1. k \in Nat /\ hsize \in Nat /\ hsize > 0
      BY <1>1, HashMapAssumption DEF HSound, HTypeOK, HCountExact
    <3> QED BY <3>1
  <2>2. PICK x : x = [pc |-> "lock", op |-> op, key |-> k, val |-> v, index |-> k % hsize]
    OBVIOUS
  <2>3. x \in HCalls
    BY <2>1, <2>2 DEF HCalls
  <2>4. hreq' = [hreq EXCEPT ![u] = x] /\ UNCHANGED <<nodes, hsize, hcount, overtaken>>
        /\ (Serial => \A w \in HUsers : hreq[w].pc = "idle")
    BY <1>1, <2>2 DEF HBegin
  <2>5. HTypeOK' /\ hreq'[u] = x /\ \A w \in HUsers : w # u => hreq'[w] = hreq[w]
    BY <1>1, <2>3, <2>4 DEF HSound, HTypeOK
  <2>6. CallsTyped'
    BY <1>1, <2>2, <2>4, <2>5 DEF HSound, CallsTyped
  <2>7. Serial => OneCall' /\ IndexFresh'
    BY <2>2, <2>4, <2>5 DEF OneCall, IndexFresh, Fresh
  <2>8. (KeysOnce /\ NodesPlaced /\ HCountExact)'
    BY <1>1, <2>4 DEF HSound, KeysOnce, NodesPlaced, HCountExact
  <2>9. overtaken' \in BOOLEAN /\ ~overtaken'
    BY <1>1, <2>4 DEF HInv
  <2> QED BY <2>5, <2>6, <2>7, <2>8, <2>9 DEF HInv, HSound
<1>2. ASSUME HSound, ~overtaken, NEW u \in HUsers, NEW ops, HLocked(u, ops), ~Fresh(u)
      PROVE  HInv'
  <2>1. overtaken' = TRUE /\ hreq[u].pc = "lock"
    BY <1>2 DEF HLocked, Fresh
  <2>2. ~Serial
    BY <1>2, <2>1 DEF HSound, IndexFresh
  <2> QED BY <2>1, <2>2 DEF HInv
<1>3. ASSUME HSound, ~overtaken, NEW u \in HUsers,
             InsertPresent(u) \/ InsertAbsent(u) \/ InsertNoMemory(u) \/ DeleteFound(u) \/ DeleteMissing(u)
      PROVE  HInv'
  <2>1. \E ops : HLocked(u, ops)
    BY <1>3, Zenon DEF InsertPresent, InsertAbsent, InsertNoMemory, DeleteFound, DeleteMissing
  <2>2. CASE ~Fresh(u)
    BY <1>2, <1>3, <2>1, <2>2
  <2>3. CASE Fresh(u)
    <3>1. Placed(nodes', hsize') /\ hcount' = Cardinality(nodes') /\ HReturn(u) /\ hreq[u].pc = "lock"
      BY <1>3, <2>3, TableSteps
    <3>2. hreq' \in [HUsers -> HCalls] /\ CallsTyped' /\ (Serial => OneCall' /\ IndexFresh')
      BY <1>3, <3>1, AfterReturn
    <3>3. HTypeOK'
      BY <3>1, <3>2, FS_CardinalityType DEF Placed, HTypeOK
    <3>4. (KeysOnce /\ NodesPlaced /\ HCountExact)'
      BY <3>1 DEF Placed, KeysOnce, NodesPlaced, HCountExact
    <3>5. overtaken' = FALSE
      BY <2>1, <2>3 DEF HLocked, Fresh
    <3> QED BY <3>2, <3>3, <3>4, <3>5 DEF HInv, HSound
  <2> QED BY <2>2, <2>3
<1>4. ASSUME HSound, ~overtaken, NEW u \in HUsers, HLookup(u) PROVE HInv'
  <2>0. CASE ~Fresh(u)
    BY <1>2, <1>4, <2>0 DEF HLookup
  <2>1. PICK p \in {"missed", "found"} :
          hreq' = [hreq EXCEPT ![u] = [pc |-> p, op |-> hreq[u].op, key |-> hreq[u].key,
              val |-> hreq[u].val, index |-> hreq[u].index]]
    BY <1>4 DEF HLookup
  <2>2. UNCHANGED <<nodes, hsize, hcount>> /\ hreq[u].pc = "lock"
    BY <1>4 DEF HLookup, HLocked
  <2>3. PICK x \in HCalls : x = [pc |-> p, op |-> hreq[u].op, key |-> hreq[u].key, val |-> hreq[u].val,
        index |-> hreq[u].index]
    BY <1>4 DEF HSound, HTypeOK, HCalls
  <2>4. hreq' = [hreq EXCEPT ![u] = x] /\ x.pc = p
    BY <2>1, <2>3
  <2>5. HTypeOK' /\ hreq'[u].pc = p /\ \A w \in HUsers : w # u => hreq'[w] = hreq[w]
    BY <1>4, <2>2, <2>4 DEF HSound, HTypeOK
  <2>6. CallsTyped' /\ (Serial => OneCall' /\ IndexFresh')
    BY <1>4, <2>2, <2>5 DEF HSound, OneCall, CallsTyped, IndexFresh, Fresh
  <2>7. (KeysOnce /\ NodesPlaced /\ HCountExact)'
    BY <1>4, <2>2 DEF HSound, KeysOnce, NodesPlaced, HCountExact
  <2>8. CASE Fresh(u)
    <3>1. overtaken' = FALSE
      BY <1>4, <2>8 DEF HLookup, HLocked, Fresh
    <3> QED BY <2>5, <2>6, <2>7, <3>1 DEF HInv, HSound
  <2> QED BY <2>0, <2>8
<1>5. ASSUME HSound, ~overtaken, NEW u \in HUsers, HLookedUp(u) PROVE HInv'
  <2>1. UNCHANGED <<nodes, hsize, hcount, overtaken>> /\ hreq[u].pc # "idle" /\ HReturn(u)
    BY <1>5 DEF HLookedUp
  <2>2. hreq' \in [HUsers -> HCalls] /\ CallsTyped' /\ (Serial => OneCall' /\ IndexFresh')
    BY <1>5, <2>1, AfterReturn
  <2>3. HTypeOK' /\ (KeysOnce /\ NodesPlaced /\ HCountExact)'
    BY <1>5, <2>1, <2>2 DEF HSound, HTypeOK, KeysOnce, NodesPlaced, HCountExact
  <2> QED BY <1>5, <2>1, <2>2, <2>3 DEF HInv, HSound
<1>6. CASE UNCHANGED hVars
  BY <1>6 DEF hVars, HInv, HSound, HTypeOK, OneCall, CallsTyped, IndexFresh, Fresh, KeysOnce, NodesPlaced, HCountExact
<1> QED BY <1>0, <1>1, <1>3, <1>4, <1>5, <1>6 DEF HNext

\* For any number of users, keys and sizes and every interleaving of their calls:
\* until a call enters its critical section with the bucket of another size, no
\* key occurs twice in the table, every node is in the bucket a search looks into,
\* and ht->count is exact, through growing, shrinking and resizes that fail for
\* want of memory; and with a lock around the calls, as the inode cache has, no
\* call is ever overtaken.
THEOREM TableSoundHolds == HSpec => []TableSound
<1>1. HInit => HInv
  <2> SUFFICES ASSUME HInit PROVE HInv
    OBVIOUS
  <2>1. HNone \in HCalls /\ HNone.pc = "idle"
    BY DEF HNone, HCalls
  <2>2. HTypeOK
    BY <2>1, FS_EmptySet, HashMapAssumption DEF HInit, HTypeOK
  <2>3. OneCall /\ IndexFresh /\ CallsTyped
    BY <2>1 DEF HInit, OneCall, IndexFresh, CallsTyped
  <2>4. KeysOnce /\ NodesPlaced /\ HCountExact
    BY FS_EmptySet, HashMapAssumption DEF HInit, KeysOnce, NodesPlaced, HCountExact
  <2>5. overtaken = FALSE
    BY DEF HInit
  <2> QED BY <2>2, <2>3, <2>4, <2>5 DEF HInv, HSound
<1>2. HInv /\ [HNext]_hVars => HInv'
  BY HStep
<1>3. HInv => TableSound
  BY DEF HInv, HSound, TableSound
<1> QED BY <1>1, <1>2, <1>3, PTL DEF HSpec

-----------------------------------------------------------------------------
(* The block cache of ext2                                                  *)

\* The places of a call, the records of an entry and of a call.
CPoints == {"idle", "flush", "flushing", "read", "readcopy", "write", "writecopy", "writegone",
            "writefill", "writeold"} \cup Missed
CEntries == [data : Data, dirty : BOOLEAN, here : BOOLEAN]
CCalls == [pc : CPoints, blk : Blks, data : Data, ents : SUBSET {<<b>> : b \in Blks}]

\* The types of the state of the cache.  In particular a flush never holds an
\* entry that was taken out of the table.
CTypeOK ==
  /\ platter \in [Blks -> Data] /\ latest \in [Blks -> Data]
  /\ cached \in [Blks -> CEntries]
  /\ creq \in [CUsers -> CCalls]
  /\ faults \in Nat /\ seen \in [CUsers -> BOOLEAN]

\* Some flush has collected block b and not written it yet.
Held(b) == \E u \in CUsers : <<b>> \in creq[u].ents

\* An entry holds the latest data; and data that is not on the disk is in an
\* entry that is dirty or held by a flush.
EntriesLatest ==
  \A b \in Blks :
    /\ cached[b].here => cached[b].data = latest[b]
    /\ ~cached[b].here => ~cached[b].dirty /\ ~Held(b) /\ platter[b] = latest[b]
    /\ cached[b].dirty \/ Held(b) \/ platter[b] = latest[b]

\* The disk has the latest data of b and nothing is on its way there.
CleanBelow(b) == ~cached[b].dirty /\ ~Held(b) /\ platter[b] = latest[b]

\* Place p, with data d, fits the state of block b: a copy still finds its entry;
\* a read that has missed finds, or has found, the latest data on the disk.
Fits(p, b, d) ==
  /\ p \in {"readcopy", "writecopy"} => cached[b].here
  /\ p \in Missed => CleanBelow(b)
  /\ p \in {"readfill", "readdelete", "readinsert", "readgone"} => d = latest[b]

CallsFresh ==
  \A u \in CUsers :
    /\ creq[u].pc # "flushing" => creq[u].ents = {}
    /\ Fits(creq[u].pc, creq[u].blk, creq[u].data)

\* The cache before a write is lost, and the inductive invariant.
CSafe == CTypeOK /\ EntriesLatest /\ CallsFresh /\ ReadsLatest
CInv == lapsed \in BOOLEAN /\ (~lapsed => CSafe)

\* The record of a user that is in no call.
LEMMA CIdleType ==
  /\ CIdle \in CCalls /\ CIdle.pc = "idle" /\ CIdle.ents = {} /\ CIdle.blk \in Blks
  /\ \A b \in Blks, d \in Data : Fits("idle", b, d)
<1>1. (CHOOSE b \in Blks : TRUE) \in Blks
  BY Ext2CacheAssumption
<1> DEFINE c == CHOOSE b \in Blks : TRUE
<1>2. CIdle = Call("idle", c, Blank, {})
  BY DEF CIdle
<1>3. \A b \in Blks, d \in Data : Fits("idle", b, d)
  BY DEF Fits, Missed
<1> HIDE DEF c
<1> QED BY <1>1, <1>2, <1>3, Ext2CacheAssumption DEF c, CCalls, CPoints, Call

\* ext2_cache_init() establishes the invariant.
LEMMA CInitInv == CInit => CInv
<1> SUFFICES ASSUME CInit PROVE CSafe /\ lapsed = FALSE
  BY DEF CInv
<1> USE DEF CInit
<1>1. \A u \in CUsers : creq[u] = CIdle
  OBVIOUS
<1>2. CTypeOK
  BY CIdleType, Ext2CacheAssumption DEF CTypeOK, CEntries, NoEntry
<1>3. EntriesLatest
  BY <1>1, CIdleType DEF EntriesLatest, NoEntry, Held
<1>4. CIdle.data \in Data
  BY CIdleType DEF CCalls
<1>5. CallsFresh
  BY <1>1, <1>4, CIdleType DEF CallsFresh
<1>6. ReadsLatest
  BY DEF ReadsLatest
<1> QED BY <1>2, <1>3, <1>5, <1>6 DEF CSafe

\* The fields of the call of u.
LEMMA CFields ==
  ASSUME CSafe, NEW u \in CUsers
  PROVE  /\ creq[u].pc \in CPoints /\ creq[u].blk \in Blks /\ creq[u].data \in Data
         /\ creq[u].ents \in SUBSET {<<b>> : b \in Blks}
         /\ cached[creq[u].blk] \in CEntries
         /\ platter[creq[u].blk] \in Data
         /\ Fits(creq[u].pc, creq[u].blk, creq[u].data)
         /\ creq[u].pc # "flushing" => creq[u].ents = {}
  BY DEF CSafe, CTypeOK, CCalls, CallsFresh

\* A step that changes nothing but the call of one user preserves the invariant,
\* if the new place of the call fits the state of its block.
LEMMA CMove ==
  ASSUME CSafe, NEW u \in CUsers, NEW c \in CCalls,
         creq' = [creq EXCEPT ![u] = c], creq[u].ents = {}, c.ents = {},
         UNCHANGED <<platter, cached, latest>>,
         Fits(c.pc, c.blk, c.data),
         seen' \in [CUsers -> BOOLEAN], \A w \in CUsers : seen'[w],
         faults' \in Nat
  PROVE  CSafe'
<1> USE DEF CSafe
<1>1. CTypeOK'
  BY DEF CTypeOK
<1>2. creq'[u] = c /\ \A w \in CUsers \ {u} : creq'[w] = creq[w]
  BY DEF CTypeOK
<1>3. \A b \in Blks : Held(b)' <=> Held(b)
  BY <1>2 DEF Held
<1>5. EntriesLatest'
  BY <1>3 DEF EntriesLatest
<1>6. c.blk \in Blks /\ \A w \in CUsers : creq[w].blk \in Blks
  BY DEF CTypeOK, CCalls
<1>7. \A b \in Blks : CleanBelow(b)' <=> CleanBelow(b)
  BY <1>3 DEF CleanBelow
<1>8. ASSUME NEW w \in CUsers
      PROVE  (creq[w].pc # "flushing" => creq[w].ents = {})' /\ Fits(creq[w].pc, creq[w].blk, creq[w].data)'
  <2>1. CASE w = u
    BY <1>2, <1>6, <1>7, <2>1 DEF Fits
  <2>2. CASE w # u
    <3>1. (creq[w].pc # "flushing" => creq[w].ents = {}) /\ Fits(creq[w].pc, creq[w].blk, creq[w].data)
      BY DEF CallsFresh
    <3> QED BY <1>2, <1>6, <1>7, <2>2, <3>1 DEF Fits
  <2> QED BY <2>1, <2>2
<1>9. CallsFresh'
  BY <1>8 DEF CallsFresh
<1>10. ReadsLatest'
  BY DEF ReadsLatest
<1> QED BY <1>1, <1>5, <1>9, <1>10

\* A call begins.
LEMMA CBeginStep ==
  ASSUME CSafe, NEW u \in CUsers, NEW p \in {"read", "write", "flush"}, NEW b \in Blks,
         NEW d \in Data, CacheBegin(u, p, b, d)
  PROVE  CSafe' /\ UNCHANGED lapsed
<1> DEFINE c == Call(p, b, d, {})
<1>1. c \in CCalls /\ c.pc = p /\ c.blk = b /\ c.ents = {}
  BY DEF Call, CCalls, CPoints
<1>2. creq' = [creq EXCEPT ![u] = c] /\ UNCHANGED <<platter, cached, faults, latest, seen, lapsed>>
  BY DEF CacheBegin
<1>3. creq[u].ents = {}
  BY CFields DEF CacheBegin, CAt
<1> HIDE DEF c
<1>4. Fits(c.pc, c.blk, c.data)
  BY <1>1 DEF Fits, Missed
<1>5. seen' \in [CUsers -> BOOLEAN] /\ (\A w \in CUsers : seen'[w]) /\ faults' \in Nat
  BY <1>2 DEF CSafe, CTypeOK, ReadsLatest
<1> QED BY <1>1, <1>2, <1>3, <1>4, <1>5, CMove

\* A call returns and has changed nothing.
LEMMA CReturnStep ==
  ASSUME CSafe, NEW u \in CUsers, creq[u].ents = {}, CDone(u),
         UNCHANGED <<platter, cached, latest>>, faults' \in Nat,
         UNCHANGED seen \/ seen' = [seen EXCEPT ![u] = TRUE]
  PROVE  CSafe'
<1>1. creq' = [creq EXCEPT ![u] = CIdle]
  BY DEF CDone
<1>2. Fits(CIdle.pc, CIdle.blk, CIdle.data)
  BY CIdleType DEF CCalls
<1>3. seen' \in [CUsers -> BOOLEAN] /\ (\A w \in CUsers : seen'[w])
  BY DEF CSafe, CTypeOK, ReadsLatest
<1> HIDE DEF CIdle
<1> QED BY <1>1, <1>2, <1>3, CIdleType, CMove

\* A failure is counted.
LEMMA CFaultNat ==
  ASSUME CSafe, Fault \/ UNCHANGED faults
  PROVE  faults' \in Nat
  BY DEF CSafe, CTypeOK, Fault

\* The call of u moves on to place p, about the same block.
LEMMA CGoStep ==
  ASSUME CSafe, NEW u \in CUsers, NEW p \in CPoints, NEW d \in Data, creq[u].pc # "flushing",
         Fits(p, creq[u].blk, d), CGo(u, p, d),
         UNCHANGED <<platter, cached, latest, seen>>, Fault \/ UNCHANGED faults
  PROVE  CSafe'
<1> DEFINE c == Call(p, creq[u].blk, d, creq[u].ents)
<1>1. creq[u].ents = {}
  BY CFields
<1>2. c \in CCalls /\ c.pc = p /\ c.blk = creq[u].blk /\ c.ents = {} /\ c.data = d
  BY <1>1, CFields DEF Call, CCalls
<1>3. creq' = [creq EXCEPT ![u] = c]
  BY DEF CGo
<1>4. seen' \in [CUsers -> BOOLEAN] /\ (\A w \in CUsers : seen'[w])
  BY DEF CSafe, CTypeOK, ReadsLatest
<1> HIDE DEF c
<1>5. Fits(c.pc, c.blk, c.data)
  BY <1>2
<1> QED BY <1>1, <1>2, <1>3, <1>4, <1>5, CFaultNat, CMove

\* ext2_read_block(): the search of the table, ...
LEMMA CReadLookupStep ==
  ASSUME CSafe, NEW u \in CUsers, ReadLookup(u)
  PROVE  CSafe' /\ UNCHANGED lapsed
<1> DEFINE b == creq[u].blk
<1>1. creq[u].pc = "read" /\ UNCHANGED <<platter, cached, faults, latest, seen, lapsed>>
  BY DEF ReadLookup, CAt
<1>2. b \in Blks /\ creq[u].data \in Data
  BY CFields
<1>3. CASE cached[b].here
  <2>1. CGo(u, "readcopy", creq[u].data)
    BY <1>3 DEF ReadLookup
  <2>2. Fits("readcopy", b, creq[u].data) /\ "readcopy" \in CPoints
    BY <1>3 DEF Fits, Missed, CPoints
  <2> QED BY <1>1, <1>2, <2>1, <2>2, CGoStep
<1>4. CASE ~cached[b].here
  <2>1. CGo(u, "readdisk", creq[u].data)
    BY <1>4 DEF ReadLookup
  <2>2. CleanBelow(b)
    BY <1>2, <1>4 DEF CSafe, EntriesLatest, CleanBelow
  <2>3. Fits("readdisk", b, creq[u].data) /\ "readdisk" \in CPoints
    BY <2>2 DEF Fits, Missed, CPoints
  <2> QED BY <1>1, <1>2, <2>1, <2>3, CGoStep
<1> QED BY <1>3, <1>4

\* ... the copy from an entry, in the table or not any more, ...
LEMMA CReadCopyStep ==
  ASSUME CSafe, NEW u \in CUsers, ReadCopy(u)
  PROVE  CSafe' /\ UNCHANGED lapsed
<1> DEFINE b == creq[u].blk
<1>1. UNCHANGED <<platter, cached, faults, latest, lapsed>> /\ creq[u].pc \in {"readcopy", "readgone"}
  BY DEF ReadCopy, CAt
<1>2. b \in Blks /\ creq[u].ents = {} /\ Fits(creq[u].pc, b, creq[u].data)
  BY <1>1, CFields
<1>3. \E d : ReadReturns(u, d) /\ d = latest[b]
  <2>1. CASE creq[u].pc = "readcopy"
    <3>1. cached[b].data = latest[b] /\ ReadReturns(u, cached[b].data)
      BY <1>2, <2>1 DEF CSafe, EntriesLatest, Fits, ReadCopy, CAt
    <3> QED BY <3>1
  <2>2. CASE creq[u].pc = "readgone"
    <3>1. creq[u].data = latest[b] /\ ReadReturns(u, creq[u].data)
      BY <1>2, <2>2 DEF Fits, ReadCopy, CAt
    <3> QED BY <3>1
  <2> QED BY <1>1, <2>1, <2>2
<1>4. seen' = [seen EXCEPT ![u] = TRUE] /\ CDone(u)
  BY <1>3 DEF ReadReturns
<1> QED BY <1>1, <1>2, <1>4, CFaultNat, CReturnStep

\* ... the transfer from the disk, ...
LEMMA CReadDiskStep ==
  ASSUME CSafe, NEW u \in CUsers, ReadDisk(u)
  PROVE  CSafe' /\ UNCHANGED lapsed
<1> DEFINE b == creq[u].blk
<1>1. creq[u].pc = "readdisk" /\ UNCHANGED <<platter, cached, latest, seen, lapsed>>
  BY DEF ReadDisk, CAt
<1>2. CleanBelow(b) /\ platter[b] = latest[b] /\ platter[b] \in Data /\ creq[u].data \in Data
  BY <1>1, CFields DEF Fits, Missed, CleanBelow
<1>3. CASE CGo(u, "readfill", platter[b]) /\ UNCHANGED faults
  <2>1. Fits("readfill", b, platter[b]) /\ "readfill" \in CPoints
    BY <1>2 DEF Fits, Missed, CPoints
  <2> QED BY <1>1, <1>2, <1>3, <2>1, CGoStep
<1>4. CASE CGo(u, "readraw", creq[u].data) /\ Fault
  <2>1. Fits("readraw", b, creq[u].data) /\ "readraw" \in CPoints
    BY <1>2 DEF Fits, Missed, CPoints
  <2> QED BY <1>1, <1>2, <1>4, <2>1, CGoStep
<1> QED BY <1>3, <1>4 DEF ReadDisk

\* ... the second search, ...
LEMMA CReadCheckStep ==
  ASSUME CSafe, NEW u \in CUsers, ReadCheck(u)
  PROVE  CSafe' /\ UNCHANGED lapsed
<1> DEFINE b == creq[u].blk
<1>1. creq[u].pc = "readfill" /\ UNCHANGED <<platter, cached, faults, latest, seen, lapsed>>
  BY DEF ReadCheck, CAt
<1>2. PICK p \in {"readdelete", "readinsert"} : CGo(u, p, creq[u].data)
  BY DEF ReadCheck
<1>3. Fits(p, b, creq[u].data) /\ p \in CPoints /\ creq[u].data \in Data
  BY <1>1, CFields DEF Fits, Missed, CPoints
<1> QED BY <1>1, <1>2, <1>3, CGoStep

\* ... the fallback to the disk.
LEMMA CReadRawStep ==
  ASSUME CSafe, NEW u \in CUsers, ReadRaw(u)
  PROVE  CSafe' /\ UNCHANGED lapsed
<1>1. creq[u].pc = "readraw" /\ UNCHANGED <<platter, cached, latest, lapsed>>
  BY DEF ReadRaw, CAt
<1>2. platter[creq[u].blk] = latest[creq[u].blk] /\ creq[u].ents = {}
  BY <1>1, CFields DEF Fits, Missed, CleanBelow
<1>3. CDone(u) /\ (Fault \/ UNCHANGED faults) /\ (UNCHANGED seen \/ seen' = [seen EXCEPT ![u] = TRUE])
  BY <1>2 DEF ReadRaw, ReadReturns
<1> QED BY <1>1, <1>2, <1>3, CFaultNat, CReturnStep

\* The entry of a read leaves the table: nobody's unsaved data are in it, and a copy
\* that is under way has the latest data at hand.
LEMMA CReadDeleteStep ==
  ASSUME CSafe, NEW u \in CUsers, ReadDelete(u)
  PROVE  CSafe' /\ UNCHANGED lapsed
<1> DEFINE b == creq[u].blk
           d == creq[u].data
           x == Call("readinsert", b, d, creq[u].ents)
<1>1. creq[u].pc = "readdelete" /\ UNCHANGED <<platter, faults, latest, seen, lapsed>>
      /\ cached' = [cached EXCEPT ![b] = NoEntry]
  BY DEF ReadDelete, CAt
<1>2. b \in Blks /\ d \in Data /\ creq[u].ents = {} /\ d = latest[b] /\ CleanBelow(b)
  BY <1>1, CFields DEF Fits, Missed
<1>3. \A w \in CUsers : <<b>> \notin creq[w].ents
  BY <1>2 DEF CleanBelow, Held
<1>4. x \in CCalls /\ x.pc = "readinsert" /\ x.blk = b /\ x.data = d /\ x.ents = {}
  BY <1>2 DEF Call, CCalls, CPoints, Missed
<1>5. creq' = [w \in CUsers |-> IF w = u THEN x ELSE Detached(creq[w], b)]
  BY DEF ReadDelete
<1> HIDE DEF x
<1>6. ASSUME NEW w \in CUsers \ {u}
      PROVE  /\ creq'[w] \in CCalls /\ creq'[w].ents = creq[w].ents /\ creq'[w].blk = creq[w].blk
             /\ \/ creq'[w] = creq[w] /\ ~(creq[w].blk = b /\ creq[w].pc \in {"readcopy", "writecopy"})
                \/ creq[w].blk = b /\ creq[w].pc = "readcopy" /\ creq'[w].pc = "readgone" /\ creq'[w].data = cached[b].data
                \/ creq[w].blk = b /\ creq[w].pc = "writecopy" /\ creq'[w].pc = "writegone"
  <2>1. creq'[w] = Detached(creq[w], b) /\ creq[w] \in CCalls
    BY <1>5 DEF CSafe, CTypeOK
  <2>2. CASE creq[w].blk = b /\ creq[w].pc = "readcopy"
    <3>1. creq'[w] = Call("readgone", b, cached[b].data, creq[w].ents)
      BY <2>1, <2>2 DEF Detached
    <3>2. cached[b].data \in Data
      BY <1>2 DEF CSafe, CTypeOK, CEntries
    <3> QED BY <2>1, <2>2, <3>1, <3>2, <1>2 DEF Call, CCalls, CPoints, Missed
  <2>3. CASE creq[w].blk = b /\ creq[w].pc = "writecopy"
    <3>1. creq'[w] = Call("writegone", b, creq[w].data, creq[w].ents)
      BY <2>1, <2>3 DEF Detached
    <3> QED BY <2>1, <2>3, <3>1, <1>2 DEF Call, CCalls, CPoints
  <2>4. CASE ~(creq[w].blk = b /\ creq[w].pc \in {"readcopy", "writecopy"})
    <3>1. creq'[w] = Call(creq[w].pc, creq[w].blk, creq[w].data,
                          {IF e = <<b>> THEN <<b, cached[b].data>> ELSE e : e \in creq[w].ents})
      BY <2>1, <2>4 DEF Detached
    <3>2. {IF e = <<b>> THEN <<b, cached[b].data>> ELSE e : e \in creq[w].ents} = creq[w].ents
      BY <1>3
    <3>3. creq'[w] = creq[w]
      BY <2>1, <3>1, <3>2 DEF Call, CCalls
    <3> QED BY <2>1, <2>4, <3>3
  <2> QED BY <2>2, <2>3, <2>4
<1>7. creq'[u] = x /\ creq' = [w \in CUsers |-> creq'[w]]
  BY <1>5
<1>8. creq' \in [CUsers -> CCalls]
  BY <1>4, <1>6, <1>7
<1>9. /\ cached' \in [Blks -> CEntries]
      /\ ~cached'[b].here /\ ~cached'[b].dirty
      /\ \A a \in Blks \ {b} : cached'[a] = cached[a]
  BY <1>1, <1>2, Ext2CacheAssumption DEF CSafe, CTypeOK, CEntries, NoEntry
<1>10. \A a \in Blks : Held(a)' <=> Held(a)
  BY <1>2, <1>4, <1>6, <1>7 DEF Held
<1>11. CTypeOK'
  BY <1>1, <1>8, <1>9 DEF CSafe, CTypeOK
<1>12. EntriesLatest'
  BY <1>1, <1>2, <1>9, <1>10 DEF CSafe, EntriesLatest, CleanBelow
<1>13. \A a \in Blks : CleanBelow(a) => CleanBelow(a)'
  BY <1>1, <1>9, <1>10 DEF CleanBelow
<1>14. ASSUME NEW w \in CUsers
       PROVE  (creq[w].pc # "flushing" => creq[w].ents = {})' /\ Fits(creq[w].pc, creq[w].blk, creq[w].data)'
  <2>1. CASE w = u
    BY <1>1, <1>2, <1>4, <1>7, <1>13, <2>1 DEF Fits, Missed
  <2>2. CASE w # u
    <3>1. (creq[w].pc # "flushing" => creq[w].ents = {}) /\ Fits(creq[w].pc, creq[w].blk, creq[w].data)
          /\ creq[w].blk \in Blks
      BY CFields
    <3>2. CASE creq'[w] = creq[w] /\ ~(creq[w].blk = b /\ creq[w].pc \in {"readcopy", "writecopy"})
      BY <1>1, <1>9, <1>13, <3>1, <3>2 DEF Fits
    <3>3. CASE creq[w].blk = b /\ creq[w].pc = "readcopy" /\ creq'[w].pc = "readgone"
               /\ creq'[w].data = cached[b].data
      <4>1. cached[b].data = latest[b]
        BY <1>2, <3>1, <3>3 DEF Fits, CSafe, EntriesLatest
      <4>2. creq'[w].blk = b /\ creq'[w].ents = {}
        BY <1>6, <2>2, <3>1, <3>3
      <4> QED BY <1>1, <1>2, <1>13, <3>3, <4>1, <4>2 DEF Fits, Missed
    <3>4. CASE creq[w].blk = b /\ creq[w].pc = "writecopy" /\ creq'[w].pc = "writegone"
      <4>1. creq'[w].ents = {}
        BY <1>6, <2>2, <3>1, <3>4
      <4> QED BY <3>4, <4>1 DEF Fits, Missed
    <3> QED BY <1>6, <2>2, <3>2, <3>3, <3>4
  <2> QED BY <2>1, <2>2
<1>15. CallsFresh'
  BY <1>14 DEF CallsFresh
<1>16. ReadsLatest'
  BY <1>1 DEF CSafe, ReadsLatest
<1> QED BY <1>1, <1>11, <1>12, <1>15, <1>16 DEF CSafe

\* What is left to say of the block at its entry: unless it is dirty the disk has the
\* data, and a read that has missed has them too.
Settled(u, b, d, dirty) ==
  /\ dirty \/ (platter[b] = d /\ ~Held(b))
  /\ \A w \in CUsers \ {u} : creq[w].blk = b /\ creq[w].pc \in Missed => ~dirty /\ latest[b] = d

\* The data of the block at its entry change, and the call of u with them.
LEMMA CEntryStep ==
  ASSUME CSafe, NEW u \in CUsers, NEW c \in CCalls, NEW b \in Blks, NEW d \in Data, NEW dirty \in BOOLEAN,
         creq' = [creq EXCEPT ![u] = c], creq[u].ents = {}, c.ents = {},
         cached' = [cached EXCEPT ![b] = Entry(d, dirty)],
         latest' = [latest EXCEPT ![b] = d],
         UNCHANGED <<platter, faults, seen>>, Settled(u, b, d, dirty),
         c.pc \in {"idle", "readcopy"}, c.pc = "readcopy" => c.blk = b
  PROVE  CSafe'
<1>1. creq' \in [CUsers -> CCalls] /\ creq'[u] = c /\ \A w \in CUsers \ {u} : creq'[w] = creq[w]
  BY DEF CSafe, CTypeOK
<1>2. /\ cached' \in [Blks -> CEntries] /\ latest' \in [Blks -> Data]
      /\ cached'[b].here /\ (cached'[b].dirty <=> dirty) /\ cached'[b].data = d /\ latest'[b] = d
      /\ \A a \in Blks \ {b} : cached'[a] = cached[a] /\ latest'[a] = latest[a]
  BY DEF CSafe, CTypeOK, CEntries, Entry
<1>3. \A a \in Blks : Held(a)' <=> Held(a)
  BY <1>1 DEF Held
<1>4. CTypeOK'
  BY <1>1, <1>2 DEF CSafe, CTypeOK
<1>5. EntriesLatest'
  BY <1>2, <1>3 DEF CSafe, EntriesLatest, Settled
<1>6. ASSUME NEW w \in CUsers
      PROVE  (creq[w].pc # "flushing" => creq[w].ents = {})' /\ Fits(creq[w].pc, creq[w].blk, creq[w].data)'
  <2>1. CASE w = u
    BY <1>1, <1>2, <2>1 DEF Fits, Missed
  <2>2. CASE w # u
    <3>1. /\ creq[w].pc # "flushing" => creq[w].ents = {}
          /\ Fits(creq[w].pc, creq[w].blk, creq[w].data)
          /\ creq[w].blk \in Blks /\ creq'[w] = creq[w]
      BY <1>1, <2>2, CFields
    <3>2. CASE creq[w].blk # b
      <4>1. CleanBelow(creq[w].blk) => CleanBelow(creq[w].blk)'
        BY <1>1, <1>2, <1>3, <3>1, <3>2 DEF CleanBelow
      <4> QED BY <1>2, <3>1, <3>2, <4>1 DEF Fits
    <3>3. CASE creq[w].blk = b /\ creq[w].pc \in Missed
      <4>1. ~dirty /\ latest[b] = d
        BY <2>2, <3>3 DEF Settled
      <4>2. CleanBelow(b)'
        BY <1>2, <1>3, <4>1 DEF CleanBelow, Settled
      <4> QED BY <1>2, <3>1, <3>3, <4>1, <4>2 DEF Fits
    <3>4. CASE creq[w].blk = b /\ creq[w].pc \notin Missed
      BY <1>2, <3>1, <3>4 DEF Fits, Missed
    <3> QED BY <3>2, <3>3, <3>4
  <2> QED BY <2>1, <2>2
<1>7. CallsFresh'
  BY <1>6 DEF CallsFresh
<1>8. ReadsLatest'
  BY DEF CSafe, ReadsLatest
<1> QED BY <1>4, <1>5, <1>7, <1>8 DEF CSafe

\* A read puts its entry into the table, or falls back.
LEMMA CReadInsertStep ==
  ASSUME CSafe, NEW u \in CUsers, ReadInsert(u)
  PROVE  CSafe' /\ UNCHANGED lapsed
<1> DEFINE b == creq[u].blk
           d == creq[u].data
           x == Call("readcopy", b, d, creq[u].ents)
<1>1. creq[u].pc = "readinsert" /\ UNCHANGED <<platter, latest, seen, lapsed>>
  BY DEF ReadInsert, CAt
<1>2. b \in Blks /\ d \in Data /\ creq[u].ents = {} /\ d = latest[b] /\ CleanBelow(b)
  BY <1>1, CFields DEF Fits, Missed
<1>3. CASE /\ cached' = [cached EXCEPT ![b] = Entry(d, FALSE)]
           /\ CGo(u, "readcopy", d) /\ UNCHANGED faults
  <2>1. x \in CCalls /\ x.pc = "readcopy" /\ x.blk = b /\ x.ents = {}
    BY <1>2 DEF Call, CCalls, CPoints
  <2>2. creq' = [creq EXCEPT ![u] = x]
    BY <1>3 DEF CGo
  <2>3. latest' = [latest EXCEPT ![b] = d]
    BY <1>1, <1>2 DEF CSafe, CTypeOK
  <2>4. Settled(u, b, d, FALSE)
    BY <1>2 DEF CleanBelow, Settled
  <2> HIDE DEF x
  <2>5. CSafe'
    BY <1>1, <1>2, <1>3, <2>1, <2>2, <2>3, <2>4, CEntryStep
  <2> QED BY <1>1, <2>5
<1>4. CASE CGo(u, "readraw", d) /\ UNCHANGED cached /\ (Fault \/ UNCHANGED faults)
  <2>1. Fits("readraw", b, d) /\ "readraw" \in CPoints
    BY <1>2 DEF Fits, Missed, CPoints
  <2> QED BY <1>1, <1>2, <1>4, <2>1, CGoStep
<1> QED BY <1>3, <1>4 DEF ReadInsert, InsertFails

\* ext2_write_block(): the search.
LEMMA CWriteLookupStep ==
  ASSUME CSafe, NEW u \in CUsers, WriteLookup(u)
  PROVE  CSafe' /\ UNCHANGED lapsed
<1> DEFINE b == creq[u].blk
<1>1. creq[u].pc = "write" /\ UNCHANGED <<platter, cached, faults, latest, seen, lapsed>>
  BY DEF WriteLookup, CAt
<1>2. PICK p \in {"writecopy", "writefill"} : CGo(u, p, creq[u].data) /\ (p = "writecopy" => cached[b].here)
  BY DEF WriteLookup
<1>3. Fits(p, b, creq[u].data) /\ p \in CPoints /\ creq[u].data \in Data
  BY <1>1, <1>2, CFields DEF Fits, Missed, CPoints
<1> QED BY <1>1, <1>2, <1>3, CGoStep

\* The data of a write goes into an entry, which becomes dirty; a read that the
\* write overtakes ends the claim.
LEMMA CStoreStep ==
  ASSUME CSafe, NEW u \in CUsers, creq[u].pc \in {"writecopy", "writefill"}, WriteStored(u)
  PROVE  CInv'
<1> DEFINE b == creq[u].blk
           d == creq[u].data
<1>1. b \in Blks /\ d \in Data /\ creq[u].ents = {}
  BY CFields
<1>2. /\ cached' = [cached EXCEPT ![b] = Entry(d, TRUE)] /\ latest' = [latest EXCEPT ![b] = d]
      /\ lapsed' = Overtakes(u) /\ UNCHANGED <<platter, faults, seen>>
      /\ creq' = [creq EXCEPT ![u] = CIdle]
  BY DEF WriteStored, WriteReturns, CDone
<1>3. CASE Overtakes(u)
  <2>1. lapsed' = TRUE
    BY <1>2, <1>3 DEF Overtakes
  <2> QED BY <2>1 DEF CInv
<1>4. CASE ~Overtakes(u)
  <2>1. lapsed' = FALSE
    BY <1>2, <1>4 DEF Overtakes
  <2>2. Settled(u, b, d, TRUE)
    BY <1>4 DEF Overtakes, Settled
  <2> HIDE DEF CIdle
  <2>3. CSafe'
    BY <1>1, <1>2, <2>2, CIdleType, CEntryStep
  <2> QED BY <2>1, <2>3 DEF CInv
<1> QED BY <1>3, <1>4

\* ext2_write_block() with an entry, found or new.
LEMMA CWriteSteps ==
  ASSUME CSafe, lapsed = FALSE, NEW u \in CUsers, WriteCopy(u) \/ WriteFill(u) \/ WriteOld(u)
  PROVE  CInv'
<1> DEFINE b == creq[u].blk
           d == creq[u].data
<1>0. d \in Data
  BY CFields
<1>1. CASE creq[u].pc \in {"writecopy", "writefill"} /\ WriteStored(u)
  BY <1>1, CStoreStep
<1>2. CASE WriteReturns(u, TRUE)
  BY <1>2 DEF WriteReturns, CInv
<1>3. CASE /\ creq[u].pc = "writefill" /\ CGo(u, "writeold", d) /\ (Fault \/ UNCHANGED faults)
           /\ UNCHANGED <<platter, cached, latest, seen, lapsed>>
  <2>1. Fits("writeold", b, d) /\ "writeold" \in CPoints
    BY DEF Fits, Missed, CPoints
  <2>2. CSafe'
    BY <1>0, <1>3, <2>1, CGoStep
  <2> QED BY <1>3, <2>2 DEF CInv
<1>4. CASE /\ creq[u].pc = "writeold" /\ cached[b].here /\ CGo(u, "writecopy", d)
           /\ UNCHANGED <<platter, cached, faults, latest, seen, lapsed>>
  <2>1. Fits("writecopy", b, d) /\ "writecopy" \in CPoints
    BY <1>4 DEF Fits, Missed, CPoints
  <2>2. CSafe'
    BY <1>0, <1>4, <2>1, CGoStep
  <2> QED BY <1>4, <2>2 DEF CInv
<1>5. CASE WriteCopy(u)
  BY <1>1, <1>2, <1>5 DEF WriteCopy, CAt
<1>6. CASE WriteFill(u)
  BY <1>1, <1>3, <1>6 DEF WriteFill, CAt, InsertFails
<1>7. CASE WriteOld(u)
  BY <1>2, <1>4, <1>7 DEF WriteOld, CAt
<1> QED BY <1>5, <1>6, <1>7

\* The data of a write goes to the disk, for want of memory.
LEMMA CWriteUncachedStep ==
  ASSUME CSafe, lapsed = FALSE, NEW u \in CUsers, WriteUncached(u)
  PROVE  CInv'
<1> DEFINE b == creq[u].blk
           d == creq[u].data
<1>1. creq[u].pc = "writefill" /\ UNCHANGED <<cached, seen>> /\ faults' \in Nat
  BY CFaultNat DEF WriteUncached, CAt
<1>2. b \in Blks /\ d \in Data /\ creq[u].ents = {}
  BY <1>1, CFields
<1>3. CASE CDone(u) /\ UNCHANGED <<platter, latest, lapsed>>
  <2>1. CSafe'
    BY <1>1, <1>2, <1>3, CReturnStep
  <2> QED BY <1>3, <2>1 DEF CInv
<1>4. CASE platter' = [platter EXCEPT ![b] = d] /\ WriteReturns(u, Overtakes(u) \/ cached[b].here)
  <2>1. latest' = [latest EXCEPT ![b] = d] /\ lapsed' = (Overtakes(u) \/ cached[b].here) /\ CDone(u)
    BY <1>4 DEF WriteReturns
  <2>2. CASE Overtakes(u) \/ cached[b].here
    <3>1. lapsed' = TRUE
      BY <2>1, <2>2 DEF Overtakes
    <3> QED BY <3>1 DEF CInv
  <2>3. CASE ~Overtakes(u) /\ ~cached[b].here
    <3>0. lapsed' = FALSE
      BY <2>1, <2>3 DEF Overtakes
    <3>1. creq' \in [CUsers -> CCalls] /\ creq'[u] = CIdle /\ \A w \in CUsers \ {u} : creq'[w] = creq[w]
      BY <2>1, CIdleType DEF CSafe, CTypeOK, CDone
    <3>2. /\ platter' \in [Blks -> Data] /\ latest' \in [Blks -> Data] /\ platter'[b] = d /\ latest'[b] = d
          /\ \A a \in Blks \ {b} : platter'[a] = platter[a] /\ latest'[a] = latest[a]
      BY <1>2, <1>4, <2>1 DEF CSafe, CTypeOK
    <3>3. \A a \in Blks : Held(a)' <=> Held(a)
      BY <1>2, <3>1, CIdleType DEF Held
    <3>4. CTypeOK'
      BY <1>1, <3>1, <3>2 DEF CSafe, CTypeOK
    <3>5. EntriesLatest'
      BY <1>1, <2>3, <3>2, <3>3 DEF CSafe, EntriesLatest
    <3>6. \A a \in Blks \ {b} : CleanBelow(a) => CleanBelow(a)'
      BY <1>1, <3>2, <3>3 DEF CleanBelow
    <3>7. ASSUME NEW w \in CUsers
          PROVE  (creq[w].pc # "flushing" => creq[w].ents = {})' /\ Fits(creq[w].pc, creq[w].blk, creq[w].data)'
      <4>1. CASE w = u
        BY <3>1, <4>1, CIdleType DEF Fits, Missed
      <4>2. CASE w # u
        <5>1. /\ creq[w].pc # "flushing" => creq[w].ents = {}
              /\ Fits(creq[w].pc, creq[w].blk, creq[w].data)
              /\ creq[w].blk \in Blks /\ creq'[w] = creq[w]
          BY <3>1, <4>2, CFields
        <5>2. CASE creq[w].blk # b
          BY <1>1, <3>2, <3>6, <5>1, <5>2 DEF Fits
        <5>3. CASE creq[w].blk = b
          <6>1. creq[w].pc \notin Missed
            BY <2>3, <4>2, <5>3 DEF Overtakes
          <6> QED BY <1>1, <5>1, <5>3, <6>1 DEF Fits, Missed
        <5> QED BY <5>2, <5>3
      <4> QED BY <4>1, <4>2
    <3>8. CallsFresh'
      BY <3>7 DEF CallsFresh
    <3>9. ReadsLatest'
      BY <1>1 DEF CSafe, ReadsLatest
    <3> QED BY <3>0, <3>4, <3>5, <3>8, <3>9 DEF CInv, CSafe
  <2> QED BY <2>2, <2>3
<1> QED BY <1>3, <1>4 DEF WriteUncached

\* What every call needs of the state is still there after a step of a flush.
LEMMA CFlushFresh ==
  ASSUME CSafe, NEW u \in CUsers, creq'[u].pc = "flushing",
         \A w \in CUsers \ {u} : creq'[w] = creq[w],
         \A a \in Blks : CleanBelow(a) => CleanBelow(a)',
         \A a \in Blks : cached[a].here => cached'[a].here, UNCHANGED latest
  PROVE  CallsFresh'
<1>1. ASSUME NEW w \in CUsers
      PROVE  (creq[w].pc # "flushing" => creq[w].ents = {})' /\ Fits(creq[w].pc, creq[w].blk, creq[w].data)'
  <2>1. CASE w = u
    BY <2>1 DEF Fits, Missed
  <2>2. CASE w # u
    <3>1. /\ creq[w].pc # "flushing" => creq[w].ents = {}
          /\ Fits(creq[w].pc, creq[w].blk, creq[w].data)
          /\ creq[w].blk \in Blks /\ creq'[w] = creq[w]
      BY <2>2, CFields
    <3> QED BY <3>1 DEF Fits
  <2> QED BY <2>1, <2>2
<1> QED BY <1>1 DEF CallsFresh

\* ext2_cache_flush() collects the dirty entries: what was dirty is now held.
LEMMA CGatherStep ==
  ASSUME CSafe, NEW u \in CUsers, Gather(u)
  PROVE  CSafe' /\ UNCHANGED lapsed
<1> DEFINE dirty == {<<b>> : b \in {c \in Blks : cached[c].dirty}}
           g == Call("flushing", creq[u].blk, creq[u].data, dirty)
<1>1. /\ creq[u].pc = "flush" /\ UNCHANGED <<platter, faults, latest, seen, lapsed>>
      /\ cached' = [b \in Blks |-> [data |-> cached[b].data, dirty |-> FALSE, here |-> cached[b].here]]
      /\ creq' = [creq EXCEPT ![u] = g]
  BY DEF Gather, CAt
<1>2. creq[u].ents = {}
  BY <1>1, CFields
<1>3. g \in CCalls /\ g.pc = "flushing" /\ g.ents = dirty
  BY CFields DEF Call, CCalls, CPoints
<1>4. \A b \in Blks : <<b>> \in dirty <=> cached[b].dirty
  OBVIOUS
<1> HIDE DEF dirty, g
<1>5. creq' \in [CUsers -> CCalls] /\ creq'[u] = g /\ \A w \in CUsers \ {u} : creq'[w] = creq[w]
  BY <1>1, <1>3 DEF CSafe, CTypeOK
<1>6. cached' \in [Blks -> CEntries]
  BY <1>1 DEF CSafe, CTypeOK, CEntries
<1>7. \A b \in Blks : ~cached'[b].dirty /\ (cached'[b].here <=> cached[b].here)
      /\ cached'[b].data = cached[b].data
  BY <1>1 DEF CSafe, CTypeOK, CEntries
<1>8. \A b \in Blks : Held(b)' <=> Held(b) \/ cached[b].dirty
  BY <1>2, <1>3, <1>4, <1>5 DEF Held
<1>9. CTypeOK'
  BY <1>1, <1>5, <1>6 DEF CSafe, CTypeOK
<1>10. EntriesLatest'
  BY <1>1, <1>7, <1>8 DEF CSafe, EntriesLatest
<1>11. \A b \in Blks : CleanBelow(b) => CleanBelow(b)'
  BY <1>1, <1>7, <1>8 DEF CleanBelow
<1>12. CallsFresh'
  BY <1>1, <1>3, <1>5, <1>7, <1>11, CFlushFresh
<1>13. ReadsLatest'
  BY <1>1 DEF CSafe, ReadsLatest
<1> QED BY <1>1, <1>9, <1>10, <1>12, <1>13 DEF CSafe

\* What the flush of u does to its own call when it has dealt with a block.
LEMMA CWritten ==
  ASSUME CSafe, NEW u \in CUsers, creq[u].pc = "flushing", NEW b \in Blks, Written(u, <<b>>)
  PROVE  /\ creq' \in [CUsers -> CCalls] /\ creq'[u].pc = "flushing"
         /\ \A w \in CUsers \ {u} : creq'[w] = creq[w]
         /\ \A a \in Blks \ {b} : Held(a)' <=> Held(a)
         /\ Held(b)' => Held(b)
<1> DEFINE g == Call(creq[u].pc, creq[u].blk, creq[u].data, creq[u].ents \ {<<b>>})
<1>1. creq' = [creq EXCEPT ![u] = g]
  BY DEF Written
<1>2. g \in CCalls /\ g.pc = "flushing" /\ g.ents = creq[u].ents \ {<<b>>}
  BY CFields DEF Call, CCalls
<1> HIDE DEF g
<1>3. creq' \in [CUsers -> CCalls] /\ creq'[u] = g /\ \A w \in CUsers \ {u} : creq'[w] = creq[w]
  BY <1>1, <1>2 DEF CSafe, CTypeOK
<1>4. \A a \in Blks \ {b} : Held(a)' <=> Held(a)
  BY <1>2, <1>3 DEF Held
<1>5. Held(b)' => Held(b)
  BY <1>2, <1>3 DEF Held
<1> QED BY <1>2, <1>3, <1>4, <1>5

\* The flush writes a block: the entry is still in the table, so that the latest
\* data goes to the disk.
LEMMA CFlushWriteStep ==
  ASSUME CSafe, NEW u \in CUsers, NEW e \in creq[u].ents, FlushWrite(u, e)
  PROVE  CSafe' /\ UNCHANGED lapsed
<1>1. PICK b \in Blks : e = <<b>>
  BY CFields
<1>2. Len(e) = 1 /\ e[1] = b
  BY <1>1
<1>3. /\ creq[u].pc = "flushing" /\ UNCHANGED <<cached, faults, latest, seen, lapsed>>
      /\ platter' = [platter EXCEPT ![b] = cached[b].data] /\ Written(u, <<b>>)
  BY <1>1, <1>2 DEF FlushWrite, CAt
<1>4. Held(b)
  BY <1>1 DEF Held
<1>5. cached[b].here /\ cached[b].data = latest[b] /\ latest[b] \in Data
  BY <1>4 DEF CSafe, EntriesLatest, CTypeOK
<1>6. platter' \in [Blks -> Data] /\ platter'[b] = latest[b] /\ \A a \in Blks \ {b} : platter'[a] = platter[a]
  BY <1>3, <1>5 DEF CSafe, CTypeOK
<1>7. /\ creq' \in [CUsers -> CCalls] /\ creq'[u].pc = "flushing"
      /\ \A w \in CUsers \ {u} : creq'[w] = creq[w]
      /\ \A a \in Blks \ {b} : Held(a)' <=> Held(a)
      /\ Held(b)' => Held(b)
  BY <1>3, CWritten
<1>8. CTypeOK'
  BY <1>3, <1>6, <1>7 DEF CSafe, CTypeOK
<1>9. EntriesLatest'
  BY <1>3, <1>5, <1>6, <1>7 DEF CSafe, EntriesLatest
<1>10. \A a \in Blks : CleanBelow(a) => CleanBelow(a)'
  BY <1>3, <1>4, <1>6, <1>7 DEF CleanBelow
<1>11. CallsFresh'
  BY <1>3, <1>7, <1>10, CFlushFresh
<1>12. ReadsLatest'
  BY <1>3 DEF CSafe, ReadsLatest
<1> QED BY <1>3, <1>8, <1>9, <1>11, <1>12 DEF CSafe

\* The transfer of a flush fails: the entry becomes dirty again.
LEMMA CFlushFailsStep ==
  ASSUME CSafe, NEW u \in CUsers, NEW e \in creq[u].ents, FlushWriteFails(u, e)
  PROVE  CSafe' /\ UNCHANGED lapsed
<1>1. PICK b \in Blks : e = <<b>>
  BY CFields
<1>2. Len(e) = 1 /\ e[1] = b
  BY <1>1
<1>3. /\ creq[u].pc = "flushing" /\ UNCHANGED <<platter, latest, seen, lapsed>> /\ Fault
      /\ cached' = [cached EXCEPT ![b] = [data |-> cached[b].data, dirty |-> TRUE, here |-> cached[b].here]]
      /\ Written(u, <<b>>)
  BY <1>1, <1>2 DEF FlushWriteFails, CAt
<1>4. Held(b) /\ faults' \in Nat
  BY <1>1, <1>3, CFaultNat DEF Held
<1>5. cached[b].here /\ cached[b].data = latest[b]
  BY <1>4 DEF CSafe, EntriesLatest, CTypeOK
<1>6. /\ cached' \in [Blks -> CEntries] /\ \A a \in Blks \ {b} : cached'[a] = cached[a]
      /\ cached'[b].here /\ cached'[b].dirty /\ cached'[b].data = cached[b].data
  BY <1>3, <1>5 DEF CSafe, CTypeOK, CEntries
<1>7. /\ creq' \in [CUsers -> CCalls] /\ creq'[u].pc = "flushing"
      /\ \A w \in CUsers \ {u} : creq'[w] = creq[w]
      /\ \A a \in Blks \ {b} : Held(a)' <=> Held(a)
      /\ Held(b)' => Held(b)
  BY <1>3, CWritten
<1>8. CTypeOK'
  BY <1>3, <1>4, <1>6, <1>7 DEF CSafe, CTypeOK
<1>9. EntriesLatest'
  BY <1>3, <1>5, <1>6, <1>7 DEF CSafe, EntriesLatest
<1>10. \A a \in Blks : CleanBelow(a) => CleanBelow(a)'
  BY <1>3, <1>4, <1>6, <1>7 DEF CleanBelow
<1>11. \A a \in Blks : cached[a].here => cached'[a].here
  BY <1>5, <1>6
<1>12. CallsFresh'
  BY <1>3, <1>7, <1>10, <1>11, CFlushFresh
<1>13. ReadsLatest'
  BY <1>3 DEF CSafe, ReadsLatest
<1> QED BY <1>3, <1>8, <1>9, <1>12, <1>13 DEF CSafe

\* The flush is over, or has not begun for want of memory.
LEMMA CFlushEndStep ==
  ASSUME CSafe, NEW u \in CUsers, FlushEnd(u) \/ FlushNoMemory(u)
  PROVE  CSafe' /\ UNCHANGED lapsed
<1>1. creq[u].ents = {}
  BY CFields DEF FlushEnd, FlushNoMemory, CAt
<1>2. CDone(u) /\ UNCHANGED <<platter, cached, latest, seen, lapsed>> /\ (Fault \/ UNCHANGED faults)
  BY DEF FlushEnd, FlushNoMemory
<1> QED BY <1>1, <1>2, CFaultNat, CReturnStep

\* Every step of the cache preserves CInv.
LEMMA CStep ==
  ASSUME CInv, [CacheNext]_cVars
  PROVE  CInv'
<1>1. CASE UNCHANGED cVars
  BY <1>1 DEF cVars, CInv, CSafe, CTypeOK, EntriesLatest, Held, CallsFresh, Fits, CleanBelow, ReadsLatest
<1>2. CASE CacheNext
  <2>0. CSafe /\ lapsed = FALSE
    BY <1>2 DEF CInv, CacheNext
  <2>1. PICK u \in CUsers :
           \/ \E b \in Blks : CacheBegin(u, "read", b, Blank)
           \/ \E b \in Blks, d \in Data : CacheBegin(u, "write", b, d)
           \/ CacheBegin(u, "flush", CIdle.blk, Blank)
           \/ ReadLookup(u) \/ ReadCopy(u) \/ ReadDisk(u) \/ ReadCheck(u)
           \/ ReadDelete(u) \/ ReadInsert(u) \/ ReadRaw(u)
           \/ WriteLookup(u) \/ WriteCopy(u) \/ WriteFill(u) \/ WriteOld(u) \/ WriteUncached(u)
           \/ Gather(u) \/ FlushNoMemory(u) \/ FlushEnd(u)
           \/ \E e \in creq[u].ents : FlushWrite(u, e) \/ FlushWriteFails(u, e)
    BY <1>2 DEF CacheNext
  <2>2. ASSUME CSafe' /\ UNCHANGED lapsed PROVE CInv'
    BY <2>0, <2>2 DEF CInv
  <2>3. CASE \E b \in Blks : CacheBegin(u, "read", b, Blank)
    <3>1. Blank \in Data
      BY Ext2CacheAssumption
    <3> QED BY <2>0, <2>2, <2>3, <3>1, CBeginStep
  <2>4. CASE \E b \in Blks, d \in Data : CacheBegin(u, "write", b, d)
    BY <2>0, <2>2, <2>4, CBeginStep
  <2>5. CASE CacheBegin(u, "flush", CIdle.blk, Blank)
    <3>1. Blank \in Data /\ CIdle.blk \in Blks
      BY Ext2CacheAssumption, CIdleType
    <3> QED BY <2>0, <2>2, <2>5, <3>1, CBeginStep
  <2>6. CASE ReadLookup(u) \/ ReadCopy(u) \/ ReadDisk(u) \/ ReadCheck(u) \/ ReadDelete(u) \/ ReadInsert(u) \/ ReadRaw(u)
    BY <2>0, <2>2, <2>6, CReadLookupStep, CReadCopyStep, CReadDiskStep, CReadCheckStep, CReadDeleteStep,
       CReadInsertStep, CReadRawStep
  <2>7. CASE WriteLookup(u) \/ WriteCopy(u) \/ WriteFill(u) \/ WriteOld(u) \/ WriteUncached(u)
    BY <2>0, <2>2, <2>7, CWriteLookupStep, CWriteSteps, CWriteUncachedStep
  <2>8. CASE Gather(u) \/ FlushNoMemory(u) \/ FlushEnd(u)
    BY <2>0, <2>2, <2>8, CGatherStep, CFlushEndStep
  <2>9. CASE \E e \in creq[u].ents : FlushWrite(u, e) \/ FlushWriteFails(u, e)
    BY <2>0, <2>2, <2>9, CFlushWriteStep, CFlushFailsStep
  <2> QED BY <2>1, <2>3, <2>4, <2>5, <2>6, <2>7, <2>8, <2>9
<1> QED BY <1>1, <1>2

\* The invariant implies the property.
LEMMA CInvSound == CInv => CacheSound
  BY DEF CInv, CSafe, CacheSound, EntriesLatest, NothingLost, Held, CTypeOK, CEntries

\* For any number of users, blocks and failures and every interleaving of their
\* steps: until a write overtakes a read that has missed, is copied into an entry
\* that has left the table, goes to the disk past an entry or finds no memory for
\* its node, a read returns what was last written and no written block is lost,
\* whatever flushes run at the same time and whichever transfers and allocations
\* fail.
THEOREM CacheSoundHolds == CacheSpec => []CacheSound
<1>1. CInit => CInv
  BY CInitInv
<1>2. CInv /\ [CacheNext]_cVars => CInv'
  BY CStep
<1>3. CInv => CacheSound
  BY CInvSound
<1> QED BY <1>1, <1>2, <1>3, PTL DEF CacheSpec

(***************************************************************************)
(* FatTime: the calendar                                                   *)
(***************************************************************************)
Years == 1970..2107
YearStarts(y) == 365 * (y - 1970) + ((y - 1969) \div 4) - (IF y > 2100 THEN 1 ELSE 0)

\* A year is a number.
LEMMA YearInt == \A y \in Years : y \in Int
BY DEF Years

\* Leap years of the range.
LEMMA LeapIs ==
  ASSUME NEW y \in Years PROVE Leap(y) <=> (y % 4 = 0 /\ y # 2100)
BY DEF Leap, Years

\* The first day of a year is the first of the year before and its days.
LEMMA NextYear ==
  ASSUME NEW y \in Years PROVE YearStarts(y) \in Int /\ YearStarts(y + 1) = YearStarts(y) + YearDays(y) /\ YearDays(y) \in 365..366
<1>1. (y - 1968) \div 4 = ((y - 1969) \div 4) + (IF y % 4 = 0 THEN 1 ELSE 0)
  BY DEF Years
<1> QED BY <1>1, LeapIs DEF YearStarts, YearDays, Years


\* The years that are over are taken off one by one.
YearStates == Years \X (0..LastDay)
Over(s) == s[1] < 2107 /\ s[2] >= YearDays(s[1])
After(s) == <<s[1] + 1, s[2] - YearDays(s[1])>>
OneMore(g) == [s \in YearStates |-> IF Over(s) THEN g[After(s)] ELSE s]

\* A year that is over leaves a year and days of the range.
LEMMA AfterType ==
  ASSUME NEW s \in YearStates, Over(s)
  PROVE  After(s) \in YearStates /\ After(s)[1] = s[1] + 1 /\ After(s)[2] = s[2] - YearDays(s[1])
<1>1. s[1] \in Years /\ s[2] \in 0..LastDay /\ s = <<s[1], s[2]>>
  BY DEF YearStates
<1>2. YearDays(s[1]) \in 365..366
  BY <1>1, NextYear
<1>3. LastDay \in Int
  BY SMT DEF LastDay
<1>4. s[1] + 1 \in Years
  BY <1>1 DEF Over, Years
<1>5. s[2] - YearDays(s[1]) \in 0..LastDay
  BY <1>1, <1>2, <1>3 DEF Over
<1> QED BY <1>4, <1>5 DEF After, YearStates

\* The loop does what its recursion says: it ends, since the year grows.
LEMMA YearLoopIs == YearLoop = OneMore(YearLoop)
<1> DEFINE n == 137
           A == [YearStates -> YearStates]
           a0 == [s \in YearStates |-> s]
           F == [i \in 1..n |-> [g \in A |-> OneMore(g)]]
<1>1. n \in Nat /\ a0 \in A
  OBVIOUS
<1>2. ASSUME NEW g \in A PROVE OneMore(g) \in A
  BY <1>2, AfterType DEF OneMore
<1> HIDE DEF A, a0
<1>3. F \in [1..n -> [A -> A]]
  BY <1>2
<1> HIDE DEF n
<1>4. PICK h \in [0..n -> A] : IsLoop(h, n, a0, F)
  <2> HIDE DEF F
  <2> QED BY <1>1, <1>3, LoopExists
<1>5. ASSUME NEW i \in 1..n PROVE h[i] = OneMore(h[i - 1])
  <2>1. h[i - 1] \in A
    BY <1>1
  <2> QED BY <1>4, <2>1 DEF IsLoop
<1> DEFINE f == [s \in YearStates |-> h[2107 - s[1]][s]]
<1>6. f = OneMore(f)
  <2>1. ASSUME NEW s \in YearStates PROVE f[s] = OneMore(f)[s]
    <3> DEFINE k == 2107 - s[1]
    <3>1. k \in 0..n /\ s[1] \in Years /\ (k = 0 <=> s[1] = 2107)
      BY DEF YearStates, Years, n
    <3>2. f[s] = h[k][s]
      OBVIOUS
    <3>3. CASE Over(s)
      <4>1. k \in 1..n /\ After(s) \in YearStates /\ After(s)[1] = s[1] + 1 /\ 2107 - (s[1] + 1) = k - 1
        <5>1. After(s) \in YearStates /\ After(s)[1] = s[1] + 1
          BY <3>3, AfterType
        <5>2. s[1] \in Int /\ s[1] < 2107
          <6>1. s[1] < 2107
            BY <3>3 DEF Over
          <6>2. s[1] \in Int
            BY <3>1, YearInt
          <6> QED BY <6>1, <6>2
        <5> QED BY <1>1, <3>1, <5>1, <5>2
      <4> HIDE DEF k
      <4>2. h[k][s] = h[k - 1][After(s)]
        <5>1. h[k] = OneMore(h[k - 1])
          BY <1>5, <4>1
        <5> QED BY <3>3, <5>1 DEF OneMore
      <4>3. f[After(s)] = h[k - 1][After(s)]
        BY <4>1
      <4> HIDE DEF f
      <4> QED BY <3>2, <3>3, <4>2, <4>3 DEF OneMore
    <3>4. CASE ~Over(s) /\ k = 0
      <4>1. h[k][s] = s
        BY <1>4, <3>4 DEF IsLoop, a0
      <4> HIDE DEF f, k
      <4> QED BY <3>2, <3>4, <4>1 DEF OneMore
    <3>5. CASE ~Over(s) /\ k # 0
      <4>1. k \in 1..n
        BY <1>1, <3>1, <3>5
      <4> HIDE DEF f, k
      <4>2. h[k][s] = s
        BY <1>5, <3>5, <4>1 DEF OneMore
      <4> QED BY <3>2, <3>5, <4>2 DEF OneMore
    <3> QED BY <3>3, <3>4, <3>5
  <2>2. f = [s \in YearStates |-> f[s]] /\ OneMore(f) = [s \in YearStates |-> OneMore(f)[s]]
    BY DEF OneMore
  <2> HIDE DEF f
  <2> QED BY <2>1, <2>2
<1> HIDE DEF f
<1>7. \E g : g = OneMore(g)
  BY <1>6
<1>8. YearLoop = CHOOSE g : g = OneMore(g)
  BY DEF YearLoop, OneMore, YearStates, Years, Over, After
<1> QED BY <1>7, <1>8

\* Where the loop ends: as many days as it started with, in a year that is not over.
Ends(s) ==
  \E y \in Years, r \in Nat : /\ YearLoop[s] = <<y, r>> /\ r + YearStarts(y) = s[2] + YearStarts(s[1])
                              /\ y = 2107 \/ r < YearDays(y)

\* It does so from every state.
LEMMA YearEnds == \A s \in YearStates : Ends(s)
<1> DEFINE n == 137
           S == {k \in 0..n : \A s \in YearStates : s[1] = 2107 - k => Ends(s)}
<1>1. ASSUME NEW s \in YearStates
      PROVE  /\ s[1] \in Years /\ s[2] \in Nat /\ s = <<s[1], s[2]>> /\ YearDays(s[1]) \in Nat /\ YearStarts(s[1]) \in Int
             /\ YearStarts(s[1] + 1) = YearStarts(s[1]) + YearDays(s[1])
  <2>1. s[1] \in Years /\ s[2] \in 0..LastDay /\ s = <<s[1], s[2]>>
    BY DEF YearStates
  <2>2. s[2] \in Nat
    BY <2>1
  <2> QED BY <2>1, <2>2, NextYear
<1>2. ASSUME NEW s \in YearStates, ~Over(s) PROVE Ends(s)
  <2>1. YearLoop[s] = s
    BY <1>2, YearLoopIs DEF OneMore
  <2>2. s[1] = 2107 \/ s[2] < YearDays(s[1])
    BY <1>1, <1>2 DEF Over, Years
  <2>3. YearLoop[s] = <<s[1], s[2]>>
    BY <1>1, <2>1
  <2> QED BY <1>1, <2>2, <2>3 DEF Ends
<1>3. 0 \in S
  <2>1. \A s \in YearStates : s[1] = 2107 - 0 => Ends(s)
    BY <1>2 DEF Over
  <2> QED BY <2>1
<1>4. ASSUME NEW k \in 1..n, k - 1 \in S PROVE k \in S
  <2>1. ASSUME NEW s \in YearStates, s[1] = 2107 - k, Over(s) PROVE Ends(s)
    <3>1. After(s) \in YearStates /\ After(s)[1] = 2107 - (k - 1) /\ After(s)[2] = s[2] - YearDays(s[1]) /\ After(s)[1] = s[1] + 1
      BY <1>1, <2>1, AfterType
    <3>2. Ends(After(s))
      BY <1>4, <3>1
    <3>3. YearLoop[s] = YearLoop[After(s)]
      BY <2>1, YearLoopIs DEF OneMore
    <3>4. After(s)[2] + YearStarts(After(s)[1]) = s[2] + YearStarts(s[1])
      BY <1>1, <3>1
    <3> QED BY <3>2, <3>3, <3>4 DEF Ends
  <2>2. \A s \in YearStates : s[1] = 2107 - k => Ends(s)
    BY <1>2, <2>1
  <2>3. k \in 0..n
    OBVIOUS
  <2> QED BY <2>2, <2>3
<1>5. \A k \in 0..n : k \in S
  <2>1. n \in Nat /\ \A k \in 1..n : k - 1 \in S => k \in S
    BY <1>4
  <2> HIDE DEF n, S
  <2> QED BY <1>3, <2>1, UpTo
<1>6. ASSUME NEW s \in YearStates PROVE 2107 - s[1] \in 0..n /\ s[1] = 2107 - (2107 - s[1])
  BY <1>1 DEF Years
<1> QED BY <1>5, <1>6

\* The whole years that have passed on a day, and the day of the year that has begun.
LEMMA YearIs ==
  ASSUME NEW day \in Nat, day <= 49710
  PROVE  \E y \in Years, r \in Nat :
           YearLoop[<<1970, day>>] = <<y, r>> /\ r = day - YearStarts(y) /\ r < YearDays(y) /\ y < 2107
<1>1. <<1970, day>> \in YearStates
  <2>0. LastDay = 49710 /\ LastDay \in Int
    BY SMT DEF LastDay
  <2>1. LastDay \in Int /\ day <= LastDay
    BY <2>0, SMT
  <2>2. day \in 0..LastDay
    BY <2>1
  <2>3. 1970 \in Years
    BY DEF Years
  <2> QED BY <2>2, <2>3 DEF YearStates
<1>2. PICK y \in Years, r \in Nat :
        /\ YearLoop[<<1970, day>>] = <<y, r>> /\ r + YearStarts(y) = day + YearStarts(1970)
        /\ y = 2107 \/ r < YearDays(y)
  <2> DEFINE s == <<1970, day>>
  <2>1. s[1] = 1970 /\ s[2] = day /\ s \in YearStates
    BY <1>1
  <2> HIDE DEF s
  <2>2. Ends(s)
    BY <2>1, YearEnds
  <2>3. PICK y \in Years, r \in Nat :
          /\ YearLoop[s] = <<y, r>> /\ r + YearStarts(y) = s[2] + YearStarts(s[1])
          /\ y = 2107 \/ r < YearDays(y)
    BY <2>2 DEF Ends
  <2> QED BY <2>1, <2>3 DEF s
<1>3. YearStarts(1970) = 0 /\ YearStarts(2107) = 50038 /\ YearStarts(y) \in Int
  <2>1. YearStarts(y) \in Int
    BY NextYear
  <2> QED BY <2>1, SMT DEF YearStarts
<1>4. r = day - YearStarts(y)
  BY <1>2, <1>3, SMT
<1>5. y # 2107
  <2> SUFFICES ASSUME y = 2107 PROVE FALSE
    OBVIOUS
  <2>1. r = day - 50038 /\ r \in Nat
    BY <1>3, <1>4, SMT
  <2> QED BY <2>1, SMT
<1>6. y < 2107 /\ r < YearDays(y)
  BY <1>2, <1>5, SMT DEF Years
<1> QED BY <1>2, <1>4, <1>6, SMT

\* The states of the other loop are a month and the days that are left.
Left == Nat \X Nat
MonthsRun(f, y, days) == f[0] = <<1, days>> /\ \A i \in 1..12 : f[i] = MonthRound(y, f[i - 1])

\* The loop over the months.
LEMMA MonthRun ==
  ASSUME NEW y \in Nat, NEW days \in Nat
  PROVE  \E f \in [0..12 -> Left] : MonthsRun(f, y, days) /\ MonthLoop(y, days) = f[12]
<1> DEFINE n == 12
           a0 == <<1, days>>
           F == [i \in 1..n |-> [s \in Left |-> MonthRound(y, s)]]
           Body(g) == [i \in 0..n |-> IF i = 0 THEN a0 ELSE MonthRound(y, g[i - 1])]
           at == CHOOSE g : g = Body(g)
<1>1. n \in Nat /\ a0 \in Left
  BY DEF Left
<1>2. \A s \in Left : MonthRound(y, s) \in Left
  BY DEF Left, MonthRound, MonthDays
<1> HIDE DEF n, a0
<1>3. F \in [1..n -> [Left -> Left]]
  BY <1>2
<1>4. PICK f \in [0..n -> Left] : IsLoop(f, n, a0, F)
  <2> HIDE DEF F
  <2> QED BY <1>1, <1>3, LoopExists
<1>5. f[0] = a0 /\ \A i \in 1..n : f[i] = MonthRound(y, f[i - 1])
  <2>1. ASSUME NEW i \in 1..n PROVE f[i] = MonthRound(y, f[i - 1])
    <3>1. f[i - 1] \in Left
      BY <1>1
    <3> QED BY <1>4, <3>1 DEF IsLoop
  <2> QED BY <1>4, <2>1 DEF IsLoop
<1>6. f = Body(f)
  <2>1. ASSUME NEW i \in 0..n PROVE f[i] = Body(f)[i]
    BY <1>1, <1>5
  <2> QED BY <2>1
<1>7. at = Body(at)
  BY <1>6
<1>8. \A i \in 0..n : at[i] = f[i]
  <2> HIDE DEF at
  <2>1. at[0] = a0 /\ \A i \in 1..n : at[i] = MonthRound(y, at[i - 1])
    <3>1. 0 \in 0..n /\ \A i \in 1..n : i \in 0..n /\ i # 0
      BY <1>1
    <3>2. \A i \in 0..n : at[i] = IF i = 0 THEN a0 ELSE MonthRound(y, at[i - 1])
      BY <1>7
    <3> QED BY <3>1, <3>2
  <2>2. Alike(at, f, n)
    BY <1>5, <2>1 DEF Alike
  <2> QED BY <1>1, <2>2, LoopsAgree
<1>9. MonthLoop(y, days) = at[n]
  BY DEF MonthLoop, n, a0
<1>10. n \in 0..n
  BY <1>1
<1> HIDE DEF at
<1>11. MonthsRun(f, y, days) /\ MonthLoop(y, days) = f[n]
  BY <1>5, <1>8, <1>9, <1>10 DEF MonthsRun, n, a0
<1> QED BY <1>11 DEF n


\* The days of a year before a month begins.
MonthStarts(y, m) ==
  LET feb == IF Leap(y) THEN 29 ELSE 28
  IN CASE m = 1 -> 0 [] m = 2 -> 31 [] m = 3 -> 31 + feb [] m = 4 -> 62 + feb [] m = 5 -> 92 + feb
       [] m = 6 -> 123 + feb [] m = 7 -> 153 + feb [] m = 8 -> 184 + feb [] m = 9 -> 215 + feb
       [] m = 10 -> 245 + feb [] m = 11 -> 276 + feb [] m = 12 -> 306 + feb [] m = 13 -> 337 + feb

\* A month begins when the one before it is over.
LEMMA NextMonth ==
  ASSUME NEW y \in Years, NEW m \in 1..12
  PROVE  /\ MonthStarts(y, m) \in Nat /\ MonthDays(y, m) \in 28..31
         /\ MonthStarts(y, m + 1) = MonthStarts(y, m) + MonthDays(y, m)
         /\ MonthStarts(y, 13) = YearDays(y)
BY DEF MonthStarts, MonthDays, YearDays


\* The state after i rounds of the loop over the months.
MonthTaken(s, i, y, days, m, r) ==
  /\ m \in 1..12 /\ r \in Nat /\ s = <<m, r>> /\ r = days - MonthStarts(y, m) /\ m <= 1 + i
  /\ m = 1 + i \/ r < MonthDays(y, m)

\* One round takes a month off, or none; never the last one of the year.
LEMMA MonthRoundTakes ==
  ASSUME NEW y \in Years, NEW days \in Nat, days < YearDays(y), NEW i \in 1..12, NEW s, NEW m, NEW r,
         MonthTaken(s, i - 1, y, days, m, r)
  PROVE  \E k, q : MonthTaken(MonthRound(y, s), i, y, days, k, q)
<1>1. /\ m \in 1..12 /\ r \in Nat /\ s = <<m, r>> /\ r = days - MonthStarts(y, m) /\ m <= 1 + (i - 1)
      /\ m = 1 + (i - 1) \/ r < MonthDays(y, m)
  BY DEF MonthTaken
<1>2. /\ MonthStarts(y, m) \in Nat /\ MonthDays(y, m) \in Nat /\ YearDays(y) \in Nat
      /\ MonthStarts(y, m + 1) = MonthStarts(y, m) + MonthDays(y, m) /\ MonthStarts(y, 13) = YearDays(y)
  BY <1>1, NextMonth, NextYear
<1>3. CASE r < MonthDays(y, m)
  <2>1. MonthRound(y, s) = s
    BY <1>1, <1>2, <1>3 DEF MonthRound
  <2>2. m <= 1 + i
    BY <1>1
  <2>3. MonthTaken(MonthRound(y, s), i, y, days, m, r)
    BY <1>1, <1>3, <2>1, <2>2 DEF MonthTaken
  <2> QED BY <2>3
<1>4. CASE ~(r < MonthDays(y, m))
  <2>1. r >= MonthDays(y, m) /\ m = 1 + (i - 1)
    BY <1>1, <1>2, <1>4
  <2>2. MonthRound(y, s) = <<m + 1, r - MonthDays(y, m)>>
    BY <1>1, <2>1 DEF MonthRound
  <2>3. r - MonthDays(y, m) \in Nat /\ r - MonthDays(y, m) = days - MonthStarts(y, m + 1)
    BY <1>1, <1>2, <2>1
  <2>4. m # 12
    <3> SUFFICES ASSUME m = 12 PROVE FALSE
      OBVIOUS
    <3>1. MonthStarts(y, m + 1) = YearDays(y)
      BY <1>2
    <3> QED BY <1>2, <2>3, <3>1
  <2>5. m + 1 \in 1..12 /\ m + 1 = 1 + i /\ m + 1 <= 1 + i
    BY <1>1, <2>1, <2>4
  <2>6. MonthTaken(MonthRound(y, s), i, y, days, m + 1, r - MonthDays(y, m))
    BY <2>2, <2>3, <2>5 DEF MonthTaken
  <2> QED BY <2>6
<1> QED BY <1>3, <1>4

\* The month that has begun on a day of a year, and the day of the month.
LEMMA MonthIs ==
  ASSUME NEW y \in Years, NEW days \in Nat, days < YearDays(y)
  PROVE  \E m \in 1..12, r \in Nat :
           MonthLoop(y, days) = <<m, r>> /\ r = days - MonthStarts(y, m) /\ r < MonthDays(y, m)
<1>0. y \in Nat
  BY DEF Years
<1>1. PICK f \in [0..12 -> Left] : MonthsRun(f, y, days) /\ MonthLoop(y, days) = f[12]
  BY <1>0, MonthRun
<1> DEFINE n == 12
           S == {i \in 0..n : \E m, r : MonthTaken(f[i], i, y, days, m, r)}
<1>2. 0 \in S
  <2>1. MonthStarts(y, 1) = 0
    BY DEF MonthStarts
  <2>2. MonthTaken(f[0], 0, y, days, 1, days)
    BY <1>1, <2>1 DEF MonthsRun, MonthTaken
  <2> QED BY <2>2
<1>3. ASSUME NEW i \in 1..n, i - 1 \in S PROVE i \in S
  <2>1. PICK m, r : MonthTaken(f[i - 1], i - 1, y, days, m, r)
    BY <1>3
  <2>2. f[i] = MonthRound(y, f[i - 1])
    BY <1>1 DEF MonthsRun
  <2>3. \E k, q : MonthTaken(MonthRound(y, f[i - 1]), i, y, days, k, q)
    BY <2>1, MonthRoundTakes
  <2>4. i \in 0..n
    OBVIOUS
  <2> QED BY <2>2, <2>3, <2>4
<1>4. n \in S
  <2>1. n \in Nat /\ n \in 0..n /\ \A i \in 1..n : i - 1 \in S => i \in S
    BY <1>3
  <2> HIDE DEF S, n
  <2>2. \A i \in 0..n : i \in S
    BY <1>2, <2>1, UpTo
  <2> QED BY <2>1, <2>2
<1>5. PICK m, r : MonthTaken(f[12], 12, y, days, m, r)
  BY <1>4
<1>6. m \in 1..12 /\ r \in Nat /\ f[12] = <<m, r>> /\ r = days - MonthStarts(y, m) /\ r < MonthDays(y, m)
  BY <1>5 DEF MonthTaken
<1> QED BY <1>1, <1>6

\* The word of a date: years since 1980, the month and the day of the month.
IsDate(w, y, m, d) == y \in 0..127 /\ m \in 1..12 /\ d \in 1..31 /\ w = y * 512 + m * 32 + d

\* It is taken apart again.
LEMMA DateWords ==
  ASSUME NEW w, NEW y, NEW m, NEW d, IsDate(w, y, m, d)
  PROVE  (w \div 512) % 128 = y /\ (w \div 32) % 16 = m /\ w % 32 = d
<1>0. y \in 0..127 /\ m \in 1..12 /\ d \in 1..31 /\ w = y * 512 + m * 32 + d
  BY DEF IsDate
<1>2. w \div 512 = y
  BY <1>0
<1>3. w \div 32 = y * 16 + m
  BY <1>0
<1>4. w % 32 = d
  BY <1>0
<1>5. (y * 16 + m) % 16 = m
  BY <1>0
<1>6. y % 128 = y
  BY <1>0
<1> QED BY <1>2, <1>3, <1>4, <1>5, <1>6

\* The words of a time of the day.
LEMMA TimeWords ==
  ASSUME NEW sec \in Nat, sec < 86400, NEW w,
         w = (sec \div 3600) * 2048 + ((sec \div 60) % 60) * 32 + ((sec % 60) \div 2)
  PROVE  ((w \div 2048) % 32) * 3600 + ((w \div 32) % 64) * 60 + (w % 32) * 2 = sec - (sec % 2)
<1> DEFINE h == sec \div 3600
           mi == (sec \div 60) % 60
           s2 == (sec % 60) \div 2
<1>1. h \in 0..23 /\ mi \in 0..59 /\ s2 \in 0..29
  OBVIOUS
<1>2. h * 3600 + mi * 60 + s2 * 2 = sec - (sec % 2)
  OBVIOUS
<1>3. w = h * 2048 + mi * 32 + s2
  OBVIOUS
<1> HIDE DEF h, mi, s2
<1>4. w % 32 = s2
  BY <1>1, <1>3
<1>5. w \div 32 = h * 64 + mi
  BY <1>1, <1>3
<1>6. w \div 2048 = h
  BY <1>1, <1>3
<1>7. (h * 64 + mi) % 64 = mi /\ h % 32 = h
  BY <1>1
<1> QED BY <1>2, <1>4, <1>5, <1>6, <1>7


\* The days before a year that begins in March, as the code counts them from the year 0.
MarchDays(y) == (y \div 400) * 146097 + (y % 400) * 365 + ((y % 400) \div 4) - ((y % 400) \div 100)

\* They are those before January and the two months after.
LEMMA MarchIs ==
  ASSUME NEW y \in Years, y < 2107
  PROVE  /\ MarchDays(y) \in Int /\ MarchDays(y - 1) \in Int
         /\ MarchDays(y) - 719468 = YearStarts(y) + (IF Leap(y) THEN 60 ELSE 59)
         /\ MarchDays(y - 1) - 719468 = YearStarts(y) - 306
<1>1. \A z \in Int : z >= 1600 /\ z < 2000 => z \div 400 = 4 /\ z % 400 = z - 1600
  BY SMT
<1>2. \A z \in Int : z >= 2000 /\ z < 2400 => z \div 400 = 5 /\ z % 400 = z - 2000
  BY SMT
<1>3. ASSUME NEW z \in Int, z >= 1969, z < 2107
      PROVE  MarchDays(z) - 719468 = 365 * (z - 1970) + (z \div 4) - 433 - (IF z >= 2100 THEN 1 ELSE 0)
  <2>1. CASE z < 2000
    <3>1. z \div 400 = 4 /\ z % 400 = z - 1600
      BY <1>1, <1>3, <2>1, SMT
    <3>2. (z - 1600) \div 4 = (z \div 4) - 400 /\ (z - 1600) \div 100 = 3
      BY <1>3, <2>1, SMT
    <3> QED BY <1>3, <2>1, <3>1, <3>2, SMT DEF MarchDays
  <2>2. CASE z >= 2000
    <3>1. z \div 400 = 5 /\ z % 400 = z - 2000
      BY <1>2, <1>3, <2>2, SMT
    <3>2. (z - 2000) \div 4 = (z \div 4) - 500 /\ (z - 2000) \div 100 = IF z >= 2100 THEN 1 ELSE 0
      BY <1>3, <2>2, SMT
    <3> QED BY <1>3, <2>2, <3>1, <3>2, SMT DEF MarchDays
  <2> QED BY <1>3, <2>1, <2>2, SMT
<1>4. y \in Int /\ y >= 1970 /\ y < 2107 /\ y - 1 \in Int /\ y - 1 >= 1969 /\ y - 1 < 2107
  BY SMT DEF Years
<1> QED BY <1>3, <1>4, LeapIs, SMT DEF YearStarts, MarchDays


\* The days before a month, counted from March, as the code computes them.
MarchMonth(m) == (153 * (IF m > 2 THEN m - 3 ELSE m + 9) + 2) \div 5

\* They are the days before the month, without those of January and February.
LEMMA MarchMonthIs ==
  ASSUME NEW y \in Years, NEW m \in 1..12
  PROVE  /\ MarchMonth(m) \in Int /\ (m <= 2 => MonthStarts(y, m) = MarchMonth(m) - 306)
         /\ m > 2 => MonthStarts(y, m) = MarchMonth(m) + (IF Leap(y) THEN 60 ELSE 59)
<1>1. m \in {1, 2, 3, 4, 5, 6, 7, 8, 9, 10, 11, 12}
  OBVIOUS
<1> QED BY <1>1 DEF MarchMonth, MonthStarts

\* fat32_fat_to_unix() finds the day of a date.
LEMMA DaysBack ==
  ASSUME NEW y \in Years, 1980 <= y, y < 2107, NEW m \in 1..12, NEW d, NEW t, NEW a, a = y - 1980,
         IsDate(t.date, a, m, d)
  PROVE  DaysFromWords(t) = YearStarts(y) + MonthStarts(y, m) + d - 1
<1>1. y \in Int /\ d \in 1..31
  BY SMT DEF Years, IsDate
<1>2. (t.date \div 512) % 128 = y - 1980 /\ (t.date \div 32) % 16 = m /\ t.date % 32 = d
  BY DateWords, SMT
<1>3. Clamp(m, 12) = m /\ Clamp(d, 31) = d
  BY <1>1, SMT DEF Clamp
<1>4. DaysFromWords(t) = MarchDays(y - (IF m <= 2 THEN 1 ELSE 0)) + (MarchMonth(m) + d - 1) - 719468
  <2> DEFINE z == y - (IF m <= 2 THEN 1 ELSE 0)
             doy == MarchMonth(m) + d - 1
  <2>1. 1980 + (y - 1980) - (IF m <= 2 THEN 1 ELSE 0) = z
    BY <1>1, SMT
  <2>2. DaysFromWords(t) = (z \div 400) * 146097 + (z % 400) * 365 + ((z % 400) \div 4) - ((z % 400) \div 100) + doy - 719468
    BY <1>2, <1>3, <2>1, SMT DEF DaysFromWords, MarchMonth
  <2>3. z \in Int /\ doy \in Int
    BY <1>1, MarchMonthIs, SMT
  <2> HIDE DEF z, doy
  <2>4. DaysFromWords(t) = MarchDays(z) + doy - 719468
    BY <2>2, <2>3, SMT DEF MarchDays
  <2> QED BY <2>4, SMT DEF z, doy
<1>5. MonthStarts(y, m) \in Nat /\ YearStarts(y) \in Int
  BY NextMonth, NextYear, SMT
<1>6. CASE m <= 2
  <2>1. DaysFromWords(t) = MarchDays(y - 1) + (MarchMonth(m) + d - 1) - 719468
    BY <1>4, <1>6, SMT
  <2>2. MarchDays(y - 1) \in Int /\ MarchDays(y - 1) - 719468 = YearStarts(y) - 306
    BY MarchIs, SMT
  <2>3. MarchMonth(m) \in Int /\ MonthStarts(y, m) = MarchMonth(m) - 306
    BY <1>6, MarchMonthIs, SMT
  <2> QED BY <1>1, <1>5, <2>1, <2>2, <2>3, SMT
<1>7. CASE m > 2
  <2>1. DaysFromWords(t) = MarchDays(y) + (MarchMonth(m) + d - 1) - 719468
    BY <1>1, <1>4, <1>7, SMT
  <2>2. MarchDays(y) \in Int /\ MarchDays(y) - 719468 = YearStarts(y) + (IF Leap(y) THEN 60 ELSE 59)
    BY MarchIs, SMT
  <2>3. MarchMonth(m) \in Int /\ MonthStarts(y, m) = MarchMonth(m) + (IF Leap(y) THEN 60 ELSE 59)
    BY <1>7, MarchMonthIs, SMT
  <2> DEFINE f == IF Leap(y) THEN 60 ELSE 59
             p == MarchDays(y)
             k == MarchMonth(m)
  <2>4. f \in Int /\ p \in Int /\ k \in Int /\ p - 719468 = YearStarts(y) + f /\ MonthStarts(y, m) = k + f
    BY <2>2, <2>3, SMT
  <2>5. DaysFromWords(t) = p + (k + d - 1) - 719468
    BY <2>1
  <2> HIDE DEF f, p, k
  <2> QED BY <1>1, <1>5, <2>4, <2>5, SMT
<1> QED BY <1>6, <1>7, SMT

\* A stamp of any second of the range of a 32-bit time is read back as that second, or the one before.
LEMMA StampBack ==
  ASSUME NEW day \in Nat, day <= 49710, NEW sec \in Nat, sec < 86400, NEW t, t = fat32_unix_to_fat(day, sec)
  PROVE  /\ fat32_fat_to_unix(t).sec = sec - (sec % 2)
         /\ day >= 3652 => fat32_fat_to_unix(t).day = day
         /\ day < 3652 => fat32_fat_to_unix(t).day = 3652
<1> DEFINE ys == YearLoop[<<1970, day>>]
           ms == MonthLoop(ys[1], ys[2])
           d == IF ys[1] < 1980 THEN <<1980, 1, 0>> ELSE <<ys[1], ms[1], ms[2]>>
<1>1. PICK y \in Years, r \in Nat : ys = <<y, r>> /\ r = day - YearStarts(y) /\ r < YearDays(y) /\ y < 2107
  BY YearIs, SMT
<1>2. PICK m \in 1..12, q \in Nat : MonthLoop(y, r) = <<m, q>> /\ q = r - MonthStarts(y, m) /\ q < MonthDays(y, m)
  BY <1>1, MonthIs, SMT
<1>3. ys[1] = y /\ ys[2] = r /\ ms = <<m, q>>
  BY <1>1, <1>2, SMT
<1>4. d = IF y < 1980 THEN <<1980, 1, 0>> ELSE <<y, m, q>>
  BY <1>3, SMT
<1>5. t = [date |-> (d[1] - 1980) * 512 + d[2] * 32 + d[3] + 1,
           time |-> (sec \div 3600) * 2048 + ((sec \div 60) % 60) * 32 + ((sec % 60) \div 2)]
  BY SMT DEF fat32_unix_to_fat
<1> HIDE DEF ys, ms, d
<1>6. fat32_fat_to_unix(t).sec = sec - (sec % 2)
  BY <1>5, TimeWords, SMT DEF fat32_fat_to_unix
<1>7. fat32_fat_to_unix(t).day = DaysFromWords(t)
  BY SMT DEF fat32_fat_to_unix
<1>8. y < 1980 <=> day < 3652
  BY <1>1, SMT DEF YearStarts, YearDays, Leap, Years
<1>9. CASE y < 1980
  <2>1. IsDate(t.date, 0, 1, 1)
    BY <1>4, <1>5, <1>9, SMT DEF IsDate
  <2>2. 1980 \in Years /\ 1 \in 1..12 /\ 0 = 1980 - 1980
    BY SMT DEF Years
  <2>3. DaysFromWords(t) = YearStarts(1980) + MonthStarts(1980, 1) + 1 - 1
    <3> DEFINE z == 1980
               k == 1
               e == 1
               a == 0
    <3>1. z \in Years /\ 1980 <= z /\ z < 2107
      BY <2>2, SMT
    <3>2. k \in 1..12 /\ a = z - 1980
      BY <2>2, SMT
    <3>3. IsDate(t.date, a, k, e)
      BY <2>1, SMT
    <3> HIDE DEF z, k, a, e
    <3>4. DaysFromWords(t) = YearStarts(z) + MonthStarts(z, k) + e - 1
      BY <3>1, <3>2, <3>3, DaysBack, SMT
    <3> QED BY <3>4 DEF z, k, e
  <2>4. YearStarts(1980) = 3652 /\ MonthStarts(1980, 1) = 0
    BY SMT DEF YearStarts, MonthStarts
  <2> QED BY <1>6, <1>7, <1>8, <1>9, <2>3, <2>4, SMT
<1>10. CASE y >= 1980
  <2>1. q + 1 \in 1..31 /\ MonthStarts(y, m) \in Nat /\ YearStarts(y) \in Int
    BY <1>2, NextMonth, NextYear, SMT
  <2>2. t.date = (y - 1980) * 512 + m * 32 + (q + 1)
    BY <1>4, <1>5, <1>10, SMT DEF Years
  <2>3. DaysFromWords(t) = YearStarts(y) + MonthStarts(y, m) + (q + 1) - 1
    <3> DEFINE e == q + 1
               a == y - 1980
    <3>1. IsDate(t.date, a, m, e) /\ 1980 <= y
      BY <1>1, <1>10, <2>1, <2>2, SMT DEF Years, IsDate
    <3>0. a = y - 1980
      BY SMT
    <3> HIDE DEF e, a
    <3>2. DaysFromWords(t) = YearStarts(y) + MonthStarts(y, m) + e - 1
      BY <1>1, <3>0, <3>1, DaysBack, SMT
    <3> QED BY <3>2, SMT DEF e
  <2>4. DaysFromWords(t) = day
    BY <1>1, <1>2, <2>1, <2>3, SMT
  <2> QED BY <1>6, <1>7, <1>8, <1>10, <2>4, SMT DEF Years
<1> QED BY <1>9, <1>10, SMT DEF Years

\* What the stamp says.
Stamped == clock \in [day : ClockDays, sec : ClockSecs] /\ stamp = fat32_unix_to_fat(clock.day, clock.sec)

\* The two conversions of fs/fat32.c are inverse for every time stamp there can be.
THEOREM StampRoundTripHolds == FTSpec => []StampRoundTrip
<1>1. FTInit => Stamped
  BY SMT DEF FTInit, Stamped
<1>2. Stamped /\ [fat32_now]_clockVars => Stamped'
  <2> SUFFICES ASSUME Stamped, [fat32_now]_clockVars PROVE Stamped'
    BY SMT
  <2>1. CASE fat32_now
    <3>1. PICK n \in {0, 1} : clock' \in [day : {clock.day + n} \cap ClockDays, sec : ClockSecs]
      BY <2>1, SMT DEF fat32_now
    <3> QED BY <2>1, <3>1, SMT DEF fat32_now, Stamped
  <2>2. CASE UNCHANGED clockVars
    BY <2>2, SMT DEF clockVars, Stamped
  <2> QED BY <2>1, <2>2, SMT
<1>3. Stamped => StampRoundTrip
  <2> SUFFICES ASSUME Stamped PROVE StampRoundTrip
    BY SMT
  <2> DEFINE day == clock.day
             sec == clock.sec
             t == fat32_unix_to_fat(day, sec)
  <2>1. day \in ClockDays /\ sec \in ClockSecs /\ stamp = t
    BY SMT DEF Stamped
  <2>2. day \in Nat /\ day <= 49710 /\ sec \in Nat /\ sec < 86400
    <3> HIDE DEF day, sec, t
    <3>0. LastDay \in Int /\ LastSec \in Int
      BY SMT DEF LastDay, LastSec
    <3>1. \A d \in ClockDays : d \in Nat /\ d <= LastDay
      BY <3>0, FatTimeAssumption, SMT
    <3>2. \A d \in ClockSecs : d \in Nat /\ d <= LastSec
      BY <3>0, FatTimeAssumption, SMT
    <3>3. day \in Nat /\ day <= LastDay
      BY <2>1, <3>1
    <3>4. sec \in Nat /\ sec <= LastSec
      BY <2>1, <3>2
    <3>5. day <= 49710
      BY <3>3, SMT DEF LastDay
    <3>6. sec < 86400
      BY <3>4, SMT DEF LastSec
    <3> QED BY <3>3, <3>4, <3>5, <3>6, SMT
  <2>3. fat32_fat_to_unix(stamp) = [day |-> fat32_fat_to_unix(stamp).day, sec |-> fat32_fat_to_unix(stamp).sec]
    BY SMT DEF fat32_fat_to_unix
  <2> HIDE DEF day, sec
  <2>4. /\ fat32_fat_to_unix(t).sec = sec - (sec % 2)
        /\ day >= 3652 => fat32_fat_to_unix(t).day = day
        /\ day < 3652 => fat32_fat_to_unix(t).day = 3652
    BY <2>2, StampBack, SMT
  <2> HIDE DEF t
  <2> QED BY <2>1, <2>3, <2>4, SMT DEF StampRoundTrip, day, sec
<1> QED BY <1>1, <1>2, <1>3, PTL DEF FTSpec
=============================================================================
