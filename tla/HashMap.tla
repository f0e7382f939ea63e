------------------------------ MODULE HashMap -------------------------------
(***************************************************************************)
(* The hash table of utils/hashmap.c, behind the inode cache and the block *)
(* cache of ext2.  Every call computes the bucket from ht->size before it  *)
(* takes ht->lock, then works under the lock: two steps.                   *)
(*                                                                         *)
(* A node is a record of its key, its value and the bucket that holds it;  *)
(* a key is its own hash.  The order within a bucket is left out.          *)
(*                                                                         *)
(* Between the two steps another call may resize the table.  The call then *)
(* searches a bucket of the old array: it misses a key that is there and   *)
(* links it a second time, or reads behind a smaller array.  overtaken     *)
(* records that such a call has entered its critical section; what the     *)
(* table is worth from then on is undefined, and the model stops there.    *)
(***************************************************************************)
EXTENDS Integers, FiniteSets

CONSTANTS HUsers, HKeys, HVals,
          MinSize, LoadFactor,   \* HASH_TABLE_MIN_SIZE, HASH_TABLE_LOAD_FACTOR
          MaxSize,               \* the largest bucket array slab_alloc() serves
          Serial                 \* TRUE: the callers hold a lock around each call (icache.lock);
                                 \* FALSE: they do not (the block cache of ext2)

ASSUME HashMapAssumption ==
  /\ HKeys \subseteq Nat /\ Serial \in BOOLEAN
  /\ MinSize \in Nat \ {0} /\ LoadFactor \in Nat \ {0} /\ MaxSize \in Nat /\ MaxSize >= MinSize

VARIABLES
  nodes,     \* the entries: key, value and the bucket that links them
  hsize,     \* ht->size
  hcount,    \* ht->count
  hreq,      \* per user: the call in progress and its bucket index
  overtaken  \* history: a call has entered with the index of another size

hVars == <<nodes, hsize, hcount, hreq, overtaken>>

HNone == [pc |-> "idle", op |-> "none", key |-> 0, val |-> 0, index |-> 0]

\* hash_table_create()
HInit ==
  /\ nodes = {} /\ hsize = MinSize /\ hcount = 0
  /\ hreq = [u \in HUsers |-> HNone]
  /\ overtaken = FALSE

Matching(k, i) == {n \in nodes : n.key = k /\ n.bucket = i}

\* The unlocked prefix of a call: index = hash % ht->size.
HBegin(u, op, k, v) ==
  /\ hreq[u].pc = "idle"
  /\ Serial => \A w \in HUsers : hreq[w].pc = "idle"
  /\ hreq' = [hreq EXCEPT ![u] = [pc |-> "lock", op |-> op, key |-> k, val |-> v, index |-> k % hsize]]
  /\ UNCHANGED <<nodes, hsize, hcount, overtaken>>

HReturn(u) == hreq' = [hreq EXCEPT ![u] = HNone]

\* acquire(&ht->lock): the index is not computed again.
HLocked(u, ops) ==
  /\ hreq[u].pc = "lock" /\ hreq[u].op \in ops
  /\ overtaken' = (hreq[u].index # hreq[u].key % hsize)

\* hash_table_insert(overwrite) and hash_table_insert_if_absent() find the key
\* in the bucket they look into.
InsertPresent(u) ==
  LET r == hreq[u]
      found == Matching(r.key, r.index)
  IN /\ HLocked(u, {"insert", "absent"}) /\ found # {}
     /\ \E n \in found :
          nodes' = IF r.op = "insert" THEN (nodes \ {n}) \cup {[key |-> n.key, val |-> r.val, bucket |-> n.bucket]}
                   ELSE nodes
     /\ HReturn(u)
     /\ UNCHANGED <<hsize, hcount>>

\* hash_table_resize(): every node moves to hash % new_size.
Rehashed(ns, size) == {[key |-> n.key, val |-> n.val, bucket |-> n.key % size] : n \in ns}

\* A resize changes the size, or leaves the table alone when there is no memory.
Resized(ns, size) ==
  {[nodes |-> ns, size |-> hsize]}
    \cup {[nodes |-> Rehashed(ns, s), size |-> s] : s \in {size} \cap (MinSize..MaxSize)}

Overloaded == ((hcount + 1) * 100) \div hsize > LoadFactor

Grown == IF Overloaded THEN Resized(nodes, hsize * 2) ELSE {[nodes |-> nodes, size |-> hsize]}

\* Mutant: the index of the old array is used after the table has grown.
LinkBucketStale(r, size) == r.index

\* index = hash % ht->size is computed again only when the table had to grow.
LinkBucket(r, size) ==
  IF Overloaded THEN r.key % size ELSE r.index

\* The key is not in the bucket: grow above the load factor, then link a node.
InsertAbsent(u) ==
  LET r == hreq[u] IN
  /\ HLocked(u, {"insert", "absent"}) /\ Matching(r.key, r.index) = {}
  /\ \E g \in Grown :
       /\ nodes' = g.nodes \cup {[key |-> r.key, val |-> r.val, bucket |-> LinkBucket(r, g.size)]}
       /\ hsize' = g.size
  /\ hcount' = hcount + 1
  /\ HReturn(u)

\* slab_alloc() of the node fails, after the table may have grown.
InsertNoMemory(u) ==
  LET r == hreq[u] IN
  /\ HLocked(u, {"insert", "absent"}) /\ Matching(r.key, r.index) = {}
  /\ \E g \in Grown : nodes' = g.nodes /\ hsize' = g.size
  /\ HReturn(u)
  /\ UNCHANGED hcount

\* hash_table_lookup(): the value, kept until the caller looks at it.
HLookup(u) ==
  LET found == Matching(hreq[u].key, hreq[u].index) IN
  /\ HLocked(u, {"lookup"})
  /\ hreq' = [hreq EXCEPT ![u] = [pc |-> IF found = {} THEN "missed" ELSE "found",
                                  op |-> @.op, key |-> @.key, val |-> @.val, index |-> @.index]]
  /\ UNCHANGED <<nodes, hsize, hcount>>

HLookedUp(u) ==
  /\ hreq[u].pc \in {"missed", "found"}
  /\ HReturn(u)
  /\ UNCHANGED <<nodes, hsize, hcount, overtaken>>

\* hash_table_delete(): unlink the node, shrink below half the load factor.
DeleteFound(u) ==
  LET r == hreq[u] IN
  /\ HLocked(u, {"delete"})
  /\ \E n \in Matching(r.key, r.index) :
       \E g \in IF hsize > MinSize /\ ((hcount - 1) * 100) \div hsize < LoadFactor \div 2
                THEN Resized(nodes \ {n}, hsize \div 2) ELSE {[nodes |-> nodes \ {n}, size |-> hsize]} :
         nodes' = g.nodes /\ hsize' = g.size
  /\ hcount' = hcount - 1
  /\ HReturn(u)

DeleteMissing(u) ==
  /\ HLocked(u, {"delete"}) /\ Matching(hreq[u].key, hreq[u].index) = {}
  /\ HReturn(u)
  /\ UNCHANGED <<nodes, hsize, hcount>>

HNext ==
  ~overtaken /\ \E u \in HUsers :
    \/ \E op \in {"insert", "absent", "lookup", "delete"}, k \in HKeys, v \in HVals : HBegin(u, op, k, v)
    \/ InsertPresent(u) \/ InsertAbsent(u) \/ InsertNoMemory(u)
    \/ HLookup(u) \/ HLookedUp(u)
    \/ DeleteFound(u) \/ DeleteMissing(u)

HSpec == HInit /\ [][HNext]_hVars

-----------------------------------------------------------------------------
(* Properties                                                               *)

\* No key occurs twice.  The comment of hash_table_insert_if_absent()
\* (hashmap.c:383-387) promises it of any calls of two tasks, an atomic
\* check-and-insert; the code keeps the promise until a call is overtaken by a
\* resize (hashmap.c:202, the index is computed before acquire()).
KeysOnce == \A m, n \in nodes : m.key = n.key => m = n

\* Every node is in the bucket its hash selects, so that a search of one
\* bucket sees it, after any sequence of growing, shrinking and failed resizes.
NodesPlaced == \A n \in nodes : n.bucket = n.key % hsize

\* ht->count is the number of entries, which the resize decisions rest on.
HCountExact == hcount = Cardinality(nodes) /\ hsize >= MinSize

\* The table is what its callers think: each key once, where a search looks for
\* it, and counted, through every resize and every interleaving of calls up to the
\* first that a resize has overtaken.  A lock around the calls, as the inode cache
\* has, keeps every call from being overtaken.
TableSound ==
  /\ ~overtaken => KeysOnce /\ NodesPlaced /\ HCountExact
  /\ Serial => ~overtaken
=============================================================================
