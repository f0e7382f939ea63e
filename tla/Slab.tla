-------------------------------- MODULE Slab --------------------------------
(***************************************************************************)
(* The slab allocator (mm/slab.c): per size class a chain of slabs, each   *)
(* with its lock and its list of free objects, and a pool of descriptors   *)
(* (slab_t) for new slabs, which grows by pages before it runs out.        *)
(*                                                                         *)
(* Descriptors are numbered in the order their pages are added; the object *)
(* <<m, i>> is the i-th one in the page of slab m, so the page's slab      *)
(* pointer is the first component.  A user is a thread of control in the   *)
(* kernel.  A step is a critical section; the lock of the last slab of a   *)
(* chain, which is held while a new slab is made, is in the variable slock.*)
(***************************************************************************)
EXTENDS Naturals, Sequences, FiniteSets

CONSTANTS SlabUsers,
          NCLASS,      \* size classes: the father slabs are 1..NCLASS
          TOTAL,       \* objects per slab, of each class
          PERPAGE,     \* descriptors per page
          INITMETA,    \* descriptors after init_slab_meta_pool()
          MaxMeta,     \* bound: descriptors that fit into memory
          MaxSlabs,    \* bound: slabs whose objects fit into memory
          NoUser         \* nobody

ASSUME SlabAssumption ==
  /\ NCLASS \in Nat \ {0} /\ TOTAL \in [1..NCLASS -> Nat \ {0}]
  /\ PERPAGE \in Nat \ {0}
  /\ INITMETA \in Nat /\ MaxMeta \in Nat /\ MaxSlabs \in Nat
  /\ NCLASS < INITMETA /\ INITMETA <= MaxMeta
ASSUME NoUserAssumption == NoUser \notin SlabUsers

Metas == 1..MaxMeta
NoSlab == 0
Indices == UNION {1..TOTAL[c] : c \in 1..NCLASS}
Objects == Metas \X Indices

VARIABLES
  \* slab_meta_pool
  pool,        \* the descriptors of its free list
  mfree, mtotal, mend,
  \* struct slab
  freelist,    \* the free objects of a slab, by their index in its page
  stotal, sfree, snext,
  slabs,        \* the descriptors that are slabs
  slock,        \* the user that holds s->lock across steps, or NoUser
  \* a call of slab_alloc()
  spc, sat, snew,
  given,         \* the objects that slab_alloc() handed out
  shalt         \* why the model stops, or "no"

poolVars == <<pool, mfree, mtotal, mend>>
slabVars == <<freelist, stotal, sfree, snext, slabs>>
slVars == <<poolVars, slabVars, slock, spc, sat, snew, given, shalt>>

\* "walk": at the lock of slab s; the rest is do_create_new_slab() with the
\* lock of s held: "inflate" and "take" in slab_alloc_meta(), "storage" in
\* do_create_slab_object_storage().
SlabPoints == {"idle", "walk", "inflate", "take", "storage"}

\* "null": slab_alloc_meta() follows a null pointer; "nomem": the panic for want
\* of memory; "corrupt": the lock of a slab in use is overwritten.
Halts == {"no", "null", "nomem", "corrupt"}

\* The free list of a new page.
AllObjects(n) == [i \in 1..n |-> i]

\* init_slab(): the first descriptors are the father slabs, all objects free.
SlabInit ==
  /\ pool = [i \in 1..(INITMETA - NCLASS) |-> NCLASS + i]
  /\ mfree = INITMETA - NCLASS
  /\ mtotal = INITMETA
  /\ mend = INITMETA
  /\ freelist = [m \in Metas |-> IF m <= NCLASS THEN AllObjects(TOTAL[m]) ELSE <<>>]
  /\ stotal = [m \in Metas |-> IF m <= NCLASS THEN TOTAL[m] ELSE 0]
  /\ sfree = [m \in Metas |-> IF m <= NCLASS THEN TOTAL[m] ELSE 0]
  /\ snext = [m \in Metas |-> NoSlab]
  /\ slabs = 1..NCLASS
  /\ slock = [m \in Metas |-> NoUser]
  /\ spc = [u \in SlabUsers |-> "idle"]
  /\ sat = [u \in SlabUsers |-> NoSlab]
  /\ snew = [u \in SlabUsers |-> NoSlab]
  /\ given = {}
  /\ shalt = "no"

SlabGoto(u, p) == spc' = [spc EXCEPT ![u] = p]
Return(u) == /\ SlabGoto(u, "idle")
             /\ sat' = [sat EXCEPT ![u] = NoSlab]
             /\ snew' = [snew EXCEPT ![u] = NoSlab]

\* User u is at slab m and m's lock is free.
At(u, m) == spc[u] = "walk" /\ sat[u] = m /\ slock[m] = NoUser

-----------------------------------------------------------------------------
(* slab_alloc()                                                             *)

SlabAlloc(u, c) ==
  /\ spc[u] = "idle"
  /\ SlabGoto(u, "walk")
  /\ sat' = [sat EXCEPT ![u] = c]
  /\ UNCHANGED <<poolVars, slabVars, slock, snew, given, shalt>>

\* The slab has a free object.
TakeObject(u, m) ==
  /\ At(u, m) /\ sfree[m] # 0
  /\ given' = given \cup {<<m, Head(freelist[m])>>}
  /\ freelist' = [freelist EXCEPT ![m] = Tail(@)]
  /\ sfree' = [sfree EXCEPT ![m] = @ - 1]
  /\ Return(u)
  /\ UNCHANGED <<poolVars, stotal, snext, slabs, slock, shalt>>

\* The slab is full and has a successor.
NextSlab(u, m) ==
  /\ At(u, m) /\ sfree[m] = 0 /\ snext[m] # NoSlab
  /\ sat' = [sat EXCEPT ![u] = snext[m]]
  /\ UNCHANGED <<poolVars, slabVars, slock, spc, snew, given, shalt>>

\* Mutant: the lock is released before the new slab is made.
GrowLockDropped(u, m) == slock

\* s->lock is kept until the new slab is linked.
GrowLock(u, m) == [slock EXCEPT ![m] = u]

\* The last slab is full: make a new one.  slab_alloc_meta() begins with a look
\* at the pool without its lock.
Grow(u, m) ==
  /\ At(u, m) /\ sfree[m] = 0 /\ snext[m] = NoSlab
  /\ slock' = GrowLock(u, m)
  /\ SlabGoto(u, IF mfree = 1 THEN "inflate" ELSE "take")
  /\ UNCHANGED <<poolVars, slabVars, sat, snew, given, shalt>>

\* Another user has inflated, or taken, in the meantime.
MetaLate(u) ==
  /\ spc[u] = "inflate" /\ mfree # 1
  /\ SlabGoto(u, "take")
  /\ UNCHANGED <<poolVars, slabVars, slock, sat, snew, given, shalt>>

\* inflate_slab_meta_pool(2) appends two pages of descriptors at end.
MetaInflate(u) ==
  /\ spc[u] = "inflate" /\ mfree = 1
  /\ mtotal + 2 * PERPAGE <= MaxMeta /\ pool[Len(pool)] = mend
  /\ pool' = pool \o [i \in 1..(2 * PERPAGE) |-> mtotal + i]
  /\ mfree' = mfree + 2 * PERPAGE
  /\ mtotal' = mtotal + 2 * PERPAGE
  /\ mend' = mtotal + 2 * PERPAGE
  /\ SlabGoto(u, "take")
  /\ UNCHANGED <<slabVars, slock, sat, snew, given, shalt>>

\* There is no memory for them.
MetaPanic(u) ==
  /\ spc[u] = "inflate" /\ mfree = 1
  /\ mtotal + 2 * PERPAGE > MaxMeta
  /\ shalt' = "nomem"
  /\ UNCHANGED <<poolVars, slabVars, slock, spc, sat, snew, given>>

\* The pool has been empty in between, and end is a slab in use: the link is
\* written over its lock and the new descriptors are lost.
MetaCorrupt(u) ==
  /\ spc[u] = "inflate" /\ mfree = 1
  /\ mtotal + 2 * PERPAGE <= MaxMeta /\ pool[Len(pool)] # mend
  /\ shalt' = "corrupt"
  /\ UNCHANGED <<poolVars, slabVars, slock, spc, sat, snew, given>>

\* The pool without its first descriptor.
PoolAfterTake == Tail(pool)

MetaTake(u) ==
  /\ spc[u] = "take" /\ pool # <<>>
  /\ snew' = [snew EXCEPT ![u] = Head(pool)]
  /\ pool' = PoolAfterTake
  /\ mfree' = mfree - 1
  /\ SlabGoto(u, "storage")
  /\ UNCHANGED <<mtotal, mend, slabVars, slock, sat, given, shalt>>

\* The list is empty: *(void**)slab with slab == NULL.
MetaFault(u) ==
  /\ spc[u] = "take" /\ pool = <<>>
  /\ shalt' = "null"
  /\ UNCHANGED <<poolVars, slabVars, slock, spc, sat, snew, given>>

\* There is a page for the objects: the slab is linked behind m.
Storage(u, m, n) ==
  /\ spc[u] = "storage" /\ sat[u] = m /\ snew[u] = n
  /\ Cardinality(slabs) < MaxSlabs
  /\ freelist' = [freelist EXCEPT ![n] = AllObjects(stotal[m])]
  /\ stotal' = [stotal EXCEPT ![n] = stotal[m]]
  /\ sfree' = [sfree EXCEPT ![n] = stotal[m]]
  /\ snext' = [snext EXCEPT ![n] = NoSlab, ![m] = n]
  /\ slabs' = slabs \cup {n}
  /\ slock' = [slock EXCEPT ![m] = NoUser]
  /\ sat' = [sat EXCEPT ![u] = n]
  /\ snew' = [snew EXCEPT ![u] = NoSlab]
  /\ SlabGoto(u, "walk")
  /\ UNCHANGED <<poolVars, given, shalt>>

\* There is none, now or for good: slab_free_meta(), then slab_alloc() releases s->lock and
\* returns NULL.
Undo(u, m) ==
  /\ spc[u] = "storage" /\ sat[u] = m
  /\ pool' = <<snew[u]>> \o pool
  /\ mfree' = mfree + 1
  /\ slock' = [slock EXCEPT ![m] = NoUser]
  /\ Return(u)
  /\ UNCHANGED <<mtotal, mend, slabVars, given, shalt>>

-----------------------------------------------------------------------------
(* slab_free()                                                              *)

\* An object goes back to the slab of its page, whoever frees it.
SlabFree(u, m, i) ==
  /\ spc[u] = "idle" /\ <<m, i>> \in given /\ slock[m] = NoUser
  /\ freelist' = [freelist EXCEPT ![m] = <<i>> \o @]
  /\ sfree' = [sfree EXCEPT ![m] = @ + 1]
  /\ given' = given \ {<<m, i>>}
  /\ UNCHANGED <<poolVars, stotal, snext, slabs, slock, spc, sat, snew, shalt>>

-----------------------------------------------------------------------------
Step(u) ==
  \/ MetaLate(u) \/ MetaInflate(u) \/ MetaPanic(u) \/ MetaCorrupt(u)
  \/ MetaTake(u) \/ MetaFault(u)
  \/ \E m \in Metas : \/ TakeObject(u, m) \/ NextSlab(u, m) \/ Grow(u, m) \/ Undo(u, m)
                      \/ \E n \in Metas : Storage(u, m, n)

SlabNext == /\ shalt = "no"
        /\ \E u \in SlabUsers :
             \/ Step(u)
             \/ \E c \in 1..NCLASS : SlabAlloc(u, c)
             \/ \E m \in Metas, i \in Indices : SlabFree(u, m, i)

SlabSpec == SlabInit /\ [][SlabNext]_slVars
-----------------------------------------------------------------------------
(* Properties                                                               *)

\* The types, which include that every list holds objects of its page only and
\* every pointer refers to a descriptor.
SlabTypeOK ==
  /\ pool \in Seq(Metas) /\ mfree \in Nat /\ mtotal \in Metas /\ mend \in Metas
  /\ freelist \in [Metas -> Seq(Indices)]
  /\ stotal \in [Metas -> Nat]
  /\ sfree \in [Metas -> Nat]
  /\ snext \in [Metas -> Metas \cup {NoSlab}]
  /\ slabs \subseteq Metas
  /\ slock \in [Metas -> SlabUsers \cup {NoUser}]
  /\ spc \in [SlabUsers -> SlabPoints]
  /\ sat \in [SlabUsers -> Metas \cup {NoSlab}]
  /\ snew \in [SlabUsers -> Metas \cup {NoSlab}]
  /\ given \subseteq Objects
  /\ shalt \in Halts

Listed(q, x) == \E i \in 1..Len(q) : q[i] = x
Distinct(q) == \A i, j \in 1..Len(q) : q[i] = q[j] => i = j

\* An object of a slab is on the free list of the slab, once, or handed out,
\* and the count, which slab_alloc() trusts, says how many are on the list.
ObjectsOnce ==
  /\ \A m \in slabs :
       /\ Distinct(freelist[m]) /\ sfree[m] = Len(freelist[m])
       /\ \A i \in 1..stotal[m] : Listed(freelist[m], i) <=> <<m, i>> \notin given
  /\ \A x \in given : x[1] \in slabs

\* A descriptor is in the pool, once, or being made a slab by one user, or a
\* slab; and a slab other than the fathers has exactly one predecessor: two
\* users that find the same last slab full do not both append to it, which
\* would lose one of the new slabs with the objects in it.
SlabsLinked ==
  /\ Distinct(pool)
  /\ \A m \in Metas : Listed(pool, m) => m \notin slabs /\ \A u \in SlabUsers : snew[u] # m
  /\ \A u \in SlabUsers : snew[u] \notin slabs
  /\ \A u, v \in SlabUsers : snew[u] = snew[v] /\ snew[u] # NoSlab => u = v
  /\ \A m \in slabs : m > NCLASS => \E k \in slabs : snext[k] = m
  /\ \A j, k \in slabs : snext[j] = snext[k] /\ snext[j] # NoSlab => j = k
  /\ \A k \in slabs : snext[k] # NoSlab => snext[k] \in slabs /\ snext[k] > NCLASS

\* "Inflating at free == 1 guarantees that normal allocation never uses the
\* pool up to 0" (the comment at slab_alloc_meta()).
PoolNeverEmpty == mfree > 0

\* slab_alloc() and slab_free() lose and double neither objects nor slabs nor descriptors.
SlabsSound == SlabTypeOK /\ ObjectsOnce /\ SlabsLinked
=============================================================================
