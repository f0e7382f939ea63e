---------------------------- MODULE AllocProofs -----------------------------
(***************************************************************************)
(* Proofs about the two allocators that hand out parts of pages: the slabs *)
(* of the kernel (module Slab) and the heap of the user library (module    *)
(* Malloc).                                                                *)
(*                                                                         *)
(* SlabsSound needs three more facts to be inductive.  PoolExact: the count *)
(* of the descriptor pool is the length of its list, and every descriptor in *)
(* use is below total, so that the descriptors inflate_slab_meta_pool()    *)
(* appends are new.  WithinSlab: a slab lists and hands out objects of its *)
(* own page only.  LocksHeld: a user that makes a new slab holds the lock of *)
(* the last slab of the chain, which therefore stays the last one until the *)
(* new slab is linked behind it.                                           *)
(*                                                                         *)
(* HeapSound needs that the blocks are in order: a block ends before the   *)
(* next one begins, whichever two they are (Tiled).  With that, the run of *)
(* free blocks free() takes in is one block or none, because there were no *)
(* free neighbours before, and the cells of two allocations are apart.     *)
(***************************************************************************)
EXTENDS Slab, Malloc, TLAPS, WellFoundedInduction

(***************************************************************************)
(* The slab allocator; first, its lists as sequences                       *)
(***************************************************************************)

\* Taking the first element of a list.
LEMMA TailFacts ==
  ASSUME NEW S, NEW q \in Seq(S), q # <<>>
  PROVE  /\ Tail(q) \in Seq(S) /\ Len(Tail(q)) = Len(q) - 1 /\ Head(q) \in S
         /\ Distinct(q) => Distinct(Tail(q)) /\ ~Listed(Tail(q), Head(q))
         /\ \A x : Listed(q, x) <=> x = Head(q) \/ Listed(Tail(q), x)
<1>1. Tail(q) \in Seq(S) /\ Len(Tail(q)) = Len(q) - 1 /\ Head(q) = q[1] /\ Len(q) \in Nat /\ Len(q) >= 1
  OBVIOUS
<1>2. \A i \in 1..Len(Tail(q)) : Tail(q)[i] = q[i + 1]
  OBVIOUS
<1>3. Head(q) \in S
  BY <1>1
<1>4. Distinct(q) => Distinct(Tail(q)) /\ ~Listed(Tail(q), Head(q))
  BY <1>1, <1>2 DEF Distinct, Listed
<1>5. ASSUME NEW x PROVE Listed(q, x) <=> x = Head(q) \/ Listed(Tail(q), x)
  <2>1. ASSUME NEW i \in 1..Len(q), q[i] = x PROVE x = Head(q) \/ Listed(Tail(q), x)
    <3>1. CASE i = 1
      BY <1>1, <2>1, <3>1
    <3>2. CASE i # 1
      <4>1. i - 1 \in 1..Len(Tail(q)) /\ Tail(q)[i - 1] = x
        BY <1>1, <1>2, <2>1, <3>2
      <4> QED BY <4>1 DEF Listed
    <3> QED BY <3>1, <3>2
  <2>2. x = Head(q) => Listed(q, x)
    BY <1>1 DEF Listed
  <2>3. ASSUME NEW i \in 1..Len(Tail(q)), Tail(q)[i] = x PROVE Listed(q, x)
    <3>1. i + 1 \in 1..Len(q) /\ q[i + 1] = x
      BY <1>1, <1>2, <2>3
    <3> QED BY <3>1 DEF Listed
  <2> QED BY <2>1, <2>2, <2>3 DEF Listed
<1> QED BY <1>1, <1>3, <1>4, <1>5

\* Appending a list to another.
LEMMA ConcatFacts ==
  ASSUME NEW S, NEW p \in Seq(S), NEW q \in Seq(S)
  PROVE  /\ p \o q \in Seq(S) /\ Len(p \o q) = Len(p) + Len(q)
         /\ \A x : Listed(p \o q, x) <=> Listed(p, x) \/ Listed(q, x)
         /\ Distinct(p) /\ Distinct(q) /\ (\A x : ~(Listed(p, x) /\ Listed(q, x))) => Distinct(p \o q)
<1> DEFINE r == p \o q
<1>1. r \in Seq(S) /\ Len(r) = Len(p) + Len(q) /\ Len(p) \in Nat /\ Len(q) \in Nat
  OBVIOUS
<1>2. /\ \A i \in 1..Len(p) : r[i] = p[i]
      /\ \A i \in 1..Len(r) : i > Len(p) => r[i] = q[i - Len(p)] /\ i - Len(p) \in 1..Len(q)
  BY <1>1
<1>3. \A i \in 1..Len(q) : r[i + Len(p)] = q[i] /\ i + Len(p) \in 1..Len(r)
  BY <1>1
<1>4. \A i \in 1..Len(p) : i \in 1..Len(r)
  BY <1>1
<1>5. \A i \in 1..Len(r) : i \in 1..Len(p) \/ i > Len(p)
  BY <1>1
<1> HIDE DEF r
<1>6. ASSUME NEW x PROVE Listed(r, x) <=> Listed(p, x) \/ Listed(q, x)
  <2>1. Listed(r, x) => Listed(p, x) \/ Listed(q, x)
    BY <1>2, <1>5 DEF Listed
  <2>2. Listed(p, x) => Listed(r, x)
    BY <1>2, <1>4 DEF Listed
  <2>3. Listed(q, x) => Listed(r, x)
    BY <1>3 DEF Listed
  <2> QED BY <2>1, <2>2, <2>3
<1>7. ASSUME Distinct(p), Distinct(q), \A x : ~(Listed(p, x) /\ Listed(q, x)) PROVE Distinct(r)
  <2> SUFFICES ASSUME NEW i \in 1..Len(r), NEW j \in 1..Len(r), r[i] = r[j] PROVE i = j
    BY DEF Distinct
  <2>1. CASE i \in 1..Len(p) /\ j \in 1..Len(p)
    BY <1>2, <1>7, <2>1 DEF Distinct
  <2>2. CASE i > Len(p) /\ j > Len(p)
    <3>1. i - Len(p) = j - Len(p)
      BY <1>2, <1>7, <2>2 DEF Distinct
    <3> QED BY <3>1, <1>1
  <2>3. CASE i \in 1..Len(p) /\ j > Len(p)
    BY <1>2, <1>7, <2>3 DEF Listed
  <2>4. CASE i > Len(p) /\ j \in 1..Len(p)
    BY <1>2, <1>7, <2>4 DEF Listed
  <2> QED BY <1>5, <2>1, <2>2, <2>3, <2>4
<1> QED BY <1>1, <1>6, <1>7 DEF r

\* Putting an element in front of a list.
LEMMA ConsFacts ==
  ASSUME NEW S, NEW a \in S, NEW q \in Seq(S)
  PROVE  /\ <<a>> \o q \in Seq(S) /\ Len(<<a>> \o q) = Len(q) + 1
         /\ \A x : Listed(<<a>> \o q, x) <=> x = a \/ Listed(q, x)
         /\ Distinct(q) /\ ~Listed(q, a) => Distinct(<<a>> \o q)
<1>1. <<a>> \in Seq(S) /\ Len(<<a>>) = 1 /\ <<a>>[1] = a
  OBVIOUS
<1>2. \A x : Listed(<<a>>, x) <=> x = a
  BY <1>1 DEF Listed
<1>3. Distinct(<<a>>)
  BY <1>1 DEF Distinct
<1>4. Len(q) \in Nat
  OBVIOUS
<1> DEFINE p == <<a>>
<1> HIDE DEF p
<1>5. /\ p \o q \in Seq(S) /\ Len(p \o q) = Len(p) + Len(q)
      /\ \A x : Listed(p \o q, x) <=> Listed(p, x) \/ Listed(q, x)
      /\ Distinct(p) /\ Distinct(q) /\ (\A x : ~(Listed(p, x) /\ Listed(q, x))) => Distinct(p \o q)
  BY <1>1, ConcatFacts DEF p
<1> QED BY <1>1, <1>2, <1>3, <1>4, <1>5 DEF p

\* The list of the n numbers behind k: the descriptors of new pages.
LEMMA RangeFacts ==
  ASSUME NEW S, NEW n \in Nat, NEW k \in Nat, \A i \in 1..n : k + i \in S
  PROVE  LET q == [i \in 1..n |-> k + i]
         IN  /\ q \in Seq(S) /\ Len(q) = n /\ Distinct(q)
             /\ \A x : Listed(q, x) <=> x \in (k + 1)..(k + n)
<1> DEFINE q == [i \in 1..n |-> k + i]
<1>1. q \in Seq(S) /\ Len(q) = n /\ \A i \in 1..n : q[i] = k + i
  OBVIOUS
<1> HIDE DEF q
<1>2. Distinct(q)
  BY <1>1 DEF Distinct
<1>3. ASSUME NEW x PROVE Listed(q, x) <=> x \in (k + 1)..(k + n)
  <2>1. Listed(q, x) => x \in (k + 1)..(k + n)
    BY <1>1 DEF Listed
  <2>2. ASSUME x \in (k + 1)..(k + n) PROVE Listed(q, x)
    <3>1. x - k \in 1..n /\ q[x - k] = x
      BY <1>1, <2>2
    <3> QED BY <1>1, <3>1 DEF Listed
  <2> QED BY <2>1, <2>2
<1> QED BY <1>1, <1>2, <1>3 DEF q

\* The free list of a new slab lists every object of its page once.
LEMMA AllObjectsFacts ==
  ASSUME NEW n \in Nat
  PROVE  /\ AllObjects(n) \in Seq(1..n) /\ Len(AllObjects(n)) = n /\ Distinct(AllObjects(n))
         /\ \A x : Listed(AllObjects(n), x) <=> x \in 1..n
<1> DEFINE q == AllObjects(n)
<1>1. q \in Seq(1..n) /\ Len(q) = n /\ \A i \in 1..n : q[i] = i
  BY DEF AllObjects
<1> HIDE DEF q
<1>2. Distinct(q) /\ \A x : Listed(q, x) <=> x \in 1..n
  BY <1>1 DEF Distinct, Listed
<1> QED BY <1>1, <1>2 DEF q

\* The points of slab_alloc() at which the lock of the last slab is held.
Making == {"inflate", "take", "storage"}

\* The pool is counted, and all descriptors in use are below total.
PoolExact ==
  /\ mfree = Len(pool)
  /\ \A m \in Metas : Listed(pool, m) => m <= mtotal
  /\ \A u \in SlabUsers : snew[u] <= mtotal
  /\ \A m \in slabs : m <= mtotal
  /\ 1..NCLASS \subseteq slabs

\* The free list and the objects handed out are those of the page of the slab.
WithinSlab ==
  /\ \A m \in slabs : freelist[m] \in Seq(1..stotal[m]) /\ 1..stotal[m] \subseteq Indices
  /\ \A x \in given : x[2] \in 1..stotal[x[1]]

\* A user that makes a slab, and no other one, holds the lock of the slab it is
\* at, and that slab is the last of its chain.
LocksHeld ==
  /\ \A u \in SlabUsers : spc[u] # "idle" => sat[u] \in slabs
  /\ \A u \in SlabUsers : spc[u] = "storage" <=> snew[u] # NoSlab
  /\ \A u \in SlabUsers, m \in Metas : slock[m] = u <=> spc[u] \in Making /\ sat[u] = m
  /\ \A u \in SlabUsers : spc[u] \in Making => snext[sat[u]] = NoSlab

\* The inductive invariant of the slab allocator.
SInv == SlabTypeOK /\ ObjectsOnce /\ SlabsLinked /\ PoolExact /\ WithinSlab /\ LocksHeld

\* What the assumptions on the constants say about the descriptors.
LEMMA MetaConstants ==
  /\ Metas \subseteq Nat /\ NoSlab \notin Metas /\ 1..NCLASS \subseteq Metas
  /\ INITMETA \in Metas /\ NCLASS \in Nat /\ INITMETA - NCLASS \in Nat
  /\ \A c \in 1..NCLASS : TOTAL[c] \in Nat \ {0} /\ 1..TOTAL[c] \subseteq Indices
<1>1. \A c \in 1..NCLASS : TOTAL[c] \in Nat \ {0}
  BY SlabAssumption
<1>2. \A c \in 1..NCLASS : 1..TOTAL[c] \subseteq Indices
  BY DEF Indices
<1>3. /\ Metas \subseteq Nat /\ NoSlab \notin Metas /\ 1..NCLASS \subseteq Metas
      /\ INITMETA \in Metas /\ NCLASS \in Nat /\ INITMETA - NCLASS \in Nat
  BY SlabAssumption DEF Metas, NoSlab
<1> QED BY <1>1, <1>2, <1>3

\* init_slab() establishes the invariant.
LEMMA SlabInitInv == SlabInit => SInv
<1> SUFFICES ASSUME SlabInit PROVE SInv
  OBVIOUS
<1>0. \A m \in Metas : m \in Nat /\ m # 0
  BY MetaConstants DEF NoSlab
<1>1. /\ slabs = 1..NCLASS /\ given = {} /\ mtotal = INITMETA /\ mend = INITMETA /\ shalt = "no"
      /\ mfree = INITMETA - NCLASS
      /\ \A u \in SlabUsers : spc[u] = "idle" /\ sat[u] = NoSlab /\ snew[u] = NoSlab
      /\ \A m \in Metas : slock[m] = NoUser /\ snext[m] = NoSlab
  BY DEF SlabInit
<1>2. \A m \in 1..NCLASS : freelist[m] = AllObjects(TOTAL[m]) /\ sfree[m] = TOTAL[m] /\ stotal[m] = TOTAL[m]
  <2> TAKE m \in 1..NCLASS
  <2>1. m \in Metas /\ m <= NCLASS
    BY MetaConstants
  <2> QED BY <2>1 DEF SlabInit
<1>3. /\ pool \in Seq(Metas) /\ Len(pool) = INITMETA - NCLASS /\ Distinct(pool)
      /\ \A x : Listed(pool, x) <=> x \in (NCLASS + 1)..INITMETA
  <2> DEFINE n == INITMETA - NCLASS
             q == [i \in 1..n |-> NCLASS + i]
  <2>1. n \in Nat /\ NCLASS \in Nat /\ NCLASS + n = INITMETA
    BY MetaConstants, SlabAssumption
  <2>2. \A i \in 1..n : NCLASS + i \in Metas
    BY <2>1, SlabAssumption DEF Metas
  <2>3. pool = q
    BY DEF SlabInit
  <2> HIDE DEF n
  <2>4. q \in Seq(Metas) /\ Len(q) = n /\ Distinct(q) /\ \A x : Listed(q,
        x) <=> x \in (NCLASS + 1)..(NCLASS + n)
    BY <2>1, <2>2, RangeFacts
  <2> HIDE DEF q
  <2> QED BY <2>1, <2>3, <2>4 DEF n
<1>4. SlabTypeOK
  <2>1. \A m \in Metas : freelist[m] \in Seq(Indices) /\ stotal[m] \in Nat /\ sfree[m] \in Nat
    <3> TAKE m \in Metas
    <3>1. CASE m <= NCLASS
      <4>1. m \in 1..NCLASS
        BY <1>0, <3>1
      <4>2. AllObjects(TOTAL[m]) \in Seq(1..TOTAL[m]) /\ 1..TOTAL[m] \subseteq Indices /\ TOTAL[m] \in Nat
        BY <4>1, MetaConstants, AllObjectsFacts
      <4>3. AllObjects(TOTAL[m]) \in Seq(Indices)
        BY <4>2
      <4> QED BY <4>1, <4>2, <4>3, <1>2
    <3>2. CASE ~(m <= NCLASS)
      BY <3>2 DEF SlabInit
    <3> QED BY <3>1, <3>2
  <2>2. /\ freelist \in [Metas -> Seq(Indices)] /\ stotal \in [Metas -> Nat] /\ sfree \in [Metas -> Nat]
    <3>1. /\ freelist = [m \in Metas |-> freelist[m]] /\ stotal = [m \in Metas |-> stotal[m]]
          /\ sfree = [m \in Metas |-> sfree[m]]
      BY DEF SlabInit
    <3> QED BY <2>1, <3>1
  <2>3. /\ snext \in [Metas -> Metas \cup {NoSlab}] /\ slabs \subseteq Metas
        /\ slock \in [Metas -> SlabUsers \cup {NoUser}] /\ spc \in [SlabUsers -> SlabPoints]
        /\ sat \in [SlabUsers -> Metas \cup {NoSlab}] /\ snew \in [SlabUsers -> Metas \cup {NoSlab}]
        /\ given \subseteq Objects /\ shalt \in Halts
    BY MetaConstants DEF SlabInit, SlabPoints, Halts
  <2>4. mfree \in Nat /\ mtotal \in Metas /\ mend \in Metas
    BY <1>1, MetaConstants
  <2> QED BY <1>3, <2>2, <2>3, <2>4 DEF SlabTypeOK
<1>5. ObjectsOnce /\ WithinSlab
  <2>1. \A m \in slabs : /\ freelist[m] = AllObjects(TOTAL[m]) /\ sfree[m] = TOTAL[m] /\ stotal[m] = TOTAL[m]
                         /\ TOTAL[m] \in Nat /\ 1..TOTAL[m] \subseteq Indices
    BY <1>1, <1>2, MetaConstants
  <2>2. \A m \in slabs : /\ freelist[m] \in Seq(1..stotal[m]) /\ Distinct(freelist[m]) /\ sfree[m] = Len(freelist[m])
                         /\ \A i \in 1..stotal[m] : Listed(freelist[m], i)
    BY <2>1, AllObjectsFacts
  <2> QED BY <1>1, <2>1, <2>2 DEF ObjectsOnce, WithinSlab
<1>6. PoolExact
  BY <1>0, <1>1, <1>3, SlabAssumption, MetaConstants DEF PoolExact, NoSlab, Metas
<1>7. SlabsLinked
  <2>1. \A m \in Metas : Listed(pool, m) => m \notin slabs /\ m # NoSlab
    BY <1>1, <1>3, MetaConstants DEF NoSlab
  <2>2. NoSlab \notin slabs
    BY <1>1, MetaConstants DEF NoSlab
  <2>3. \A m \in slabs : ~(m > NCLASS) /\ snext[m] = NoSlab
    BY <1>1, MetaConstants
  <2> QED BY <1>1, <1>3, <2>1, <2>2, <2>3 DEF SlabsLinked
<1>8. LocksHeld
  <2>1. \A u \in SlabUsers : u # NoUser
    BY NoUserAssumption
  <2> QED BY <1>1, <2>1 DEF LocksHeld, Making
<1> QED BY <1>4, <1>5, <1>6, <1>7, <1>8 DEF SInv

\* the objects of the slabs

\* slab_alloc() begins at the father slab of the class.
LEMMA SlabAllocStep ==
  ASSUME SInv, NEW u \in SlabUsers, NEW c \in 1..NCLASS, SlabAlloc(u, c)
  PROVE  SInv'
<1>1. /\ spc[u] = "idle" /\ spc' = [spc EXCEPT ![u] = "walk"] /\ sat' = [sat EXCEPT ![u] = c]
      /\ UNCHANGED <<poolVars, slabVars, slock, snew, given, shalt>>
  BY DEF SlabAlloc, SlabGoto
<1>2. c \in slabs /\ c \in Metas
  BY MetaConstants DEF SInv, PoolExact
<1>3. /\ spc'[u] = "walk" /\ sat'[u] = c
      /\ \A v \in SlabUsers \ {u} : spc'[v] = spc[v] /\ sat'[v] = sat[v]
      /\ spc' \in [SlabUsers -> SlabPoints] /\ sat' \in [SlabUsers -> Metas \cup {NoSlab}]
  BY <1>1, <1>2 DEF SInv, SlabTypeOK, SlabPoints
<1>4. SlabTypeOK'
  BY <1>1, <1>3 DEF SInv, SlabTypeOK, poolVars, slabVars
<1>5. LocksHeld'
  <2>1. slabs' = slabs /\ snext' = snext /\ slock' = slock /\ snew' = snew
    BY <1>1 DEF slabVars
  <2>2. \A v \in SlabUsers, k \in Metas : slock'[k] = v <=> spc'[v] \in Making /\ sat'[v] = k
    BY <1>1, <1>3, <2>1 DEF SInv, LocksHeld, Making
  <2> QED BY <1>1, <1>2, <1>3, <2>1, <2>2 DEF SInv, LocksHeld, Making
<1>6. ObjectsOnce' /\ WithinSlab' /\ SlabsLinked' /\ PoolExact'
  BY <1>1 DEF SInv, ObjectsOnce, WithinSlab, SlabsLinked, PoolExact, poolVars, slabVars
<1> QED BY <1>4, <1>5, <1>6 DEF SInv

\* User u is at slab m, which is a slab whose lock nobody holds.
LEMMA AtFacts ==
  ASSUME SInv, NEW u \in SlabUsers, NEW m \in Metas, At(u, m)
  PROVE  /\ spc[u] = "walk" /\ sat[u] = m /\ slock[m] = NoUser /\ m \in slabs /\ snew[u] = NoSlab
  BY DEF At, SInv, LocksHeld

\* slab_alloc() takes the first free object of slab m.
LEMMA TakeObjectStep ==
  ASSUME SInv, NEW u \in SlabUsers, NEW m \in Metas, TakeObject(u, m) PROVE SInv'
<1> DEFINE q == freelist[m]
           i == Head(q)
<1>1. /\ spc[u] = "walk" /\ sat[u] = m /\ slock[m] = NoUser /\ m \in slabs /\ snew[u] = NoSlab
  BY AtFacts DEF TakeObject
<1>2. /\ sfree[m] # 0 /\ given' = given \cup {<<m, i>>}
      /\ freelist' = [freelist EXCEPT ![m] = Tail(q)] /\ sfree' = [sfree EXCEPT ![m] = sfree[m] - 1]
      /\ spc' = [spc EXCEPT ![u] = "idle"] /\ sat' = [sat EXCEPT ![u] = NoSlab]
         /\ snew' = [snew EXCEPT ![u] = NoSlab]
      /\ UNCHANGED <<poolVars, stotal, snext, slabs, slock, shalt>>
  BY DEF TakeObject, Return, SlabGoto
<1>3. /\ q \in Seq(1..stotal[m]) /\ q \in Seq(Indices) /\ Distinct(q) /\ sfree[m] = Len(q)
      /\ \A k \in 1..stotal[m] : Listed(q, k) <=> <<m, k>> \notin given
  BY <1>1 DEF SInv, SlabTypeOK, ObjectsOnce, WithinSlab
<1>4. q # <<>>
  BY <1>2, <1>3
<1>5. /\ Tail(q) \in Seq(1..stotal[m]) /\ Tail(q) \in Seq(Indices) /\ Len(Tail(q)) = Len(q) - 1
      /\ i \in 1..stotal[m] /\ i \in Indices
      /\ Distinct(Tail(q)) /\ ~Listed(Tail(q), i)
      /\ \A x : Listed(q, x) <=> x = i \/ Listed(Tail(q), x)
  BY <1>3, <1>4, TailFacts
<1>6. Len(q) \in Nat /\ Len(q) # 0 /\ sfree[m] - 1 \in Nat /\ sfree[m] - 1 = Len(Tail(q))
  BY <1>2, <1>3, <1>5
<1> HIDE DEF q, i
<1>7. /\ freelist' \in [Metas -> Seq(Indices)] /\ freelist'[m] = Tail(q)
      /\ sfree' \in [Metas -> Nat] /\ sfree'[m] = Len(Tail(q))
      /\ \A k \in Metas \ {m} : freelist'[k] = freelist[k] /\ sfree'[k] = sfree[k]
  BY <1>2, <1>5, <1>6 DEF SInv, SlabTypeOK
<1>8. /\ spc' \in [SlabUsers -> SlabPoints] /\ sat' \in [SlabUsers -> Metas \cup {NoSlab}]
      /\ snew' = snew /\ spc'[u] = "idle"
      /\ \A v \in SlabUsers \ {u} : spc'[v] = spc[v] /\ sat'[v] = sat[v]
  BY <1>1, <1>2 DEF SInv, SlabTypeOK, SlabPoints
<1>9. given' \subseteq Objects
  BY <1>2, <1>5 DEF SInv, SlabTypeOK, Objects
<1>10. SlabTypeOK'
  BY <1>2, <1>7, <1>8, <1>9 DEF SInv, SlabTypeOK, poolVars
<1>11. LocksHeld'
  BY <1>1, <1>2, <1>8 DEF SInv, LocksHeld, Making
<1>12. WithinSlab'
  <2>1. \A k \in slabs : k \in Metas
    BY DEF SInv, SlabTypeOK
  <2>2. \A x \in given' : x = <<m, i>> \/ x \in given
    BY <1>2
  <2>3. \A x \in given' : x[2] \in 1..stotal[x[1]]
    BY <1>5, <2>2 DEF SInv, WithinSlab
  <2>4. \A k \in slabs : freelist'[k] \in Seq(1..stotal[k]) /\ 1..stotal[k] \subseteq Indices
    BY <1>5, <1>7, <2>1 DEF SInv, WithinSlab
  <2> QED BY <1>2, <2>3, <2>4 DEF WithinSlab
<1>13. ObjectsOnce'
  <2>1. \A k \in slabs : k \in Metas
    BY DEF SInv, SlabTypeOK
  <2>2. \A k, l : <<k, l>> \in given' <=> <<k, l>> \in given \/ (k = m /\ l = i)
    BY <1>2
  <2>3. ASSUME NEW k \in slabs
        PROVE /\ Distinct(freelist'[k]) /\ sfree'[k] = Len(freelist'[k])
              /\ \A l \in 1..stotal[k] : Listed(freelist'[k], l) <=> <<k, l>> \notin given'
    <3>1. CASE k = m
      BY <1>3, <1>5, <1>7, <2>2, <3>1
    <3>2. CASE k # m
      <4>1. freelist'[k] = freelist[k] /\ sfree'[k] = sfree[k]
        BY <1>7, <2>1, <3>2
      <4> QED BY <3>2, <4>1, <2>2 DEF SInv, ObjectsOnce
    <3> QED BY <3>1, <3>2
  <2>4. \A x \in given' : x[1] \in slabs
    BY <1>1, <1>2 DEF SInv, ObjectsOnce
  <2> QED BY <1>2, <2>3, <2>4 DEF ObjectsOnce
<1>14. SlabsLinked' /\ PoolExact'
  BY <1>2, <1>8 DEF SInv, SlabsLinked, PoolExact, poolVars
<1> QED BY <1>10, <1>11, <1>12, <1>13, <1>14 DEF SInv

\* slab_free() puts an object back in front of the free list.
LEMMA SlabFreeStep ==
  ASSUME SInv, NEW u \in SlabUsers, NEW m \in Metas, NEW i \in Indices, SlabFree(u, m, i) PROVE SInv'
<1> DEFINE q == freelist[m]
           r == <<i>> \o q
<1>1. /\ <<m, i>> \in given /\ given' = given \ {<<m, i>>}
      /\ freelist' = [freelist EXCEPT ![m] = r] /\ sfree' = [sfree EXCEPT ![m] = sfree[m] + 1]
      /\ UNCHANGED <<poolVars, stotal, snext, slabs, slock, spc, sat, snew, shalt>>
  BY DEF SlabFree
<1>2. m \in slabs /\ i \in 1..stotal[m]
  <2>1. <<m, i>>[1] = m /\ <<m, i>>[2] = i
    OBVIOUS
  <2> QED BY <1>1, <2>1 DEF SInv, ObjectsOnce, WithinSlab
<1>3. /\ q \in Seq(1..stotal[m]) /\ q \in Seq(Indices) /\ Distinct(q) /\ sfree[m] = Len(q)
      /\ \A k \in 1..stotal[m] : Listed(q, k) <=> <<m, k>> \notin given
  BY <1>2 DEF SInv, SlabTypeOK, ObjectsOnce, WithinSlab
<1>4. ~Listed(q, i)
  BY <1>1, <1>2, <1>3
<1>5. /\ r \in Seq(1..stotal[m]) /\ r \in Seq(Indices) /\ Len(r) = Len(q) + 1 /\ Distinct(r)
      /\ \A x : Listed(r, x) <=> x = i \/ Listed(q, x)
  BY <1>2, <1>3, <1>4, ConsFacts
<1>6. Len(q) \in Nat
  BY <1>3
<1> HIDE DEF q, r
<1>7. /\ freelist' \in [Metas -> Seq(Indices)] /\ freelist'[m] = r
      /\ sfree' \in [Metas -> Nat] /\ sfree'[m] = Len(r)
      /\ \A k \in Metas \ {m} : freelist'[k] = freelist[k] /\ sfree'[k] = sfree[k]
  BY <1>1, <1>3, <1>5, <1>6 DEF SInv, SlabTypeOK
<1>8. SlabTypeOK'
  BY <1>1, <1>7 DEF SInv, SlabTypeOK, poolVars
<1>9. \A k \in slabs : k \in Metas
  BY DEF SInv, SlabTypeOK
<1>10. WithinSlab'
  <2>1. \A k \in slabs : freelist'[k] \in Seq(1..stotal[k]) /\ 1..stotal[k] \subseteq Indices
    BY <1>5, <1>7, <1>9 DEF SInv, WithinSlab
  <2> QED BY <1>1, <2>1 DEF SInv, WithinSlab
<1>11. ObjectsOnce'
  <2>1. \A k, l : <<k, l>> \in given' <=> <<k, l>> \in given /\ ~(k = m /\ l = i)
    BY <1>1
  <2>2. ASSUME NEW k \in slabs
        PROVE /\ Distinct(freelist'[k]) /\ sfree'[k] = Len(freelist'[k])
              /\ \A l \in 1..stotal[k] : Listed(freelist'[k], l) <=> <<k, l>> \notin given'
    <3>1. CASE k = m
      BY <1>3, <1>5, <1>7, <2>1, <3>1
    <3>2. CASE k # m
      <4>1. freelist'[k] = freelist[k] /\ sfree'[k] = sfree[k]
        BY <1>7, <1>9, <3>2
      <4> QED BY <3>2, <4>1, <2>1 DEF SInv, ObjectsOnce
    <3> QED BY <3>1, <3>2
  <2>3. \A x \in given' : x[1] \in slabs
    BY <1>1 DEF SInv, ObjectsOnce
  <2> QED BY <1>1, <2>2, <2>3 DEF ObjectsOnce
<1>12. SlabsLinked' /\ PoolExact' /\ LocksHeld'
  BY <1>1 DEF SInv, SlabsLinked, PoolExact, LocksHeld, poolVars
<1> QED BY <1>8, <1>10, <1>11, <1>12 DEF SInv

\* slab_alloc() moves to the next slab of the chain.
LEMMA NextSlabStep ==
  ASSUME SInv, NEW u \in SlabUsers, NEW m \in Metas, NextSlab(u, m) PROVE SInv'
<1>1. /\ spc[u] = "walk" /\ sat[u] = m /\ m \in slabs
  BY AtFacts DEF NextSlab
<1>2. /\ snext[m] # NoSlab /\ sat' = [sat EXCEPT ![u] = snext[m]]
      /\ UNCHANGED <<poolVars, slabVars, slock, spc, snew, given, shalt>>
  BY DEF NextSlab
<1>3. snext[m] \in slabs /\ snext[m] \in Metas
  BY <1>1, <1>2 DEF SInv, SlabsLinked, SlabTypeOK
<1>4. /\ sat' \in [SlabUsers -> Metas \cup {NoSlab}] /\ sat'[u] = snext[m]
      /\ \A v \in SlabUsers \ {u} : sat'[v] = sat[v]
  BY <1>2, <1>3 DEF SInv, SlabTypeOK
<1>5. SlabTypeOK'
  BY <1>2, <1>4 DEF SInv, SlabTypeOK, poolVars, slabVars
<1>6. LocksHeld'
  BY <1>1, <1>2, <1>3, <1>4 DEF SInv, LocksHeld, Making, slabVars
<1>7. ObjectsOnce' /\ WithinSlab' /\ SlabsLinked' /\ PoolExact'
  BY <1>2 DEF SInv, ObjectsOnce, WithinSlab, SlabsLinked, PoolExact, poolVars, slabVars
<1> QED BY <1>5, <1>6, <1>7 DEF SInv

\* slab_alloc() keeps the lock of the last slab to make a new one.
LEMMA GrowStep ==
  ASSUME SInv, NEW u \in SlabUsers, NEW m \in Metas, Grow(u, m) PROVE SInv'
<1>1. /\ spc[u] = "walk" /\ sat[u] = m /\ slock[m] = NoUser /\ m \in slabs
  BY AtFacts DEF Grow
<1>2. PICK p \in {"inflate", "take"} : spc' = [spc EXCEPT ![u] = p]
  <2>1. (IF mfree = 1 THEN "inflate" ELSE "take") \in {"inflate", "take"}
    OBVIOUS
  <2> QED BY <2>1 DEF Grow, SlabGoto
<1>3. /\ snext[m] = NoSlab /\ slock' = [slock EXCEPT ![m] = u]
      /\ UNCHANGED <<poolVars, slabVars, sat, snew, given, shalt>>
  BY DEF Grow, GrowLock
<1>4. /\ spc' \in [SlabUsers -> SlabPoints] /\ spc'[u] = p
      /\ \A v \in SlabUsers \ {u} : spc'[v] = spc[v]
      /\ slock' \in [Metas -> SlabUsers \cup {NoUser}] /\ slock'[m] = u
      /\ \A k \in Metas \ {m} : slock'[k] = slock[k]
  BY <1>2, <1>3 DEF SInv, SlabTypeOK, SlabPoints
<1>5. SlabTypeOK'
  BY <1>3, <1>4 DEF SInv, SlabTypeOK, poolVars, slabVars
<1>6. \A v \in SlabUsers : v # NoUser
  BY NoUserAssumption
<1>7. \A v \in SlabUsers, k \in Metas : slock'[k] = v <=> spc'[v] \in Making /\ sat'[v] = k
  BY <1>1, <1>2, <1>3, <1>4, <1>6 DEF SInv, LocksHeld, Making
<1>8. LocksHeld'
  BY <1>1, <1>2, <1>3, <1>4, <1>7 DEF SInv, LocksHeld, Making, slabVars
<1>9. ObjectsOnce' /\ WithinSlab' /\ SlabsLinked' /\ PoolExact'
  BY <1>3 DEF SInv, ObjectsOnce, WithinSlab, SlabsLinked, PoolExact, poolVars, slabVars
<1> QED BY <1>5, <1>8, <1>9 DEF SInv

\* slab_alloc_meta(): another user has inflated the pool already.
LEMMA MetaLateStep ==
  ASSUME SInv, NEW u \in SlabUsers, MetaLate(u)
  PROVE  SInv'
<1>1. /\ spc[u] = "inflate" /\ spc' = [spc EXCEPT ![u] = "take"]
      /\ UNCHANGED <<poolVars, slabVars, slock, sat, snew, given, shalt>>
  BY DEF MetaLate, SlabGoto
<1>2. /\ spc' \in [SlabUsers -> SlabPoints] /\ spc'[u] = "take"
      /\ \A v \in SlabUsers \ {u} : spc'[v] = spc[v]
  BY <1>1 DEF SInv, SlabTypeOK, SlabPoints
<1>3. SlabTypeOK'
  BY <1>1, <1>2 DEF SInv, SlabTypeOK, poolVars, slabVars
<1>4. \A v \in SlabUsers : (spc'[v] \in Making <=> spc[v] \in Making) /\ (spc'[v] # "idle" <=> spc[v] # "idle")
                          /\ (spc'[v] = "storage" <=> spc[v] = "storage")
  BY <1>1, <1>2 DEF Making
<1>5. LocksHeld'
  BY <1>1, <1>4 DEF SInv, LocksHeld, slabVars
<1>6. ObjectsOnce' /\ WithinSlab' /\ SlabsLinked' /\ PoolExact'
  BY <1>1 DEF SInv, ObjectsOnce, WithinSlab, SlabsLinked, PoolExact, poolVars, slabVars
<1> QED BY <1>3, <1>5, <1>6 DEF SInv

\* inflate_slab_meta_pool(): the new descriptors are neither in the pool nor in use.
LEMMA MetaInflateStep ==
  ASSUME SInv, NEW u \in SlabUsers, MetaInflate(u)
  PROVE  SInv'
<1> DEFINE n == 2 * PERPAGE
           q == [i \in 1..n |-> mtotal + i]
<1>1. /\ spc[u] = "inflate" /\ spc' = [spc EXCEPT ![u] = "take"] /\ mtotal + n <= MaxMeta
      /\ pool' = pool \o q /\ mfree' = mfree + n /\ mtotal' = mtotal + n /\ mend' = mtotal + n
      /\ UNCHANGED <<slabVars, slock, sat, snew, given, shalt>>
  BY DEF MetaInflate, SlabGoto
<1>2. n \in Nat /\ mtotal \in Nat /\ mtotal >= 1 /\ MaxMeta \in Nat
  BY SlabAssumption DEF SInv, SlabTypeOK, Metas
<1>3. \A i \in 1..n : mtotal + i \in Metas
  BY <1>1, <1>2 DEF Metas
<1> HIDE DEF n
<1>4. q \in Seq(Metas) /\ Len(q) = n /\ Distinct(q) /\ \A x : Listed(q, x) <=> x \in (mtotal + 1)..(mtotal + n)
  BY <1>2, <1>3, RangeFacts
<1> HIDE DEF q
<1>5. pool \in Seq(Metas) /\ Distinct(pool) /\ mfree = Len(pool)
  BY DEF SInv, SlabTypeOK, SlabsLinked, PoolExact
<1>6. /\ pool' \in Seq(Metas) /\ Len(pool') = Len(pool) + n
      /\ \A x : Listed(pool', x) <=> Listed(pool, x) \/ Listed(q, x)
      /\ Distinct(pool) /\ Distinct(q) /\ (\A x : ~(Listed(pool, x) /\ Listed(q, x))) => Distinct(pool')
  BY <1>1, <1>4, <1>5, ConcatFacts
<1>7. \A x : Listed(pool, x) => x \in Metas /\ x <= mtotal
  BY <1>5 DEF Listed, SInv, PoolExact
<1>8. Distinct(pool')
  BY <1>2, <1>4, <1>5, <1>6, <1>7
<1>9. mtotal' \in Metas /\ mend' \in Metas /\ mfree' \in Nat
  BY <1>1, <1>2 DEF Metas, SInv, SlabTypeOK
<1>10. /\ spc' \in [SlabUsers -> SlabPoints] /\ spc'[u] = "take"
       /\ \A v \in SlabUsers \ {u} : spc'[v] = spc[v]
  BY <1>1 DEF SInv, SlabTypeOK, SlabPoints
<1>11. SlabTypeOK'
  BY <1>1, <1>6, <1>9, <1>10 DEF SInv, SlabTypeOK, slabVars
<1>12. \A v \in SlabUsers : (spc'[v] \in Making <=> spc[v] \in Making) /\ (spc'[v] # "idle" <=> spc[v] # "idle")
                          /\ (spc'[v] = "storage" <=> spc[v] = "storage")
  BY <1>1, <1>10 DEF Making
<1>13. LocksHeld'
  BY <1>1, <1>12 DEF SInv, LocksHeld, slabVars
<1>14. \A m \in slabs : m \in Nat /\ m <= mtotal
  BY MetaConstants DEF SInv, PoolExact, SlabTypeOK
<1>15. \A v \in SlabUsers : snew[v] \in Nat /\ snew[v] <= mtotal
  <2>1. \A x \in Metas \cup {NoSlab} : x \in Nat
    BY DEF Metas, NoSlab
  <2> QED BY <2>1 DEF SInv, PoolExact, SlabTypeOK
<1>16. PoolExact'
  <2>1. slabs' = slabs /\ snew' = snew /\ mfree' = Len(pool')
    BY <1>1, <1>5, <1>6 DEF slabVars
  <2>2. \A x : Listed(pool', x) => x <= mtotal'
    <3>1. \A x : Listed(pool, x) => x <= mtotal + n
      <4>1. \A x \in Metas : x \in Nat
        BY DEF Metas
      <4> QED BY <1>2, <1>7, <4>1
    <3>2. \A x : Listed(q, x) => x <= mtotal + n
      BY <1>2, <1>4
    <3> QED BY <1>1, <1>6, <3>1, <3>2
  <2>3. \A v \in SlabUsers : snew[v] <= mtotal'
    BY <1>1, <1>2, <1>15
  <2>4. \A m \in slabs : m <= mtotal'
    BY <1>1, <1>2, <1>14
  <2> QED BY <2>1, <2>2, <2>3, <2>4 DEF SInv, PoolExact
<1>17. SlabsLinked'
  <2>1. slabs' = slabs /\ snew' = snew /\ snext' = snext
    BY <1>1 DEF slabVars
  <2>2. \A m \in Metas : Listed(q, m) => m \notin slabs /\ \A v \in SlabUsers : snew[v] # m
    BY <1>2, <1>4, <1>14, <1>15
  <2>3. \A m \in Metas : Listed(pool', m) => m \notin slabs /\ \A v \in SlabUsers : snew[v] # m
    BY <1>6, <2>2 DEF SInv, SlabsLinked
  <2> QED BY <1>8, <2>1, <2>3 DEF SInv, SlabsLinked
<1>18. ObjectsOnce' /\ WithinSlab'
  BY <1>1 DEF SInv, ObjectsOnce, WithinSlab, slabVars
<1> QED BY <1>11, <1>13, <1>16, <1>17, <1>18 DEF SInv

\* slab_alloc_meta() takes the first descriptor of the pool.
LEMMA MetaTakeStep ==
  ASSUME SInv, NEW u \in SlabUsers, MetaTake(u)
  PROVE  SInv'
<1> DEFINE n == Head(pool)
<1>1. /\ spc[u] = "take" /\ pool # <<>> /\ snew' = [snew EXCEPT ![u] = n]
      /\ pool' = Tail(pool) /\ mfree' = mfree - 1 /\ spc' = [spc EXCEPT ![u] = "storage"]
      /\ UNCHANGED <<mtotal, mend, slabVars, slock, sat, given, shalt>>
  BY DEF MetaTake, SlabGoto, PoolAfterTake
<1>2. pool \in Seq(Metas) /\ Distinct(pool) /\ mfree = Len(pool)
  BY DEF SInv, SlabTypeOK, SlabsLinked, PoolExact
<1>3. /\ pool' \in Seq(Metas) /\ Len(pool') = Len(pool) - 1 /\ n \in Metas
      /\ Distinct(pool') /\ ~Listed(pool', n)
      /\ \A x : Listed(pool, x) <=> x = n \/ Listed(pool', x)
  BY <1>1, <1>2, TailFacts
<1>4. mfree' \in Nat /\ mfree' = Len(pool')
  <2>1. Len(pool') \in Nat
    BY <1>3
  <2> QED BY <1>1, <1>2, <1>3, <2>1
<1> HIDE DEF n
<1>5. /\ spc' \in [SlabUsers -> SlabPoints] /\ spc'[u] = "storage"
      /\ \A v \in SlabUsers \ {u} : spc'[v] = spc[v] /\ snew'[v] = snew[v]
      /\ snew' \in [SlabUsers -> Metas \cup {NoSlab}] /\ snew'[u] = n
  BY <1>1, <1>3 DEF SInv, SlabTypeOK, SlabPoints
<1>6. SlabTypeOK'
  BY <1>1, <1>3, <1>4, <1>5 DEF SInv, SlabTypeOK, slabVars
<1>7. n \notin slabs /\ n <= mtotal /\ n # NoSlab /\ \A v \in SlabUsers : snew[v] # n
  BY <1>3, MetaConstants DEF SInv, SlabsLinked, PoolExact
<1>8. \A v \in SlabUsers : (spc'[v] \in Making <=> spc[v] \in Making) /\ (spc'[v] # "idle" <=> spc[v] # "idle")
  BY <1>1, <1>5 DEF Making
<1>9. \A v \in SlabUsers : spc'[v] = "storage" <=> snew'[v] # NoSlab
  BY <1>5, <1>7 DEF SInv, LocksHeld
<1>10. LocksHeld'
  BY <1>1, <1>8, <1>9 DEF SInv, LocksHeld, slabVars
<1>11. PoolExact'
  BY <1>1, <1>3, <1>4, <1>5, <1>7 DEF SInv, PoolExact, slabVars
<1>12. SlabsLinked'
  <2>1. slabs' = slabs /\ snext' = snext
    BY <1>1 DEF slabVars
  <2>2. \A m \in Metas : Listed(pool', m) => m \notin slabs /\ \A v \in SlabUsers : snew'[v] # m
    BY <1>3, <1>5 DEF SInv, SlabsLinked
  <2>3. \A v \in SlabUsers : snew'[v] \notin slabs
    BY <1>5, <1>7 DEF SInv, SlabsLinked
  <2>4. \A v, w \in SlabUsers : snew'[v] = snew'[w] /\ snew'[v] # NoSlab => v = w
    BY <1>5, <1>7 DEF SInv, SlabsLinked
  <2> QED BY <1>3, <2>1, <2>2, <2>3, <2>4 DEF SInv, SlabsLinked
<1>13. ObjectsOnce' /\ WithinSlab'
  BY <1>1 DEF SInv, ObjectsOnce, WithinSlab, slabVars
<1> QED BY <1>6, <1>10, <1>11, <1>12, <1>13 DEF SInv

\* No page for the objects: slab_free_meta() gives the descriptor back.
LEMMA UndoStep ==
  ASSUME SInv, NEW u \in SlabUsers, NEW m \in Metas, Undo(u, m)
  PROVE  SInv'
<1> DEFINE n == snew[u]
<1>1. /\ spc[u] = "storage" /\ sat[u] = m /\ pool' = <<n>> \o pool /\ mfree' = mfree + 1
      /\ slock' = [slock EXCEPT ![m] = NoUser]
      /\ spc' = [spc EXCEPT ![u] = "idle"] /\ sat' = [sat EXCEPT ![u] = NoSlab]
         /\ snew' = [snew EXCEPT ![u] = NoSlab]
      /\ UNCHANGED <<mtotal, mend, slabVars, given, shalt>>
  BY DEF Undo, Return, SlabGoto
<1>2. pool \in Seq(Metas) /\ Distinct(pool) /\ mfree = Len(pool)
  BY DEF SInv, SlabTypeOK, SlabsLinked, PoolExact
<1>3. n \in Metas /\ n # NoSlab /\ n \notin slabs /\ n <= mtotal /\ ~Listed(pool, n)
  BY <1>1 DEF SInv, SlabTypeOK, LocksHeld, SlabsLinked, PoolExact
<1>4. /\ pool' \in Seq(Metas) /\ Len(pool') = Len(pool) + 1 /\ Distinct(pool')
      /\ \A x : Listed(pool', x) <=> x = n \/ Listed(pool, x)
  BY <1>1, <1>2, <1>3, ConsFacts
<1>5. mfree' \in Nat /\ mfree' = Len(pool')
  <2>1. Len(pool') \in Nat
    BY <1>4
  <2> QED BY <1>1, <1>2, <1>4, <2>1
<1>6. /\ spc' \in [SlabUsers -> SlabPoints] /\ spc'[u] = "idle" /\ sat'[u] = NoSlab /\ snew'[u] = NoSlab
      /\ \A v \in SlabUsers \ {u} : spc'[v] = spc[v] /\ snew'[v] = snew[v] /\ sat'[v] = sat[v]
      /\ snew' \in [SlabUsers -> Metas \cup {NoSlab}] /\ sat' \in [SlabUsers -> Metas \cup {NoSlab}]
      /\ slock' \in [Metas -> SlabUsers \cup {NoUser}] /\ slock'[m] = NoUser
      /\ \A k \in Metas \ {m} : slock'[k] = slock[k]
  BY <1>1 DEF SInv, SlabTypeOK, SlabPoints
<1>7. SlabTypeOK'
  BY <1>1, <1>4, <1>5, <1>6 DEF SInv, SlabTypeOK, slabVars
<1>8. slock[m] = u /\ \A v \in SlabUsers : v # NoUser
  BY <1>1, NoUserAssumption DEF SInv, LocksHeld, Making
<1>9. LocksHeld'
  <2>1. slabs' = slabs /\ snext' = snext
    BY <1>1 DEF slabVars
  <2>2. \A v \in SlabUsers, k \in Metas : slock'[k] = v <=> spc'[v] \in Making /\ sat'[v] = k
    BY <1>1, <1>6, <1>8 DEF SInv, LocksHeld, Making
  <2> QED BY <1>6, <2>1, <2>2 DEF SInv, LocksHeld, Making
<1>10. PoolExact'
  <2>1. NoSlab <= mtotal
    BY MetaConstants DEF SInv, SlabTypeOK, NoSlab
  <2>2. \A v \in SlabUsers : snew'[v] <= mtotal
    BY <1>6, <2>1 DEF SInv, PoolExact
  <2> QED BY <1>1, <1>3, <1>4, <1>5, <2>2 DEF SInv, PoolExact, slabVars
<1>11. SlabsLinked'
  <2>1. slabs' = slabs /\ snext' = snext
    BY <1>1 DEF slabVars
  <2>2. \A x \in Metas : Listed(pool', x) => x \notin slabs /\ \A v \in SlabUsers : snew'[v] # x
    <3>1. \A v \in SlabUsers \ {u} : snew[v] # n
      BY <1>3 DEF SInv, SlabsLinked
    <3>2. \A x \in Metas : x # NoSlab
      BY MetaConstants
    <3> QED BY <1>3, <1>4, <1>6, <3>1, <3>2 DEF SInv, SlabsLinked
  <2>3. \A v \in SlabUsers : snew'[v] \notin slabs
    <3>1. NoSlab \notin slabs
      BY MetaConstants DEF SInv, SlabTypeOK
    <3> QED BY <1>6, <3>1 DEF SInv, SlabsLinked
  <2>4. \A v, w \in SlabUsers : snew'[v] = snew'[w] /\ snew'[v] # NoSlab => v = w
    BY <1>6 DEF SInv, SlabsLinked
  <2> QED BY <1>4, <2>1, <2>2, <2>3, <2>4 DEF SInv, SlabsLinked
<1>12. ObjectsOnce' /\ WithinSlab'
  BY <1>1 DEF SInv, ObjectsOnce, WithinSlab, slabVars
<1> QED BY <1>7, <1>9, <1>10, <1>11, <1>12 DEF SInv

\* The new slab is linked behind the last one, whose lock u holds.
LEMMA StorageStep ==
  ASSUME SInv, NEW u \in SlabUsers, NEW m \in Metas, NEW n \in Metas, Storage(u, m, n) PROVE SInv'
<1> DEFINE q == AllObjects(stotal[m])
<1>1. /\ spc[u] = "storage" /\ sat[u] = m /\ snew[u] = n
      /\ freelist' = [freelist EXCEPT ![n] = q] /\ stotal' = [stotal EXCEPT ![n] = stotal[m]]
      /\ sfree' = [sfree EXCEPT ![n] = stotal[m]] /\ snext' = [snext EXCEPT ![n] = NoSlab, ![m] = n]
      /\ slabs' = slabs \cup {n} /\ slock' = [slock EXCEPT ![m] = NoUser]
      /\ sat' = [sat EXCEPT ![u] = n] /\ snew' = [snew EXCEPT ![u] = NoSlab]
      /\ spc' = [spc EXCEPT ![u] = "walk"]
      /\ UNCHANGED <<poolVars, given, shalt>>
  BY DEF Storage, SlabGoto
<1>2. /\ m \in slabs /\ n \notin slabs /\ m # n /\ n # NoSlab /\ snext[m] = NoSlab /\ n <= mtotal
      /\ ~Listed(pool, n)
      /\ slock[m] = u
  BY <1>1 DEF SInv, LocksHeld, SlabsLinked, PoolExact, Making
<1>3. stotal[m] \in Nat /\ 1..stotal[m] \subseteq Indices
  BY <1>2 DEF SInv, SlabTypeOK, WithinSlab
<1>4. q \in Seq(1..stotal[m]) /\ Len(q) = stotal[m] /\ Distinct(q) /\ \A x : Listed(q, x) <=> x \in 1..stotal[m]
  BY <1>3, AllObjectsFacts
<1>5. q \in Seq(Indices)
  BY <1>3, <1>4
<1> HIDE DEF q
<1>6. /\ freelist' \in [Metas -> Seq(Indices)] /\ freelist'[n] = q
      /\ stotal' \in [Metas -> Nat] /\ stotal'[n] = stotal[m]
      /\ sfree' \in [Metas -> Nat] /\ sfree'[n] = stotal[m]
      /\ \A k \in Metas \ {n} : freelist'[k] = freelist[k] /\ stotal'[k] = stotal[k] /\ sfree'[k] = sfree[k]
  BY <1>1, <1>3, <1>5 DEF SInv, SlabTypeOK
<1>7. /\ snext' \in [Metas -> Metas \cup {NoSlab}] /\ snext'[n] = NoSlab /\ snext'[m] = n
      /\ \A k \in Metas \ {m, n} : snext'[k] = snext[k]
  BY <1>1, <1>2 DEF SInv, SlabTypeOK
<1>8. /\ spc' \in [SlabUsers -> SlabPoints] /\ spc'[u] = "walk" /\ sat'[u] = n /\ snew'[u] = NoSlab
      /\ \A v \in SlabUsers \ {u} : spc'[v] = spc[v] /\ snew'[v] = snew[v] /\ sat'[v] = sat[v]
      /\ snew' \in [SlabUsers -> Metas \cup {NoSlab}] /\ sat' \in [SlabUsers -> Metas \cup {NoSlab}]
      /\ slock' \in [Metas -> SlabUsers \cup {NoUser}] /\ slock'[m] = NoUser
      /\ \A k \in Metas \ {m} : slock'[k] = slock[k]
  BY <1>1 DEF SInv, SlabTypeOK, SlabPoints
<1>9. SlabTypeOK'
  <2>1. slabs' \subseteq Metas
    BY <1>1 DEF SInv, SlabTypeOK
  <2> QED BY <1>1, <1>6, <1>7, <1>8, <2>1 DEF SInv, SlabTypeOK, poolVars
<1>10. \A k \in slabs : k \in Metas /\ k # n
  BY <1>2 DEF SInv, SlabTypeOK
<1>11. \A x \in given : x[1] \in slabs
  BY DEF SInv, ObjectsOnce
<1>12. WithinSlab'
  <2>1. \A k \in slabs' : freelist'[k] \in Seq(1..stotal'[k]) /\ 1..stotal'[k] \subseteq Indices
    BY <1>1, <1>3, <1>4, <1>6, <1>10 DEF SInv, WithinSlab
  <2>2. \A x \in given : x[2] \in 1..stotal'[x[1]]
    BY <1>6, <1>10, <1>11 DEF SInv, WithinSlab
  <2> QED BY <1>1, <2>1, <2>2 DEF WithinSlab
<1>13. ObjectsOnce'
  <2>1. ASSUME NEW k \in slabs'
        PROVE /\ Distinct(freelist'[k]) /\ sfree'[k] = Len(freelist'[k])
              /\ \A l \in 1..stotal'[k] : Listed(freelist'[k], l) <=> <<k, l>> \notin given'
    <3>1. CASE k = n
      <4>1. \A l : <<n, l>> \notin given
        BY <1>2, <1>11
      <4> QED BY <1>1, <1>4, <1>6, <3>1, <4>1
    <3>2. CASE k # n
      <4>1. k \in slabs
        BY <1>1, <3>2
      <4>2. freelist'[k] = freelist[k] /\ sfree'[k] = sfree[k] /\ stotal'[k] = stotal[k] /\ given' = given
        BY <1>1, <1>6, <1>10, <4>1
      <4> QED BY <4>1, <4>2 DEF SInv, ObjectsOnce
    <3> QED BY <3>1, <3>2
  <2>2. \A x \in given' : x[1] \in slabs'
    BY <1>1, <1>11
  <2> QED BY <2>1, <2>2 DEF ObjectsOnce
<1>14. LocksHeld'
  <2>1. \A v \in SlabUsers : v # NoUser
    BY NoUserAssumption
  <2>2. \A v \in SlabUsers, k \in Metas : slock'[k] = v <=> spc'[v] \in Making /\ sat'[v] = k
    BY <1>1, <1>2, <1>8, <2>1 DEF SInv, LocksHeld, Making
  <2>3. \A v \in SlabUsers : spc'[v] # "idle" => sat'[v] \in slabs'
    BY <1>1, <1>8 DEF SInv, LocksHeld
  <2>4. \A v \in SlabUsers : spc'[v] = "storage" <=> snew'[v] # NoSlab
    BY <1>8 DEF SInv, LocksHeld
  <2>5. ASSUME NEW v \in SlabUsers, spc'[v] \in Making PROVE snext'[sat'[v]] = NoSlab
    <3>1. v # u
      BY <1>8, <2>5 DEF Making
    <3>2. spc[v] \in Making /\ sat'[v] = sat[v] /\ sat[v] \in slabs
      BY <1>8, <2>5, <3>1 DEF SInv, LocksHeld, Making
    <3>3. sat[v] # m
      <4>1. sat[v] = m => slock[m] = v
        BY <3>2 DEF SInv, LocksHeld
      <4> QED BY <1>2, <3>1, <4>1
    <3>4. snext'[sat[v]] = snext[sat[v]]
      BY <1>7, <1>10, <3>2, <3>3
    <3> QED BY <3>2, <3>4 DEF SInv, LocksHeld
  <2> QED BY <2>2, <2>3, <2>4, <2>5 DEF LocksHeld
<1>15. PoolExact'
  <2>1. NoSlab <= mtotal
    BY MetaConstants DEF SInv, SlabTypeOK, NoSlab
  <2>2. \A v \in SlabUsers : snew'[v] <= mtotal
    BY <1>8, <2>1 DEF SInv, PoolExact
  <2> QED BY <1>1, <1>2, <2>2 DEF SInv, PoolExact, poolVars
<1>16. SlabsLinked'
  <2>1. pool' = pool
    BY <1>1 DEF poolVars
  <2>2. \A x \in Metas : Listed(pool, x) => x \notin slabs' /\ \A v \in SlabUsers : snew'[v] # x
    <3>2. \A x \in Metas : x # NoSlab
      BY MetaConstants
    <3> QED BY <1>1, <1>2, <1>8, <3>2 DEF SInv, SlabsLinked
  <2>3. \A v \in SlabUsers : snew'[v] \notin slabs'
    <3>1. NoSlab \notin slabs'
      BY <1>9, MetaConstants DEF SlabTypeOK
    <3>2. \A v \in SlabUsers \ {u} : snew[v] # n
      BY <1>1, <1>2 DEF SInv, SlabsLinked
    <3> QED BY <1>1, <1>8, <3>1, <3>2 DEF SInv, SlabsLinked
  <2>4. \A v, w \in SlabUsers : snew'[v] = snew'[w] /\ snew'[v] # NoSlab => v = w
    BY <1>8 DEF SInv, SlabsLinked
  <2>5. n > NCLASS
    BY <1>2, MetaConstants DEF SInv, PoolExact, Metas
  <2>6. \A k \in slabs : k # m => snext'[k] = snext[k] /\ snext[k] # n
    <3>1. \A k \in slabs : snext[k] # NoSlab => snext[k] \in slabs
      BY DEF SInv, SlabsLinked
    <3> QED BY <1>2, <1>7, <1>10, <3>1
  <2>7. \A k \in slabs' : k > NCLASS => \E j \in slabs' : snext'[j] = k
    <3> SUFFICES ASSUME NEW k \in slabs', k > NCLASS PROVE \E j \in slabs' : snext'[j] = k
      OBVIOUS
    <3>1. CASE k = n
      BY <1>1, <1>2, <1>7, <3>1
    <3>2. CASE k # n
      <4>1. k \in slabs /\ k # NoSlab
        BY <1>1, <1>9, <3>2, MetaConstants DEF SlabTypeOK
      <4>2. PICK j \in slabs : snext[j] = k
        BY <4>1 DEF SInv, SlabsLinked
      <4>3. j # m
        BY <1>2, <4>1, <4>2
      <4> QED BY <1>1, <2>6, <4>2, <4>3
    <3> QED BY <3>1, <3>2
  <2>8. \A j, k \in slabs' : snext'[j] = snext'[k] /\ snext'[j] # NoSlab => j = k
    <3> SUFFICES ASSUME NEW j \in slabs', NEW k \in slabs', snext'[j] = snext'[k],
        snext'[j] # NoSlab PROVE j = k
      OBVIOUS
    <3>1. j \in slabs /\ k \in slabs
      BY <1>1, <1>7
    <3>2. CASE j = m \/ k = m
      BY <1>7, <2>6, <3>1, <3>2
    <3>3. CASE j # m /\ k # m
      <4>1. snext[j] = snext[k] /\ snext[j] # NoSlab
        BY <2>6, <3>1, <3>3
      <4> QED BY <3>1, <4>1 DEF SInv, SlabsLinked
    <3> QED BY <3>2, <3>3
  <2>9. \A k \in slabs' : snext'[k] # NoSlab => snext'[k] \in slabs' /\ snext'[k] > NCLASS
    <3> SUFFICES ASSUME NEW k \in slabs', snext'[k] # NoSlab PROVE snext'[k] \in slabs' /\ snext'[k] > NCLASS
      OBVIOUS
    <3>1. k \in slabs
      BY <1>1, <1>7
    <3>2. CASE k = m
      BY <1>1, <1>7, <2>5, <3>2
    <3>3. CASE k # m
      <4>1. snext'[k] = snext[k] /\ snext[k] # NoSlab
        BY <2>6, <3>1, <3>3
      <4>2. snext[k] \in slabs /\ snext[k] > NCLASS
        BY <3>1, <4>1 DEF SInv, SlabsLinked
      <4> QED BY <1>1, <4>1, <4>2
    <3> QED BY <3>2, <3>3
  <2>10. Distinct(pool)
    BY DEF SInv, SlabsLinked
  <2> HIDE DEF NoSlab
  <2> QED BY <2>1, <2>2, <2>3, <2>4, <2>7, <2>8, <2>9, <2>10 DEF SlabsLinked
<1> QED BY <1>9, <1>12, <1>13, <1>14, <1>15, <1>16 DEF SInv

\* The three ways to stop change nothing but the reason.
LEMMA HaltStep ==
  ASSUME SInv, NEW u \in SlabUsers, MetaPanic(u) \/ MetaCorrupt(u) \/ MetaFault(u) PROVE SInv'
<1>1. shalt' \in Halts /\ UNCHANGED <<poolVars, slabVars, slock, spc, sat, snew, given>>
  BY DEF MetaPanic, MetaCorrupt, MetaFault, Halts
<1> QED BY <1>1 DEF SInv, SlabTypeOK, ObjectsOnce, SlabsLinked, PoolExact, WithinSlab, LocksHeld, poolVars,
    slabVars

\* Every step of the allocator preserves SInv.
LEMMA SlabStep ==
  ASSUME SInv, [SlabNext]_slVars
  PROVE  SInv'
<1>1. CASE UNCHANGED slVars
  BY <1>1 DEF SInv, SlabTypeOK, ObjectsOnce, SlabsLinked, PoolExact, WithinSlab, LocksHeld, poolVars,
     slabVars, slVars
<1>2. CASE SlabNext
  <2>1. PICK u \in SlabUsers : \/ Step(u)
                               \/ \E c \in 1..NCLASS : SlabAlloc(u, c)
                               \/ \E m \in Metas, i \in Indices : SlabFree(u, m, i)
    BY <1>2 DEF SlabNext
  <2>2. CASE Step(u)
    <3>1. CASE MetaLate(u) \/ MetaInflate(u) \/ MetaTake(u)
      BY <3>1, MetaLateStep, MetaInflateStep, MetaTakeStep
    <3>2. CASE MetaPanic(u) \/ MetaCorrupt(u) \/ MetaFault(u)
      BY <3>2, HaltStep
    <3>3. CASE \E m \in Metas : TakeObject(u, m) \/ NextSlab(u, m) \/ Grow(u, m) \/ Undo(u, m)
      BY <3>3, TakeObjectStep, NextSlabStep, GrowStep, UndoStep
    <3>4. CASE \E m \in Metas : \E n \in Metas : Storage(u, m, n)
      BY <3>4, StorageStep
    <3> QED BY <2>2, <3>1, <3>2, <3>3, <3>4 DEF Step
  <2> QED BY <2>1, <2>2, SlabAllocStep, SlabFreeStep
<1> QED BY <1>1, <1>2

\* For any number of users, size classes, objects and descriptors: an object is
\* free once or handed out, never both; a descriptor is in the pool once, being made
\* a slab, or a slab; and no slab is lost when several users find the same last slab
\* full at the same time.
THEOREM SlabsSoundHolds == SlabSpec => []SlabsSound
<1>1. SlabInit => SInv
  BY SlabInitInv
<1>2. SInv /\ [SlabNext]_slVars => SInv'
  BY SlabStep
<1>3. SInv => SlabsSound
  BY DEF SInv, SlabsSound
<1> QED BY <1>1, <1>2, <1>3, PTL DEF SlabSpec

-----------------------------------------------------------------------------
(***************************************************************************)
(* The heap of the user library                                            *)
(***************************************************************************)

\* struct block, without the payload.
Headers == [size : Nat, free : BOOLEAN, next : Int, prev : Int]

\* Where a block ends.
End(bl, b) == b + Hdr + bl[b].size

\* The blocks of a heap, from 0 to br: next and prev lead from each to its
\* neighbours, tl is the last one, and nothing is between two neighbours.
Tiled(bl, tl, br) ==
  /\ br \in Nat /\ tl \in Int
  /\ DOMAIN bl \subseteq Nat /\ bl \in [DOMAIN bl -> Headers]
  /\ \A b \in DOMAIN bl : End(bl, b) <= br
  /\ \A b, c \in DOMAIN bl : b < c => End(bl, b) <= c
  /\ DOMAIN bl = {} => br = 0 /\ tl = Nil
  /\ DOMAIN bl # {} => tl \in DOMAIN bl /\ bl[tl].next = Nil
  /\ \A b \in DOMAIN bl :
       /\ bl[b].next = Nil => End(bl, b) = br /\ b = tl
       /\ bl[b].next # Nil => bl[b].next \in DOMAIN bl /\ bl[b].next = End(bl, b) /\ bl[bl[b].next].prev = b
       /\ bl[b].prev = Nil => b = 0
       /\ bl[b].prev # Nil => bl[b].prev \in DOMAIN bl /\ bl[bl[b].prev].next = b

\* No free block has a free one behind it, except maybe those of B.
Merged(bl, B) ==
  \A b \in DOMAIN bl : bl[b].free /\ bl[b].next # Nil /\ bl[bl[b].next].free => b \in B \/ bl[b].next \in B

\* What the callers hold is inside blocks that are not free, and intact.
Intact ==
  \A p \in DOMAIN held :
    /\ held[p].len \in Nat
    /\ p - Hdr \in DOMAIN blk /\ ~blk[p - Hdr].free /\ held[p].len <= blk[p - Hdr].size
    /\ \A a \in Cells(p, held[p].len) : mem[a] = held[p].tag

\* The inductive invariant of the heap.
HeapInv ==
  /\ Tiled(blk, htail, brk) /\ Merged(blk, {}) /\ brk <= MaxHeap
  /\ DOMAIN mem = 0..MaxHeap - 1
  /\ DOMAIN held \subseteq Nat
  /\ Intact

-----------------------------------------------------------------------------
\* A set of numbers that is not empty has a least element, which Min() gives.
LEMMA Least == ASSUME NEW T \in SUBSET Nat, T # {} PROVE Min(T) \in T
<1>1. PICK x \in T : \A y \in T : <<y, x>> \notin OpToRel(<, Nat)
  BY WFMin, NatLessThanWellFounded, Zenon
<1>2. \A y \in T : ~(y < x)
  BY <1>1, Zenon DEF OpToRel
<1>3. \A y \in T : x <= y
  BY <1>2
<1> QED BY <1>3, Zenon DEF Min

\* The greatest of one.
LEMMA One == ASSUME NEW x \in Int PROVE Max({x}) = x
BY DEF Max

\* ALIGN_UP() does not make a number smaller.
LEMMA AlignUp == ASSUME NEW n \in Nat PROVE ALIGN_UP(n) \in Nat /\ ALIGN_UP(n) >= n
<1>1. Align \in Nat /\ Align > 0
  BY MallocAssumption
<1>2. n + Align - 1 \in Nat
  BY <1>1
<1>3. ASSUME NEW m \in Nat, NEW k \in Nat, k > 0 PROVE (m \div k) \in Nat
  BY <1>3
<1>4. ASSUME NEW m \in Nat, NEW k \in Nat, k > 0 PROVE k * (m \div k) + k > m
  BY <1>4
<1>5. ASSUME NEW q \in Nat, NEW k \in Nat PROVE q * k \in Nat /\ q * k = k * q
  BY <1>5
<1> DEFINE q == (n + Align - 1) \div Align
<1>6. q \in Nat /\ Align * q + Align > n + Align - 1
  BY <1>1, <1>2, <1>3, <1>4
<1> HIDE DEF q
<1>7. q * Align \in Nat /\ q * Align + Align > n + Align - 1
  BY <1>1, <1>5, <1>6
<1> QED BY <1>1, <1>7 DEF q, ALIGN_UP

\* Headers with one field changed.
LEMMA FreeHeader ==
  ASSUME NEW r \in Headers, NEW f \in BOOLEAN
  PROVE  [r EXCEPT !.free = f] = [size |-> r.size, free |-> f, next |-> r.next, prev |-> r.prev]
BY DEF Headers

\* The header of a block whose next pointer is set,
LEMMA NextHeader ==
  ASSUME NEW r \in Headers, NEW x
  PROVE  [r EXCEPT !.next = x] = [size |-> r.size, free |-> r.free, next |-> x, prev |-> r.prev]
BY DEF Headers

\* and of one whose previous pointer is.
LEMMA PrevHeader ==
  ASSUME NEW r \in Headers, NEW x
  PROVE  [r EXCEPT !.prev = x] = [size |-> r.size, free |-> r.free, next |-> r.next, prev |-> x]
BY DEF Headers

\* The constants as numbers.
LEMMA Heads == Nil \in Int /\ Nil < 0 /\ Hdr \in Nat /\ Hdr > 0 /\ MaxHeap \in Nat
BY MallocAssumption DEF Nil

\* Setting the mark of a block leaves the heap tiled.
LEMMA MarkTiled ==
  ASSUME NEW bl, NEW tl, NEW br, Tiled(bl, tl, br), NEW b \in DOMAIN bl, NEW f \in BOOLEAN
  PROVE  LET g == [bl EXCEPT ![b].free = f]
         IN /\ Tiled(g, tl, br) /\ DOMAIN g = DOMAIN bl /\ g[b].free = f
            /\ \A c \in DOMAIN bl : g[c].size = bl[c].size /\ g[c].next = bl[c].next /\ g[c].prev = bl[c].prev
            /\ \A c \in DOMAIN bl \ {b} : g[c] = bl[c]
<1> DEFINE g == [bl EXCEPT ![b].free = f]
<1>1. bl \in [DOMAIN bl -> Headers]
  BY DEF Tiled
<1>2. g = [bl EXCEPT ![b] = [size |-> bl[b].size, free |-> f, next |-> bl[b].next, prev |-> bl[b].prev]]
  BY <1>1, FreeHeader
<1>3. g \in [DOMAIN bl -> Headers]
  BY <1>1, <1>2 DEF Headers
<1>4. /\ DOMAIN g = DOMAIN bl /\ g[b].free = f
      /\ \A c \in DOMAIN bl : g[c].size = bl[c].size /\ g[c].next = bl[c].next /\ g[c].prev = bl[c].prev
      /\ \A c \in DOMAIN bl \ {b} : g[c] = bl[c]
  BY <1>1, <1>2
<1> HIDE DEF g
<1>5. Tiled(g, tl, br)
  BY <1>3, <1>4 DEF Tiled, End
<1> QED BY <1>4, <1>5 DEF g

\* Merging a block with nothing, or with the block behind it.
Follows(bl, b, gone) == gone = {} \/ (bl[b].next # Nil /\ gone = {bl[b].next})

\* The heap g after the merge: b has the blocks of gone, and who follows knows.
Behind(bl, b, gone) == IF gone = {} THEN bl[b].next ELSE bl[bl[b].next].next

MergeEffect(bl, b, gone, g) ==
  /\ DOMAIN g = DOMAIN bl \ gone /\ b \in DOMAIN g
  /\ g \in [DOMAIN bl \ gone -> Headers]
  /\ g[b].free /\ g[b].prev = bl[b].prev /\ g[b].next = Behind(bl, b, gone)
  /\ g[b].size = IF gone = {} THEN bl[b].size ELSE bl[b].size + Hdr + bl[bl[b].next].size
  /\ Behind(bl, b, gone) # b
  /\ \A c \in DOMAIN g \ {b} :
       /\ g[c].size = bl[c].size /\ g[c].free = bl[c].free /\ g[c].next = bl[c].next
       /\ g[c].prev = IF c = Behind(bl, b, gone) THEN b ELSE bl[c].prev

\* MergedInto() has that effect.
LEMMA MergeFields ==
  ASSUME NEW bl, NEW tl, NEW br, Tiled(bl, tl, br), NEW b \in DOMAIN bl, NEW gone, Follows(bl, b, gone)
  PROVE  MergeEffect(bl, b, gone, MergedInto(bl, b, gone))
<1> DEFINE last == IF gone = {} THEN b ELSE Max(gone)
           next == bl[last].next
           g == MergedInto(bl, b, gone)
           size == last + bl[last].size - b
<1>1. /\ bl \in [DOMAIN bl -> Headers] /\ DOMAIN bl \subseteq Nat
      /\ \A c \in DOMAIN bl : bl[c].size \in Nat /\ bl[c].next \in Int /\ bl[c].prev \in Int
  BY DEF Tiled, Headers
<1>2. last = IF gone = {} THEN b ELSE bl[b].next
  BY <1>1, One, Heads DEF Follows
<1>a. ASSUME NEW c \in DOMAIN bl, bl[c].next # Nil
      PROVE  bl[c].next \in DOMAIN bl /\ bl[c].next = c + Hdr + bl[c].size /\ c < bl[c].next
  BY <1>1, <1>a, Heads DEF Tiled, End
<1>b. Nil \in Int /\ Nil < 0 /\ Hdr \in Nat
  BY Heads
<1>3. last \in DOMAIN bl /\ b <= last
  BY <1>1, <1>2, <1>a DEF Follows
<1>4. b \notin gone /\ next \in Int /\ next # b
  <2>1. b \notin gone
    BY <1>1, <1>a DEF Follows
  <2>2. next = Nil \/ last < next
    BY <1>3, <1>a
  <2> QED BY <1>1, <1>3, <1>b, <2>1, <2>2
<1>5. size \in Nat /\ size = IF gone = {} THEN bl[b].size ELSE bl[b].size + Hdr + bl[bl[b].next].size
  <2>1. CASE gone = {}
    BY <1>1, <1>2, <2>1
  <2>2. CASE gone # {}
    BY <1>1, <1>2, <1>a, <1>b, <2>2 DEF Follows
  <2> QED BY <2>1, <2>2
<1>6. g = [c \in DOMAIN bl \ gone |->
             IF c = b THEN [size |-> size, free |-> TRUE, next |-> next, prev |-> bl[b].prev]
             ELSE IF c = next THEN [size |-> bl[c].size, free |-> bl[c].free, next |-> bl[c].next, prev |-> b]
             ELSE bl[c]]
  BY <1>1, PrevHeader DEF MergedInto
<1> HIDE DEF last, next, size, g
<1>7. next = Behind(bl, b, gone)
  BY <1>2 DEF next, Behind
<1>8. DOMAIN g = DOMAIN bl \ gone /\ b \in DOMAIN g
  BY <1>4, <1>6
<1>9. g \in [DOMAIN bl \ gone -> Headers]
  <2>1. ASSUME NEW c \in DOMAIN bl \ gone PROVE g[c] \in Headers
    <3>1. bl[c] \in Headers /\ bl[c].size \in Nat /\ bl[c].free \in BOOLEAN /\ bl[c].next \in Int /\ bl[b].prev \in Int /\ b \in Int
      BY <1>1 DEF Headers
    <3> QED BY <1>4, <1>5, <1>6, <3>1 DEF Headers
  <2> QED BY <1>6, <2>1
<1>10. /\ g[b].free /\ g[b].prev = bl[b].prev /\ g[b].next = next /\ g[b].size = size
       /\ \A c \in DOMAIN g \ {b} : 
                 /\ g[c].size = bl[c].size /\ g[c].free = bl[c].free /\ g[c].next = bl[c].next
                 /\ g[c].prev = IF c = next THEN b ELSE bl[c].prev
  BY <1>6, <1>8
<1> QED BY <1>4, <1>5, <1>7, <1>8, <1>9, <1>10 DEF g, MergeEffect

\* What Tiled says about the neighbours of a block.
LEMMA Neighbours ==
  ASSUME NEW bl, NEW tl, NEW br, Tiled(bl, tl, br), NEW b \in DOMAIN bl
  PROVE  /\ b \in Nat /\ bl[b].size \in Nat /\ bl[b].free \in BOOLEAN /\ bl[b].next \in Int /\ bl[b].prev \in Int
         /\ b + Hdr + bl[b].size <= br /\ br \in Nat /\ b < br
         /\ \A c \in DOMAIN bl : b < c => b + Hdr + bl[b].size <= c
         /\ bl[b].next = Nil => b + Hdr + bl[b].size = br /\ b = tl
         /\ bl[b].next # Nil => /\ bl[b].next \in DOMAIN bl /\ bl[b].next = b + Hdr + bl[b].size
                               /\ bl[bl[b].next].prev = b /\ b < bl[b].next
         /\ bl[b].prev = Nil => b = 0
         /\ bl[b].prev # Nil => bl[b].prev \in DOMAIN bl /\ bl[bl[b].prev].next = b /\ bl[b].prev < b
         /\ tl \in DOMAIN bl /\ bl[tl].next = Nil
<1>1. Hdr \in Nat /\ Hdr > 0 /\ Nil \in Int /\ Nil < 0
  BY Heads
<1>2. \A c \in DOMAIN bl : c \in Nat /\ bl[c].size \in Nat /\ bl[c].free \in BOOLEAN /\ bl[c].next \in Int /\ bl[c].prev \in Int
  BY DEF Tiled, Headers
<1>3. \A c \in DOMAIN bl : bl[c].next # Nil => bl[c].next \in DOMAIN bl /\ bl[c].next = c + Hdr + bl[c].size /\ bl[bl[c].next].prev = c /\ c < bl[c].next
  BY <1>1, <1>2 DEF Tiled, End
<1>4. bl[b].prev # Nil => bl[b].prev \in DOMAIN bl /\ bl[bl[b].prev].next = b /\ bl[b].prev < b
  <2> SUFFICES ASSUME bl[b].prev # Nil PROVE bl[b].prev \in DOMAIN bl /\ bl[bl[b].prev].next = b /\ bl[b].prev < b
    OBVIOUS
  <2>1. bl[b].prev \in DOMAIN bl /\ bl[bl[b].prev].next = b
    BY DEF Tiled
  <2>2. b # Nil
    BY <1>1, <1>2
  <2> QED BY <1>3, <2>1, <2>2
<1>5. tl \in DOMAIN bl /\ bl[tl].next = Nil
  BY DEF Tiled
<1>6. /\ b + Hdr + bl[b].size <= br /\ br \in Nat /\ b < br
      /\ \A c \in DOMAIN bl : b < c => b + Hdr + bl[b].size <= c
  BY <1>1, <1>2 DEF Tiled, End
<1>7. /\ bl[b].next = Nil => b + Hdr + bl[b].size = br /\ b = tl
      /\ bl[b].prev = Nil => b = 0
  BY DEF Tiled, End
<1> QED BY <1>2, <1>3, <1>4, <1>5, <1>6, <1>7

\* Merging leaves the heap tiled; its tail is b when b is the last block now.
LEMMA MergeTiled ==
  ASSUME NEW bl, NEW tl, NEW br, Tiled(bl, tl, br), NEW b \in DOMAIN bl, NEW gone, Follows(bl, b, gone)
  PROVE  LET g == MergedInto(bl, b, gone) IN Tiled(g, IF g[b].next = Nil THEN b ELSE tl, br)
<1> DEFINE g == MergedInto(bl, b, gone)
           next == IF gone = {} THEN bl[b].next ELSE bl[bl[b].next].next
           tail == IF g[b].next = Nil THEN b ELSE tl
<1>1. /\ DOMAIN g = DOMAIN bl \ gone /\ b \in DOMAIN g
      /\ g \in [DOMAIN bl \ gone -> Headers]
      /\ g[b].free /\ g[b].prev = bl[b].prev /\ g[b].next = next
      /\ g[b].size = IF gone = {} THEN bl[b].size ELSE bl[b].size + Hdr + bl[bl[b].next].size
      /\ next # b
      /\ \A c \in DOMAIN g \ {b} : 
           /\ g[c].size = bl[c].size /\ g[c].free = bl[c].free /\ g[c].next = bl[c].next
           /\ g[c].prev = IF c = next THEN b ELSE bl[c].prev
  <2>1. MergeEffect(bl, b, gone, g)
    BY MergeFields
  <2> HIDE DEF g
  <2> QED BY <2>1 DEF MergeEffect, Behind
<1> HIDE DEF g
<1>2. Hdr \in Nat /\ Hdr > 0 /\ Nil \in Int /\ Nil < 0
  BY Heads
<1>b. b \in Nat /\ b # Nil
  BY <1>2, Neighbours
<1>g. ASSUME gone # {} PROVE bl[b].next \in DOMAIN bl /\ gone = {bl[b].next} /\ bl[b].next # Nil
  BY <1>g, Neighbours DEF Follows
<1>3. \A c \in DOMAIN g : c \in DOMAIN bl /\ c \in Nat
  BY <1>1, Neighbours
<1>4. next \in Int /\ (next = Nil => End(g, b) = br) /\ (next # Nil => next \in DOMAIN g /\ next = End(g, b))
  <2>1. CASE gone = {}
    BY <1>1, <2>1, Neighbours DEF End
  <2>2. CASE gone # {}
    <3> DEFINE n == bl[b].next
    <3>1. n \in DOMAIN bl /\ gone = {n} /\ n = b + Hdr + bl[b].size /\ n \in Nat /\ n > b /\ n # Nil
      BY <1>g, <2>2, Neighbours
    <3>2. next = bl[n].next /\ g[b].size = bl[b].size + Hdr + bl[n].size /\ bl[n].size \in Nat /\ bl[b].size \in Nat
      BY <1>1, <2>2, <3>1, Neighbours
    <3>3. End(g, b) = n + Hdr + bl[n].size
      BY <1>2, <1>b, <3>1, <3>2 DEF End
    <3> HIDE DEF n, next
    <3>4. bl[n].next \in Int /\ (bl[n].next = Nil => n + Hdr + bl[n].size = br)
          /\ (bl[n].next # Nil => bl[n].next \in DOMAIN bl /\ bl[n].next = n + Hdr + bl[n].size /\ n < bl[n].next)
      BY <3>1, Neighbours
    <3> QED BY <1>1, <3>1, <3>2, <3>3, <3>4
  <2> QED BY <2>1, <2>2
<1>5. \A c \in DOMAIN g \ {b} : End(g, c) = End(bl, c)
  BY <1>1 DEF End
<1>6. \A c \in DOMAIN g : End(g, c) <= br
  <2>1. End(g, b) <= br
    <3>1. CASE next = Nil
      BY <1>4, <3>1, Neighbours
    <3>2. CASE next # Nil
      BY <1>3, <1>4, <3>2, Neighbours
    <3> QED BY <3>1, <3>2
  <2>2. \A c \in DOMAIN g \ {b} : End(bl, c) <= br
    BY <1>3, Neighbours DEF End
  <2> QED BY <1>5, <2>1, <2>2
<1>7. ASSUME NEW c \in DOMAIN g, NEW d \in DOMAIN g, c < d PROVE End(g, c) <= d
  <2>1. CASE c # b
    BY <1>3, <1>5, <1>7, <2>1, Neighbours DEF End
  <2>2. CASE c = b /\ gone = {}
    BY <1>1, <1>3, <1>7, <2>2, Neighbours DEF End
  <2>3. CASE c = b /\ gone # {}
    <3> DEFINE n == bl[b].next
    <3>1. n \in DOMAIN bl /\ gone = {n} /\ n = b + Hdr + bl[b].size /\ n \in Nat /\ n # Nil
      BY <1>g, <2>3, Neighbours
    <3>2. g[b].size = bl[b].size + Hdr + bl[n].size /\ bl[n].size \in Nat /\ bl[b].size \in Nat
      BY <1>1, <2>3, <3>1, Neighbours
    <3>3. End(g, b) = n + Hdr + bl[n].size
      BY <1>2, <1>b, <3>1, <3>2 DEF End
    <3> HIDE DEF n
    <3>4. d # n /\ d \in DOMAIN bl /\ b + Hdr + bl[b].size <= d /\ d \in Nat
      BY <1>1, <1>3, <1>7, <2>3, <3>1, Neighbours
    <3>5. n < d
      BY <3>1, <3>4
    <3> QED BY <2>3, <3>1, <3>3, <3>4, <3>5, Neighbours
  <2> QED BY <2>1, <2>2, <2>3
<1>8. \A c \in DOMAIN g : g[c].next # Nil => g[c].next \in DOMAIN g /\ g[c].next = End(g, c) /\ g[g[c].next].prev = c
  <2>1. g[b].next # Nil => g[b].next \in DOMAIN g /\ g[b].next = End(g, b) /\ g[g[b].next].prev = b
    BY <1>1, <1>4
  <2>2. ASSUME NEW c \in DOMAIN g \ {b}, g[c].next # Nil
        PROVE  g[c].next \in DOMAIN g /\ g[c].next = End(g, c) /\ g[g[c].next].prev = c
    <3>1. c \in DOMAIN bl /\ g[c].next = bl[c].next /\ bl[c].next # Nil
      BY <1>1, <1>3, <2>2
    <3>2. bl[c].next \in DOMAIN bl /\ bl[c].next = End(bl, c) /\ bl[bl[c].next].prev = c
      BY <3>1, Neighbours DEF End
    <3>3. bl[c].next \notin gone
      <4>1. CASE gone # {}
        BY <1>g, <2>2, <3>2, <4>1, Neighbours
      <4> QED BY <4>1
    <3>4. bl[c].next # b => bl[c].next # next
      <4>1. CASE gone = {}
        BY <3>2, <2>2, <4>1, Neighbours, <1>4
      <4>2. CASE gone # {}
        <5> DEFINE n == bl[b].next
        <5>1. n \in DOMAIN bl /\ gone = {n} /\ next = bl[n].next
          BY <1>g, <4>2
        <5>2. c # n
          BY <1>1, <5>1
        <5>3. next # Nil => bl[next].prev = n
          BY <5>1, Neighbours
        <5>4. bl[c].next # Nil
          BY <3>1
        <5> QED BY <3>2, <5>2, <5>3, <5>4
      <4> QED BY <4>1, <4>2
    <3>5. bl[c].next \in DOMAIN g
      BY <1>1, <3>2, <3>3
    <3>6. g[bl[c].next].prev = c
      <4>1. CASE bl[c].next = b
        BY <1>1, <3>2, <4>1
      <4>2. CASE bl[c].next # b
        BY <1>1, <3>2, <3>4, <3>5, <4>2
      <4> QED BY <4>1, <4>2
    <3> QED BY <1>5, <3>1, <3>2, <3>5, <3>6
  <2> QED BY <2>1, <2>2
<1>9. \A c \in DOMAIN g : g[c].prev # Nil => g[c].prev \in DOMAIN g /\ g[g[c].prev].next = c
  <2> SUFFICES ASSUME NEW c \in DOMAIN g, g[c].prev # Nil PROVE g[c].prev \in DOMAIN g /\ g[g[c].prev].next = c
    OBVIOUS
  <2>1. CASE c # b /\ c = next
    BY <1>1, <2>1
  <2>2. CASE c = b \/ c # next
    <3>1. g[c].prev = bl[c].prev /\ c \in DOMAIN bl
      BY <1>1, <1>3, <2>2
    <3> DEFINE p == bl[c].prev
    <3>2. p \in DOMAIN bl /\ bl[p].next = c /\ p < c /\ c # Nil
      BY <1>2, <1>3, <3>1, Neighbours
    <3>3. p # b \/ gone = {}
      <4> SUFFICES ASSUME p = b, gone # {} PROVE FALSE
        OBVIOUS
      <4>1. bl[b].next \in gone /\ bl[b].next = c
        BY <1>g, <3>2
      <4> QED BY <1>1, <4>1
    <3>4. p \notin gone
      <4> SUFFICES ASSUME gone # {}, p = bl[b].next PROVE FALSE
        BY <1>g
      <4>1. next = c
        BY <3>2
      <4>2. c = b
        BY <2>2, <4>1
      <4> QED BY <1>1, <4>1, <4>2
    <3>5. p \in DOMAIN g
      BY <1>1, <3>2, <3>4
    <3>6. g[p].next = c
      <4>1. CASE p = b
        BY <1>1, <3>2, <3>3, <4>1
      <4>2. CASE p # b
        BY <1>1, <3>2, <3>5, <4>2
      <4> QED BY <4>1, <4>2
    <3> QED BY <3>1, <3>5, <3>6
  <2> QED BY <2>1, <2>2
<1>10. \A c \in DOMAIN g : g[c].prev = Nil => c = 0
  BY <1>1, <1>3, <1>b, Neighbours
<1>11. \A c \in DOMAIN g : g[c].next = Nil => End(g, c) = br /\ c = tail
  <2>1. ASSUME next = Nil PROVE End(g, b) = br /\ b = tail
    BY <1>1, <1>4, <2>1
  <2>2. ASSUME NEW c \in DOMAIN g \ {b}, g[c].next = Nil PROVE End(g, c) = br /\ c = tail
    <3>1. bl[c].next = Nil /\ c \in DOMAIN bl
      BY <1>1, <1>3, <2>2
    <3>2. End(bl, c) = br /\ c = tl
      BY <3>1, Neighbours DEF End
    <3>3. next # Nil
      <4> SUFFICES ASSUME next = Nil PROVE FALSE
        OBVIOUS
      <4>1. CASE gone = {}
        BY <2>2, <3>2, <4>1, Neighbours
      <4>2. CASE gone # {}
        <5>1. bl[b].next \in DOMAIN bl /\ bl[bl[b].next].next = Nil
          BY <1>g, <4>2
        <5>2. bl[b].next = tl
          BY <5>1, Neighbours
        <5> QED BY <1>1, <1>g, <2>2, <3>2, <4>2, <5>2
      <4> QED BY <4>1, <4>2
    <3> QED BY <1>1, <1>5, <3>2, <3>3
  <2> QED BY <1>1, <2>1, <2>2
<1>12. tail \in DOMAIN g /\ g[tail].next = Nil /\ tail \in Int /\ br \in Nat
  <2>1. br \in Nat /\ tl \in DOMAIN bl /\ bl[tl].next = Nil /\ tl \in Nat
    BY Neighbours
  <2>2. CASE next = Nil
    BY <1>1, <1>b, <2>1, <2>2
  <2>3. CASE next # Nil
    <3>1. tail = tl
      BY <1>1, <2>3
    <3>2. tl \notin gone
      <4>1. CASE gone # {}
        BY <1>g, <2>1, <2>3, <4>1
      <4> QED BY <4>1
    <3>3. tl \in DOMAIN g
      BY <1>1, <2>1, <3>2
    <3>4. tl # b
      <4> SUFFICES ASSUME tl = b PROVE FALSE
        OBVIOUS
      <4>1. bl[b].next = Nil
        BY <2>1
      <4>2. gone = {}
        BY <1>g, <4>1
      <4> QED BY <2>3, <4>1, <4>2
    <3> QED BY <1>1, <2>1, <3>1, <3>3, <3>4
  <2> QED BY <2>2, <2>3
<1>13. DOMAIN g \subseteq Nat /\ g \in [DOMAIN g -> Headers] /\ DOMAIN g # {}
  BY <1>1, <1>3
<1>14. Tiled(g, tail, br)
  <2> HIDE DEF tail
  <2> QED BY <1>6, <1>7, <1>8, <1>9, <1>10, <1>11, <1>12, <1>13 DEF Tiled
<1> QED BY <1>14 DEF g

\* No two free blocks follow one another, except at b: then the run of free
\* blocks behind b is the next one or none.
LEMMA RunShort ==
  ASSUME NEW bl, NEW tl, NEW br, Tiled(bl, tl, br), NEW b \in DOMAIN bl, Merged(bl, {b})
  PROVE  FreeRun(bl, b) = IF bl[b].next # Nil /\ bl[bl[b].next].free THEN {bl[b].next} ELSE {}
<1> DEFINE n == bl[b].next
<1>0. Hdr \in Nat /\ Hdr > 0 /\ Nil \in Int /\ Nil < 0
  BY Heads
<1>1. ASSUME NEW c \in DOMAIN bl, NEW e \in DOMAIN bl, e < c
      PROVE  bl[e].next # Nil /\ bl[e].next \in DOMAIN bl /\ bl[e].next <= c /\ e < bl[e].next
  <2>1. /\ e + Hdr + bl[e].size <= c
        /\ bl[e].next = Nil => e + Hdr + bl[e].size = br
        /\ bl[e].next # Nil => bl[e].next \in DOMAIN bl /\ bl[e].next = e + Hdr + bl[e].size /\ e < bl[e].next
    BY <1>1, Neighbours
  <2>2. c < br /\ c \in Nat /\ br \in Nat /\ e \in Nat /\ bl[e].size \in Nat
    BY Neighbours
  <2> QED BY <1>0, <2>1, <2>2
<1>2. ASSUME NEW c \in FreeRun(bl, b) PROVE n # Nil /\ bl[n].free /\ c = n
  <2>1. c \in DOMAIN bl /\ c > b /\ \A d \in DOMAIN bl : b < d /\ d <= c => bl[d].free
    BY DEF FreeRun
  <2>2. c \in Nat /\ b \in Nat
    BY <2>1, Neighbours
  <2>3. n # Nil /\ n \in DOMAIN bl /\ n <= c /\ b < n /\ n \in Nat
    BY <1>1, <2>1, <2>2, Neighbours
  <2>4. bl[n].free
    BY <2>1, <2>3
  <2>5. ASSUME c # n PROVE FALSE
    <3>1. n < c
      BY <2>2, <2>3, <2>5
    <3> DEFINE m == bl[n].next
    <3>2. m # Nil /\ m \in DOMAIN bl /\ m <= c /\ n < m /\ m \in Nat
      BY <1>1, <2>1, <2>3, <3>1, Neighbours
    <3>3. bl[m].free
      BY <2>1, <2>2, <2>3, <3>2
    <3>4. n = b \/ m = b
      BY <2>3, <2>4, <3>2, <3>3 DEF Merged
    <3> QED BY <2>2, <2>3, <3>2, <3>4
  <2> QED BY <2>3, <2>4, <2>5
<1>3. ASSUME n # Nil, bl[n].free PROVE n \in FreeRun(bl, b)
  <2>1. n \in DOMAIN bl /\ n > b
    BY <1>3, Neighbours
  <2>2. ASSUME NEW d \in DOMAIN bl, b < d, d <= n PROVE d = n
    <3>1. n <= d
      BY <1>1, <2>2
    <3>2. n \in Nat /\ d \in Nat
      BY <2>1, Neighbours
    <3> QED BY <2>2, <3>1, <3>2
  <2> QED BY <1>3, <2>1, <2>2 DEF FreeRun
<1> HIDE DEF n
<1>4. FreeRun(bl, b) = IF n # Nil /\ bl[n].free THEN {n} ELSE {}
  BY <1>2, <1>3
<1> QED BY <1>4 DEF n

\* What free() leaves: a tiled heap without free neighbours, in which every block
\* in use is where it was.
FreeEffect(bl, b, g) ==
  /\ Merged(g, {}) /\ DOMAIN g \subseteq DOMAIN bl
  /\ \A c \in DOMAIN bl \ {b} : ~bl[c].free => c \in DOMAIN g /\ ~g[c].free /\ g[c].size = bl[c].size

\* free() of a block that is marked free already merges it with both neighbours.
LEMMA FreedHeap ==
  ASSUME NEW bl, NEW tl, NEW br, Tiled(bl, tl, br), NEW b \in DOMAIN bl, bl[b].free, Merged(bl, {b})
  PROVE  LET f == Freed(bl, b) IN Tiled(f.blk, FreedTail(f, tl), br) /\ FreeEffect(bl, b, f.blk)
<1> DEFINE gone == FreeRun(bl, b)
           g == MergedInto(bl, b, gone)
           p == g[b].prev
           t == IF g[b].next = Nil THEN b ELSE tl
           h == MergedInto(g, p, {b})
           f == Freed(bl, b)
<1>0. Nil \in Int /\ Nil < 0
  BY Heads
<1>1. gone = IF bl[b].next # Nil /\ bl[bl[b].next].free THEN {bl[b].next} ELSE {}
  BY RunShort
<1> HIDE DEF gone
<1>2. Follows(bl, b, gone)
  BY <1>1 DEF Follows
<1>3. MergeEffect(bl, b, gone, g)
  BY <1>2, MergeFields
<1>4. Tiled(g, t, br)
  BY <1>2, MergeTiled
<1>5. f = IF p # Nil /\ g[p].free THEN [blk |-> h, at |-> p] ELSE [blk |-> g, at |-> b]
  BY DEF Freed, gone
<1> HIDE DEF g, h, f
<1>6. /\ DOMAIN g = DOMAIN bl \ gone /\ b \in DOMAIN g /\ g[b].free /\ g[b].next = Behind(bl, b, gone)
      /\ \A c \in DOMAIN g \ {b} : g[c].size = bl[c].size /\ g[c].free = bl[c].free /\ g[c].next = bl[c].next
  BY <1>3 DEF MergeEffect
<1>7. \A c \in gone : bl[c].free
  BY <1>1
<1>8. ASSUME NEW c \in DOMAIN g, g[c].free, g[c].next # Nil, g[g[c].next].free PROVE g[c].next = b
  <2>1. g[c].next \in DOMAIN g /\ c < g[c].next /\ c \in Nat
    BY <1>4, <1>8, Neighbours
  <2>2. CASE c # b
    <3> SUFFICES ASSUME g[c].next # b PROVE FALSE
      OBVIOUS
    <3>1. c \in DOMAIN bl /\ bl[c].free /\ bl[c].next = g[c].next
      BY <1>6, <1>8, <2>2
    <3>2. bl[g[c].next].free
      BY <1>6, <1>8, <2>1
    <3> QED BY <1>8, <2>2, <3>1, <3>2 DEF Merged
  <2>3. CASE c = b
    <3> DEFINE n == g[b].next
    <3>1. n \in DOMAIN g /\ n # b /\ n \in DOMAIN bl
      BY <1>6, <2>1, <2>3
    <3>2. bl[n].free /\ n \notin gone
      BY <1>6, <1>8, <2>3, <3>1
    <3>3. CASE gone = {}
      BY <1>1, <1>6, <1>8, <2>3, <3>2, <3>3 DEF Behind
    <3>4. CASE gone # {}
      <4>1. bl[b].next # Nil /\ bl[bl[b].next].free /\ n = bl[bl[b].next].next
        BY <1>1, <1>6, <3>4 DEF Behind
      <4>2. bl[b].next \in DOMAIN bl /\ b < bl[b].next /\ b \in Nat
        BY <4>1, Neighbours
      <4>3. bl[b].next # b /\ n # Nil
        BY <1>8, <2>3, <4>2
      <4> QED BY <3>1, <3>2, <4>1, <4>2, <4>3 DEF Merged
    <3> QED BY <3>3, <3>4
  <2> QED BY <2>2, <2>3
<1>9. \A c \in DOMAIN bl \ {b} : ~bl[c].free => c \in DOMAIN g /\ ~g[c].free /\ g[c].size = bl[c].size
  BY <1>6, <1>7
<1>10. CASE ~(p # Nil /\ g[p].free)
  <2>1. f.blk = g /\ f.at = b
    BY <1>5, <1>10
  <2>2. FreedTail(f, tl) = t
    BY <2>1 DEF FreedTail
  <2>3. Merged(g, {})
    <3> SUFFICES ASSUME NEW c \in DOMAIN g, g[c].free, g[c].next # Nil, g[g[c].next].free PROVE FALSE
      BY DEF Merged
    <3>1. g[c].next = b
      BY <1>8
    <3>2. g[b].prev = c /\ c \in Nat
      BY <1>4, <3>1, Neighbours
    <3> QED BY <1>0, <1>10, <3>2
  <2> HIDE DEF t
  <2> QED BY <1>4, <1>6, <1>9, <2>1, <2>2, <2>3 DEF FreeEffect, f
<1>11. CASE p # Nil /\ g[p].free
  <2>1. f.blk = h /\ f.at = p
    BY <1>5, <1>11
  <2> HIDE DEF t
  <2>2. p \in DOMAIN g /\ g[p].next = b /\ p < b /\ p \in Nat /\ b \in Nat
    BY <1>4, <1>6, <1>11, Neighbours
  <2>3. Follows(g, p, {b})
    BY <1>0, <2>2 DEF Follows
  <2>4. MergeEffect(g, p, {b}, h)
    BY <1>4, <2>2, <2>3, MergeFields DEF h
  <2>5. Tiled(h, IF h[p].next = Nil THEN p ELSE t, br)
    BY <1>4, <2>2, <2>3, MergeTiled DEF h
  <2>6. /\ DOMAIN h = DOMAIN g \ {b} /\ p \in DOMAIN h /\ h[p].next = g[b].next
        /\ \A c \in DOMAIN h \ {p} : h[c].size = g[c].size /\ h[c].free = g[c].free /\ h[c].next = g[c].next
    BY <2>2, <2>4 DEF MergeEffect, Behind
  <2>7. FreedTail(f, tl) = IF h[p].next = Nil THEN p ELSE t
    BY <2>1, <2>6 DEF FreedTail, t
  <2>8. Merged(h, {})
    <3> SUFFICES ASSUME NEW c \in DOMAIN h, h[c].free, h[c].next # Nil, h[h[c].next].free PROVE FALSE
      BY DEF Merged
    <3>1. h[c].next \in DOMAIN h /\ c < h[c].next /\ c \in Nat
      BY <2>5, Neighbours
    <3>2. CASE c = p
      <4>1. g[b].next # Nil /\ g[b].next \in DOMAIN h /\ g[b].next # p
        BY <2>6, <3>1, <3>2
      <4>2. g[g[b].next].free
        BY <2>6, <3>2, <4>1
      <4>3. g[b].next = b
        BY <1>6, <1>8, <4>1, <4>2
      <4> QED BY <2>6, <4>1, <4>3
    <3>3. CASE c # p
      <4>1. c \in DOMAIN g /\ g[c].free /\ g[c].next = h[c].next /\ g[c].next # b
        BY <2>6, <3>1, <3>3
      <4>2. g[g[c].next].free
        BY <1>11, <2>6, <3>1, <4>1
      <4> QED BY <1>8, <4>1, <4>2
    <3> QED BY <3>2, <3>3
  <2>9. \A c \in DOMAIN bl \ {b} : ~bl[c].free => c \in DOMAIN h /\ ~h[c].free /\ h[c].size = bl[c].size
    <3> SUFFICES ASSUME NEW c \in DOMAIN bl \ {b}, ~bl[c].free PROVE c \in DOMAIN h /\ ~h[c].free /\ h[c].size = bl[c].size
      OBVIOUS
    <3>1. c \in DOMAIN g /\ ~g[c].free /\ g[c].size = bl[c].size /\ c # p
      BY <1>9, <1>11
    <3> QED BY <2>6, <3>1
  <2>10. DOMAIN h \subseteq DOMAIN bl
    BY <1>6, <2>6
  <2> QED BY <2>1, <2>5, <2>7, <2>8, <2>9, <2>10 DEF FreeEffect, f
<1> QED BY <1>10, <1>11

-----------------------------------------------------------------------------
\* What malloc() takes: a block that is long enough and was not in use, in a heap
\* in which every block in use is where it was.
TookEffect(t, n) ==
  /\ Tiled(t.blk, t.tail, t.brk) /\ Merged(t.blk, {})
  /\ t.at \in DOMAIN t.blk /\ ~t.blk[t.at].free /\ n <= t.blk[t.at].size
  /\ \A c \in DOMAIN blk : ~blk[c].free => c # t.at /\ c \in DOMAIN t.blk /\ ~t.blk[c].free /\ t.blk[c].size = blk[c].size

\* grow_heap() adds a block at the end.
LEMMA GrowHeap ==
  ASSUME Tiled(blk, htail, brk), Merged(blk, {}), NEW n \in Nat
  PROVE  TookEffect(grow_heap(n), n)
<1> DEFINE size == ALIGN_UP(ALIGN_UP(n) + Hdr) - Hdr
           g == grow_heap(n).blk
<1>0. Hdr \in Nat /\ Hdr > 0 /\ Nil \in Int /\ Nil < 0
  BY Heads
<1>1. size \in Nat /\ n <= size
  <2>1. ALIGN_UP(n) \in Nat /\ n <= ALIGN_UP(n)
    BY AlignUp
  <2>2. ALIGN_UP(n) + Hdr \in Nat
    BY <1>0, <2>1
  <2>3. ALIGN_UP(ALIGN_UP(n) + Hdr) \in Nat /\ ALIGN_UP(n) + Hdr <= ALIGN_UP(ALIGN_UP(n) + Hdr)
    BY <2>2, AlignUp
  <2> QED BY <1>0, <2>1, <2>3
<1>2. grow_heap(n).at = brk /\ grow_heap(n).tail = brk /\ grow_heap(n).brk = brk + ALIGN_UP(ALIGN_UP(n) + Hdr)
  BY DEF grow_heap
<1>3. brk + ALIGN_UP(ALIGN_UP(n) + Hdr) = brk + Hdr + size
  <2>1. ALIGN_UP(n) \in Nat
    BY AlignUp
  <2>2. ALIGN_UP(n) + Hdr \in Nat
    BY <1>0, <2>1
  <2>3. ALIGN_UP(ALIGN_UP(n) + Hdr) \in Nat /\ brk \in Nat
    BY <2>2, AlignUp DEF Tiled
  <2> QED BY <1>0, <2>3
<1>4. brk \in Nat /\ htail \in Int /\ blk \in [DOMAIN blk -> Headers] /\ DOMAIN blk \subseteq Nat
  BY DEF Tiled
<1>5. g = [b \in DOMAIN blk \cup {brk} |->
             IF b = brk THEN [size |-> size, free |-> FALSE, next |-> Nil, prev |-> htail]
             ELSE IF b = htail THEN [size |-> blk[b].size, free |-> blk[b].free, next |-> brk, prev |-> blk[b].prev]
             ELSE blk[b]]
  BY <1>4, NextHeader DEF grow_heap
<1> HIDE DEF g, size
<1>6. brk \notin DOMAIN blk
  <2>1. ASSUME brk \in DOMAIN blk PROVE brk < brk
    BY <2>1, Neighbours
  <2> QED BY <1>4, <2>1
<1>7. /\ DOMAIN g = DOMAIN blk \cup {brk}
      /\ g[brk].size = size /\ ~g[brk].free /\ g[brk].next = Nil /\ g[brk].prev = htail
      /\ \A c \in DOMAIN blk : /\ g[c].size = blk[c].size /\ g[c].free = blk[c].free /\ g[c].prev = blk[c].prev
                               /\ g[c].next = IF c = htail THEN brk ELSE blk[c].next
  BY <1>5, <1>6
<1>8. g \in [DOMAIN g -> Headers]
  <2>1. ASSUME NEW c \in DOMAIN blk \cup {brk} PROVE g[c] \in Headers
    <3>1. c \in DOMAIN blk => blk[c] \in Headers /\ blk[c].size \in Nat /\ blk[c].free \in BOOLEAN /\ blk[c].prev \in Int
      BY <1>4 DEF Headers
    <3> QED BY <1>0, <1>1, <1>4, <1>5, <3>1 DEF Headers
  <2> QED BY <1>5, <1>7, <2>1
<1>9. \A c \in DOMAIN blk : c \in Nat /\ blk[c].size \in Nat /\ blk[c].next \in Int /\ blk[c].prev \in Int
  BY Neighbours
<1>10. \A c \in DOMAIN blk : End(g, c) = End(blk, c) /\ End(g, c) \in Nat /\ End(g, c) <= brk /\ c < brk
  <2>1. \A c \in DOMAIN blk : End(g, c) = End(blk, c) /\ End(g, c) \in Nat
    BY <1>0, <1>7, <1>9 DEF End
  <2>2. \A c \in DOMAIN blk : End(blk, c) <= brk /\ c < brk
    BY Neighbours DEF End
  <2> QED BY <2>1, <2>2
<1>11. End(g, brk) = brk + Hdr + size /\ brk + Hdr + size \in Nat /\ brk <= brk + Hdr + size
  BY <1>0, <1>1, <1>4, <1>7 DEF End
<1>12. \A c \in DOMAIN g : End(g, c) <= brk + Hdr + size
  BY <1>4, <1>7, <1>10, <1>11
<1>13. ASSUME NEW c \in DOMAIN g, NEW d \in DOMAIN g, c < d PROVE End(g, c) <= d
  <2>1. CASE c \in DOMAIN blk /\ d \in DOMAIN blk
    BY <1>10, <1>13, <2>1, Neighbours DEF End
  <2>2. CASE c \in DOMAIN blk /\ d = brk
    BY <1>10, <2>2
  <2>3. CASE c = brk
    <3>1. d = brk \/ d < brk
      BY <1>7, <1>10
    <3>2. d \in Nat /\ brk < d
      BY <1>4, <1>7, <1>13, <2>3
    <3> QED BY <1>4, <3>1, <3>2
  <2> QED BY <1>7, <2>1, <2>2, <2>3
<1>14. \A c \in DOMAIN blk : c = htail <=> blk[c].next = Nil
  BY Neighbours
<1>15. ASSUME NEW c \in DOMAIN g
       PROVE  /\ g[c].next = Nil => End(g, c) = brk + Hdr + size /\ c = brk
              /\ g[c].next # Nil => g[c].next \in DOMAIN g /\ g[c].next = End(g, c) /\ g[g[c].next].prev = c
  <2>1. CASE c = brk
    BY <1>7, <1>11, <2>1
  <2>2. CASE c \in DOMAIN blk /\ c = htail
    <3>1. g[c].next = brk /\ End(blk, c) = brk
      BY <1>7, <1>14, <2>2, Neighbours DEF End
    <3> QED BY <1>0, <1>4, <1>7, <1>10, <2>2, <3>1
  <2>3. CASE c \in DOMAIN blk /\ c # htail
    <3>1. g[c].next = blk[c].next /\ blk[c].next # Nil
      BY <1>7, <1>14, <2>3
    <3>2. blk[c].next \in DOMAIN blk /\ blk[c].next = End(blk, c) /\ blk[blk[c].next].prev = c
      BY <2>3, <3>1, Neighbours DEF End
    <3> QED BY <1>7, <1>10, <2>3, <3>1, <3>2
  <2> QED BY <1>7, <2>1, <2>2, <2>3
<1>16. ASSUME NEW c \in DOMAIN g
       PROVE  /\ g[c].prev = Nil => c = 0
              /\ g[c].prev # Nil => g[c].prev \in DOMAIN g /\ g[g[c].prev].next = c
  <2>1. CASE c = brk
    <3>1. htail = Nil => brk = 0
      <4>1. DOMAIN blk # {} => htail \in DOMAIN blk
        BY DEF Tiled
      <4>2. DOMAIN blk = {} => brk = 0
        BY DEF Tiled
      <4>3. Nil \notin DOMAIN blk
        BY <1>0, <1>4
      <4> QED BY <4>1, <4>2, <4>3
    <3>2. htail # Nil => htail \in DOMAIN blk
      BY DEF Tiled
    <3> QED BY <1>7, <2>1, <3>1, <3>2
  <2>2. CASE c \in DOMAIN blk
    <3>1. g[c].prev = blk[c].prev
      BY <1>7, <2>2
    <3>2. /\ blk[c].prev = Nil => c = 0
          /\ blk[c].prev # Nil => blk[c].prev \in DOMAIN blk /\ blk[blk[c].prev].next = c
      BY <2>2, Neighbours
    <3>3. c # Nil
      BY <1>0, <1>9, <2>2
    <3>4. blk[c].prev # Nil => blk[c].prev # htail
      BY <1>14, <3>2, <3>3
    <3> QED BY <1>7, <3>1, <3>2, <3>4
  <2> QED BY <1>7, <2>1, <2>2
<1>17. DOMAIN g \subseteq Nat /\ brk \in DOMAIN g /\ g[brk].next = Nil
  BY <1>4, <1>7
<1>18. Tiled(g, brk, brk + Hdr + size)
  BY <1>4, <1>8, <1>11, <1>12, <1>13, <1>15, <1>16, <1>17 DEF Tiled
<1>19. Merged(g, {})
  <2> SUFFICES ASSUME NEW c \in DOMAIN g, g[c].free, g[c].next # Nil, g[g[c].next].free PROVE FALSE
    BY DEF Merged
  <2>1. c \in DOMAIN blk /\ c # htail
    BY <1>7
  <2>2. g[c].next = blk[c].next /\ blk[c].free /\ blk[c].next # Nil
    BY <1>7, <2>1
  <2>3. blk[c].next \in DOMAIN blk
    BY <2>1, <2>2, Neighbours
  <2>4. blk[blk[c].next].free
    BY <1>7, <2>2, <2>3
  <2> QED BY <2>1, <2>2, <2>4 DEF Merged
<1>20. \A c \in DOMAIN blk : ~blk[c].free => c # brk /\ c \in DOMAIN g /\ ~g[c].free /\ g[c].size = blk[c].size
  BY <1>6, <1>7
<1> QED BY <1>1, <1>2, <1>3, <1>7, <1>17, <1>18, <1>19, <1>20 DEF TookEffect, g

\* malloc() takes the first free block that fits, or grows the heap.
LEMMA TookHeap ==
  ASSUME Tiled(blk, htail, brk), Merged(blk, {}), NEW n \in Nat
  PROVE  TookEffect(Took(n), n)
<1>1. CASE Fits(n) = {}
  <2>1. Took(n) = grow_heap(n)
    BY <1>1, Zenon DEF Took
  <2> QED BY <2>1, GrowHeap, Zenon
<1>2. CASE Fits(n) # {}
  <2> DEFINE b == Min(Fits(n))
             g == [blk EXCEPT ![b].free = FALSE]
  <2>1. Fits(n) \in SUBSET Nat
    BY DEF Fits, Tiled
  <2>2. b \in Fits(n)
    BY <1>2, <2>1, Least
  <2>3. Took(n).at = b /\ Took(n).tail = htail /\ Took(n).brk = brk /\ Took(n).blk = g
    BY <1>2 DEF Took
  <2> HIDE DEF b
  <2>4. b \in DOMAIN blk /\ blk[b].free /\ ALIGN_UP(n) <= blk[b].size
    BY <2>2 DEF Fits
  <2>5. n <= blk[b].size
    BY <2>4, AlignUp, Neighbours
  <2>6. /\ Tiled(g, htail, brk) /\ DOMAIN g = DOMAIN blk /\ g[b].free = FALSE
        /\ \A c \in DOMAIN blk : g[c].size = blk[c].size /\ g[c].next = blk[c].next /\ g[c].prev = blk[c].prev
        /\ \A c \in DOMAIN blk \ {b} : g[c] = blk[c]
    BY <2>4, MarkTiled
  <2> HIDE DEF g
  <2>7. Merged(g, {})
    <3> SUFFICES ASSUME NEW c \in DOMAIN g, g[c].free, g[c].next # Nil, g[g[c].next].free PROVE FALSE
      BY DEF Merged
    <3>1. g[c].next \in DOMAIN g
      BY <2>6, Neighbours
    <3>2. c # b /\ g[c].next # b
      BY <2>6
    <3> QED BY <2>6, <3>1, <3>2 DEF Merged
  <2> QED BY <2>3, <2>4, <2>5, <2>6, <2>7 DEF TookEffect
<1> QED BY <1>1, <1>2

-----------------------------------------------------------------------------
\* The cells of a block are in the heap, and those of two blocks are apart.
LEMMA CellsApart ==
  ASSUME NEW bl, NEW tl, NEW br, Tiled(bl, tl, br), NEW p \in Int, p - Hdr \in DOMAIN bl,
         NEW n \in Nat, n <= bl[p - Hdr].size, NEW a \in Cells(p, n)
  PROVE  /\ a \in 0..br - 1
         /\ \A q \in Int, m \in Nat : q # p /\ q - Hdr \in DOMAIN bl /\ m <= bl[q - Hdr].size => a \notin Cells(q, m)
<1>0. Hdr \in Nat
  BY Heads
<1>1. a \in Int /\ p <= a /\ a <= p + n - 1
  BY DEF Cells
<1>2. bl[p - Hdr].size \in Nat /\ p - Hdr \in Nat /\ p - Hdr + Hdr + bl[p - Hdr].size <= br /\ br \in Nat
  BY Neighbours
<1>3. a \in 0..br - 1
  BY <1>0, <1>1, <1>2
<1>4. ASSUME NEW q \in Int, NEW m \in Nat, q # p, q - Hdr \in DOMAIN bl, m <= bl[q - Hdr].size PROVE a \notin Cells(q, m)
  <2>1. bl[q - Hdr].size \in Nat
    BY <1>4, Neighbours
  <2>2. CASE p < q
    <3>1. p - Hdr + Hdr + bl[p - Hdr].size <= q - Hdr
      BY <1>0, <1>4, <2>2, Neighbours
    <3> QED BY <1>0, <1>1, <1>2, <3>1 DEF Cells
  <2>3. CASE q < p
    <3>1. q - Hdr + Hdr + bl[q - Hdr].size <= p - Hdr
      BY <1>0, <1>4, <2>3, Neighbours
    <3> QED BY <1>0, <1>1, <1>2, <1>4, <2>1, <3>1 DEF Cells
  <2> QED BY <1>4, <2>2, <2>3
<1> QED BY <1>3, <1>4

\* The heap is empty before the first malloc().
LEMMA HeapInit == MInit => HeapInv
<1> SUFFICES ASSUME MInit PROVE HeapInv
  OBVIOUS
<1>1. DOMAIN blk = {} /\ blk \in [{} -> Headers] /\ htail = Nil /\ brk = 0 /\ DOMAIN held = {}
  BY DEF MInit
<1>2. DOMAIN mem = 0..MaxHeap - 1
  BY DEF MInit
<1>3. Tiled(blk, htail, brk)
  BY <1>1, Heads DEF Tiled
<1> QED BY <1>1, <1>2, <1>3, Heads DEF HeapInv, Merged, Intact

\* Freeing a block of a heap without free neighbours.
LEMMA FreeBlock ==
  ASSUME NEW bl, NEW tl, NEW br, Tiled(bl, tl, br), Merged(bl, {}), NEW b \in DOMAIN bl
  PROVE  LET f == Freed([bl EXCEPT ![b].free = TRUE], b)
         IN Tiled(f.blk, FreedTail(f, tl), br) /\ FreeEffect(bl, b, f.blk)
<1> DEFINE g == [bl EXCEPT ![b].free = TRUE]
           f == Freed(g, b)
<1>1. /\ Tiled(g, tl, br) /\ DOMAIN g = DOMAIN bl /\ g[b].free = TRUE
      /\ \A c \in DOMAIN bl : g[c].size = bl[c].size /\ g[c].next = bl[c].next /\ g[c].prev = bl[c].prev
      /\ \A c \in DOMAIN bl \ {b} : g[c] = bl[c]
  BY MarkTiled
<1> HIDE DEF g
<1>2. Merged(g, {b})
  <2> SUFFICES ASSUME NEW c \in DOMAIN g, g[c].free, g[c].next # Nil, g[g[c].next].free, c # b, g[c].next # b PROVE FALSE
    BY DEF Merged
  <2>1. g[c].next \in DOMAIN g
    BY <1>1, Neighbours
  <2>2. c \in DOMAIN bl /\ bl[c].free /\ bl[c].next = g[c].next /\ bl[bl[c].next].free
    BY <1>1, <2>1
  <2> QED BY <2>2 DEF Merged
<1>3. Tiled(f.blk, FreedTail(f, tl), br) /\ FreeEffect(g, b, f.blk)
  BY <1>1, <1>2, FreedHeap
<1> HIDE DEF f
<1>4. FreeEffect(bl, b, f.blk)
  BY <1>1, <1>3 DEF FreeEffect
<1> QED BY <1>3, <1>4 DEF f, g

\* malloc(): what the caller writes is in no other allocation.
LEMMA MallocStep ==
  ASSUME HeapInv, NEW n \in Requests, NEW tag, malloc(n, tag)
  PROVE  HeapInv'
<1>1. Hdr \in Nat /\ Hdr > 0 /\ MaxHeap \in Nat /\ n \in Nat
  BY Heads, MallocAssumption
<1>2. PICK t : t = Took(n)
  OBVIOUS
<1>3. TookEffect(t, n)
  BY <1>1, <1>2, TookHeap DEF HeapInv
<1>4. /\ blk' = t.blk /\ htail' = t.tail /\ brk' = t.brk /\ t.brk <= MaxHeap
      /\ mem' = Filled(mem, t.at + Hdr, 0, n, tag) /\ held' = Holding(t.at + Hdr, n, tag)
  BY <1>2, Zenon DEF malloc, MayTake
<1> DEFINE p == t.at + Hdr
<1>5. Tiled(blk, htail, brk)' /\ Merged(blk, {})' /\ brk' <= MaxHeap
  BY <1>3, <1>4 DEF TookEffect
<1>6. t.at \in Nat /\ p \in Nat /\ p - Hdr = t.at /\ brk' \in Nat
  BY <1>1, <1>3, <1>4 DEF TookEffect, Tiled
<1>7. DOMAIN mem' = DOMAIN mem /\ DOMAIN mem = 0..MaxHeap - 1
  BY <1>4 DEF Filled, HeapInv
<1>8. DOMAIN held' = DOMAIN held \cup {p} /\ DOMAIN held \subseteq Nat
  BY <1>4 DEF Holding, HeapInv
<1> HIDE DEF p
<1>9. 0..brk' - 1 \subseteq DOMAIN mem
  <2>1. \A x, y \in Nat : x <= y => 0..x - 1 \subseteq 0..y - 1
    OBVIOUS
  <2> QED BY <1>1, <1>5, <1>6, <1>7, <2>1, Zenon
<1>10. Intact'
  <2> SUFFICES ASSUME NEW q \in DOMAIN held'
               PROVE  /\ held'[q].len \in Nat
                      /\ q - Hdr \in DOMAIN blk' /\ ~blk'[q - Hdr].free /\ held'[q].len <= blk'[q - Hdr].size
                      /\ \A a \in Cells(q, held'[q].len) : mem'[a] = held'[q].tag
    BY DEF Intact, Cells
  <2>1. CASE q = p
    <3>1. held'[q].len = n /\ held'[q].tag = tag
      BY <1>4, <2>1 DEF Holding, p
    <3>2. q - Hdr \in DOMAIN blk' /\ ~blk'[q - Hdr].free /\ n <= blk'[q - Hdr].size
      BY <1>3, <1>4, <1>6, <2>1 DEF TookEffect
    <3>3. ASSUME NEW a \in Cells(q, n) PROVE mem'[a] = tag
      <4>1. a \in 0..brk' - 1
        BY <1>1, <1>5, <1>6, <2>1, <3>2, <3>3, CellsApart
      <4>2. a \in DOMAIN mem
        BY <1>9, <4>1
      <4>3. Cells(p, 0) = {}
        BY <1>6 DEF Cells
      <4> QED BY <1>4, <2>1, <3>3, <4>2, <4>3 DEF Filled, p
    <3> QED BY <1>1, <3>1, <3>2, <3>3
  <2>2. CASE q # p
    <3>1. q \in DOMAIN held /\ held'[q] = held[q] /\ q \in Nat
      BY <1>4, <1>8, <2>2 DEF Holding, p
    <3>2. /\ held[q].len \in Nat /\ q - Hdr \in DOMAIN blk /\ ~blk[q - Hdr].free /\ held[q].len <= blk[q - Hdr].size
          /\ \A a \in Cells(q, held[q].len) : mem[a] = held[q].tag
      BY <3>1 DEF HeapInv, Intact
    <3>3. q - Hdr \in DOMAIN blk' /\ ~blk'[q - Hdr].free /\ held[q].len <= blk'[q - Hdr].size
      BY <1>3, <1>4, <3>2 DEF TookEffect
    <3>4. ASSUME NEW a \in Cells(q, held[q].len) PROVE mem'[a] = held[q].tag
      <4>1. a \in 0..brk' - 1
        BY <1>5, <3>1, <3>2, <3>3, <3>4, CellsApart
      <4>2. a \in DOMAIN mem
        BY <1>9, <4>1
      <4>3. p - Hdr \in DOMAIN blk' /\ n <= blk'[p - Hdr].size
        BY <1>3, <1>4, <1>6 DEF TookEffect
      <4>4. a \notin Cells(p, n)
        BY <1>1, <1>5, <1>6, <2>2, <3>1, <3>2, <3>3, <3>4, <4>3, CellsApart
      <4> QED BY <1>4, <3>2, <3>4, <4>2, <4>4 DEF Filled, p
    <3> QED BY <3>1, <3>2, <3>3, <3>4
  <2> QED BY <2>1, <2>2
<1> QED BY <1>5, <1>6, <1>7, <1>8, <1>10 DEF HeapInv

\* free(): the other allocations are in blocks that are not merged.
LEMMA FreeStep ==
  ASSUME HeapInv, NEW p \in DOMAIN held, Free(p)
  PROVE  HeapInv'
<1>1. p \in Nat /\ p - Hdr \in DOMAIN blk
  BY DEF HeapInv, Intact
<1>2. PICK f : f = Freed([blk EXCEPT ![p - Hdr].free = TRUE], p - Hdr)
  OBVIOUS
<1>3. blk' = f.blk /\ htail' = FreedTail(f, htail) /\ brk' = brk /\ mem' = mem
  BY <1>2, Zenon DEF Free
<1>4. held' = [q \in DOMAIN held \ {p} |-> held[q]]
  BY Zenon DEF Free
<1>5. Tiled(f.blk, FreedTail(f, htail), brk) /\ FreeEffect(blk, p - Hdr, f.blk)
  BY <1>1, <1>2, FreeBlock DEF HeapInv
<1>6. Tiled(blk, htail, brk)' /\ Merged(blk, {})'
  BY <1>3, <1>5 DEF FreeEffect
<1>7. Intact'
  <2> SUFFICES ASSUME NEW q \in DOMAIN held'
               PROVE  /\ held'[q].len \in Nat
                      /\ q - Hdr \in DOMAIN blk' /\ ~blk'[q - Hdr].free /\ held'[q].len <= blk'[q - Hdr].size
                      /\ \A a \in Cells(q, held'[q].len) : mem'[a] = held'[q].tag
    BY DEF Intact, Cells
  <2>1. q \in DOMAIN held /\ q # p /\ held'[q] = held[q]
    BY <1>4
  <2>2. q \in Nat /\ q - Hdr # p - Hdr
    BY <1>1, <2>1, Heads DEF HeapInv
  <2>3. /\ held[q].len \in Nat /\ q - Hdr \in DOMAIN blk /\ ~blk[q - Hdr].free /\ held[q].len <= blk[q - Hdr].size
        /\ \A a \in Cells(q, held[q].len) : mem[a] = held[q].tag
    BY <2>1 DEF HeapInv, Intact
  <2>4. q - Hdr \in DOMAIN f.blk /\ ~f.blk[q - Hdr].free /\ f.blk[q - Hdr].size = blk[q - Hdr].size
    BY <1>5, <2>2, <2>3 DEF FreeEffect
  <2> QED BY <1>3, <2>1, <2>3, <2>4
<1> QED BY <1>3, <1>4, <1>6, <1>7 DEF HeapInv

\* realloc() in place: the caller writes behind what it had, inside its block.
LEMMA StaysStep ==
  ASSUME HeapInv, NEW p \in DOMAIN held, NEW n \in Requests, ReallocStays(p, n)
  PROVE  HeapInv'
<1> DEFINE i == IF held[p].len < n THEN held[p].len ELSE n
           tag == held[p].tag
<1>1. MaxHeap \in Nat /\ n \in Nat
  BY Heads, MallocAssumption
<1>2. UNCHANGED <<blk, htail, brk>> /\ held' = Holding(p, n, tag) /\ mem' = Filled(mem, p, i, n, tag) /\ n <= blk[p - Hdr].size
  BY Zenon DEF ReallocStays
<1>3. /\ p \in Nat /\ held[p].len \in Nat /\ p - Hdr \in DOMAIN blk /\ ~blk[p - Hdr].free
      /\ \A a \in Cells(p, held[p].len) : mem[a] = tag
  BY DEF HeapInv, Intact
<1>4. DOMAIN mem' = DOMAIN mem /\ DOMAIN mem = 0..MaxHeap - 1 /\ brk <= MaxHeap
  BY <1>2 DEF Filled, HeapInv
<1>5. DOMAIN held' = DOMAIN held /\ DOMAIN held \subseteq Nat
  BY <1>2 DEF Holding, HeapInv
<1>6. Tiled(blk, htail, brk) /\ brk \in Nat
  BY DEF HeapInv, Tiled
<1>7. i \in Nat /\ i <= n /\ i <= held[p].len
  BY <1>1, <1>3
<1> HIDE DEF i, tag
<1>8. Intact'
  <2> SUFFICES ASSUME NEW q \in DOMAIN held'
               PROVE  /\ held'[q].len \in Nat
                      /\ q - Hdr \in DOMAIN blk' /\ ~blk'[q - Hdr].free /\ held'[q].len <= blk'[q - Hdr].size
                      /\ \A a \in Cells(q, held'[q].len) : mem'[a] = held'[q].tag
    BY DEF Intact, Cells
  <2>1. CASE q = p
    <3>1. held'[q].len = n /\ held'[q].tag = tag
      BY <1>2, <2>1 DEF Holding
    <3>2. ASSUME NEW a \in Cells(p, n) PROVE mem'[a] = tag
      <4>1. a \in 0..brk - 1
        BY <1>1, <1>2, <1>3, <1>6, <3>2, CellsApart
      <4>2. a \in DOMAIN mem
        BY <1>1, <1>4, <1>6, <4>1
      <4>3. a \in Cells(p, i) => a \in Cells(p, held[p].len)
        BY <1>3, <1>7 DEF Cells
      <4> QED BY <1>2, <1>3, <3>2, <4>2, <4>3 DEF Filled
    <3> QED BY <1>1, <1>2, <1>3, <2>1, <3>1, <3>2
  <2>2. CASE q # p
    <3>1. q \in DOMAIN held /\ held'[q] = held[q] /\ q \in Nat
      BY <1>2, <1>5, <2>2 DEF Holding
    <3>2. /\ held[q].len \in Nat /\ q - Hdr \in DOMAIN blk /\ ~blk[q - Hdr].free /\ held[q].len <= blk[q - Hdr].size
          /\ \A a \in Cells(q, held[q].len) : mem[a] = held[q].tag
      BY <3>1 DEF HeapInv, Intact
    <3>3. ASSUME NEW a \in Cells(q, held[q].len) PROVE mem'[a] = held[q].tag
      <4>1. a \in 0..brk - 1 /\ a \notin Cells(p, n)
        BY <1>1, <1>2, <1>3, <1>6, <2>2, <3>1, <3>2, <3>3, CellsApart
      <4>2. a \in DOMAIN mem
        BY <1>1, <1>4, <1>6, <4>1
      <4> QED BY <1>2, <3>2, <3>3, <4>1, <4>2 DEF Filled
    <3> QED BY <1>2, <3>1, <3>2, <3>3
  <2> QED BY <2>1, <2>2
<1>9. Tiled(blk, htail, brk)' /\ Merged(blk, {})'
  BY <1>2, <1>6 DEF HeapInv
<1> QED BY <1>2, <1>4, <1>5, <1>8, <1>9 DEF HeapInv

\* realloc() that moves: the payload is copied to a block of its own before the
\* old one is freed.
LEMMA MovesStep ==
  ASSUME HeapInv, NEW p \in DOMAIN held, NEW n \in Requests, ReallocMoves(p, n)
  PROVE  HeapInv'
<1> DEFINE tag == held[p].tag
           len == held[p].len
           old == blk[p - Hdr].size
<1>1. Hdr \in Nat /\ Hdr > 0 /\ MaxHeap \in Nat /\ n \in Nat
  BY Heads, MallocAssumption
<1>2. PICK t : t = Took(n)
  OBVIOUS
<1>3. PICK f : f = Freed([t.blk EXCEPT ![p - Hdr].free = TRUE], p - Hdr)
  OBVIOUS
<1>4. PICK np : np = t.at + Hdr
  OBVIOUS
<1>5. /\ blk' = f.blk /\ brk' = t.brk /\ htail' = FreedTail(f, t.tail) /\ t.brk <= MaxHeap /\ old < n
      /\ mem' = Filled(PayloadCopied(mem, p, np, old), np, len, n, tag)
      /\ held' = [q \in (DOMAIN held \ {p}) \cup {np} |-> IF q = np THEN [len |-> n, tag |-> tag] ELSE held[q]]
  BY <1>2, <1>3, <1>4, Zenon DEF ReallocMoves, MayTake
<1>6. TookEffect(t, n)
  BY <1>1, <1>2, TookHeap DEF HeapInv
<1>7. /\ p \in Nat /\ len \in Nat /\ p - Hdr \in DOMAIN blk /\ ~blk[p - Hdr].free /\ len <= old
      /\ \A a \in Cells(p, len) : mem[a] = tag
  BY DEF HeapInv, Intact
<1>8. Tiled(t.blk, t.tail, t.brk) /\ Merged(t.blk, {}) /\ p - Hdr \in DOMAIN t.blk /\ p - Hdr # t.at
  BY <1>6, <1>7 DEF TookEffect
<1>9. Tiled(f.blk, FreedTail(f, t.tail), t.brk) /\ FreeEffect(t.blk, p - Hdr, f.blk)
  BY <1>3, <1>8, FreeBlock
<1>10. Tiled(blk, htail, brk)' /\ Merged(blk, {})' /\ brk' <= MaxHeap
  BY <1>5, <1>9 DEF FreeEffect
<1>11. t.at \in DOMAIN t.blk /\ t.at \in Nat /\ np \in Nat /\ np - Hdr = t.at /\ brk' \in Nat /\ np # p
  BY <1>1, <1>4, <1>5, <1>6, <1>7, <1>8 DEF TookEffect, Tiled
<1>12. np - Hdr \in DOMAIN blk' /\ ~blk'[np - Hdr].free /\ n <= blk'[np - Hdr].size
  BY <1>5, <1>6, <1>8, <1>9, <1>11 DEF TookEffect, FreeEffect
<1>13. DOMAIN mem' = DOMAIN mem /\ DOMAIN mem = 0..MaxHeap - 1
  BY <1>5 DEF Filled, PayloadCopied, HeapInv
<1>14. DOMAIN held' = (DOMAIN held \ {p}) \cup {np} /\ DOMAIN held \subseteq Nat
  BY <1>5 DEF HeapInv
<1>15. old \in Nat /\ old <= n
  <2>1. Tiled(blk, htail, brk)
    BY DEF HeapInv
  <2>2. old \in Nat
    BY <1>7, <2>1, Neighbours
  <2> QED BY <1>1, <1>5, <2>2
<1> HIDE DEF tag, len, old
<1>16. ASSUME NEW a \in DOMAIN mem
       PROVE  mem'[a] = IF a \in Cells(np, n) \ Cells(np, len) THEN tag
                        ELSE IF a \in Cells(np, old) THEN mem[p + (a - np)] ELSE mem[a]
  BY <1>5 DEF Filled, PayloadCopied
<1>17. Intact'
  <2> SUFFICES ASSUME NEW q \in DOMAIN held'
               PROVE  /\ held'[q].len \in Nat
                      /\ q - Hdr \in DOMAIN blk' /\ ~blk'[q - Hdr].free /\ held'[q].len <= blk'[q - Hdr].size
                      /\ \A a \in Cells(q, held'[q].len) : mem'[a] = held'[q].tag
    BY DEF Intact, Cells
  <2>1. CASE q = np
    <3>1. held'[q].len = n /\ held'[q].tag = tag
      BY <1>5, <2>1
    <3>2. ASSUME NEW a \in Cells(np, n) PROVE mem'[a] = tag
      <4>1. a \in 0..brk' - 1
        BY <1>1, <1>10, <1>11, <1>12, <3>2, CellsApart
      <4>2. a \in DOMAIN mem
        BY <1>1, <1>10, <1>11, <1>13, <4>1
      <4>3. a \in Cells(np, len) => a \in Cells(np, old) /\ p + (a - np) \in Cells(p, len)
        BY <1>7, <1>11, <1>15, <4>1 DEF Cells, len, old
      <4> QED BY <1>7, <1>16, <3>2, <4>2, <4>3 DEF tag, len
    <3> QED BY <1>1, <1>12, <2>1, <3>1, <3>2
  <2>2. CASE q # np
    <3>1. q \in DOMAIN held /\ held'[q] = held[q] /\ q \in Nat /\ q # p
      BY <1>5, <1>14, <2>2
    <3>2. /\ held[q].len \in Nat /\ q - Hdr \in DOMAIN blk /\ ~blk[q - Hdr].free /\ held[q].len <= blk[q - Hdr].size
          /\ \A a \in Cells(q, held[q].len) : mem[a] = held[q].tag
      BY <3>1 DEF HeapInv, Intact
    <3>3. q - Hdr \in DOMAIN t.blk /\ ~t.blk[q - Hdr].free /\ t.blk[q - Hdr].size = blk[q - Hdr].size
      BY <1>6, <3>2 DEF TookEffect
    <3>4. q - Hdr # p - Hdr
      BY <1>1, <1>7, <3>1
    <3>5. q - Hdr \in DOMAIN blk' /\ ~blk'[q - Hdr].free /\ held[q].len <= blk'[q - Hdr].size
      BY <1>5, <1>9, <3>2, <3>3, <3>4 DEF FreeEffect
    <3>6. ASSUME NEW a \in Cells(q, held[q].len) PROVE mem'[a] = held[q].tag
      <4>1. a \in 0..brk' - 1 /\ a \notin Cells(np, n)
        BY <1>1, <1>10, <1>11, <1>12, <2>2, <3>1, <3>2, <3>5, <3>6, CellsApart
      <4>2. a \in DOMAIN mem
        BY <1>1, <1>10, <1>11, <1>13, <4>1
      <4>3. a \notin Cells(np, old)
        BY <1>1, <1>11, <1>15, <4>1 DEF Cells
      <4> QED BY <1>16, <3>2, <3>6, <4>1, <4>2, <4>3
    <3> QED BY <3>1, <3>2, <3>5, <3>6
  <2> QED BY <2>1, <2>2
<1> QED BY <1>10, <1>11, <1>13, <1>14, <1>17 DEF HeapInv

\* HeapInv is an invariant of the user library's allocator, for any sizes asked
\* for, any header and any alignment.
THEOREM HeapInvariant == MSpec => []HeapInv
<1>1. MInit => HeapInv
  BY HeapInit
<1>2. HeapInv /\ [MNext]_mVars => HeapInv'
  <2> SUFFICES ASSUME HeapInv, [MNext]_mVars PROVE HeapInv'
    OBVIOUS
  <2>1. CASE UNCHANGED mVars
    <3>1. blk' = blk /\ htail' = htail /\ brk' = brk /\ mem' = mem /\ held' = held
      BY <2>1 DEF mVars
    <3> QED BY <3>1 DEF HeapInv, Intact, Cells
  <2>2. CASE MNext
    <3>1. ASSUME NEW n \in Requests, NEW tag, malloc(n, tag) PROVE HeapInv'
      BY <3>1, MallocStep
    <3>2. ASSUME NEW n \in Requests, calloc(n) PROVE HeapInv'
      BY <3>1, <3>2 DEF calloc
    <3>3. ASSUME NEW p \in DOMAIN held, Free(p) PROVE HeapInv'
      BY <3>3, FreeStep
    <3>4. ASSUME NEW p \in DOMAIN held, NEW n \in Requests, ReallocStays(p, n) \/ ReallocMoves(p, n) PROVE HeapInv'
      BY <3>4, StaysStep, MovesStep
    <3> QED BY <2>2, <3>1, <3>2, <3>3, <3>4 DEF MNext
  <2> QED BY <2>1, <2>2
<1> QED BY <1>1, <1>2, PTL DEF MSpec

\* malloc(), calloc(), realloc() and free() keep the blocks a tiling of the heap
\* in which no two free ones are neighbours, and every allocation in a block of
\* its own with what its owner wrote into it.
THEOREM HeapSoundHolds == MSpec => []HeapSound
<1>1. HeapInv => HeapSound
  <2> SUFFICES ASSUME HeapInv PROVE HeapSound
    OBVIOUS
  <2>1. Tiled(blk, htail, brk) /\ Merged(blk, {}) /\ Intact
    BY DEF HeapInv
  <2>2. Nil \in Int /\ Nil < 0
    BY Heads
  <2>3. \A b \in DOMAIN blk : b \in Nat
    BY <2>1, Neighbours
  <2>4. (DOMAIN blk = {}) = (htail = Nil)
    <3>1. DOMAIN blk = {} => htail = Nil
      BY <2>1 DEF Tiled
    <3>2. DOMAIN blk # {} => htail \in DOMAIN blk
      BY <2>1 DEF Tiled
    <3> QED BY <2>2, <2>3, <3>1, <3>2
  <2>5. ASSUME NEW b \in DOMAIN blk
        PROVE  /\ IF blk[b].next = Nil THEN b + Hdr + blk[b].size = brk /\ b = htail
                  ELSE /\ b + Hdr + blk[b].size = blk[b].next /\ b + Hdr + blk[b].size \in DOMAIN blk
                       /\ blk[b + Hdr + blk[b].size].prev = b
               /\ (blk[b].prev = Nil) = (b = 0)
    <3>1. /\ blk[b].next = Nil => b + Hdr + blk[b].size = brk /\ b = htail
          /\ blk[b].next # Nil => /\ blk[b].next \in DOMAIN blk /\ blk[b].next = b + Hdr + blk[b].size
                                 /\ blk[blk[b].next].prev = b
          /\ blk[b].prev = Nil => b = 0
          /\ blk[b].prev # Nil => blk[b].prev \in DOMAIN blk /\ blk[b].prev < b
      BY <2>1, Neighbours
    <3>2. b = 0 => blk[b].prev = Nil
      BY <2>3, <3>1
    <3> QED BY <3>1, <3>2
  <2>6. BlocksTile
    BY <2>4, <2>5 DEF BlocksTile
  <2>7. NoFreeNeighbours
    <3>1. Nil \notin DOMAIN blk
      BY <2>2, <2>3
    <3> QED BY <2>1, <3>1 DEF NoFreeNeighbours, Merged
  <2>8. OwnersKeepData
    BY <2>1 DEF OwnersKeepData, Intact
  <2> QED BY <2>6, <2>7, <2>8 DEF HeapSound
<1> QED BY <1>1, HeapInvariant, PTL
=============================================================================
