---------------------------- MODULE MemoryProofs ----------------------------
(***************************************************************************)
(* Proofs about physical pages: the page allocator (module PageAlloc) and  *)
(* the address spaces that use them (module AddressSpace), for any number  *)
(* of tasks and pages, and whatever the order of the free list at the      *)
(* start.                                                                  *)
(*                                                                         *)
(* Address spaces: exec and fork build a page table in several loops, any  *)
(* step of which may fail, beside tables that are in use.  Built(m, F, L)  *)
(* is the invariant of those loops: the table under construction has every *)
(* page once, all from the pages F that were free at the start, and F has  *)
(* lost nothing else but the pages L that are allocated and not mapped     *)
(* yet.  Each loop keeps it (LoadLoads, StackStacks, CopyCopies, by the    *)
(* induction of NatLemmas), a clean-up returns F (FreeBuilt), and a task   *)
(* that adopts what was built keeps AInv, in which every page has at most  *)
(* one use (Adopts, Replaces).                                             *)
(*                                                                         *)
(* PagesSound is not inductive alone.  AInv adds that a table without a    *)
(* root is empty, that nothing is mapped to physical address 0 (a stack    *)
(* page for which there was no memory is, but then there is no memory for  *)
(* the last one either, and exec gives up), that the heap of a task is     *)
(* within bounds.  It holds until stale says that a heap was looked for    *)
(* from a root in use again (AHist): until then the root is free, and a    *)
(* free page is nobody's.                                                  *)
(***************************************************************************)
EXTENDS PageAlloc, AddressSpace, NatLemmas, TLAPS

(***************************************************************************)
(* The page allocator                                                      *)
(***************************************************************************)

\* The list of init_memory() is a list of free pages, nobody owns one.
LEMMA InitInv == Init => IInv
<1> SUFFICES ASSUME Init PROVE IInv
  OBVIOUS
<1> DEFINE L == Len(InitList)
<1>1. /\ L \in Nat /\ L >= 1 /\ \A i \in 1..L : InitList[i] \in Pages
      /\ \A i, j \in 1..L : InitList[i] = InitList[j] => i = j
      /\ \A p \in Pages : \E i \in 1..L : InitList[i] = p
  BY InitListAssumption
<1>2. free_list \in Seq(Pages) /\ Len(free_list) = L /\ free_list # <<>>
  BY InitListAssumption DEF Init
<1>3. /\ free_list = InitList
      /\ free_head = InitList[1] /\ free_tail = InitList[L] /\ next[InitList[L]] = NULL
      /\ next \in [Pages -> Pages \cup {NULL}]
      /\ \A i \in 1..(L - 1) : next[InitList[i]] = InitList[i + 1]
      /\ owner = [p \in Pages |-> NULL] /\ flags = [p \in Pages |-> "FREE"]
      /\ refcount = [p \in Pages |-> 0] /\ data = [p \in Pages |-> "old"]
      /\ pc = [u \in Users |-> "idle"] /\ pg = [u \in Users |-> NULL]
  BY DEF Init
<1> HIDE DEF L
<1>4. TypeOK
  BY <1>1, <1>2, <1>3 DEF TypeOK, Points
<1>5. ListExact
  BY <1>1, <1>2, <1>3 DEF ListExact
<1> QED BY <1>3, <1>4, <1>5, NULLAssumption DEF IInv, NoForeignData

\* The list after its head has been taken.
LEMMA TakeHead ==
  ASSUME NEW u \in Users, NEW p \in Pages, IInv, AllocPage(u, p)
  PROVE  TypeOK' /\ ListExact'
<1> USE DEF IInv
<1> DEFINE L == Len(free_list)
<1>1. free_list # <<>> /\ p = free_list[1] /\ owner[p] = NULL
  BY NULLAssumption DEF AllocPage, ListExact, TypeOK
<1>2. L \in Nat /\ L >= 1 /\ Len(free_list') = L - 1
      /\ \A i \in 1..(L - 1) : free_list'[i] = free_list[i + 1]
  BY <1>1 DEF AllocPage, TypeOK
<1>3. free_list' \in Seq(Pages)
  BY <1>1 DEF AllocPage, TypeOK
<1>4. TypeOK'
  BY <1>3 DEF TypeOK, AllocPage, TailAfterAlloc, Points
<1>5. L = 1 => next[p] = NULL
  BY <1>1 DEF ListExact, AllocPage
<1>6. L > 1 => next[p] = free_list[2] /\ next[p] # NULL
  BY <1>1, <1>2, NULLAssumption DEF ListExact, AllocPage, TypeOK
<1>7. \A i \in 1..(L - 1) : free_list'[i] # p /\ next'[free_list'[i]] = next[free_list'[i]]
  BY <1>1, <1>2 DEF ListExact, AllocPage, TypeOK
<1>8. /\ free_list' = <<>> => free_head' = NULL /\ free_tail' = NULL
      /\ free_list' # <<>> => /\ free_head' = free_list'[1]
                              /\ free_tail' = free_list'[Len(free_list')]
                              /\ next'[free_tail'] = NULL
  <2>1. CASE L = 1
    BY <2>1, <1>2, <1>3, <1>5 DEF AllocPage, TailAfterAlloc
  <2>2. CASE L > 1
    <3>1. L - 1 \in 1..(L - 1) /\ 1 \in 1..(L - 1) /\ free_list' # <<>>
      BY <2>2, <1>2, <1>3
    <3>2. free_head' = next[p] /\ free_tail' = free_tail
      BY <2>2, <1>6 DEF AllocPage, TailAfterAlloc
    <3>3. free_tail = free_list[L] /\ next[free_tail] = NULL
      BY <1>1 DEF ListExact
    <3>4. free_list'[1] = free_list[2] /\ free_list'[L - 1] = free_list[L]
      BY <3>1, <1>2
    <3> QED BY <2>2, <3>1, <3>2, <3>3, <3>4, <1>2, <1>6, <1>7
  <2> QED BY <2>1, <2>2, <1>2
<1>9. \A i \in 1..Len(free_list') : i < Len(free_list') => next'[free_list'[i]] = free_list'[i + 1]
  <2> TAKE i \in 1..Len(free_list')
  <2> HAVE i < Len(free_list')
  <2>1. i + 1 \in 1..L /\ i + 1 < L /\ i \in 1..(L - 1) /\ i + 1 \in 1..(L - 1)
    BY <1>2
  <2>2. next[free_list[i + 1]] = free_list[(i + 1) + 1]
    BY <2>1 DEF ListExact
  <2> QED BY <2>1, <2>2, <1>2, <1>7
<1>10. \A i, j \in 1..Len(free_list') : free_list'[i] = free_list'[j] => i = j
  <2> TAKE i, j \in 1..Len(free_list')
  <2>1. i + 1 \in 1..L /\ j + 1 \in 1..L /\ i \in 1..(L - 1) /\ j \in 1..(L - 1)
    BY <1>2
  <2>2. free_list[i + 1] = free_list[j + 1] => i + 1 = j + 1
    BY <2>1 DEF ListExact
  <2> QED BY <2>1, <2>2, <1>2
<1>11. \A q \in Pages : (\E i \in 1..Len(free_list') : free_list'[i] = q) <=> owner'[q] = NULL
  <2> TAKE q \in Pages
  <2>1. (\E i \in 1..Len(free_list') : free_list'[i] = q) <=>
           q # p /\ \E i \in 1..L : free_list[i] = q
    <3>1. ASSUME NEW i \in 1..Len(free_list'), free_list'[i] = q
          PROVE  q # p /\ \E k \in 1..L : free_list[k] = q
      BY <3>1, <1>2, <1>7
    <3>2. ASSUME NEW i \in 1..L, free_list[i] = q, q # p
          PROVE  \E k \in 1..Len(free_list') : free_list'[k] = q
      <4>1. i - 1 \in 1..Len(free_list')
        BY <3>2, <1>1, <1>2
      <4>2. free_list'[i - 1] = free_list[i]
        BY <4>1, <1>2
      <4> QED BY <4>1, <4>2, <3>2
    <3> QED BY <3>1, <3>2
  <2> QED BY <2>1, NULLAssumption DEF AllocPage, ListExact, TypeOK
<1>12. \A q \in Pages : /\ owner'[q] = NULL <=> flags'[q] = "FREE"
                        /\ refcount'[q] = (IF flags'[q] = "USED" THEN 1 ELSE 0)
  BY <1>1, NULLAssumption DEF AllocPage, ListExact, TypeOK
<1> QED BY <1>4, <1>8, <1>9, <1>10, <1>11, <1>12 DEF ListExact

\* The list after a page has been appended.
LEMMA AddTail ==
  ASSUME NEW u \in Users, NEW p \in Pages, IInv, FreePage(u, p)
  PROVE  TypeOK' /\ ListExact'
<1> USE DEF IInv
<1> DEFINE L == Len(free_list)
<1>0. free_list \in Seq(Pages) /\ free_list' = Append(free_list, p)
  BY DEF FreePage, TypeOK
<1>1. L \in Nat /\ Len(free_list') = L + 1 /\ free_list'[L + 1] = p
      /\ \A i \in 1..L : free_list'[i] = free_list[i]
  BY <1>0
<1>2. free_list' \in Seq(Pages) /\ free_list' # <<>>
  <2>1. free_list' \in Seq(Pages)
    BY <1>0
  <2>2. Len(free_list') # 0
    BY <1>1
  <2> QED BY <2>1, <2>2
<1>3. owner[p] # NULL /\ \A i \in 1..L : free_list[i] # p
  BY NULLAssumption DEF FreePage, ListExact
<1>4. TypeOK'
  BY <1>2 DEF TypeOK, FreePage, RefAfter, Points
<1>5. L = 0 <=> free_tail = NULL
  <2>1. L = 0 => free_tail = NULL
    BY DEF ListExact, TypeOK
  <2>2. L # 0 => free_tail \in Pages
    BY <1>1 DEF ListExact, TypeOK
  <2> QED BY <2>1, <2>2, NULLAssumption
<1>6. \A i \in 1..L : i < L => next'[free_list[i]] = next[free_list[i]]
  <2> TAKE i \in 1..L
  <2> HAVE i < L
  <2>1. free_list[i] # free_tail
    BY <1>1 DEF ListExact
  <2> QED BY <2>1, <1>3 DEF FreePage, TypeOK
<1>7. L > 0 => next'[free_list[L]] = p
  BY <1>1, <1>3 DEF FreePage, ListExact, TypeOK
<1>8. /\ free_head' = free_list'[1]
      /\ free_tail' = free_list'[Len(free_list')]
      /\ next'[free_tail'] = NULL
  <2>1. free_tail' = p /\ next'[p] = NULL
    BY DEF FreePage
  <2>2. CASE L = 0
    BY <2>1, <2>2, <1>1, <1>5 DEF FreePage
  <2>3. CASE L > 0
    BY <2>1, <2>3, <1>1, <1>5 DEF FreePage, ListExact
  <2> QED BY <2>1, <2>2, <2>3, <1>1
<1>9. \A i \in 1..Len(free_list') : i < Len(free_list') => next'[free_list'[i]] = free_list'[i + 1]
  <2> TAKE i \in 1..Len(free_list')
  <2> HAVE i < Len(free_list')
  <2>1. CASE i < L
    BY <2>1, <1>1, <1>6 DEF ListExact
  <2>2. CASE i = L
    BY <2>2, <1>1, <1>7
  <2> QED BY <2>1, <2>2, <1>1
<1>10. \A i, j \in 1..Len(free_list') : free_list'[i] = free_list'[j] => i = j
  BY <1>1, <1>3 DEF ListExact
<1>11. \A q \in Pages : (\E i \in 1..Len(free_list') : free_list'[i] = q) <=> owner'[q] = NULL
  <2> TAKE q \in Pages
  <2>1. (\E i \in 1..Len(free_list') : free_list'[i] = q) <=>
           q = p \/ \E i \in 1..L : free_list[i] = q
    BY <1>1
  <2> QED BY <2>1 DEF FreePage, ListExact, TypeOK
<1>12. \A q \in Pages : /\ owner'[q] = NULL <=> flags'[q] = "FREE"
                        /\ refcount'[q] = (IF flags'[q] = "USED" THEN 1 ELSE 0)
  BY DEF FreePage, RefAfter, ListExact, TypeOK
<1> QED BY <1>2, <1>4, <1>8, <1>9, <1>10, <1>11, <1>12 DEF ListExact

\* alloc_page() and free_page() keep the inductive invariant, whoever
\* clears which page when.
THEOREM Inductive == Spec => []IInv
<1>1. IInv /\ [Next]_vars => IInv'
  <2> SUFFICES ASSUME IInv, [Next]_vars PROVE IInv'
    OBVIOUS
  <2>1. ASSUME NEW u \in Users, NEW p \in Pages, AllocPage(u, p) PROVE IInv'
    <3>1. TypeOK' /\ ListExact'
      BY <2>1, TakeHead
    <3>2. \A v \in Users : /\ pc'[v] = "idle" <=> pg'[v] = NULL
                           /\ pc'[v] = "clear_new" => owner'[pg'[v]] = v
      <4>1. owner[p] = NULL
        BY <2>1, NULLAssumption DEF IInv, AllocPage, ListExact, TypeOK
      <4> QED BY <2>1, <4>1, NULLAssumption DEF IInv, AllocPage, TypeOK
    <3>3. NoForeignData'
      BY <2>1 DEF IInv, AllocPage, TypeOK, NoForeignData
    <3> QED BY <3>1, <3>2, <3>3 DEF IInv
  <2>2. ASSUME NEW u \in Users, NEW p \in Pages, FreePage(u, p) PROVE IInv'
    <3>1. TypeOK' /\ ListExact'
      BY <2>2, AddTail
    <3>2. \A v \in Users : /\ pc'[v] = "idle" <=> pg'[v] = NULL
                           /\ pc'[v] = "clear_new" => owner'[pg'[v]] = v
      BY <2>2, NULLAssumption DEF IInv, FreePage, TypeOK
    <3>3. NoForeignData'
      BY <2>2, NULLAssumption DEF IInv, FreePage, TypeOK, NoForeignData
    <3> QED BY <3>1, <3>2, <3>3 DEF IInv
  <2>3. ASSUME NEW u \in Users, NEW p \in Pages, Write(u, p) PROVE IInv'
    BY <2>3, NULLAssumption DEF IInv, Write, listVars, TypeOK, ListExact, NoForeignData
  <2>4. ASSUME NEW u \in Users, AllocClear(u) PROVE IInv'
    BY <2>4, NULLAssumption
    DEF IInv, AllocClear, Cleared, listVars, TypeOK, Points, ListExact, NoForeignData
  <2>5. ASSUME NEW u \in Users, FreeClear(u) PROVE IInv'
    BY <2>5, NULLAssumption
    DEF IInv, FreeClear, Cleared, listVars, TypeOK, Points, ListExact, NoForeignData
  <2>6. CASE UNCHANGED vars
    BY <2>6 DEF vars, listVars, IInv, TypeOK, ListExact, NoForeignData
  <2> QED BY <2>1, <2>2, <2>3, <2>4, <2>5, <2>6 DEF Next
<1> QED BY <1>1, InitInv, PTL DEF Spec

\* free_head, next and free_tail are always one list of exactly the pages
\* that nobody owns: no page is given to two users, and none is lost.
THEOREM ListHolds == Spec => []ListExact
<1>1. IInv => ListExact
  BY DEF IInv
<1> QED BY <1>1, Inductive, PTL

\* No user finds the data of an earlier owner in its page.
THEOREM NoForeignHolds == Spec => []NoForeignData
<1>1. IInv => NoForeignData
  BY DEF IInv
<1> QED BY <1>1, Inductive, PTL

(***************************************************************************)
(* Address spaces                                                          *)
(***************************************************************************)

(* Address spaces: types, and the pages a page table holds                  *)

Kept == Stored \cup {0}
Rams == [free : SUBSET PPages, val : [PPages -> Kept]]
LeafMaps == [VPages -> 0..NullPage]
Tabs == [Regions -> 0..NPages]
Tables == [root : 0..NPages, tab : Tabs, leaf : LeafMaps]
Mems == [ram : Rams, pg : Tables, ok : BOOLEAN, leak : BOOLEAN]
HeapRecs == [size : Nat, start : Nat, brk : Nat, max : Nat]
Walks == [root : 0..NPages, from : Nat]

AType ==
  /\ ram \in Rams /\ space \in [Procs -> Tables] /\ heap \in [Procs -> HeapRecs] /\ walk \in [Procs -> Walks]
  /\ kpanic \in BOOLEAN /\ spoilt \in BOOLEAN /\ asteps \in Nat

\* Physical page p is in the page table: as its root, as a table or as a mapped page.
Holds(root, tab, leaf, p) == root = p \/ (\E r \in Regions : tab[r] = p) \/ \E v \in VPages : leaf[v] = p
Has(tbl, p) == Holds(tbl.root, tbl.tab, tbl.leaf, p)
\* Once only.
Once(root, tab, leaf) ==
  /\ \A v, w \in VPages : leaf[v] \in PPages /\ leaf[v] = leaf[w] => v = w
  /\ \A r, s \in Regions : tab[r] # 0 /\ tab[r] = tab[s] => r = s
  /\ \A v \in VPages, r \in Regions : leaf[v] # 0 => leaf[v] # tab[r]
  /\ \A v \in VPages : leaf[v] # 0 => leaf[v] # root
  /\ \A r \in Regions : tab[r] # 0 => tab[r] # root

(* A page table under construction, from the free pages F: its pages are    *)
(* from F, as the limbo pages L that have been allocated and are nowhere    *)
(* yet; unless something was lost, that is all that F has lost.             *)
Builds(fr, root, tab, leaf, leak, F, L) ==
  /\ Once(root, tab, leaf)
  /\ fr \subseteq F /\ L \subseteq F /\ L \cap fr = {}
  /\ \A p \in PPages : Holds(root, tab, leaf, p) => p \in F /\ p \notin fr /\ p \notin L
  /\ ~leak => \A p \in F : p \in fr \/ p \in L \/ Holds(root, tab, leaf, p)
Built(m, F, L) ==
  /\ m \in Mems /\ F \subseteq PPages
  /\ Builds(m.ram.free, m.pg.root, m.pg.tab, m.pg.leaf, m.leak, F, L)
\* Nothing outside F was written.
Untouched(m, F, V) == \A p \in PPages : p \notin F => m.ram.val[p] = V[p]

\* The pages of all address spaces and the free ones.
Private(fr, sp) ==
  /\ \A t \in Procs : Once(sp[t].root, sp[t].tab, sp[t].leaf)
  /\ \A t, u \in Procs, p \in PPages : Has(sp[t], p) /\ Has(sp[u], p) => t = u
  /\ \A t \in Procs, p \in PPages : Has(sp[t], p) => p \notin fr
\* Nothing is lost.
Whole(fr, sp) == \A p \in PPages : p \in fr \/ \E t \in Procs : Has(sp[t], p)
\* A table without a root is empty, and no page is mapped to physical address 0.
Filled(tbl) == (tbl.root = 0 => tbl = NoTable) /\ \A v \in VPages : tbl.leaf[v] # NullPage
HeapFits(h) ==
  /\ h.size \in 2..MaxSeg + 1 /\ h.start = 2 * h.size
  /\ h.start <= h.brk /\ h.brk <= h.max /\ h.max <= MaxBrk
Covers(tbl, h) ==
  \A v \in VPages : tbl.leaf[v] # 0 =>
    v \in Stack \/ v < h.size \/ (2 * v >= h.start /\ 2 * v < h.max)
\* A task with its heap.
Proper(tbl, h) == Filled(tbl) /\ (tbl.root # 0 => HeapFits(h)) /\ Covers(tbl, h)
AInv ==
  /\ AType /\ Private(ram.free, space) /\ (~spoilt => ~kpanic /\ Whole(ram.free, space))
  /\ \A t \in Procs : Proper(space[t], heap[t])

\* It holds until a heap is looked for from a root in use again.
AHist == stale \in BOOLEAN /\ (~stale => AInv)

-----------------------------------------------------------------------------
(* Address spaces: one page more or less                                    *)

\* The constants.
LEMMA AConstants ==
  /\ NPages \in Nat /\ NPages > 0 /\ MaxSeg \in Nat /\ MaxSeg > 0 /\ StackPages \in Nat /\ StackPages > 0
  /\ Span \in Nat /\ Span > 0 /\ LowTop \in Nat /\ LowTop > MaxSeg /\ Deltas \subseteq Int
  /\ PPages \subseteq Nat /\ 0 \notin PPages /\ NullPage \notin PPages /\ NullPage # 0 /\ NullPage \in Nat
  /\ 0..NullPage = PPages \cup {0, NullPage} /\ 0..NPages = PPages \cup {0}
  /\ VPages \subseteq Nat /\ (\A v \in VPages : RegionOf(v) \in Regions) /\ MaxBrk \in Nat
<1>1. /\ NPages \in Nat /\ NPages > 0 /\ MaxSeg \in Nat /\ MaxSeg > 0 /\ StackPages \in Nat /\ StackPages > 0
      /\ Span \in Nat /\ Span > 0 /\ LowTop \in Nat /\ LowTop > MaxSeg /\ Deltas \subseteq Int
  BY AddressSpaceAssumption
<1>2. /\ PPages \subseteq Nat /\ 0 \notin PPages /\ NullPage \notin PPages /\ NullPage # 0 /\ NullPage \in Nat
      /\ 0..NullPage = PPages \cup {0, NullPage} /\ 0..NPages = PPages \cup {0}
  BY <1>1 DEF PPages, NullPage
<1>3. VPages \subseteq Nat /\ (\A v \in VPages : RegionOf(v) \in Regions) /\ MaxBrk \in Nat
  BY <1>1 DEF VPages, Low, Stack, RegionOf, Regions, MaxBrk
<1> QED BY <1>1, <1>2, <1>3

\* A page in limbo becomes a table.
LEMMA TabGets ==
  ASSUME NEW fr, NEW root, NEW tab \in Tabs, NEW leaf, NEW leak, NEW F, NEW L, F \subseteq PPages,
         Builds(fr, root, tab, leaf, leak, F, L), NEW r \in Regions, tab[r] = 0, NEW p \in L
  PROVE  Builds(fr, root, [tab EXCEPT ![r] = p], leaf, leak, F, L \ {p})
<1> DEFINE tab2 == [tab EXCEPT ![r] = p]
<1>1. \A s \in Regions : tab2[s] = IF s = r THEN p ELSE tab[s]
  BY DEF Tabs
<1>2. p \in PPages /\ p # 0 /\ p \notin fr
  BY AConstants DEF Builds
<1>3. ~Holds(root, tab, leaf, p)
  BY <1>2 DEF Builds
<1>4. \A q : Holds(root, tab2, leaf, q) => q = p \/ Holds(root, tab, leaf, q)
  BY <1>1 DEF Holds
<1>5. \A q : q # 0 /\ Holds(root, tab, leaf, q) => Holds(root, tab2, leaf, q)
  BY <1>1 DEF Holds
<1>6. Holds(root, tab2, leaf, p)
  BY <1>1 DEF Holds
<1> HIDE DEF tab2
<1>7. Once(root, tab2, leaf)
  BY <1>1, <1>2, <1>3 DEF Builds, Once, Holds
<1>8. 0 \notin F
  BY AConstants
<1> QED BY <1>2, <1>4, <1>5, <1>6, <1>7, <1>8 DEF Builds, tab2

\* A page in limbo is mapped where nothing was mapped.
LEMMA LeafGets ==
  ASSUME NEW fr, NEW root, NEW tab, NEW leaf \in LeafMaps, NEW leak, NEW F, NEW L, F \subseteq PPages,
         Builds(fr, root, tab, leaf, leak, F, L), NEW v \in VPages, leaf[v] = 0, NEW p \in L
  PROVE  Builds(fr, root, tab, [leaf EXCEPT ![v] = p], leak, F, L \ {p})
<1> DEFINE leaf2 == [leaf EXCEPT ![v] = p]
<1>1. \A w \in VPages : leaf2[w] = IF w = v THEN p ELSE leaf[w]
  BY DEF LeafMaps
<1>2. p \in PPages /\ p # 0 /\ p \notin fr
  BY AConstants DEF Builds
<1>3. ~Holds(root, tab, leaf, p)
  BY <1>2 DEF Builds
<1>4. \A q : Holds(root, tab, leaf2, q) => q = p \/ Holds(root, tab, leaf, q)
  BY <1>1 DEF Holds
<1>5. \A q : q # 0 /\ Holds(root, tab, leaf, q) => Holds(root, tab, leaf2, q)
  BY <1>1 DEF Holds
<1>6. Holds(root, tab, leaf2, p)
  BY <1>1 DEF Holds
<1> HIDE DEF leaf2
<1>7. Once(root, tab, leaf2)
  BY <1>1, <1>2, <1>3 DEF Builds, Once, Holds
<1>8. 0 \notin F
  BY AConstants
<1> QED BY <1>2, <1>4, <1>5, <1>6, <1>7, <1>8 DEF Builds, leaf2

\* alloc_page() takes the least free page.
LEMMA NextFree ==
  ASSUME NEW m \in Mems, CanAlloc(m) PROVE NextPage(m) \in m.ram.free /\ NextPage(m) \in PPages
<1>1. m.ram.free \subseteq PPages /\ m.ram.free \subseteq Nat /\ m.ram.free # {}
  BY AConstants DEF Mems, Rams, CanAlloc
<1>2. \E p \in m.ram.free : \A q \in m.ram.free : p <= q
  BY <1>1, Least
<1> QED BY <1>1, <1>2 DEF NextPage

\* What alloc_page() leaves.
LEMMA TakeIs ==
  ASSUME NEW m \in Mems, CanAlloc(m)
  PROVE  /\ TakePage(m) \in Mems /\ TakePage(m).pg = m.pg /\ TakePage(m).ok = m.ok /\ TakePage(m).leak = m.leak
         /\ TakePage(m).ram.free = m.ram.free \ {NextPage(m)}
         /\ TakePage(m).ram.val = [m.ram.val EXCEPT ![NextPage(m)] = 0]
<1>1. NextPage(m) \in PPages
  BY NextFree
<1>2. m.ram \in Rams
  BY DEF Mems
<1>3. [free |-> m.ram.free \ {NextPage(m)}, val |-> [m.ram.val EXCEPT ![NextPage(m)] = 0]] \in Rams
  BY <1>1, <1>2 DEF Rams, Kept
<1> QED BY <1>3 DEF TakePage, Mems

\* alloc_page() takes a page from the free list that no table holds.
LEMMA TakeBuilt ==
  ASSUME NEW m, NEW F, NEW L, Built(m, F, L), CanAlloc(m)
  PROVE  Built(TakePage(m), F, L \cup {NextPage(m)}) /\ NextPage(m) \notin L
<1>1. m \in Mems /\ F \subseteq PPages /\ Builds(m.ram.free, m.pg.root, m.pg.tab, m.pg.leaf, m.leak, F, L)
  BY DEF Built
<1>2. NextPage(m) \in m.ram.free /\ NextPage(m) \in PPages
  BY <1>1, NextFree
<1>3. /\ TakePage(m) \in Mems /\ TakePage(m).pg = m.pg /\ TakePage(m).leak = m.leak
      /\ TakePage(m).ram.free = m.ram.free \ {NextPage(m)}
  BY <1>1, TakeIs
<1>4. Builds(m.ram.free \ {NextPage(m)}, m.pg.root, m.pg.tab, m.pg.leaf, m.leak, F, L \cup {NextPage(m)})
  BY <1>1, <1>2 DEF Builds
<1> QED BY <1>1, <1>2, <1>3, <1>4 DEF Built, Builds

\* Pages that are not free keep their contents.
KeepsBusy(w, m) == \A q \in PPages : q \notin m.ram.free => w.ram.val[q] = m.ram.val[q]

\* pte_walk() with create.
LEMMA WalkIs ==
  ASSUME NEW m \in Mems, NEW r \in Regions
  PROVE  /\ pte_walk(m, r) \in Mems
         /\ pte_walk(m, r).pg.leaf = m.pg.leaf /\ pte_walk(m, r).pg.root = m.pg.root
         /\ pte_walk(m, r).leak = m.leak /\ (pte_walk(m, r).ok => m.ok)
         /\ pte_walk(m, r).ram.free \subseteq m.ram.free
         /\ KeepsBusy(pte_walk(m, r), m)
         /\ m.ram.free = {} => pte_walk(m, r).ram.free = {}
<1> DEFINE w == pte_walk(m, r)
<1>1. CASE m.pg.tab[r] # 0
  BY <1>1 DEF pte_walk, KeepsBusy
<1>2. CASE m.pg.tab[r] = 0 /\ ~CanAlloc(m)
  BY <1>2 DEF pte_walk, Fail, Mems, KeepsBusy
<1>3. CASE m.pg.tab[r] = 0 /\ CanAlloc(m)
  <2>1. w = [TakePage(m) EXCEPT !.pg.tab[r] = NextPage(m)]
    BY <1>3 DEF pte_walk
  <2>2. /\ TakePage(m) \in Mems /\ TakePage(m).pg = m.pg /\ TakePage(m).ok = m.ok /\ TakePage(m).leak = m.leak
        /\ TakePage(m).ram.free = m.ram.free \ {NextPage(m)}
        /\ TakePage(m).ram.val = [m.ram.val EXCEPT ![NextPage(m)] = 0]
    BY <1>3, TakeIs
  <2>3. NextPage(m) \in m.ram.free /\ NextPage(m) \in PPages /\ NextPage(m) \in 0..NPages
    BY <1>3, NextFree, AConstants
  <2>4. w.ram = TakePage(m).ram /\ w.ok = m.ok /\ w.leak = m.leak /\ w.pg = [m.pg EXCEPT !.tab[r] = NextPage(m)]
    BY <2>1, <2>2 DEF Mems
  <2>5. w.pg.leaf = m.pg.leaf /\ w.pg.root = m.pg.root /\ w.pg \in Tables
    BY <2>3, <2>4 DEF Mems, Tables, Tabs
  <2>6. w \in Mems
    <3>1. w = [TakePage(m) EXCEPT !.pg = w.pg]
      BY <2>1, <2>2 DEF Mems
    <3> QED BY <2>2, <2>5, <3>1 DEF Mems
  <2>7. KeepsBusy(w, m)
    BY <2>2, <2>3, <2>4 DEF Mems, Rams, KeepsBusy
  <2> HIDE DEF w
  <2> QED BY <1>3, <2>2, <2>3, <2>4, <2>5, <2>6, <2>7 DEF w, CanAlloc
<1> QED BY <1>1, <1>2, <1>3

\* pte_walk() adds the missing directory pages of a region and loses none.
LEMMA WalkBuilt ==
  ASSUME NEW m, NEW F, NEW L, Built(m, F, L), NEW r \in Regions
  PROVE  Built(pte_walk(m, r), F, L)
<1> DEFINE w == pte_walk(m, r)
<1>1. m \in Mems /\ F \subseteq PPages /\ Builds(m.ram.free, m.pg.root, m.pg.tab, m.pg.leaf, m.leak, F, L)
  BY DEF Built
<1>2. w \in Mems
  BY <1>1, WalkIs
<1>3. CASE m.pg.tab[r] # 0
  BY <1>3 DEF pte_walk
<1>4. CASE m.pg.tab[r] = 0 /\ ~CanAlloc(m)
  <2>1. w.ram = m.ram /\ w.pg = m.pg /\ w.leak = m.leak
    BY <1>1, <1>4 DEF pte_walk, Fail, Mems
  <2> QED BY <1>1, <1>2, <2>1 DEF Built
<1>5. CASE m.pg.tab[r] = 0 /\ CanAlloc(m)
  <2> DEFINE k == TakePage(m)
             p == NextPage(m)
  <2>1. Built(k, F, L \cup {p}) /\ p \notin L
    BY <1>5, TakeBuilt
  <2>2. k \in Mems /\ k.pg = m.pg
    BY <1>1, <1>5, TakeIs
  <2>3. w = [k EXCEPT !.pg.tab[r] = p]
    BY <1>5 DEF pte_walk
  <2> HIDE DEF k, p
  <2>4. /\ w.ram = k.ram /\ w.leak = k.leak /\ w.pg.root = k.pg.root /\ w.pg.leaf = k.pg.leaf
        /\ w.pg.tab = [k.pg.tab EXCEPT ![r] = p]
    BY <2>2, <2>3 DEF Mems, Tables
  <2>5. Builds(k.ram.free, k.pg.root, k.pg.tab, k.pg.leaf, k.leak, F, L \cup {p}) /\ k.pg.tab \in Tabs
    BY <2>1, <2>2 DEF Built, Mems, Tables
  <2>6. Builds(k.ram.free, k.pg.root, [k.pg.tab EXCEPT ![r] = p], k.pg.leaf, k.leak, F, (L \cup {p}) \ {p})
    BY <1>1, <1>5, <2>2, <2>5, TabGets
  <2>7. (L \cup {p}) \ {p} = L
    BY <2>1
  <2> QED BY <1>1, <1>2, <2>4, <2>6, <2>7 DEF Built
<1> QED BY <1>3, <1>4, <1>5

\* mappages() of one page.
LEMMA MapIs ==
  ASSUME NEW m \in Mems, NEW v \in VPages, NEW p \in 0..NullPage
  PROVE  /\ mappages(m, v, p) \in Mems
         /\ mappages(m, v, p).pg.leaf = IF mappages(m, v, p).ok THEN [m.pg.leaf EXCEPT ![v] = p] ELSE m.pg.leaf
         /\ mappages(m, v, p).pg.root = m.pg.root
         /\ mappages(m, v, p).leak = m.leak /\ (mappages(m, v, p).ok => m.ok)
         /\ mappages(m, v, p).ram.free \subseteq m.ram.free
         /\ KeepsBusy(mappages(m, v, p), m)
         /\ mappages(m, v, p).ram = pte_walk(m, RegionOf(v)).ram
         /\ mappages(m, v, p).pg.tab = pte_walk(m, RegionOf(v)).pg.tab
         /\ mappages(m, v, p).ok = pte_walk(m, RegionOf(v)).ok
<1> DEFINE w == pte_walk(m, RegionOf(v))
           x == mappages(m, v, p)
<1>1. RegionOf(v) \in Regions
  BY AConstants
<1>2. /\ w \in Mems /\ w.pg.leaf = m.pg.leaf /\ w.pg.root = m.pg.root /\ w.leak = m.leak /\ (w.ok => m.ok)
      /\ w.ram.free \subseteq m.ram.free
      /\ KeepsBusy(w, m)
  BY <1>1, WalkIs
<1>3. x = IF w.ok THEN [w EXCEPT !.pg.leaf[v] = p] ELSE w
  BY DEF mappages
<1> HIDE DEF w, x
<1>4. CASE ~w.ok
  BY <1>2, <1>3, <1>4 DEF w, x
<1>5. CASE w.ok
  <2>1. /\ x.ram = w.ram /\ x.ok = w.ok /\ x.leak = w.leak /\ x.pg.root = w.pg.root /\ x.pg.tab = w.pg.tab
        /\ x.pg.leaf = [w.pg.leaf EXCEPT ![v] = p]
    BY <1>2, <1>3, <1>5 DEF Mems, Tables
  <2>2. x.pg = [w.pg EXCEPT !.leaf[v] = p] /\ w.pg \in Tables
    BY <1>2, <1>3, <1>5 DEF Mems
  <2>3. x.pg \in Tables
    BY <2>2 DEF Tables, LeafMaps
  <2>4. x = [w EXCEPT !.pg = x.pg]
    BY <1>2, <1>3, <1>5, <2>2 DEF Mems
  <2>5. x \in Mems
    BY <1>2, <2>3, <2>4 DEF Mems
  <2>6. KeepsBusy(x, m)
    BY <1>2, <2>1 DEF KeepsBusy
  <2> QED BY <1>2, <1>5, <2>1, <2>5, <2>6 DEF w, x
<1> QED BY <1>4, <1>5

\* A page in limbo is mapped, or stays in limbo.
LEMMA MapBuilt ==
  ASSUME NEW m, NEW F, NEW L, Built(m, F, L), NEW v \in VPages, m.pg.leaf[v] = 0, NEW p \in L
  PROVE  Built(mappages(m, v, p), F, IF mappages(m, v, p).ok THEN L \ {p} ELSE L)
<1> DEFINE w == pte_walk(m, RegionOf(v))
           x == mappages(m, v, p)
<1>1. m \in Mems /\ F \subseteq PPages /\ RegionOf(v) \in Regions /\ p \in 0..NullPage
  BY AConstants DEF Built, Builds
<1>2. Built(w, F, L)
  BY <1>1, WalkBuilt
<1>3. w \in Mems /\ w.pg.leaf = m.pg.leaf /\ w.pg.root = m.pg.root /\ w.leak = m.leak
  BY <1>1, WalkIs
<1>4. /\ x \in Mems /\ x.pg.leaf = (IF x.ok THEN [m.pg.leaf EXCEPT ![v] = p] ELSE m.pg.leaf)
      /\ x.pg.root = m.pg.root /\ x.leak = m.leak /\ x.ram = w.ram /\ x.pg.tab = w.pg.tab
  BY <1>1, MapIs
<1> HIDE DEF w, x
<1>5. CASE ~x.ok
  BY <1>1, <1>2, <1>3, <1>4, <1>5 DEF Built, x
<1>6. CASE x.ok
  <2>1. Builds(w.ram.free, w.pg.root, w.pg.tab, w.pg.leaf, w.leak, F, L) /\ w.pg.leaf \in LeafMaps
    BY <1>2, <1>3 DEF Built, Mems, Tables
  <2>2. Builds(w.ram.free, w.pg.root, w.pg.tab, [w.pg.leaf EXCEPT ![v] = p], w.leak, F, L \ {p})
    BY <1>1, <1>3, <2>1, LeafGets
  <2> QED BY <1>1, <1>3, <1>4, <1>6, <2>2 DEF Built, x
<1> QED BY <1>5, <1>6

\* Physical address 0 is mapped: no page is used.
LEMMA MapNullBuilt ==
  ASSUME NEW m, NEW F, NEW L, Built(m, F, L), NEW v \in VPages, m.pg.leaf[v] = 0
  PROVE  Built(mappages(m, v, NullPage), F, L)
<1> DEFINE w == pte_walk(m, RegionOf(v))
           x == mappages(m, v, NullPage)
<1>1. m \in Mems /\ F \subseteq PPages /\ RegionOf(v) \in Regions /\ NullPage \in 0..NullPage
  BY AConstants DEF Built, Builds
<1>2. Built(w, F, L)
  BY <1>1, WalkBuilt
<1>3. w \in Mems /\ w.pg.leaf = m.pg.leaf /\ w.pg.root = m.pg.root /\ w.leak = m.leak
  BY <1>1, WalkIs
<1>4. /\ x \in Mems /\ x.pg.leaf = (IF x.ok THEN [m.pg.leaf EXCEPT ![v] = NullPage] ELSE m.pg.leaf)
      /\ x.pg.root = m.pg.root /\ x.leak = m.leak /\ x.ram = w.ram /\ x.pg.tab = w.pg.tab
  BY <1>1, MapIs
<1> HIDE DEF w, x
<1>5. CASE ~x.ok
  BY <1>1, <1>2, <1>3, <1>4, <1>5 DEF Built, x
<1>6. CASE x.ok
  <2> DEFINE leaf2 == [w.pg.leaf EXCEPT ![v] = NullPage]
  <2>1. Builds(w.ram.free, w.pg.root, w.pg.tab, w.pg.leaf, w.leak, F, L) /\ w.pg.leaf \in LeafMaps
    BY <1>2, <1>3 DEF Built, Mems, Tables
  <2>2. \A u \in VPages : leaf2[u] = IF u = v THEN NullPage ELSE w.pg.leaf[u]
    BY <2>1 DEF LeafMaps
  <2>3. \A q \in PPages : Holds(w.pg.root, w.pg.tab, leaf2, q) <=> Holds(w.pg.root, w.pg.tab, w.pg.leaf, q)
    BY <1>3, <2>2, AConstants DEF Holds
  <2>4. NullPage # w.pg.root /\ \A r \in Regions : NullPage # w.pg.tab[r]
    <3>1. w.pg.root \in 0..NPages /\ w.pg.tab \in [Regions -> 0..NPages]
      BY <1>3 DEF Mems, Tables, Tabs
    <3> QED BY <3>1, AConstants
  <2> HIDE DEF leaf2
  <2>5. Once(w.pg.root, w.pg.tab, leaf2)
    BY <1>3, <2>1, <2>2, <2>4, AConstants DEF Builds, Once
  <2>6. Builds(w.ram.free, w.pg.root, w.pg.tab, leaf2, w.leak, F, L)
    BY <1>1, <2>1, <2>3, <2>5 DEF Builds
  <2> QED BY <1>1, <1>3, <1>4, <1>6, <2>6 DEF Built, x, leaf2
<1> QED BY <1>5, <1>6

-----------------------------------------------------------------------------
(* Address spaces: what is freed                                            *)

\* pg_unmap() frees the pages of the range.
LEMMA UnmapIs ==
  ASSUME NEW m \in Mems, NEW vs
  PROVE  /\ pg_unmap(m, vs) \in Mems
         /\ pg_unmap(m, vs).pg.root = m.pg.root /\ pg_unmap(m, vs).pg.tab = m.pg.tab
         /\ pg_unmap(m, vs).leak = m.leak /\ pg_unmap(m, vs).ram.val = m.ram.val
         /\ pg_unmap(m, vs).pg.leaf = [v \in VPages |-> IF v \in vs THEN 0 ELSE m.pg.leaf[v]]
         /\ pg_unmap(m, vs).ram.free = m.ram.free \cup (Mapped(m.pg, vs) \ {NullPage})
         /\ pg_unmap(m, vs).ok <=> m.ok /\ NullPage \notin Mapped(m.pg, vs)
<1> DEFINE u == pg_unmap(m, vs)
           leaf2 == [v \in VPages |-> IF v \in vs THEN 0 ELSE m.pg.leaf[v]]
           free2 == m.ram.free \cup (Mapped(m.pg, vs) \ {NullPage})
           ok2 == m.ok /\ NullPage \notin Mapped(m.pg, vs)
<1>1. m.ram \in Rams /\ m.pg \in Tables /\ m.ok \in BOOLEAN /\ m.leak \in BOOLEAN
  BY DEF Mems
<1>2. u = [m EXCEPT !.ram.free = free2, !.pg.leaf = leaf2, !.ok = ok2]
  BY <1>1 DEF pg_unmap, Mems, Tables, Rams
<1>3. \A v \in VPages : m.pg.leaf[v] \in 0..NullPage
  BY <1>1 DEF Tables, LeafMaps
<1>4. leaf2 \in LeafMaps
  BY <1>3, AConstants DEF LeafMaps
<1>5. free2 \subseteq PPages
  <2>1. m.ram.free \subseteq PPages
    BY <1>1 DEF Rams
  <2>2. Mapped(m.pg, vs) \ {NullPage} \subseteq PPages
    BY <1>3, AConstants DEF Mapped
  <2> QED BY <2>1, <2>2
<1>6. ok2 \in BOOLEAN
  OBVIOUS
<1> HIDE DEF leaf2, free2, ok2
<1>7. /\ u.ram = [m.ram EXCEPT !.free = free2] /\ u.pg = [m.pg EXCEPT !.leaf = leaf2] /\ u.ok = ok2
      /\ u.leak = m.leak /\ u = [ram |-> u.ram, pg |-> u.pg, ok |-> u.ok, leak |-> u.leak]
  BY <1>2 DEF Mems
<1> HIDE DEF u
<1>8. u.ram \in Rams /\ u.ram.free = free2 /\ u.ram.val = m.ram.val
  BY <1>1, <1>5, <1>7 DEF Rams
<1>9. u.pg \in Tables /\ u.pg.leaf = leaf2 /\ u.pg.root = m.pg.root /\ u.pg.tab = m.pg.tab
  BY <1>1, <1>4, <1>7 DEF Tables
<1>10. u \in Mems
  BY <1>1, <1>6, <1>7, <1>8, <1>9 DEF Mems
<1>11. u.ok <=> m.ok /\ NullPage \notin Mapped(m.pg, vs)
  BY <1>7 DEF ok2
<1> QED BY <1>7, <1>8, <1>9, <1>10, <1>11 DEF u, leaf2, free2

\* freewalk() frees the tables and the root; all is well when nothing is mapped.
LEMMA FreewalkIs ==
  ASSUME NEW m \in Mems
  PROVE  /\ freewalk(m) \in Mems /\ freewalk(m).pg = NoTable
         /\ freewalk(m).leak = m.leak /\ freewalk(m).ram.val = m.ram.val
         /\ \A p \in PPages : p \in freewalk(m).ram.free <=>
              (p \in m.ram.free \/ p = m.pg.root \/ \E r \in Regions : p = m.pg.tab[r])
         /\ freewalk(m).ok <=> m.ok /\ \A v \in VPages : m.pg.leaf[v] = 0
<1> DEFINE u == freewalk(m)
           free2 == m.ram.free \cup (({m.pg.tab[r] : r \in Regions} \cup {m.pg.root}) \ {0})
           ok2 == m.ok /\ \A v \in VPages : m.pg.leaf[v] = 0
<1>1. m.ram \in Rams /\ m.pg \in Tables /\ m.ok \in BOOLEAN /\ m.leak \in BOOLEAN
  BY DEF Mems
<1>2. u = [m EXCEPT !.ram.free = free2, !.pg = NoTable, !.ok = ok2]
  BY <1>1 DEF freewalk, Mems, Rams
<1>3. NoTable \in Tables
  BY AConstants DEF NoTable, Tables, Tabs, LeafMaps
<1>4. m.pg.root \in 0..NPages /\ \A r \in Regions : m.pg.tab[r] \in 0..NPages
  BY <1>1 DEF Tables, Tabs
<1>5. free2 \subseteq PPages
  <2>1. m.ram.free \subseteq PPages
    BY <1>1 DEF Rams
  <2> QED BY <1>4, <2>1, AConstants
<1>6. \A p \in PPages : p \in free2 <=> (p \in m.ram.free \/ p = m.pg.root \/ \E r \in Regions : p = m.pg.tab[r])
  BY AConstants
<1>7. ok2 \in BOOLEAN
  OBVIOUS
<1> HIDE DEF free2, ok2
<1>8. /\ u.ram = [m.ram EXCEPT !.free = free2] /\ u.pg = NoTable /\ u.ok = ok2
      /\ u.leak = m.leak /\ u = [ram |-> u.ram, pg |-> u.pg, ok |-> u.ok, leak |-> u.leak]
  BY <1>2 DEF Mems
<1> HIDE DEF u
<1>9. u.ram \in Rams /\ u.ram.free = free2 /\ u.ram.val = m.ram.val
  BY <1>1, <1>5, <1>8 DEF Rams
<1>10. u \in Mems
  BY <1>1, <1>3, <1>7, <1>8, <1>9 DEF Mems
<1>11. u.ok <=> m.ok /\ \A v \in VPages : m.pg.leaf[v] = 0
  BY <1>8 DEF ok2
<1> QED BY <1>6, <1>8, <1>9, <1>10, <1>11 DEF u

\* pg_user_vmfree(): what becomes free was free or in the table; when all is well everything in the table is.
LEMMA VmfreeIs ==
  ASSUME NEW m \in Mems, NEW size
  PROVE  /\ pg_user_vmfree(m, size) \in Mems /\ pg_user_vmfree(m, size).pg = NoTable
         /\ pg_user_vmfree(m, size).leak = m.leak /\ pg_user_vmfree(m, size).ram.val = m.ram.val
         /\ \A p \in PPages : p \in pg_user_vmfree(m, size).ram.free => p \in m.ram.free \/ Has(m.pg, p)
         /\ pg_user_vmfree(m, size).ok => \A p \in PPages : p \in m.ram.free \/ Has(m.pg, p) => p \in pg_user_vmfree(m, size).ram.free
<1> DEFINE vs == 1..Span * size
           u == pg_unmap(m, vs)
           w == pg_unmap(u, Stack)
           x == freewalk(w)
<1> HIDE DEF vs
<1>1. /\ u \in Mems /\ u.pg.root = m.pg.root /\ u.pg.tab = m.pg.tab /\ u.leak = m.leak /\ u.ram.val = m.ram.val
      /\ u.pg.leaf = [v \in VPages |-> IF v \in vs THEN 0 ELSE m.pg.leaf[v]]
      /\ u.ram.free = m.ram.free \cup (Mapped(m.pg, vs) \ {NullPage})
  BY UnmapIs
<1> HIDE DEF u
<1>2. /\ w \in Mems /\ w.pg.root = u.pg.root /\ w.pg.tab = u.pg.tab /\ w.leak = u.leak /\ w.ram.val = u.ram.val
      /\ w.pg.leaf = [v \in VPages |-> IF v \in Stack THEN 0 ELSE u.pg.leaf[v]]
      /\ w.ram.free = u.ram.free \cup (Mapped(u.pg, Stack) \ {NullPage})
  BY <1>1, UnmapIs
<1> HIDE DEF w
<1>3. /\ x \in Mems /\ x.pg = NoTable /\ x.leak = w.leak /\ x.ram.val = w.ram.val
      /\ \A p \in PPages : p \in x.ram.free <=>
              (p \in w.ram.free \/ p = w.pg.root \/ \E r \in Regions : p = w.pg.tab[r])
      /\ x.ok => \A v \in VPages : w.pg.leaf[v] = 0
  BY <1>2, FreewalkIs
<1>4. x = pg_user_vmfree(m, size)
  BY DEF pg_user_vmfree, u, w, vs
<1> HIDE DEF x
<1>5. \A v \in VPages : /\ u.pg.leaf[v] = IF v \in vs THEN 0 ELSE m.pg.leaf[v]
                        /\ w.pg.leaf[v] = IF v \in Stack THEN 0 ELSE u.pg.leaf[v]
  BY <1>1, <1>2
<1>6. \A p \in PPages : p \in u.ram.free <=> (p \in m.ram.free \/ \E v \in VPages : v \in vs /\ p = m.pg.leaf[v])
  BY <1>1, AConstants DEF Mapped
<1>7. \A p \in PPages : p \in w.ram.free <=> (p \in u.ram.free \/ \E v \in VPages : v \in Stack /\ p = u.pg.leaf[v])
  BY <1>2, AConstants DEF Mapped
<1>8. ASSUME NEW p \in PPages, p \in x.ram.free PROVE p \in m.ram.free \/ Has(m.pg, p)
  <2>1. CASE p \in w.ram.free
    <3>1. CASE p \in u.ram.free
      BY <1>6, <3>1 DEF Has, Holds
    <3>2. CASE p \notin u.ram.free
      BY <1>5, <1>7, <2>1, <3>2, AConstants DEF Has, Holds
    <3> QED BY <3>1, <3>2
  <2>2. CASE p \notin w.ram.free
    BY <1>1, <1>2, <1>3, <1>8, <2>2 DEF Has, Holds
  <2> QED BY <2>1, <2>2
<1>9. ASSUME x.ok, NEW p \in PPages, p \in m.ram.free \/ Has(m.pg, p) PROVE p \in x.ram.free
  <2>1. CASE p \in m.ram.free
    BY <1>3, <1>6, <1>7, <2>1
  <2>2. CASE p = m.pg.root \/ \E r \in Regions : p = m.pg.tab[r]
    BY <1>1, <1>2, <1>3, <2>2
  <2>3. CASE \E v \in VPages : p = m.pg.leaf[v]
    <3>1. PICK v \in VPages : p = m.pg.leaf[v]
      BY <2>3
    <3>2. w.pg.leaf[v] = 0 /\ p # 0
      BY <1>3, <1>9, AConstants
    <3>3. p \in w.ram.free
      BY <1>5, <1>6, <1>7, <3>1, <3>2
    <3> QED BY <1>3, <3>3
  <2> QED BY <1>9, <2>1, <2>2, <2>3 DEF Has, Holds
<1> QED BY <1>1, <1>2, <1>3, <1>4, <1>8, <1>9

\* What the clean-up looks for.
Found(tbl, size) == \A v \in VPages : tbl.leaf[v] # 0 => tbl.leaf[v] # NullPage /\ (v \in 1..Span * size \/ v \in Stack)

\* A table with no other mappings is always freed.
LEMMA VmfreeOk ==
  ASSUME NEW m \in Mems, m.ok, NEW size, Found(m.pg, size)
  PROVE  pg_user_vmfree(m, size).ok
<1> DEFINE vs == 1..Span * size
           u == pg_unmap(m, vs)
           w == pg_unmap(u, Stack)
<1>0. \A v \in VPages : m.pg.leaf[v] # 0 => m.pg.leaf[v] # NullPage /\ (v \in vs \/ v \in Stack)
  BY DEF Found
<1> HIDE DEF vs
<1>1. /\ u \in Mems /\ u.pg.leaf = [v \in VPages |-> IF v \in vs THEN 0 ELSE m.pg.leaf[v]]
      /\ u.ok <=> m.ok /\ NullPage \notin Mapped(m.pg, vs)
  BY UnmapIs
<1>2. u.ok
  BY <1>0, <1>1, AConstants DEF Mapped
<1> HIDE DEF u
<1>3. \A v \in VPages : u.pg.leaf[v] # 0 => u.pg.leaf[v] # NullPage /\ v \in Stack
  BY <1>0, <1>1
<1>4. /\ w \in Mems /\ w.pg.leaf = [v \in VPages |-> IF v \in Stack THEN 0 ELSE u.pg.leaf[v]]
      /\ w.ok <=> u.ok /\ NullPage \notin Mapped(u.pg, Stack)
  BY <1>1, UnmapIs
<1>5. w.ok
  BY <1>2, <1>3, <1>4, AConstants DEF Mapped
<1> HIDE DEF w
<1>6. \A v \in VPages : w.pg.leaf[v] = 0
  BY <1>3, <1>4
<1>7. freewalk(w).ok
  BY <1>4, <1>5, <1>6, FreewalkIs
<1> QED BY <1>7 DEF pg_user_vmfree, u, w, vs

\* The heap has not been too far: the clean-up finds everything.
LEMMA NearFound ==
  ASSUME NEW tbl, NEW h \in HeapRecs, HeapFits(h), Filled(tbl), Covers(tbl, h), ~Far(h)
  PROVE  Found(tbl, h.size)
<1> SUFFICES ASSUME NEW v \in VPages, tbl.leaf[v] # 0 PROVE tbl.leaf[v] # NullPage /\ (v \in 1..Span * h.size \/ v \in Stack)
  BY DEF Found
<1>1. v \in Stack \/ v < h.size \/ (2 * v >= h.start /\ 2 * v < h.max)
  BY DEF Covers
<1>2. PICK k \in Nat : k = Span * h.size
  BY AConstants DEF HeapRecs
<1>3. h.size \in Nat /\ h.max \in Nat /\ h.max <= 2 * (k + 1) /\ h.size <= k
  <2>1. h.size \in Nat /\ h.max \in Nat /\ h.max <= 2 * (k + 1)
    BY <1>2, AConstants DEF HeapRecs, Far
  <2>2. Span * h.size >= 1 * h.size
    BY <2>1, AConstants, SMTT(30)
  <2> QED BY <1>2, <2>1, <2>2
<1>4. v \in Nat /\ v >= 1
  BY AConstants DEF VPages, Low, Stack
<1>5. v \in Stack \/ v <= k
  BY <1>1, <1>3, <1>4
<1> QED BY <1>2, <1>4, <1>5 DEF Filled

\* A clean-up of what was built: nothing but F is touched, and all of F is free again when all was well.
LEMMA FreeBuilt ==
  ASSUME NEW m, NEW F, Built(m, F, {}), NEW size
  PROVE  /\ Built(pg_user_vmfree(m, size), F, {}) \/ ~pg_user_vmfree(m, size).ok
         /\ pg_user_vmfree(m, size) \in Mems /\ pg_user_vmfree(m, size).pg = NoTable
         /\ pg_user_vmfree(m, size).leak = m.leak /\ pg_user_vmfree(m, size).ram.val = m.ram.val
         /\ pg_user_vmfree(m, size).ram.free \subseteq F
         /\ pg_user_vmfree(m, size).ok /\ ~m.leak => pg_user_vmfree(m, size).ram.free = F
<1> DEFINE x == pg_user_vmfree(m, size)
<1>1. m \in Mems /\ F \subseteq PPages /\ Builds(m.ram.free, m.pg.root, m.pg.tab, m.pg.leaf, m.leak, F, {})
  BY DEF Built
<1>2. /\ x \in Mems /\ x.pg = NoTable /\ x.leak = m.leak /\ x.ram.val = m.ram.val
      /\ \A p \in PPages : p \in x.ram.free => p \in m.ram.free \/ Has(m.pg, p)
      /\ x.ok => \A p \in PPages : p \in m.ram.free \/ Has(m.pg, p) => p \in x.ram.free
  BY <1>1, VmfreeIs
<1> HIDE DEF x
<1>3. x.ram.free \subseteq PPages
  BY <1>2 DEF Mems, Rams
<1>4. x.ram.free \subseteq F
  BY <1>1, <1>2, <1>3 DEF Builds, Has
<1>5. x.ok /\ ~m.leak => x.ram.free = F
  BY <1>1, <1>2, <1>4 DEF Builds, Has
<1>6. \A p \in PPages : ~Holds(NoTable.root, NoTable.tab, NoTable.leaf, p)
  BY AConstants DEF NoTable, Holds
<1>7. Once(NoTable.root, NoTable.tab, NoTable.leaf)
  BY AConstants DEF NoTable, Once
<1>8. x.ok => Built(x, F, {})
  BY <1>1, <1>2, <1>4, <1>5, <1>6, <1>7 DEF Built, Builds
<1> QED BY <1>2, <1>4, <1>5, <1>8 DEF x

\* An empty table is built from anything.
LEMMA EmptyTable ==
  ASSUME NEW m \in Mems, m.pg = NoTable PROVE Built(m, m.ram.free, {})
<1>1. \A p \in PPages : ~Holds(NoTable.root, NoTable.tab, NoTable.leaf, p)
  BY AConstants DEF NoTable, Holds
<1>2. Once(NoTable.root, NoTable.tab, NoTable.leaf)
  BY AConstants DEF NoTable, Once
<1>3. m.ram.free \subseteq PPages
  BY DEF Mems, Rams
<1> QED BY <1>1, <1>2, <1>3 DEF Built, Builds

LEMMA EmptyBuilt ==
  ASSUME ram \in Rams
  PROVE  /\ Built(MemOf(NoTable), ram.free, {}) /\ MemOf(NoTable).pg = NoTable /\ MemOf(NoTable).ram = ram
         /\ MemOf(NoTable).ok /\ ~MemOf(NoTable).leak /\ MemOf(NoTable) \in Mems
<1>1. NoTable \in Tables
  BY AConstants DEF NoTable, Tables, Tabs, LeafMaps
<1>2. /\ MemOf(NoTable) \in Mems /\ MemOf(NoTable).pg = NoTable /\ MemOf(NoTable).ram = ram
      /\ MemOf(NoTable).ok /\ ~MemOf(NoTable).leak
  BY <1>1 DEF MemOf, Mems
<1> QED BY <1>2, EmptyTable

\* create_task_pgtable(): a root and the table of trampoline and trapframe, or nothing.
Fresh(c, F, V) ==
  /\ Built(c, F, {}) /\ Untouched(c, F, V) /\ ~c.leak /\ (\A v \in VPages : c.pg.leaf[v] = 0)
  /\ c.ok => c.pg.root # 0
  /\ ~c.ok => c.pg = NoTable /\ c.ram.free = F

\* create_task_pgtable() builds an empty table, or nothing at all.
LEMMA CreateFresh ==
  ASSUME NEW m, Built(m, m.ram.free, {}), m.pg = NoTable, m.ok, ~m.leak
  PROVE  Fresh(create_task_pgtable(m), m.ram.free, m.ram.val)
<1> DEFINE p == NextPage(m)
           k == TakePage(m)
           a == [k EXCEPT !.pg = [NoTable EXCEPT !.root = p]]
           b == pte_walk(a, "top")
           b1 == [b EXCEPT !.ok = TRUE]
           d == pg_user_vmfree(b1, 0)
           F == m.ram.free
           V == m.ram.val
<1>1. Built(m, F, {}) /\ m.pg = NoTable /\ m.ok /\ ~m.leak
  OBVIOUS
<1>2. m \in Mems /\ F \subseteq PPages
  BY <1>1 DEF Built
<1>3. CASE ~CanAlloc(m)
  <2>1. create_task_pgtable(m) = Fail(m)
    BY <1>3 DEF create_task_pgtable
  <2>2. /\ Fail(m) \in Mems /\ Fail(m).ram = m.ram /\ Fail(m).pg = NoTable /\ Fail(m).leak = m.leak /\ ~Fail(m).leak /\ ~Fail(m).ok
    BY <1>1, <1>2 DEF Fail, Mems
  <2>3. Built(Fail(m), F, {})
    BY <1>1, <1>2, <2>2 DEF Built
  <2>4. \A v \in VPages : NoTable.leaf[v] = 0
    BY DEF NoTable
  <2> QED BY <2>1, <2>2, <2>3, <2>4 DEF Fresh, Untouched
<1>4. CASE CanAlloc(m)
  <2>1. Built(k, F, {} \cup {p}) /\ p \in F /\ p \in PPages
    BY <1>1, <1>2, <1>4, TakeBuilt, NextFree
  <2>2. /\ k \in Mems /\ k.pg = NoTable /\ k.ok /\ ~k.leak /\ k.ram.free = F \ {p}
        /\ k.ram.val = [m.ram.val EXCEPT ![p] = 0]
    BY <1>1, <1>2, <1>4, TakeIs
  <2> HIDE DEF k, p
  <2> DEFINE t1 == [NoTable EXCEPT !.root = p]
  <2>3. t1 \in Tables /\ t1.root = p /\ t1.tab = NoTable.tab /\ t1.leaf = NoTable.leaf
    BY <2>1, AConstants DEF NoTable, Tables, Tabs, LeafMaps
  <2> HIDE DEF t1
  <2>4. a \in Mems /\ a.pg = t1 /\ a.ok /\ ~a.leak /\ a.ram = k.ram
    BY <2>2, <2>3 DEF Mems, t1
  <2> HIDE DEF a
  <2>5. /\ \A v \in VPages : NoTable.leaf[v] = 0 
        /\ \A r \in Regions : NoTable.tab[r] = 0
        /\ NoTable.root = 0
    BY DEF NoTable
  <2>6. \A q \in PPages : Holds(p, NoTable.tab, NoTable.leaf, q) <=> q = p
    BY <2>5, AConstants DEF Holds
  <2>7. Once(p, NoTable.tab, NoTable.leaf)
    BY <2>5, AConstants DEF Once
  <2>8. Built(a, F, {})
    BY <1>2, <2>1, <2>2, <2>3, <2>4, <2>6, <2>7 DEF Built, Builds
  <2>9. Built(b, F, {})
    BY <2>8, WalkBuilt DEF Regions
  <2>10. /\ b \in Mems /\ b.pg.leaf = NoTable.leaf /\ b.pg.root = p /\ ~b.leak
         /\ KeepsBusy(b, a)
    BY <2>3, <2>4, WalkIs DEF Regions
  <2> HIDE DEF b
  <2>11. ASSUME NEW q \in PPages, q \notin F PROVE b.ram.val[q] = m.ram.val[q]
    <3>1. q \notin a.ram.free /\ q # p
      BY <2>1, <2>2, <2>4, <2>11
    <3> QED BY <1>2, <2>2, <2>4, <2>10, <2>11, <3>1 DEF Mems, Rams, KeepsBusy
  <2>12. CASE b.ok
    <3>1. create_task_pgtable(m) = b
      BY <1>4, <2>12 DEF create_task_pgtable, a, b, k, p
    <3>2. p # 0
      BY <2>1, AConstants
    <3> QED BY <2>5, <2>9, <2>10, <2>11, <2>12, <3>1, <3>2 DEF Fresh, Untouched
  <2>13. CASE ~b.ok
    <3>1. create_task_pgtable(m) = Fail(d)
      BY <1>4, <2>13 DEF create_task_pgtable, a, b, k, p
    <3>2. b1 \in Mems /\ b1.ok /\ b1.leak = b.leak /\ b1.pg = b.pg /\ b1.ram = b.ram
      BY <2>10 DEF Mems
    <3> HIDE DEF b1
    <3>3. Built(b1, F, {})
      BY <2>9, <3>2 DEF Built
    <3>4. d.ok
      <4>1. Found(b1.pg, 0)
        BY <2>5, <2>10, <3>2 DEF Found
      <4> QED BY <3>2, <4>1, VmfreeOk
    <3>5. /\ d \in Mems /\ d.pg = NoTable /\ d.leak = b1.leak /\ d.ram.val = b1.ram.val
          /\ d.ok /\ ~b1.leak => d.ram.free = F
          /\ Built(d, F, {})
      BY <3>3, <3>4, FreeBuilt
    <3> HIDE DEF d
    <3>6. Fail(d) \in Mems /\ Fail(d).ram = d.ram /\ Fail(d).pg = d.pg /\ Fail(d).leak = d.leak /\ ~Fail(d).ok
      BY <3>5 DEF Fail, Mems
    <3>7. Built(Fail(d), F, {})
      BY <3>5, <3>6 DEF Built
    <3> QED BY <2>5, <2>10, <2>11, <3>1, <3>2, <3>4, <3>5, <3>6, <3>7 DEF Fresh, Untouched
  <2> QED BY <2>12, <2>13
<1> QED BY <1>3, <1>4

-----------------------------------------------------------------------------
(* Address spaces: exec                                                     *)

\* What is kept when page p is taken and mapped, or cannot be.
MapsTo(w, m, F, V, v, p) ==
  /\ w \in Mems /\ Untouched(w, F, V) /\ w.leak = m.leak /\ w.pg.root = m.pg.root
  /\ Built(w, F, IF w.ok THEN {} ELSE {p})
  /\ w.pg.leaf = IF w.ok THEN [m.pg.leaf EXCEPT ![v] = p] ELSE m.pg.leaf
  /\ w.ok => m.ok

\* A page just taken and mapped belongs to the table, or is in hand when a directory page is missing.
LEMMA TakeMap ==
  ASSUME NEW m, NEW F, NEW V, Built(m, F, {}), Untouched(m, F, V), CanAlloc(m), NEW v \in VPages, m.pg.leaf[v] = 0
  PROVE  MapsTo(mappages(TakePage(m), v, NextPage(m)), m, F, V, v, NextPage(m))
<1> DEFINE w == mappages(TakePage(m), v, NextPage(m))
<1> HIDE DEF w
<1> DEFINE p == NextPage(m)
           k == TakePage(m)
<1>1. m \in Mems /\ F \subseteq PPages /\ m.ram.free \subseteq F
  BY DEF Built, Builds
<1>2. p \in m.ram.free /\ p \in PPages /\ p \in 0..NullPage
  BY <1>1, NextFree, AConstants
<1>3. /\ k \in Mems /\ k.pg = m.pg /\ k.ok = m.ok /\ k.leak = m.leak
      /\ k.ram.free = m.ram.free \ {p} /\ k.ram.val = [m.ram.val EXCEPT ![p] = 0]
  BY <1>1, TakeIs
<1>4. Built(k, F, {} \cup {p})
  BY TakeBuilt
<1> HIDE DEF p, k
<1>5. w = mappages(k, v, p)
  BY DEF k, p, w
<1>6. /\ w \in Mems /\ w.pg.leaf = (IF w.ok THEN [k.pg.leaf EXCEPT ![v] = p] ELSE k.pg.leaf)
      /\ w.pg.root = k.pg.root /\ w.leak = k.leak /\ (w.ok => k.ok)
      /\ KeepsBusy(w, k)
  <2> DEFINE x == mappages(k, v, p)
  <2>1. /\ x \in Mems /\ x.pg.leaf = (IF x.ok THEN [k.pg.leaf EXCEPT ![v] = p] ELSE k.pg.leaf)
        /\ x.pg.root = k.pg.root /\ x.leak = k.leak /\ (x.ok => k.ok)
        /\ KeepsBusy(x, k)
    BY <1>2, <1>3, MapIs
  <2> HIDE DEF x
  <2>2. w = x
    BY <1>5 DEF x
  <2> QED BY <2>1, <2>2
<1>7. Built(w, F, IF w.ok THEN {p} \ {p} ELSE {p})
  <2>1. Built(k, F, {p}) /\ p \in {p} /\ k.pg.leaf[v] = 0
    BY <1>3, <1>4
  <2> QED BY <1>5, <2>1, MapBuilt
<1>8. Built(w, F, IF w.ok THEN {} ELSE {p})
  <2>1. {p} \ {p} = {}
    OBVIOUS
  <2> QED BY <1>7, <2>1
<1>9. Untouched(w, F, V)
  <2>1. ASSUME NEW q \in PPages, q \notin F PROVE w.ram.val[q] = V[q]
    <3>1. q \notin k.ram.free /\ q # p
      BY <1>1, <1>2, <1>3, <2>1
    <3>2. k.ram.val[q] = m.ram.val[q]
      BY <1>1, <1>3, <3>1 DEF Mems, Rams
    <3> QED BY <1>6, <2>1, <3>1, <3>2 DEF Untouched, KeepsBusy
  <2> QED BY <2>1 DEF Untouched
<1> QED BY <1>3, <1>6, <1>8, <1>9 DEF p, w, MapsTo

\* The page that could not be mapped is lost.
Lost(w) == [w EXCEPT !.ok = TRUE, !.leak = TRUE]

\* The page in hand that is forgotten leaks, and the rest stays private.
LEMMA LostBuilt ==
  ASSUME NEW w, NEW F, NEW L, Built(w, F, L)
  PROVE  /\ Built(Lost(w), F, {}) /\ Lost(w).ram = w.ram /\ Lost(w).pg = w.pg /\ Lost(w).ok /\ Lost(w).leak
<1>1. w \in Mems
  BY DEF Built
<1>2. Lost(w) \in Mems /\ Lost(w).ram = w.ram /\ Lost(w).pg = w.pg /\ Lost(w).ok /\ Lost(w).leak
  BY <1>1 DEF Lost, Mems
<1> QED BY <1>2 DEF Built, Builds

\* load_segment() gives a memory for a memory.
LEMMA LoadType ==
  ASSUME NEW m \in Mems, NEW v \in VPages PROVE LoadPage(m, v) \in Mems
<1>1. CASE ~m.ok
  BY <1>1 DEF LoadPage
<1>2. CASE m.ok /\ ~CanAlloc(m)
  BY <1>2 DEF LoadPage, Fail, Mems
<1>3. CASE m.ok /\ CanAlloc(m)
  <2> DEFINE w == mappages(TakePage(m), v, NextPage(m))
  <2>1. TakePage(m) \in Mems /\ NextPage(m) \in 0..NullPage
    BY <1>3, TakeIs, NextFree, AConstants
  <2>2. w \in Mems
    BY <2>1, MapIs
  <2>3. LoadPage(m, v) = IF w.ok THEN w ELSE [w EXCEPT !.ok = TRUE, !.leak = TRUE]
    BY <1>3 DEF LoadPage
  <2> HIDE DEF w
  <2> QED BY <2>2, <2>3 DEF Mems
<1> QED BY <1>1, <1>2, <1>3

\* The first i pages of the program are mapped at most.
Loading(m, F, V, i) ==
  /\ Built(m, F, {}) /\ Untouched(m, F, V) /\ m.pg.root # 0
  /\ \A w \in VPages : m.pg.leaf[w] # 0 => w <= i /\ m.pg.leaf[w] # NullPage

\* One page of the segment is loaded.
LEMMA LoadStep ==
  ASSUME NEW m, NEW F, NEW V, NEW i \in 1..MaxSeg, Loading(m, F, V, i - 1)
  PROVE  Loading(LoadPage(m, i), F, V, i)
<1>1. m \in Mems /\ F \subseteq PPages
  BY DEF Loading, Built
<1>2. i \in VPages /\ i \in Nat /\ \A w \in VPages : w \in Nat
  BY AConstants DEF VPages, Low
<1>3. m.pg.leaf[i] = 0
  BY <1>2 DEF Loading
<1>4. CASE ~m.ok
  BY <1>2, <1>4 DEF LoadPage, Loading
<1>5. CASE m.ok /\ ~CanAlloc(m)
  <2>1. LoadPage(m, i) = Fail(m)
    BY <1>5 DEF LoadPage
  <2>2. Fail(m) \in Mems /\ Fail(m).ram = m.ram /\ Fail(m).pg = m.pg /\ Fail(m).leak = m.leak
    BY <1>1 DEF Fail, Mems
  <2>3. Built(Fail(m), F, {}) /\ Untouched(Fail(m), F, V)
    BY <2>2 DEF Loading, Built, Untouched
  <2> QED BY <1>2, <2>1, <2>2, <2>3 DEF Loading
<1>6. CASE m.ok /\ CanAlloc(m)
  <2> DEFINE w == mappages(TakePage(m), i, NextPage(m))
             p == NextPage(m)
  <2>1. /\ w \in Mems /\ Untouched(w, F, V) /\ w.leak = m.leak /\ w.pg.root = m.pg.root
        /\ Built(w, F, IF w.ok THEN {} ELSE {p})
        /\ w.pg.leaf = IF w.ok THEN [m.pg.leaf EXCEPT ![i] = p] ELSE m.pg.leaf
    <3>1. MapsTo(w, m, F, V, i, p)
      BY <1>2, <1>3, <1>6, TakeMap DEF Loading
    <3> QED BY <3>1 DEF MapsTo
  <2>2. p \in PPages
    BY <1>1, <1>6, NextFree
  <2>3. LoadPage(m, i) = IF w.ok THEN w ELSE Lost(w)
    BY <1>6 DEF LoadPage, Lost
  <2> HIDE DEF w, p
  <2>4. \A u \in VPages : w.pg.leaf[u] # 0 => u <= i /\ w.pg.leaf[u] # NullPage
    <3>1. ASSUME NEW u \in VPages, w.pg.leaf[u] # 0 PROVE u <= i /\ w.pg.leaf[u] # NullPage
      <4>1. w.pg.leaf[u] = m.pg.leaf[u] \/ (u = i /\ w.pg.leaf[u] = p)
        BY <1>1, <1>2, <2>1 DEF Mems, Tables, LeafMaps
      <4> QED BY <1>2, <2>2, <3>1, <4>1, AConstants DEF Loading
    <3> QED BY <3>1
  <2>5. CASE w.ok
    BY <2>1, <2>3, <2>4, <2>5 DEF Loading
  <2>6. CASE ~w.ok
    <3>1. Built(Lost(w), F, {}) /\ Lost(w).ram = w.ram /\ Lost(w).pg = w.pg
      BY <2>1, LostBuilt
    <3> QED BY <2>1, <2>3, <2>4, <2>6, <3>1 DEF Loading, Untouched
  <2> QED BY <2>5, <2>6
<1> QED BY <1>4, <1>5, <1>6

\* The loop of load_segment().
LEMMA LoadRun ==
  ASSUME NEW m \in Mems, NEW n \in 0..MaxSeg
  PROVE  \E f \in [0..n -> Mems] : f[0] = m /\ (\A i \in 1..n : f[i] = LoadPage(f[i - 1], i)) /\ Load(m, n) = f[n]
<1> DEFINE F == [i \in 1..n |-> [x \in Mems |-> LoadPage(x, i)]]
           Body(g) == [i \in 0..n |-> IF i = 0 THEN m ELSE LoadPage(g[i - 1], i)]
           st == CHOOSE g : g = Body(g)
<1>1. n \in Nat /\ \A i \in 1..n : i \in VPages
  BY AConstants DEF VPages, Low
<1>2. F \in [1..n -> [Mems -> Mems]]
  BY <1>1, LoadType
<1>3. PICK f \in [0..n -> Mems] : IsLoop(f, n, m, F)
  <2> HIDE DEF F
  <2> QED BY <1>1, <1>2, LoopExists
<1>4. f[0] = m /\ \A i \in 1..n : f[i] = LoadPage(f[i - 1], i)
  <2>1. ASSUME NEW i \in 1..n PROVE f[i] = LoadPage(f[i - 1], i)
    <3>1. i - 1 \in 0..n /\ f[i - 1] \in Mems
      BY <1>1
    <3>2. f[i] = F[i][f[i - 1]]
      BY <1>3 DEF IsLoop
    <3> QED BY <3>1, <3>2
  <2> QED BY <1>3, <2>1 DEF IsLoop
<1>5. f = Body(f)
  <2>1. ASSUME NEW i \in 0..n PROVE f[i] = Body(f)[i]
    BY <1>4
  <2> QED BY <2>1
<1>6. st = Body(st)
  BY <1>5
<1>7. \A i \in 0..n : st[i] = f[i]
  <2> HIDE DEF st
  <2>1. st[0] = m /\ \A i \in 1..n : st[i] = LoadPage(st[i - 1], i)
    BY <1>6
  <2>2. Alike(st, f, n)
    BY <1>4, <2>1 DEF Alike
  <2> QED BY <1>1, <2>2, LoopsAgree
<1>8. Load(m, n) = st[n]
  BY DEF Load
<1> QED BY <1>4, <1>7, <1>8

\* The whole segment is loaded.
LEMMA LoadLoads ==
  ASSUME NEW c, NEW F, NEW V, NEW n \in 0..MaxSeg, Loading(c, F, V, 0)
  PROVE  Loading(Load(c, n), F, V, n)
<1>1. c \in Mems /\ n \in Nat
  BY DEF Loading, Built
<1>2. PICK f \in [0..n -> Mems] : f[0] = c /\ (\A i \in 1..n : f[i] = LoadPage(f[i - 1], i)) /\ Load(c, n) = f[n]
  BY <1>1, LoadRun
<1> DEFINE S == {i \in 0..n : Loading(f[i], F, V, i)}
<1>3. 0 \in S
  BY <1>1, <1>2
<1>4. \A i \in 1..n : i - 1 \in S => i \in S
  <2>1. ASSUME NEW i \in 1..n, Loading(f[i - 1], F, V, i - 1) PROVE Loading(f[i], F, V, i)
    <3>1. i \in 1..MaxSeg
      BY AConstants
    <3> QED BY <1>2, <2>1, <3>1, LoadStep
  <2> QED BY <2>1
<1>5. \A i \in 0..n : i \in S
  <2> HIDE DEF S
  <2> QED BY <1>1, <1>3, <1>4, UpTo
<1> QED BY <1>1, <1>2, <1>5

\* _map_user_stack() gives a memory for a memory, and never reports a failure.
LEMMA StackType ==
  ASSUME NEW m \in Mems, NEW v \in VPages PROVE StackPage(m, v) \in Mems /\ StackPage(m, v).ok
<1> DEFINE a == IF CanAlloc(m) THEN TakePage(m) ELSE m
           p == IF CanAlloc(m) THEN NextPage(m) ELSE NullPage
           w == mappages(a, v, p)
<1>1. a \in Mems /\ p \in 0..NullPage
  BY TakeIs, NextFree, AConstants
<1> HIDE DEF a, p
<1>2. w \in Mems
  BY <1>1, MapIs
<1>3. StackPage(m, v) = IF w.ok THEN w ELSE [w EXCEPT !.ok = TRUE, !.leak = @ \/ CanAlloc(m)]
  BY DEF StackPage, w, a, p
<1> HIDE DEF w
<1>4. CanAlloc(m) \in BOOLEAN
  BY DEF CanAlloc
<1> QED BY <1>2, <1>3, <1>4 DEF Mems

(* The first i pages of the stack are mapped at most, and beside them the   *)
(* first n of the program; physical address 0 is mapped only when there was *)
(* no memory, and then there is none from there on.                         *)
NoNull(m) == \A w \in VPages : m.pg.leaf[w] # NullPage
Stacking(m, F, V, n, i) ==
  /\ Built(m, F, {}) /\ Untouched(m, F, V) /\ m.pg.root # 0
  /\ \A w \in VPages : m.pg.leaf[w] # 0 => w <= n \/ (w \in Stack /\ w <= LowTop + i)
  /\ NoNull(m) \/ m.ram.free = {}

\* One page of the stack is mapped, or the page that is missing is mapped as 0 because no page is free.
LEMMA StackStep ==
  ASSUME NEW m, NEW F, NEW V, NEW n \in 0..MaxSeg, NEW i \in 1..StackPages, Stacking(m, F, V, n, i - 1)
  PROVE  /\ Stacking(StackPage(m, LowTop + i), F, V, n, i)
         /\ StackPage(m, LowTop + i).pg.leaf[LowTop + i] \in PPages => NoNull(StackPage(m, LowTop + i))
<1> DEFINE v == LowTop + i
           x == StackPage(m, v)
<1>1. m \in Mems /\ F \subseteq PPages /\ m.pg.leaf \in LeafMaps
  BY DEF Stacking, Built, Mems, Tables
<1>2. v \in VPages /\ v \in Stack /\ v \in Nat /\ n \in Nat /\ v > n /\ i \in Nat /\ \A w \in VPages : w \in Nat
  BY AConstants DEF VPages, Stack
<1>3. m.pg.leaf[v] = 0
  BY <1>2, AConstants DEF Stacking
<1> DEFINE Shape(l) == \A w \in VPages : l[w] # 0 => w <= n \/ (w \in Stack /\ w <= LowTop + i)
<1>4. ASSUME NEW q PROVE Shape(m.pg.leaf) /\ Shape([m.pg.leaf EXCEPT ![v] = q])
  <2>1. Shape(m.pg.leaf)
    BY <1>2, AConstants DEF Stacking
  <2> HIDE DEF v
  <2>2. \A w \in VPages : [m.pg.leaf EXCEPT ![v] = q][w] = IF w = v THEN q ELSE m.pg.leaf[w]
    BY <1>1 DEF LeafMaps
  <2>3. v <= LowTop + i
    BY <1>2, AConstants DEF v
  <2> QED BY <1>2, <2>1, <2>2, <2>3
<1>5. CASE CanAlloc(m)
  <2> DEFINE p == NextPage(m)
             w == mappages(TakePage(m), v, p)
  <2>1. /\ w \in Mems /\ Untouched(w, F, V) /\ w.leak = m.leak /\ w.pg.root = m.pg.root
        /\ Built(w, F, IF w.ok THEN {} ELSE {p})
        /\ w.pg.leaf = IF w.ok THEN [m.pg.leaf EXCEPT ![v] = p] ELSE m.pg.leaf
    <3> HIDE DEF v
    <3>1. Built(m, F, {}) /\ Untouched(m, F, V) /\ v \in VPages
      BY <1>2 DEF Stacking
    <3>2. MapsTo(w, m, F, V, v, p)
      BY <1>3, <1>5, <3>1, TakeMap
    <3> HIDE DEF w, p
    <3> QED BY <3>2 DEF MapsTo
  <2>2. p \in PPages /\ m.ram.free # {}
    BY <1>1, <1>5, NextFree DEF CanAlloc
  <2>3. x = IF w.ok THEN w ELSE Lost(w)
    <3>1. x = IF w.ok THEN w ELSE [w EXCEPT !.ok = TRUE, !.leak = @ \/ CanAlloc(m)]
      BY <1>5 DEF StackPage
    <3> HIDE DEF w
    <3>2. [w EXCEPT !.ok = TRUE, !.leak = @ \/ CanAlloc(m)] = Lost(w)
      BY <1>5, <2>1 DEF Lost, Mems
    <3> QED BY <3>1, <3>2
  <2> HIDE DEF w, p, x, v, Shape
  <2>4. Shape(w.pg.leaf)
    BY <1>4, <2>1
  <2>5. NoNull(w)
    <3>1. NoNull(m)
      BY <2>2 DEF Stacking
    <3>2. \A u \in VPages : w.pg.leaf[u] = m.pg.leaf[u] \/ w.pg.leaf[u] = p
      BY <1>1, <2>1 DEF LeafMaps
    <3> QED BY <2>2, <3>1, <3>2, AConstants DEF NoNull
  <2>6. x.pg = w.pg /\ x.ram = w.ram /\ Built(x, F, {})
    <3>1. CASE w.ok
      BY <2>1, <2>3, <3>1
    <3>2. CASE ~w.ok
      BY <2>1, <2>3, <3>2, LostBuilt
    <3> QED BY <3>1, <3>2
  <2>7. NoNull(x)
    BY <2>5, <2>6 DEF NoNull
  <2>8. Untouched(x, F, V) /\ x.pg.root # 0
    BY <2>1, <2>6 DEF Untouched, Stacking
  <2> QED BY <2>4, <2>6, <2>7, <2>8 DEF Stacking, Shape, x, v
<1>6. CASE ~CanAlloc(m)
  <2> DEFINE w == mappages(m, v, NullPage)
  <2>1. m.ram.free = {}
    BY <1>6 DEF CanAlloc
  <2>2. Built(w, F, {})
    BY <1>2, <1>3, MapNullBuilt DEF Stacking
  <2>3. /\ w \in Mems /\ w.pg.leaf = (IF w.ok THEN [m.pg.leaf EXCEPT ![v] = NullPage] ELSE m.pg.leaf)
        /\ w.pg.root = m.pg.root /\ w.leak = m.leak /\ w.ram.free \subseteq m.ram.free /\ KeepsBusy(w, m)
    <3>1. NullPage \in 0..NullPage
      BY AConstants
    <3> QED BY <1>1, <1>2, <3>1, MapIs
  <2>4. x = IF w.ok THEN w ELSE [w EXCEPT !.ok = TRUE, !.leak = @ \/ CanAlloc(m)]
    BY <1>6 DEF StackPage
  <2> HIDE DEF w, v, x, Shape
  <2>5. x.pg = w.pg /\ x.ram = w.ram /\ x.leak = w.leak /\ x \in Mems
    <3>1. w.leak \in BOOLEAN
      BY <2>3 DEF Mems
    <3> QED BY <1>6, <2>3, <2>4, <3>1 DEF Mems
  <2>6. Built(x, F, {})
    BY <2>2, <2>5 DEF Built
  <2>7. Shape(x.pg.leaf)
    BY <1>4, <2>3, <2>5
  <2>8. x.ram.free = {}
    BY <2>1, <2>3, <2>5
  <2>9. Untouched(x, F, V) /\ x.pg.root # 0
    BY <2>1, <2>3, <2>5 DEF Untouched, KeepsBusy, Stacking
  <2>10. x.pg.leaf[v] \notin PPages
    BY <1>1, <1>2, <1>3, <2>3, <2>5, AConstants DEF LeafMaps
  <2> QED BY <2>6, <2>7, <2>8, <2>9, <2>10 DEF Stacking, Shape, x, v
<1> QED BY <1>5, <1>6

\* The loop of _map_user_stack().
IsStackRun(f, m) == f[0] = m /\ \A i \in 1..StackPages : f[i] = StackPage(f[i - 1], LowTop + i)

\* The recursive function of the model takes the rounds of that loop.
LEMMA StackRun ==
  ASSUME NEW m \in Mems
  PROVE  \E f \in [0..StackPages -> Mems] : IsStackRun(f, m) /\ map_user_stack(m) = f[StackPages]
<1> DEFINE n == StackPages
           F == [i \in 1..n |-> [x \in Mems |-> StackPage(x, LowTop + i)]]
           Body(g) == [i \in 0..n |-> IF i = 0 THEN m ELSE StackPage(g[i - 1], LowTop + i)]
           st == CHOOSE g : g = Body(g)
<1>1. n \in Nat /\ \A i \in 1..n : LowTop + i \in VPages
  BY AConstants DEF VPages, Stack
<1>2. F \in [1..n -> [Mems -> Mems]]
  BY <1>1, StackType
<1>3. PICK f \in [0..n -> Mems] : IsLoop(f, n, m, F)
  <2> HIDE DEF F, n
  <2> QED BY <1>1, <1>2, LoopExists
<1>4. f[0] = m /\ \A i \in 1..n : f[i] = StackPage(f[i - 1], LowTop + i)
  <2>1. ASSUME NEW i \in 1..n PROVE f[i] = StackPage(f[i - 1], LowTop + i)
    <3>1. i - 1 \in 0..n /\ f[i - 1] \in Mems
      BY <1>1
    <3>2. f[i] = F[i][f[i - 1]]
      BY <1>3 DEF IsLoop
    <3> QED BY <3>1, <3>2
  <2> QED BY <1>3, <2>1 DEF IsLoop
<1>5. f = Body(f)
  <2>1. ASSUME NEW i \in 0..n PROVE f[i] = Body(f)[i]
    BY <1>4
  <2> QED BY <2>1
<1>6. st = Body(st)
  BY <1>5
<1>7. \A i \in 0..n : st[i] = f[i]
  <2> HIDE DEF st
  <2>1. st[0] = m /\ \A i \in 1..n : st[i] = StackPage(st[i - 1], LowTop + i)
    BY <1>1, <1>6
  <2>2. Alike(st, f, n)
    BY <1>4, <2>1 DEF Alike
  <2> QED BY <1>1, <2>2, LoopsAgree
<1>8. map_user_stack(m) = st[n]
  BY DEF map_user_stack
<1> QED BY <1>1, <1>4, <1>7, <1>8 DEF IsStackRun

\* The whole stack is mapped; if its pages are there for the arguments, no page 0 is mapped anywhere.
LEMMA StackStacks ==
  ASSUME NEW c, NEW F, NEW V, NEW n \in 0..MaxSeg, Stacking(c, F, V, n, 0)
  PROVE  /\ Stacking(map_user_stack(c), F, V, n, StackPages)
         /\ ArgsFit(map_user_stack(c)) => NoNull(map_user_stack(c))
         /\ map_user_stack(c).ok
<1>1. c \in Mems /\ StackPages \in Nat /\ StackPages > 0
  BY AConstants DEF Stacking, Built
<1>10. PICK f \in [0..StackPages -> Mems] : IsStackRun(f, c) /\ map_user_stack(c) = f[StackPages]
  BY <1>1, StackRun
<1>2. f[0] = c /\ \A i \in 1..StackPages : f[i] = StackPage(f[i - 1], LowTop + i)
  BY <1>10 DEF IsStackRun
<1> DEFINE S == {i \in 0..StackPages : Stacking(f[i], F, V, n, i)}
<1>3. 0 \in S
  BY <1>1, <1>2
<1>4. \A i \in 1..StackPages : i - 1 \in S => i \in S
  BY <1>2, StackStep
<1>5. \A i \in 0..StackPages : i \in S
  <2> HIDE DEF S
  <2> QED BY <1>1, <1>3, <1>4, UpTo
<1>6. StackPages \in 1..StackPages /\ StackPages - 1 \in 0..StackPages /\ StackPages \in 0..StackPages
  BY <1>1
<1>7. Stacking(f[StackPages], F, V, n, StackPages) /\ Stacking(f[StackPages - 1], F, V, n, StackPages - 1)
  BY <1>5, <1>6
<1>8. f[StackPages] = StackPage(f[StackPages - 1], LowTop + StackPages)
  BY <1>2, <1>6
<1>9. f[StackPages].pg.leaf[LowTop + StackPages] \in PPages => NoNull(f[StackPages])
  BY <1>6, <1>7, <1>8, StackStep
<1>11. f[StackPages].ok
  <2>1. LowTop + StackPages \in VPages /\ f[StackPages - 1] \in Mems
    BY <1>6, AConstants DEF VPages, Stack
  <2> QED BY <1>8, <2>1, StackType
<1> QED BY <1>10, <1>7, <1>9, <1>11 DEF ArgsFit

-----------------------------------------------------------------------------
(* Address spaces: fork                                                     *)

(* The pages W of a father's table tbl have been looked at: what he has     *)
(* there has been copied, unless something failed, and nothing else.        *)
Copying(m, F, tbl, W) ==
  /\ Built(m, F, {}) /\ Untouched(m, F, ram.val) /\ ~m.leak /\ NoNull(m)
  /\ m.pg.root = 0 => ~m.ok /\ m.pg = NoTable
  /\ \A w \in VPages : m.pg.leaf[w] # 0 => w \in W /\ tbl.leaf[w] # 0
  /\ m.ok => \A w \in W : tbl.leaf[w] \in PPages =>
               m.pg.leaf[w] \in PPages /\ m.ram.val[m.pg.leaf[w]] = ram.val[tbl.leaf[w]]

\* A new page with the contents x.
Wrote(m, x) == [TakePage(m) EXCEPT !.ram.val[NextPage(m)] = x]

\* Only the new page is written.
LEMMA WroteIs ==
  ASSUME NEW m \in Mems, CanAlloc(m), NEW x \in Kept
  PROVE  /\ Wrote(m, x) \in Mems /\ Wrote(m, x).pg = m.pg /\ Wrote(m, x).ok = m.ok /\ Wrote(m, x).leak = m.leak
         /\ Wrote(m, x).ram.free = m.ram.free \ {NextPage(m)}
         /\ Wrote(m, x).ram.val[NextPage(m)] = x
         /\ \A q \in PPages : q # NextPage(m) => Wrote(m, x).ram.val[q] = m.ram.val[q]
<1> DEFINE k == TakePage(m)
           p == NextPage(m)
           a == Wrote(m, x)
<1>1. p \in PPages
  BY NextFree
<1>2. /\ k \in Mems /\ k.pg = m.pg /\ k.ok = m.ok /\ k.leak = m.leak
      /\ k.ram.free = m.ram.free \ {p} /\ k.ram.val = [m.ram.val EXCEPT ![p] = 0]
  BY TakeIs
<1> HIDE DEF k, p
<1>3. a = [k EXCEPT !.ram.val[p] = x]
  BY DEF Wrote, k, p
<1>4. k.ram \in Rams /\ m.ram.val \in [PPages -> Kept]
  BY <1>2 DEF Mems, Rams
<1> HIDE DEF a
<1>5. /\ a.ram = [k.ram EXCEPT !.val[p] = x] /\ a.pg = k.pg /\ a.ok = k.ok /\ a.leak = k.leak
      /\ a = [k EXCEPT !.ram = a.ram]
  BY <1>2, <1>3 DEF Mems
<1>6. a.ram \in Rams /\ a.ram.free = k.ram.free /\ a.ram.val = [k.ram.val EXCEPT ![p] = x]
  BY <1>1, <1>4, <1>5 DEF Rams
<1>7. a \in Mems
  BY <1>2, <1>5, <1>6 DEF Mems
<1>8. a.ram.val[p] = x /\ \A q \in PPages : q # p => a.ram.val[q] = m.ram.val[q]
  BY <1>1, <1>2, <1>4, <1>6
<1> QED BY <1>2, <1>5, <1>6, <1>7, <1>8 DEF a, p

\* A copy is given back when it cannot be mapped.
GivesBack(w, p) == Fail([w EXCEPT !.ram.free = @ \cup {p}])

\* It goes back to the free list, and nothing else changes.
LEMMA BackIs ==
  ASSUME NEW w \in Mems, NEW p \in PPages
  PROVE  /\ GivesBack(w, p) \in Mems /\ GivesBack(w, p).pg = w.pg /\ ~GivesBack(w, p).ok /\ GivesBack(w, p).leak = w.leak
         /\ GivesBack(w, p).ram.free = w.ram.free \cup {p} /\ GivesBack(w, p).ram.val = w.ram.val
<1> DEFINE b == [w EXCEPT !.ram.free = @ \cup {p}]
<1>1. w.ram \in Rams
  BY DEF Mems
<1>2. /\ b.ram = [w.ram EXCEPT !.free = @ \cup {p}] /\ b.pg = w.pg /\ b.ok = w.ok /\ b.leak = w.leak
      /\ b = [w EXCEPT !.ram = b.ram]
  BY DEF Mems
<1> HIDE DEF b
<1>3. b.ram \in Rams /\ b.ram.free = w.ram.free \cup {p} /\ b.ram.val = w.ram.val
  BY <1>1, <1>2 DEF Rams
<1>4. b \in Mems
  BY <1>2, <1>3 DEF Mems
<1>5. GivesBack(w, p) = Fail(b)
  BY DEF GivesBack, b
<1>6. Fail(b) \in Mems /\ Fail(b).ram = b.ram /\ Fail(b).pg = b.pg /\ Fail(b).leak = b.leak /\ ~Fail(b).ok
  BY <1>4 DEF Fail, Mems
<1> QED BY <1>2, <1>3, <1>5, <1>6

\* CopyPage() in the terms of these.
LEMMA CopyIs ==
  ASSUME NEW m \in Mems, NEW tbl, NEW v, m.ok, tbl.leaf[v] \in PPages, CanAlloc(m)
  PROVE  CopyPage(m, tbl, v) =
           IF mappages(Wrote(m, ram.val[tbl.leaf[v]]), v, NextPage(m)).ok
           THEN mappages(Wrote(m, ram.val[tbl.leaf[v]]), v, NextPage(m))
           ELSE GivesBack(mappages(Wrote(m, ram.val[tbl.leaf[v]]), v, NextPage(m)), NextPage(m))
BY DEF CopyPage, Wrote, GivesBack

\* It gives a memory for a memory.
LEMMA CopyType ==
  ASSUME ram \in Rams, NEW m \in Mems, NEW tbl \in Tables, NEW v \in VPages PROVE CopyPage(m, tbl, v) \in Mems
<1>1. CASE ~m.ok \/ tbl.leaf[v] \notin PPages
  BY <1>1 DEF CopyPage
<1>2. CASE m.ok /\ tbl.leaf[v] \in PPages /\ ~CanAlloc(m)
  BY <1>2 DEF CopyPage, Fail, Mems
<1>3. CASE m.ok /\ tbl.leaf[v] \in PPages /\ CanAlloc(m)
  <2> DEFINE x == ram.val[tbl.leaf[v]]
             p == NextPage(m)
             w == mappages(Wrote(m, x), v, p)
  <2>1. x \in Kept
    BY <1>3 DEF Rams
  <2>2. Wrote(m, x) \in Mems
    BY <1>3, <2>1, WroteIs
  <2>3. p \in PPages /\ p \in 0..NullPage
    BY <1>3, NextFree, AConstants
  <2>4. w \in Mems
    BY <2>2, <2>3, MapIs
  <2>5. CopyPage(m, tbl, v) = IF w.ok THEN w ELSE GivesBack(w, p)
    BY <1>3, CopyIs
  <2> HIDE DEF w, p
  <2> QED BY <2>3, <2>4, <2>5, BackIs
<1> QED BY <1>1, <1>2, <1>3

\* One page of the copy.
LEMMA CopyStep ==
  ASSUME ram \in Rams, NEW m, NEW F, NEW tbl \in Tables, NEW W, W \subseteq VPages, NEW v \in VPages, v \notin W,
         Copying(m, F, tbl, W)
  PROVE  Copying(CopyPage(m, tbl, v), F, tbl, W \cup {v})
<1>1. m \in Mems /\ F \subseteq PPages /\ m.pg.leaf \in LeafMaps /\ m.ram.free \subseteq F
  BY DEF Copying, Built, Builds, Mems, Tables
<1>2. m.pg.leaf[v] = 0
  BY DEF Copying
<1>3. CASE ~m.ok
  BY <1>3 DEF CopyPage, Copying
<1>4. CASE m.ok /\ tbl.leaf[v] \notin PPages
  BY <1>4 DEF CopyPage, Copying
<1>5. CASE m.ok /\ tbl.leaf[v] \in PPages /\ ~CanAlloc(m)
  <2>1. CopyPage(m, tbl, v) = Fail(m)
    BY <1>5 DEF CopyPage
  <2>2. Fail(m) \in Mems /\ Fail(m).ram = m.ram /\ Fail(m).pg = m.pg /\ Fail(m).leak = m.leak /\ ~Fail(m).ok
    BY <1>1 DEF Fail, Mems
  <2>3. Built(Fail(m), F, {}) /\ Untouched(Fail(m), F, ram.val) /\ NoNull(Fail(m))
    BY <2>2 DEF Copying, Built, Untouched, NoNull
  <2> QED BY <2>1, <2>2, <2>3 DEF Copying
<1>6. CASE m.ok /\ tbl.leaf[v] \in PPages /\ CanAlloc(m)
  <2> DEFINE x == ram.val[tbl.leaf[v]]
             p == NextPage(m)
             a == Wrote(m, x)
             w == mappages(a, v, p)
  <2>1. x \in Kept
    BY <1>6 DEF Rams
  <2>2. p \in m.ram.free /\ p \in PPages /\ p \in 0..NullPage /\ p # 0 /\ p # NullPage
    BY <1>1, <1>6, NextFree, AConstants
  <2>3. /\ a \in Mems /\ a.pg = m.pg /\ a.ok = m.ok /\ a.leak = m.leak /\ a.ram.free = m.ram.free \ {p}
        /\ a.ram.val[p] = x
        /\ \A q \in PPages : q # p => a.ram.val[q] = m.ram.val[q]
    BY <1>1, <1>6, <2>1, WroteIs
  <2>4. Built(a, F, {p})
    <3>1. Built(TakePage(m), F, {} \cup {p})
      BY <1>6, TakeBuilt DEF Copying
    <3>2. TakePage(m).pg = m.pg /\ TakePage(m).leak = m.leak /\ TakePage(m).ram.free = m.ram.free \ {p}
      BY <1>1, <1>6, TakeIs
    <3> HIDE DEF a, p
    <3>3. {} \cup {p} = {p}
      OBVIOUS
    <3> QED BY <2>3, <3>1, <3>2, <3>3 DEF Built
  <2>5. CopyPage(m, tbl, v) = IF w.ok THEN w ELSE GivesBack(w, p)
    BY <1>1, <1>6, CopyIs
  <2> HIDE DEF a, p, x
  <2>6. /\ w \in Mems /\ w.pg.leaf = (IF w.ok THEN [a.pg.leaf EXCEPT ![v] = p] ELSE a.pg.leaf)
        /\ w.pg.root = a.pg.root /\ w.leak = a.leak /\ (w.ok => a.ok)
        /\ KeepsBusy(w, a)
    BY <2>2, <2>3, MapIs
  <2>7. Built(w, F, IF w.ok THEN {p} \ {p} ELSE {p})
    BY <1>2, <2>3, <2>4, MapBuilt
  <2>8. {p} \ {p} = {}
    OBVIOUS
  <2> HIDE DEF w
  <2>9. ASSUME NEW q \in PPages, q \notin F PROVE w.ram.val[q] = ram.val[q]
    <3>1. q \notin a.ram.free /\ q # p
      BY <1>1, <2>2, <2>3, <2>9
    <3> QED BY <2>3, <2>6, <2>9, <3>1 DEF KeepsBusy, Copying, Untouched
  <2>10. \A u \in VPages : w.pg.leaf[u] = IF u = v /\ w.ok THEN p ELSE m.pg.leaf[u]
    BY <1>1, <2>3, <2>6 DEF LeafMaps
  <2>11. \A u \in VPages : w.pg.leaf[u] # NullPage /\ (w.pg.leaf[u] # 0 => u \in W \cup {v} /\ tbl.leaf[u] # 0)
    BY <1>6, <2>2, <2>10, AConstants DEF Copying, NoNull
  <2>12. w.pg.root # 0 /\ ~w.leak
    BY <1>6, <2>3, <2>6 DEF Copying
  <2>13. CASE w.ok
    <3>1. ASSUME NEW u \in W, tbl.leaf[u] \in PPages
          PROVE  w.pg.leaf[u] \in PPages /\ w.ram.val[w.pg.leaf[u]] = ram.val[tbl.leaf[u]]
      <4> DEFINE q == m.pg.leaf[u]
      <4>1. q \in PPages /\ m.ram.val[q] = ram.val[tbl.leaf[u]]
        BY <1>6, <3>1 DEF Copying
      <4>2. w.pg.leaf[u] = q
        BY <2>10
      <4>3. q \notin m.ram.free
        <5>1. Holds(m.pg.root, m.pg.tab, m.pg.leaf, q)
          BY DEF Holds
        <5> QED BY <4>1, <5>1 DEF Copying, Built, Builds
      <4> HIDE DEF q
      <4>4. a.ram.val[q] = m.ram.val[q] /\ q \notin a.ram.free
        BY <2>2, <2>3, <4>1, <4>3
      <4>5. w.ram.val[q] = a.ram.val[q]
        BY <2>6, <4>1, <4>4 DEF KeepsBusy
      <4> QED BY <4>1, <4>2, <4>4, <4>5
    <3>2. w.pg.leaf[v] \in PPages /\ w.ram.val[w.pg.leaf[v]] = ram.val[tbl.leaf[v]]
      <4>1. p \notin a.ram.free
        BY <2>3
      <4>2. w.ram.val[p] = x
        BY <2>2, <2>3, <2>6, <4>1 DEF KeepsBusy
      <4> QED BY <2>2, <2>10, <2>13, <4>2 DEF x
    <3>3. Built(w, F, {})
      BY <2>7, <2>8, <2>13
    <3>4. CopyPage(m, tbl, v) = w
      BY <2>5, <2>13
    <3>5. Untouched(w, F, ram.val) /\ NoNull(w)
      BY <2>9, <2>11 DEF Untouched, NoNull
    <3> QED BY <2>11, <2>12, <3>1, <3>2, <3>3, <3>4, <3>5 DEF Copying
  <2>14. CASE ~w.ok
    <3> DEFINE y == GivesBack(w, p)
    <3>1. /\ y \in Mems /\ y.pg = w.pg /\ ~y.ok /\ y.leak = w.leak
          /\ y.ram.free = w.ram.free \cup {p} /\ y.ram.val = w.ram.val
      BY <2>2, <2>6, BackIs
    <3> HIDE DEF y
    <3>2. Builds(w.ram.free, w.pg.root, w.pg.tab, w.pg.leaf, w.leak, F, {p})
      BY <2>7, <2>14 DEF Built
    <3>3. Builds(w.ram.free \cup {p}, w.pg.root, w.pg.tab, w.pg.leaf, w.leak, F, {})
      BY <3>2 DEF Builds
    <3>4. Built(y, F, {})
      BY <1>1, <3>1, <3>3 DEF Built
    <3>5. Untouched(y, F, ram.val) /\ NoNull(y)
      BY <2>9, <2>11, <3>1 DEF Untouched, NoNull
    <3>6. CopyPage(m, tbl, v) = y
      BY <2>5, <2>14 DEF y
    <3> QED BY <2>11, <2>12, <3>1, <3>4, <3>5, <3>6 DEF Copying
  <2> QED BY <2>13, <2>14
<1> QED BY <1>3, <1>4, <1>5, <1>6

\* The loop of vm_pagetbl_copy_asign().
IsCopyRun(f, m, tbl, v, n) == f[0] = m /\ \A i \in 1..n : f[i] = CopyPage(f[i - 1], tbl, v + i - 1)
InSpace(v, n) == \A i \in 1..n : v + i - 1 \in VPages

\* The recursive function of the model takes the rounds of that loop.
LEMMA CopyRun ==
  ASSUME ram \in Rams, NEW m \in Mems, NEW tbl \in Tables, NEW v, NEW n \in Nat, InSpace(v, n)
  PROVE  \E f \in [0..n -> Mems] : IsCopyRun(f, m, tbl, v, n) /\ vm_pagetbl_copy_asign(m, tbl, v, n) = f[n]
<1> DEFINE F == [i \in 1..n |-> [x \in Mems |-> CopyPage(x, tbl, v + i - 1)]]
           Body(g) == [i \in 0..n |-> IF i = 0 THEN m ELSE CopyPage(g[i - 1], tbl, v + i - 1)]
           st == CHOOSE g : g = Body(g)
<1>2. F \in [1..n -> [Mems -> Mems]]
  BY CopyType DEF InSpace
<1>3. PICK f \in [0..n -> Mems] : IsLoop(f, n, m, F)
  <2> HIDE DEF F
  <2> QED BY <1>2, LoopExists
<1>4. f[0] = m /\ \A i \in 1..n : f[i] = CopyPage(f[i - 1], tbl, v + i - 1)
  <2>1. ASSUME NEW i \in 1..n PROVE f[i] = CopyPage(f[i - 1], tbl, v + i - 1)
    <3>1. i - 1 \in 0..n /\ f[i - 1] \in Mems
      OBVIOUS
    <3>2. f[i] = F[i][f[i - 1]]
      BY <1>3 DEF IsLoop
    <3> QED BY <3>1, <3>2
  <2> QED BY <1>3, <2>1 DEF IsLoop
<1>5. f = Body(f)
  <2>1. ASSUME NEW i \in 0..n PROVE f[i] = Body(f)[i]
    BY <1>4
  <2> QED BY <2>1
<1>6. st = Body(st)
  BY <1>5
<1>7. \A i \in 0..n : st[i] = f[i]
  <2> HIDE DEF st
  <2>1. st[0] = m /\ \A i \in 1..n : st[i] = CopyPage(st[i - 1], tbl, v + i - 1)
    BY <1>6
  <2>2. Alike(st, f, n)
    BY <1>4, <2>1 DEF Alike
  <2> QED BY <2>2, LoopsAgree
<1>8. vm_pagetbl_copy_asign(m, tbl, v, n) = st[n]
  BY DEF vm_pagetbl_copy_asign
<1> QED BY <1>4, <1>7, <1>8 DEF IsCopyRun

\* A range of pages is copied.
LEMMA CopyCopies ==
  ASSUME ram \in Rams, NEW m, NEW F, NEW tbl \in Tables, NEW W, W \subseteq VPages, NEW v \in Nat, NEW n \in Nat,
         \A i \in 1..n : v + i - 1 \in VPages /\ v + i - 1 \notin W, Copying(m, F, tbl, W)
  PROVE  Copying(vm_pagetbl_copy_asign(m, tbl, v, n), F, tbl, W \cup v..v + n - 1)
<1>1. m \in Mems
  BY DEF Copying, Built
<1>2. PICK f \in [0..n -> Mems] : IsCopyRun(f, m, tbl, v, n) /\ vm_pagetbl_copy_asign(m, tbl, v, n) = f[n]
  <2>1. InSpace(v, n)
    BY DEF InSpace
  <2> QED BY <1>1, <2>1, CopyRun
<1>3. f[0] = m /\ \A i \in 1..n : f[i] = CopyPage(f[i - 1], tbl, v + i - 1)
  BY <1>2 DEF IsCopyRun
<1> DEFINE R(i) == W \cup v..v + i - 1
           S == {i \in 0..n : Copying(f[i], F, tbl, R(i))}
<1>4. 0 \in S
  <2>1. R(0) = W
    OBVIOUS
  <2> HIDE DEF R
  <2> QED BY <1>3, <2>1
<1>5. \A i \in 1..n : i - 1 \in S => i \in S
  <2>1. ASSUME NEW i \in 1..n, Copying(f[i - 1], F, tbl, R(i - 1)) PROVE Copying(f[i], F, tbl, R(i))
    <3> DEFINE U == R(i - 1)
               u == v + i - 1
    <3>1. U \subseteq VPages
      <4>1. ASSUME NEW y \in v..v + (i - 1) - 1 PROVE y \in VPages
        <5>1. y - v + 1 \in 1..n /\ v + (y - v + 1) - 1 = y
          OBVIOUS
        <5> QED BY <5>1
      <4> QED BY <4>1
    <3>2. u \in VPages /\ u \notin U
      OBVIOUS
    <3>3. R(i) = U \cup {u}
      OBVIOUS
    <3>4. f[i] = CopyPage(f[i - 1], tbl, u)
      BY <1>3
    <3> HIDE DEF U, u, R
    <3>5. Copying(f[i - 1], F, tbl, U)
      BY <2>1 DEF U
    <3> QED BY <3>1, <3>2, <3>3, <3>4, <3>5, CopyStep
  <2> HIDE DEF R
  <2> QED BY <2>1
<1>6. \A i \in 0..n : i \in S
  <2> HIDE DEF S
  <2> QED BY <1>4, <1>5, UpTo
<1> QED BY <1>2, <1>6

(* fork: the child's table has what its father's has, with the same         *)
(* contents, when all went well, and never anything else.                   *)
Forked(m, tbl) ==
  /\ Built(m, ram.free, {}) /\ Untouched(m, ram.free, ram.val) /\ ~m.leak /\ NoNull(m)
  /\ m.pg.root = 0 => ~m.ok /\ m.pg = NoTable
  /\ \A v \in VPages : m.pg.leaf[v] # 0 => tbl.leaf[v] # 0
  /\ m.ok => \A v \in VPages : tbl.leaf[v] \in PPages =>
               m.pg.leaf[v] \in PPages /\ m.ram.val[m.pg.leaf[v]] = ram.val[tbl.leaf[v]]

\* fork() copies all of the parent's pages or reports failure, and shares none.
LEMMA ForkForks ==
  ASSUME ram \in Rams, NEW t, space[t] \in Tables, heap[t] \in HeapRecs, HeapFits(heap[t]), Covers(space[t], heap[t])
  PROVE  Forked(ForkMem(t), space[t])
<1> DEFINE h == heap[t]
           tbl == space[t]
           F == ram.free
           c == create_task_pgtable(MemOf(NoTable))
           k == h.start \div 2
           n == HeapCopied(h)
           a == vm_pagetbl_copy_asign(c, tbl, 1, h.size - 1)
           b == vm_pagetbl_copy_asign(a, tbl, LowTop + 1, StackPages)
           d == vm_pagetbl_copy_asign(b, tbl, k, n)
<1>1. /\ h.size \in 2..MaxSeg + 1 /\ h.start = 2 * h.size /\ h.max \in Nat
      /\ h.start <= h.max
  BY AConstants DEF HeapFits, HeapRecs
<1>2. /\ h.size \in Nat /\ h.size - 1 \in Nat /\ k = h.size /\ n \in Nat
      /\ UpToStack(h.max) - h.start <= 2 * n /\ k + n <= LowTop + 1 /\ h.size - 1 <= MaxSeg /\ h.size >= 2
  BY <1>1, AConstants DEF HeapCopied, UpToStack
<1>3. Copying(c, F, tbl, {})
  <2>1. Fresh(c, F, ram.val)
    BY EmptyBuilt, CreateFresh
  <2> HIDE DEF c
  <2>2. NoNull(c)
    BY <2>1, AConstants DEF Fresh, NoNull
  <2> QED BY <2>1, <2>2 DEF Fresh, Copying
<1> DEFINE W1 == {} \cup 1..1 + (h.size - 1) - 1
           W2 == W1 \cup LowTop + 1..LowTop + 1 + StackPages - 1
           W3 == W2 \cup k..k + n - 1
<1> HIDE DEF c, h, tbl, k, n
<1>4. W1 = 1..h.size - 1 /\ W1 \subseteq VPages
  BY <1>2, AConstants DEF VPages, Low
<1>5. W2 = W1 \cup Stack /\ W2 \subseteq VPages
  BY <1>4, AConstants DEF VPages, Stack
<1>6. tbl \in Tables
  BY DEF tbl
<1>7. Copying(a, F, tbl, W1)
  <2>1. \A i \in 1..h.size - 1 : 1 + i - 1 \in VPages /\ 1 + i - 1 \notin {}
    BY <1>2, AConstants DEF VPages, Low
  <2> QED BY <1>2, <1>3, <1>6, <2>1, CopyCopies
<1> HIDE DEF a
<1>8. Copying(b, F, tbl, W2)
  <2>1. \A i \in 1..StackPages : LowTop + 1 + i - 1 \in VPages /\ LowTop + 1 + i - 1 \notin W1
    BY <1>2, <1>4, AConstants DEF VPages, Stack
  <2>2. LowTop + 1 \in Nat /\ StackPages \in Nat
    BY AConstants
  <2> HIDE DEF W1
  <2> QED BY <1>4, <1>6, <1>7, <2>1, <2>2, CopyCopies
<1> HIDE DEF b
<1>9. Copying(d, F, tbl, W3)
  <2>1. \A i \in 1..n : k + i - 1 \in VPages /\ k + i - 1 \notin W2
    <3>1. ASSUME NEW i \in 1..n PROVE k + i - 1 \in Low /\ k + i - 1 \notin Stack /\ k + i - 1 \notin 1..h.size - 1
      BY <1>2, AConstants DEF Low, Stack
    <3> HIDE DEF W1, W2
    <3> QED BY <1>4, <1>5, <3>1 DEF VPages
  <2>2. k \in Nat
    BY <1>2
  <2> HIDE DEF W2
  <2> QED BY <1>2, <1>5, <1>6, <1>8, <2>1, <2>2, CopyCopies
<1>10. ForkMem(t) = d
  BY DEF ForkMem, a, b, c, d, h, tbl, k, n
<1> HIDE DEF d
<1>11. ASSUME NEW v \in VPages, tbl.leaf[v] # 0 PROVE v \in W3
  <2>1. v \in Stack \/ v < h.size \/ (2 * v >= h.start /\ 2 * v < h.max)
    BY <1>11 DEF Covers, h, tbl
  <2>2. v \in Nat /\ v >= 1
    BY AConstants DEF VPages, Low, Stack
  <2>3. CASE v \in Stack
    BY <1>5, <2>3
  <2>4. CASE v < h.size
    BY <1>2, <1>4, <2>2, <2>4
  <2>5. CASE v \notin Stack /\ 2 * v >= h.start /\ 2 * v < h.max
    <3>0. v <= LowTop
      BY <2>5, AConstants DEF VPages, Low
    <3>1. v >= k /\ v <= k + n - 1
      BY <1>1, <1>2, <2>2, <2>5, <3>0, AConstants DEF UpToStack
    <3> QED BY <1>2, <2>2, <3>1
  <2> QED BY <2>1, <2>3, <2>4, <2>5
<1> HIDE DEF W3
<1>12. \A v \in VPages : tbl.leaf[v] \in PPages => v \in W3
  BY <1>11, AConstants
<1> QED BY <1>9, <1>10, <1>12 DEF Copying, Forked, tbl

-----------------------------------------------------------------------------
(* Address spaces: who has which page                                       *)

\* The pages a task may build a table from in place of its own: the free ones and its own.
Mine(fr, tbl) == {p \in PPages : p \in fr \/ Has(tbl, p)}

\* A table built from them keeps memory private, and complete unless a page leaked.
LEMMA Adopts ==
  ASSUME NEW fr, NEW sp \in [Procs -> Tables], Private(fr, sp), NEW t \in Procs,
         NEW m, Built(m, Mine(fr, sp[t]), {})
  PROVE  /\ Private(m.ram.free, [sp EXCEPT ![t] = m.pg])
         /\ Whole(fr, sp) /\ ~m.leak => Whole(m.ram.free, [sp EXCEPT ![t] = m.pg])
<1> DEFINE F == Mine(fr, sp[t])
           sp2 == [sp EXCEPT ![t] = m.pg]
<1>1. \A u \in Procs : sp2[u] = IF u = t THEN m.pg ELSE sp[u]
  OBVIOUS
<1>2. /\ Once(m.pg.root, m.pg.tab, m.pg.leaf) /\ m.ram.free \subseteq F
      /\ \A p \in PPages : Has(m.pg, p) => p \in F /\ p \notin m.ram.free
      /\ ~m.leak => \A p \in F : p \in m.ram.free \/ Has(m.pg, p)
  BY DEF Built, Builds, Has
<1>3. \A p \in PPages : p \in F <=> p \in fr \/ Has(sp[t], p)
  BY DEF Mine
<1>4. \A u \in Procs, p \in PPages : u # t /\ Has(sp[u], p) => p \notin F
  BY <1>3 DEF Private
<1> HIDE DEF F, sp2
<1>5. \A u \in Procs : Once(sp2[u].root, sp2[u].tab, sp2[u].leaf)
  BY <1>1, <1>2 DEF Private
<1>6. ASSUME NEW u \in Procs, NEW w \in Procs, NEW p \in PPages, Has(sp2[u], p), Has(sp2[w], p) PROVE u = w
  <2>1. (IF u = t THEN Has(m.pg, p) ELSE Has(sp[u], p)) /\ (IF w = t THEN Has(m.pg, p) ELSE Has(sp[w], p))
    BY <1>1, <1>6
  <2> QED BY <1>2, <1>4, <2>1 DEF Private
<1>7. ASSUME NEW u \in Procs, NEW p \in PPages, Has(sp2[u], p) PROVE p \notin m.ram.free
  <2>1. IF u = t THEN Has(m.pg, p) ELSE Has(sp[u], p)
    BY <1>1, <1>7
  <2> QED BY <1>2, <1>4, <2>1
<1>8. ASSUME Whole(fr, sp), ~m.leak, NEW p \in PPages PROVE p \in m.ram.free \/ \E u \in Procs : Has(sp2[u], p)
  <2>1. CASE p \in F
    BY <1>1, <1>2, <1>8, <2>1
  <2>2. CASE p \notin F
    <3>1. PICK u \in Procs : Has(sp[u], p)
      BY <1>3, <1>8, <2>2 DEF Whole
    <3>2. u # t
      BY <1>3, <2>2, <3>1
    <3> QED BY <1>1, <3>1, <3>2
  <2> QED BY <2>1, <2>2
<1>9. Private(m.ram.free, sp2) /\ (Whole(fr, sp) /\ ~m.leak => Whole(m.ram.free, sp2))
  BY <1>5, <1>6, <1>7, <1>8 DEF Private, Whole
<1> QED BY <1>9 DEF sp2

\* A table takes the place of a task's old one, which is freed.
Retires(m, tbl, size) == pg_user_vmfree([m EXCEPT !.pg = tbl], size)

\* exec() keeps memory private when it puts a new table in the place of the old one.
LEMMA Replaces ==
  ASSUME ram \in Rams, space \in [Procs -> Tables], Private(ram.free, space), NEW t \in Procs,
         NEW m, Built(m, ram.free, {}), NEW size
  PROVE  /\ Retires(m, space[t], size) \in Mems /\ Retires(m, space[t], size).leak = m.leak
         /\ Retires(m, space[t], size).ram.val = m.ram.val
         /\ Private(Retires(m, space[t], size).ram.free, [space EXCEPT ![t] = m.pg])
         /\ Whole(ram.free, space) /\ ~m.leak /\ Retires(m, space[t], size).ok =>
              Whole(Retires(m, space[t], size).ram.free, [space EXCEPT ![t] = m.pg])
         /\ m.ok /\ Found(space[t], size) => Retires(m, space[t], size).ok
<1> DEFINE x == [m EXCEPT !.pg = space[t]]
           old == Retires(m, space[t], size)
           F == Mine(ram.free, space[t])
           leak2 == m.leak \/ ~old.ok
           y == [ram |-> old.ram, pg |-> m.pg, ok |-> TRUE, leak |-> leak2]
<1>1. /\ m \in Mems /\ Once(m.pg.root, m.pg.tab, m.pg.leaf) /\ m.ram.free \subseteq ram.free
      /\ \A p \in PPages : Has(m.pg, p) => p \in ram.free /\ p \notin m.ram.free
      /\ ~m.leak => \A p \in ram.free : p \in m.ram.free \/ Has(m.pg, p)
  BY DEF Built, Builds, Has
<1>2. x \in Mems /\ x.pg = space[t] /\ x.ram = m.ram /\ x.leak = m.leak /\ x.ok = m.ok
  <2>1. space[t] \in Tables
    OBVIOUS
  <2> QED BY <1>1, <2>1 DEF Mems
<1>3. old = pg_user_vmfree(x, size)
  BY DEF Retires
<1> HIDE DEF x, old
<1>4. /\ old \in Mems /\ old.leak = x.leak /\ old.ram.val = x.ram.val
      /\ \A p \in PPages : p \in old.ram.free => p \in x.ram.free \/ Has(x.pg, p)
      /\ old.ok => \A p \in PPages : p \in x.ram.free \/ Has(x.pg, p) => p \in old.ram.free
  BY <1>2, <1>3, VmfreeIs
<1>5. \A p \in PPages : Has(space[t], p) => p \notin ram.free
  BY DEF Private
<1>6. old.ram \in Rams /\ old.ram.free \subseteq PPages /\ old.ok \in BOOLEAN /\ m.pg \in Tables
  BY <1>1, <1>4 DEF Mems, Rams
<1> HIDE DEF leak2
<1>7. y \in Mems /\ y.ram = old.ram /\ y.pg = m.pg /\ y.leak = leak2
  BY <1>6 DEF Mems, leak2
<1> HIDE DEF y
<1>8. \A p \in PPages : p \in F <=> p \in ram.free \/ Has(space[t], p)
  BY DEF Mine
<1>9. F \subseteq PPages
  BY DEF Mine
<1> HIDE DEF F
<1>10. y.ram.free \subseteq F
  BY <1>1, <1>2, <1>4, <1>6, <1>7, <1>8
<1>11. \A p \in PPages : Has(y.pg, p) => p \in F /\ p \notin y.ram.free
  BY <1>1, <1>2, <1>4, <1>5, <1>7, <1>8
<1>12. ~y.leak => \A p \in F : p \in y.ram.free \/ Has(y.pg, p)
  <2>1. ASSUME ~y.leak, NEW p \in F PROVE p \in y.ram.free \/ Has(y.pg, p)
    <3>1. ~m.leak /\ old.ok /\ p \in PPages
      BY <1>7, <1>9, <2>1 DEF leak2
    <3> QED BY <1>1, <1>2, <1>4, <1>7, <1>8, <3>1
  <2> QED BY <2>1
<1>13. Built(y, F, {})
  BY <1>1, <1>7, <1>9, <1>10, <1>11, <1>12 DEF Built, Builds, Has
<1>14. /\ Private(y.ram.free, [space EXCEPT ![t] = y.pg])
       /\ Whole(ram.free, space) /\ ~y.leak => Whole(y.ram.free, [space EXCEPT ![t] = y.pg])
  BY <1>13, Adopts DEF F
<1>15. m.ok /\ Found(space[t], size) => old.ok
  BY <1>2, <1>3, VmfreeOk
<1> QED BY <1>2, <1>4, <1>7, <1>14, <1>15 DEF old, leak2

-----------------------------------------------------------------------------
(* Address spaces: every step keeps the invariant                           *)

\* What failed has been given back.
LEMMA UndoneSafe ==
  ASSUME AInv, NEW t \in Procs, Runs(t), NEW m \in Mems, NEW bad, m.ram.free \subseteq ram.free,
         ~bad /\ ~m.leak => m.ok /\ m.ram.free = ram.free, Leaves(m, bad), Counted, UNCHANGED <<space, heap, walk>>
  PROVE  AInv'
<1>1. m.ram \in Rams /\ m.ok \in BOOLEAN /\ m.leak \in BOOLEAN
  BY DEF Mems
<1>2. AType'
  BY <1>1 DEF AInv, AType, Leaves, Counted
<1>3. Private(ram.free, space)' /\ (~spoilt => ~kpanic /\ Whole(ram.free, space))'
  BY DEF AInv, Runs, Leaves, Private, Whole
<1>4. (\A s \in Procs : Proper(space[s], heap[s]))'
  BY DEF AInv
<1> QED BY <1>2, <1>3, <1>4 DEF AInv

\* A task has got a table and a heap.
LEMMA DoneSafe ==
  ASSUME AInv, NEW t \in Procs, Runs(t), NEW u \in Procs, NEW m \in Mems, NEW bad, NEW tbl \in Tables, NEW h \in HeapRecs,
         Leaves(m, bad), Counted, space' = [space EXCEPT ![u] = tbl], heap' = [heap EXCEPT ![u] = h],
         Proper(tbl, h), Private(m.ram.free, [space EXCEPT ![u] = tbl]), ~bad /\ ~m.leak => m.ok,
         Whole(ram.free, space) /\ m.ok /\ ~m.leak => Whole(m.ram.free, [space EXCEPT ![u] = tbl]),
         walk' \in [Procs -> Walks]
  PROVE  AInv'
<1>1. m.ram \in Rams /\ m.ok \in BOOLEAN /\ m.leak \in BOOLEAN
  BY DEF Mems
<1>2. AType'
  <2>1. ram' \in Rams /\ kpanic' \in BOOLEAN /\ spoilt' \in BOOLEAN /\ asteps' \in Nat
    BY <1>1 DEF AInv, AType, Leaves, Counted
  <2>2. space' \in [Procs -> Tables] /\ heap' \in [Procs -> HeapRecs]
    BY DEF AInv, AType
  <2> QED BY <2>1, <2>2 DEF AType
<1>3. Private(ram.free, space)' /\ (~spoilt => ~kpanic /\ Whole(ram.free, space))'
  BY DEF AInv, Runs, Leaves
<1>4. ASSUME NEW s \in Procs PROVE Proper(space'[s], heap'[s])
  <2>1. space'[s] = (IF s = u THEN tbl ELSE space[s]) /\ heap'[s] = (IF s = u THEN h ELSE heap[s])
    BY DEF AInv, AType
  <2> QED BY <2>1 DEF AInv
<1> QED BY <1>2, <1>3, <1>4 DEF AInv

\* A panic stops everything.
LEMMA PanicSafe ==
  ASSUME AInv, Counted, kpanic' = TRUE, spoilt' = TRUE, UNCHANGED <<ram, space, heap, walk>> PROVE AInv'
BY DEF AInv, AType, Counted

\* The page that exec reads through.
LEMMA BufferIs ==
  ASSUME ram \in Rams, CanExec
  PROVE  /\ WithBuffer \in Mems /\ WithBuffer.pg = NoTable /\ WithBuffer.ok /\ ~WithBuffer.leak
         /\ Built(WithBuffer, WithBuffer.ram.free, {}) /\ Buffer \in ram.free /\ Buffer \in PPages
         /\ WithBuffer.ram.free = ram.free \ {Buffer}
         /\ WithBuffer.ram.val = [ram.val EXCEPT ![Buffer] = 0]
<1> DEFINE e == MemOf(NoTable)
<1>1. e \in Mems /\ e.pg = NoTable /\ e.ok /\ ~e.leak /\ e.ram = ram /\ CanAlloc(e)
  BY EmptyBuilt DEF CanExec
<1> HIDE DEF e
<1>2. Buffer \in ram.free /\ Buffer \in PPages
  BY <1>1, NextFree DEF Buffer, e
<1>3. /\ WithBuffer \in Mems /\ WithBuffer.pg = NoTable /\ WithBuffer.ok = e.ok /\ WithBuffer.leak = e.leak
      /\ WithBuffer.ram.free = ram.free \ {Buffer} /\ WithBuffer.ram.val = [ram.val EXCEPT ![Buffer] = 0]
  BY <1>1, TakeIs DEF WithBuffer, Buffer, e
<1> QED BY <1>1, <1>2, <1>3, EmptyTable

\* It is given back: all was built from the free pages.
LEMMA BufferBack ==
  ASSUME ram \in Rams, CanExec, NEW m, Built(m, WithBuffer.ram.free, {}),
         Untouched(m, WithBuffer.ram.free, WithBuffer.ram.val)
  PROVE  /\ GivesBuffer(m) \in Mems /\ GivesBuffer(m).pg = m.pg /\ GivesBuffer(m).ok = m.ok
         /\ GivesBuffer(m).leak = m.leak /\ GivesBuffer(m).ram.free = m.ram.free \cup {Buffer}
         /\ Built(GivesBuffer(m), ram.free, {}) /\ Untouched(GivesBuffer(m), ram.free, ram.val)
<1> DEFINE g == GivesBuffer(m)
           F == WithBuffer.ram.free
<1>1. /\ Buffer \in ram.free /\ Buffer \in PPages /\ F = ram.free \ {Buffer}
      /\ WithBuffer.ram.val = [ram.val EXCEPT ![Buffer] = 0]
  BY BufferIs
<1>2. m \in Mems /\ Builds(m.ram.free, m.pg.root, m.pg.tab, m.pg.leaf, m.leak, F, {})
  BY DEF Built
<1> HIDE DEF F
<1>3. m.ram \in Rams
  BY <1>2 DEF Mems
<1>4. g = [m EXCEPT !.ram = [m.ram EXCEPT !.free = m.ram.free \cup {Buffer}]]
  BY <1>2, <1>3 DEF GivesBuffer, Mems, Rams
<1>5. [m.ram EXCEPT !.free = m.ram.free \cup {Buffer}] \in Rams
  BY <1>1, <1>3 DEF Rams
<1> HIDE DEF g
<1>6. /\ g \in Mems /\ g.pg = m.pg /\ g.ok = m.ok /\ g.leak = m.leak
      /\ g.ram.free = m.ram.free \cup {Buffer} /\ g.ram.val = m.ram.val
  BY <1>2, <1>3, <1>4, <1>5 DEF Mems, Rams
<1>7. Builds(m.ram.free \cup {Buffer}, m.pg.root, m.pg.tab, m.pg.leaf, m.leak, ram.free, {})
  BY <1>1, <1>2 DEF Builds
<1>8. ram.free \subseteq PPages
  BY DEF Rams
<1>9. Built(g, ram.free, {})
  BY <1>6, <1>7, <1>8 DEF Built
<1>10. ASSUME NEW p \in PPages, p \notin ram.free PROVE g.ram.val[p] = ram.val[p]
  <2>1. p # Buffer /\ p \notin F
    BY <1>1, <1>10
  <2>2. m.ram.val[p] = WithBuffer.ram.val[p]
    BY <2>1 DEF Untouched, F
  <2> QED BY <1>1, <1>6, <2>1, <2>2 DEF Rams
<1> QED BY <1>6, <1>9, <1>10 DEF Untouched, g

\* Program and stack are mapped at most.
Stacked(m, F, V, n) ==
  /\ Built(m, F, {}) /\ Untouched(m, F, V) /\ m.pg.root # 0
  /\ \A w \in VPages : m.pg.leaf[w] # 0 => w <= n \/ w \in Stack

\* The memory that exec builds, step by step.
LEMMA ExecBuilds ==
  ASSUME ram \in Rams, CanExec, NEW n \in 0..MaxSeg, ExecTable.ok
  PROVE  /\ Loading(GivesBuffer(Load(ExecTable, n)), ram.free, ram.val, n)
         /\ Stacked(GivesBuffer(map_user_stack(Load(ExecTable, n))), ram.free, ram.val, n)
         /\ GivesBuffer(map_user_stack(Load(ExecTable, n))).ok
         /\ ArgsFit(GivesBuffer(map_user_stack(Load(ExecTable, n)))) =>
              NoNull(GivesBuffer(map_user_stack(Load(ExecTable, n))))
<1> DEFINE c == ExecTable
           l == Load(c, n)
           k == map_user_stack(l)
           F == WithBuffer.ram.free
           V == WithBuffer.ram.val
<1>1. Fresh(c, F, V)
  BY BufferIs, CreateFresh DEF ExecTable
<1> HIDE DEF c
<1>2. Loading(c, F, V, 0)
  BY <1>1, AConstants DEF Fresh, Loading, c
<1>3. Loading(l, F, V, n)
  BY <1>2, LoadLoads
<1> HIDE DEF l
<1>4. Stacking(l, F, V, n, 0)
  <2>1. NoNull(l)
    BY <1>3, AConstants DEF Loading, NoNull
  <2> QED BY <1>3, <2>1 DEF Loading, Stacking
<1>5. Stacking(k, F, V, n, StackPages) /\ (ArgsFit(k) => NoNull(k)) /\ k.ok
  BY <1>4, StackStacks
<1> HIDE DEF k
<1>6. GivesBuffer(l).pg = l.pg /\ Built(GivesBuffer(l), ram.free, {}) /\ Untouched(GivesBuffer(l), ram.free, ram.val)
  BY <1>3, BufferBack DEF Loading
<1>7. /\ GivesBuffer(k).pg = k.pg /\ Built(GivesBuffer(k), ram.free, {}) /\ Untouched(GivesBuffer(k), ram.free, ram.val)
      /\ GivesBuffer(k).ok = k.ok
  BY <1>5, BufferBack DEF Stacking
<1>8. Loading(GivesBuffer(l), ram.free, ram.val, n)
  BY <1>3, <1>6 DEF Loading
<1>9. Stacked(GivesBuffer(k), ram.free, ram.val, n)
  BY <1>5, <1>7 DEF Stacking, Stacked
<1>10. ArgsFit(GivesBuffer(k)) => NoNull(GivesBuffer(k))
  BY <1>5, <1>7 DEF ArgsFit, NoNull
<1> QED BY <1>5, <1>7, <1>8, <1>9, <1>10 DEF l, k, c

\* What was built is freed, with all set right.
LEMMA FreesBuilt ==
  ASSUME NEW m, Built(m, ram.free, {}), NEW size
  PROVE  /\ pg_user_vmfree(m, size) \in Mems /\ pg_user_vmfree(m, size).ram.free \subseteq ram.free
         /\ pg_user_vmfree(m, size).ok /\ ~pg_user_vmfree(m, size).leak => pg_user_vmfree(m, size).ram.free = ram.free
BY FreeBuilt

\* A memory with its outcome set right.
LEMMA OkIs ==
  ASSUME NEW m, NEW F, Built(m, F, {})
  PROVE  /\ [m EXCEPT !.ok = TRUE] \in Mems /\ [m EXCEPT !.ok = TRUE].ram = m.ram /\ [m EXCEPT !.ok = TRUE].pg = m.pg
         /\ [m EXCEPT !.ok = TRUE].leak = m.leak /\ [m EXCEPT !.ok = TRUE].ok /\ Built([m EXCEPT !.ok = TRUE], F, {})
<1> DEFINE y == [m EXCEPT !.ok = TRUE]
<1>1. m \in Mems
  BY DEF Built
<1>2. y \in Mems /\ y.ram = m.ram /\ y.pg = m.pg /\ y.leak = m.leak /\ y.ok
  BY <1>1 DEF Mems
<1> HIDE DEF y
<1>3. Built(y, F, {})
  BY <1>2 DEF Built
<1> QED BY <1>2, <1>3 DEF y

\* Nothing was mapped below the stack: the clean-up finds everything.
LEMMA CountedFound ==
  ASSUME NEW tbl, ~Uncounted(tbl), \A v \in VPages : tbl.leaf[v] # NullPage, NEW size PROVE Found(tbl, size)
BY DEF Uncounted, Found, VPages

\* A failed exec gives everything back, unless pages of the program were mapped.
LEMMA ExecFailsSafe ==
  ASSUME AInv, NEW t \in Procs, NEW n \in 1..MaxSeg, ExecFails(t, n) PROVE AInv'
<1> DEFINE c == ExecTable
           l == GivesBuffer(Load(c, n))
           m == GivesBuffer(map_user_stack(Load(c, n)))
           Undone(x, bad) == /\ Leaves(x, bad) /\ x \in Mems /\ x.ram.free \subseteq ram.free
                             /\ ~bad /\ ~x.leak => x.ok /\ x.ram.free = ram.free
<1>1. ram \in Rams /\ n \in 0..MaxSeg /\ CanExec /\ Runs(t) /\ Counted /\ UNCHANGED <<space, heap, walk>>
  BY AConstants DEF AInv, AType, ExecFails
<1>2. CASE ~c.ok /\ Leaves([GivesBuffer(c) EXCEPT !.ok = TRUE], FALSE)
  <2> DEFINE g == GivesBuffer(c)
             y == [g EXCEPT !.ok = TRUE]
  <2>1. Fresh(c, WithBuffer.ram.free, WithBuffer.ram.val)
    BY <1>1, BufferIs, CreateFresh DEF ExecTable
  <2>2. Built(g, ram.free, {}) /\ g.ram.free = c.ram.free \cup {Buffer}
    BY <1>1, <2>1, BufferBack DEF Fresh
  <2>3. c.ram.free = ram.free \ {Buffer} /\ Buffer \in ram.free
    BY <1>1, <1>2, <2>1, BufferIs DEF Fresh
  <2>4. Leaves(y, FALSE)
    BY <1>2
  <2> HIDE DEF g
  <2>5. y \in Mems /\ y.ram = g.ram /\ y.ok
    BY <2>2, OkIs
  <2>6. y.ram.free = ram.free
    BY <2>2, <2>3, <2>5
  <2> HIDE DEF y
  <2> QED BY <1>1, <2>4, <2>5, <2>6, UndoneSafe
<1>3. CASE c.ok /\ ~l.ok /\ Leaves(free_task_pgtable([l EXCEPT !.ok = TRUE], 0), Uncounted(l.pg))
  <2> DEFINE k == [l EXCEPT !.ok = TRUE]
             y == pg_user_vmfree(k, 0)
  <2>1. Loading(l, ram.free, ram.val, n)
    BY <1>1, <1>3, ExecBuilds
  <2>0. Leaves(y, Uncounted(l.pg))
    BY <1>3 DEF free_task_pgtable
  <2> HIDE DEF l
  <2>2. Built(k, ram.free, {}) /\ k.pg = l.pg /\ k.ok /\ k \in Mems
    BY <2>1, OkIs DEF Loading
  <2> HIDE DEF k
  <2>3. y \in Mems /\ y.ram.free \subseteq ram.free /\ (y.ok /\ ~y.leak => y.ram.free = ram.free)
    BY <2>2, FreesBuilt
  <2>4. ~Uncounted(l.pg) => y.ok
    <3>1. \A v \in VPages : l.pg.leaf[v] # NullPage
      BY <2>1, AConstants DEF Loading
    <3>2. ~Uncounted(l.pg) => Found(k.pg, 0)
      BY <2>2, <3>1, CountedFound
    <3> QED BY <2>2, <3>2, VmfreeOk
  <2> HIDE DEF y
  <2> QED BY <1>1, <2>0, <2>3, <2>4, UndoneSafe
<1>4. CASE c.ok /\ Leaves(free_task_pgtable(m, n + 1), TRUE)
  <2> DEFINE y == pg_user_vmfree(m, n + 1)
  <2>1. Stacked(m, ram.free, ram.val, n)
    BY <1>1, <1>4, ExecBuilds
  <2>0. Leaves(y, TRUE)
    BY <1>4 DEF free_task_pgtable
  <2> HIDE DEF m
  <2>2. Built(m, ram.free, {})
    BY <2>1 DEF Stacked
  <2>3. y \in Mems /\ y.ram.free \subseteq ram.free
    BY <2>2, FreesBuilt
  <2> HIDE DEF y
  <2> QED BY <1>1, <2>0, <2>3, UndoneSafe
<1> QED BY <1>2, <1>3, <1>4 DEF ExecFails

\* So does an exec that cannot read its file.
LEMMA ReadFailsSafe ==
  ASSUME AInv, NEW t \in Procs, NEW n \in 1..MaxSeg, NEW k \in 0..n - 1, ReadFails(t, n, k) PROVE AInv'
<1> DEFINE l == GivesBuffer(Load(ExecTable, k))
           y == pg_user_vmfree(l, 0)
<1>1. ram \in Rams /\ k \in 0..MaxSeg /\ ExecTable.ok /\ CanExec /\ l.ok
  BY AConstants DEF AInv, AType, ReadFails
<1>2. Loading(l, ram.free, ram.val, k)
  BY <1>1, ExecBuilds
<1>3. Leaves(y, Uncounted(l.pg)) /\ Counted /\ Runs(t) /\ UNCHANGED <<space, heap, walk>>
  BY DEF ReadFails, free_task_pgtable
<1> HIDE DEF l
<1>4. y \in Mems /\ y.ram.free \subseteq ram.free /\ (y.ok /\ ~y.leak => y.ram.free = ram.free)
  BY <1>2, FreesBuilt DEF Loading
<1>5. ~Uncounted(l.pg) => y.ok
  <2>1. l \in Mems /\ \A v \in VPages : l.pg.leaf[v] # NullPage
    BY <1>2, AConstants DEF Loading, Built
  <2>2. ~Uncounted(l.pg) => Found(l.pg, 0)
    BY <2>1, CountedFound
  <2> QED BY <1>1, <2>1, <2>2, VmfreeOk
<1> HIDE DEF y
<1> QED BY <1>3, <1>4, <1>5, UndoneSafe

\* And a failed fork.
LEMMA ForkFailsSafe ==
  ASSUME AInv, NEW t \in Procs, NEW u \in Procs, ForkFails(t, u) PROVE AInv'
<1> DEFINE m == ForkMem(t)
           k == [m EXCEPT !.ok = TRUE]
           y == IF m.pg.root = 0 THEN k ELSE pg_user_vmfree(k, 0)
<1>1. Forked(m, space[t])
  <2>1. ram \in Rams /\ space[t] \in Tables /\ heap[t] \in HeapRecs
    BY DEF AInv, AType
  <2>2. HeapFits(heap[t]) /\ Covers(space[t], heap[t])
    BY DEF AInv, Proper, ForkFails, Forks
  <2> QED BY <2>1, <2>2, ForkForks
<1>2. Leaves(y, Uncounted(m.pg)) /\ Counted /\ Runs(t) /\ UNCHANGED <<space, heap, walk>>
  BY DEF ForkFails, Forks, free_task_pgtable
<1> HIDE DEF m
<1>3. k \in Mems /\ k.ram = m.ram /\ k.pg = m.pg /\ k.leak = m.leak /\ k.ok /\ Built(k, ram.free, {})
  BY <1>1, OkIs DEF Forked
<1> HIDE DEF k
<1>4. CASE m.pg.root = 0
  <2>1. y = k
    BY <1>4
  <2>2. \A p \in PPages : ~Holds(NoTable.root, NoTable.tab, NoTable.leaf, p)
    BY AConstants DEF NoTable, Holds
  <2>3. m.pg = NoTable /\ ~m.leak
    BY <1>1, <1>4 DEF Forked
  <2>4. k.ram.free = ram.free
    BY <1>3, <2>2, <2>3 DEF Built, Builds
  <2> HIDE DEF y
  <2> QED BY <1>2, <1>3, <2>1, <2>4, UndoneSafe
<1>5. CASE m.pg.root # 0
  <2>1. y = pg_user_vmfree(k, 0)
    BY <1>5
  <2>2. y \in Mems /\ y.ram.free \subseteq ram.free /\ (y.ok /\ ~y.leak => y.ram.free = ram.free)
    BY <1>3, <2>1, FreesBuilt
  <2>3. ~Uncounted(m.pg) => y.ok
    <3>1. \A v \in VPages : m.pg.leaf[v] # NullPage
      BY <1>1 DEF Forked, NoNull
    <3>2. ~Uncounted(m.pg) => Found(k.pg, 0)
      BY <1>3, <3>1, CountedFound
    <3> QED BY <1>3, <2>1, <3>2, VmfreeOk
  <2> HIDE DEF y
  <2> QED BY <1>2, <2>2, <2>3, UndoneSafe
<1> QED BY <1>4, <1>5

\* fork gives the child a table of its own.
LEMMA ForkSafe ==
  ASSUME AInv, NEW t \in Procs, NEW u \in Procs, kfork(t, u) PROVE AInv'
<1> DEFINE m == ForkMem(t)
<1>1. ram \in Rams /\ space \in [Procs -> Tables] /\ heap \in [Procs -> HeapRecs] /\ walk \in [Procs -> Walks]
  BY DEF AInv, AType
<1>2. HeapFits(heap[t]) /\ Covers(space[t], heap[t]) /\ heap[t] \in HeapRecs /\ space[t] \in Tables
  BY <1>1 DEF AInv, Proper, kfork, Forks
<1>3. Forked(m, space[t])
  BY <1>1, <1>2, ForkForks
<1>4. /\ Leaves(m, FALSE) /\ Counted /\ Runs(t) /\ UNCHANGED walk /\ m.ok /\ space[u].root = 0
      /\ space' = [space EXCEPT ![u] = m.pg] /\ heap' = [heap EXCEPT ![u] = heap[t]]
  BY DEF kfork, Forks, Idle
<1> HIDE DEF m
<1>5. m \in Mems /\ m.pg \in Tables /\ m.pg.root # 0 /\ NoNull(m)
  BY <1>3, <1>4 DEF Forked, Built, Mems
<1>6. Proper(m.pg, heap[t])
  BY <1>2, <1>3, <1>5 DEF Proper, Filled, Covers, Forked, NoNull
<1>7. Mine(ram.free, space[u]) = ram.free
  <2>1. \A p \in PPages : ~Has(space[u], p)
    <3>1. space[u] = NoTable
      BY <1>4 DEF AInv, Proper, Filled
    <3> QED BY <3>1, AConstants DEF NoTable, Has, Holds
  <2>2. ram.free \subseteq PPages
    BY <1>1 DEF Rams
  <2> QED BY <2>1, <2>2 DEF Mine
<1>8. Built(m, Mine(ram.free, space[u]), {})
  BY <1>3, <1>7 DEF Forked
<1>9. /\ Private(m.ram.free, [space EXCEPT ![u] = m.pg])
      /\ Whole(ram.free, space) /\ ~m.leak => Whole(m.ram.free, [space EXCEPT ![u] = m.pg])
  <2>1. Private(ram.free, space)
    BY DEF AInv
  <2> QED BY <1>1, <1>8, <2>1, Adopts
<1>11. walk' \in [Procs -> Walks]
  BY <1>1, <1>4
<1> QED BY <1>2, <1>4, <1>5, <1>6, <1>9, <1>11, DoneSafe

\* exit frees the table, and leaves the walk for the heap.
LEMMA ExitSafe ==
  ASSUME AInv, NEW t \in Procs, kexit(t) PROVE AInv'
<1> DEFINE e == MemOf(NoTable)
           m == free_task_pgtable(MemOf(space[t]), heap[t].size)
<1>1. ram \in Rams /\ space \in [Procs -> Tables] /\ heap \in [Procs -> HeapRecs] /\ walk \in [Procs -> Walks]
  BY DEF AInv, AType
<1>2. /\ Leaves(m, Far(heap[t])) /\ Counted /\ Runs(t) /\ space[t].root # 0
      /\ space' = [space EXCEPT ![t] = NoTable] /\ heap' = [heap EXCEPT ![t] = NoHeap]
      /\ walk' = [walk EXCEPT ![t] = [root |-> space[t].root, from |-> heap[t].start \div 2]]
  BY DEF kexit
<1>3. Built(e, ram.free, {}) /\ e.pg = NoTable /\ ~e.leak /\ e.ok
  BY <1>1, EmptyBuilt
<1>4. m = Retires(e, space[t], heap[t].size)
  <2> DEFINE a == MemOf(space[t])
             x == [e EXCEPT !.pg = space[t]]
  <2>1. a = x
    <3>1. e \in Mems /\ e.ram = ram /\ e.ok /\ ~e.leak
      BY <1>1, <1>3, EmptyBuilt DEF Built
    <3>2. space[t] \in Tables
      BY <1>1
    <3>3. a \in Mems /\ a.pg = space[t] /\ a.ram = ram /\ a.ok /\ ~a.leak
      BY <1>1, <3>2 DEF MemOf, Mems
    <3> HIDE DEF e, a
    <3>4. x \in Mems /\ x.pg = space[t] /\ x.ram = ram /\ x.ok = e.ok /\ x.leak = e.leak
      BY <3>1, <3>2 DEF Mems
    <3> HIDE DEF x
    <3>5. a.ok = x.ok /\ a.leak = x.leak
      <4>1. a.ok \in BOOLEAN /\ a.leak \in BOOLEAN /\ e.ok \in BOOLEAN /\ e.leak \in BOOLEAN
        BY <3>1, <3>3 DEF Mems
      <4> QED BY <3>1, <3>3, <3>4, <4>1
    <3> QED BY <3>3, <3>4, <3>5 DEF Mems
  <2> HIDE DEF e
  <2> QED BY <2>1 DEF free_task_pgtable, Retires
<1> HIDE DEF e, m
<1>5. /\ m \in Mems /\ m.leak = e.leak /\ Private(m.ram.free, [space EXCEPT ![t] = e.pg])
      /\ Whole(ram.free, space) /\ ~e.leak /\ m.ok => Whole(m.ram.free, [space EXCEPT ![t] = e.pg])
      /\ Found(space[t], heap[t].size) => m.ok
  <2>1. Private(ram.free, space)
    BY DEF AInv
  <2> QED BY <1>1, <1>3, <1>4, <2>1, Replaces
<1>6. NoTable \in Tables /\ NoHeap \in HeapRecs /\ NoTable.root = 0 /\ \A v \in VPages : NoTable.leaf[v] = 0
  BY AConstants DEF NoTable, Tables, Tabs, LeafMaps, NoHeap, HeapRecs
<1>7. Proper(NoTable, NoHeap)
  BY <1>6, AConstants DEF Proper, Filled, Covers
<1>8. ~Far(heap[t]) => m.ok
  <2>1. HeapFits(heap[t]) /\ Filled(space[t]) /\ Covers(space[t], heap[t]) /\ heap[t] \in HeapRecs
    BY <1>1, <1>2 DEF AInv, Proper
  <2> QED BY <1>5, <2>1, NearFound
<1>9. walk' \in [Procs -> Walks]
  <2>1. space[t].root \in 0..NPages /\ heap[t].start \div 2 \in Nat
    BY <1>1 DEF Tables, HeapRecs
  <2> QED BY <1>1, <1>2, <2>1 DEF Walks
<1> QED BY <1>2, <1>3, <1>5, <1>6, <1>7, <1>8, <1>9, DoneSafe

\* exec: the new table takes the place of the old one.
LEMMA ExecSafe ==
  ASSUME AInv, NEW t \in Procs, NEW n \in 1..MaxSeg, kexec(t, n) PROVE AInv'
<1> DEFINE c == ExecTable
           m == GivesBuffer(map_user_stack(Load(c, n)))
           old == free_task_pgtable([m EXCEPT !.pg = space[t]], heap[t].size)
           h == [size |-> n + 1, start |-> 2 * (n + 1), brk |-> 2 * (n + 1), max |-> 2 * (n + 1)]
<1>1. ram \in Rams /\ space \in [Procs -> Tables] /\ heap \in [Procs -> HeapRecs] /\ walk \in [Procs -> Walks]
  BY DEF AInv, AType
<1>2. /\ Counted /\ Runs(t) /\ CanExec /\ c.ok /\ ArgsFit(m)
      /\ space' = [space EXCEPT ![t] = m.pg] /\ heap' = [heap EXCEPT ![t] = h]
      /\ IF space[t].root = 0
         THEN Leaves(m, FALSE) /\ UNCHANGED walk
         ELSE /\ Leaves(old, Far(heap[t]))
              /\ walk' = [walk EXCEPT ![t] = [root |-> space[t].root, from |-> heap[t].start \div 2]]
  BY DEF kexec
<1>3. Stacked(m, ram.free, ram.val, n) /\ NoNull(m) /\ m.ok
  <2>1. n \in 0..MaxSeg
    BY AConstants
  <2> QED BY <1>1, <1>2, <2>1, ExecBuilds
<1>4. old = Retires(m, space[t], heap[t].size)
  BY DEF Retires, free_task_pgtable
<1> HIDE DEF c, m, old
<1>5. Built(m, ram.free, {}) /\ m \in Mems /\ m.pg \in Tables /\ m.pg.root # 0
  BY <1>3 DEF Stacked, Built, Mems
<1>6. h \in HeapRecs /\ HeapFits(h) /\ h.size = n + 1
  BY AConstants DEF HeapRecs, HeapFits, MaxBrk
<1> HIDE DEF h
<1>7. Proper(m.pg, h)
  <2>1. ASSUME NEW v \in VPages, m.pg.leaf[v] # 0 PROVE v \in Stack \/ v < h.size
    BY <1>3, <1>6, <2>1, AConstants DEF Stacked
  <2> QED BY <1>3, <1>5, <1>6, <2>1 DEF Proper, Filled, Covers, NoNull
<1>8. Private(ram.free, space)
  BY DEF AInv
<1>9. CASE space[t].root = 0
  <2>1. Mine(ram.free, space[t]) = ram.free
    <3>1. \A p \in PPages : ~Has(space[t], p)
      <4>1. space[t] = NoTable
        BY <1>9 DEF AInv, Proper, Filled
      <4> QED BY <4>1, AConstants DEF NoTable, Has, Holds
    <3>2. ram.free \subseteq PPages
      BY <1>1 DEF Rams
    <3> QED BY <3>1, <3>2 DEF Mine
  <2>2. Built(m, Mine(ram.free, space[t]), {})
    BY <1>5, <2>1
  <2>3. /\ Private(m.ram.free, [space EXCEPT ![t] = m.pg])
        /\ Whole(ram.free, space) /\ ~m.leak => Whole(m.ram.free, [space EXCEPT ![t] = m.pg])
    BY <1>1, <1>8, <2>2, Adopts
  <2>4. Leaves(m, FALSE) /\ walk' \in [Procs -> Walks]
    BY <1>1, <1>2, <1>9
  <2> QED BY <1>2, <1>3, <1>5, <1>6, <1>7, <2>3, <2>4, DoneSafe
<1>10. CASE space[t].root # 0
  <2>1. /\ old \in Mems /\ old.leak = m.leak /\ Private(old.ram.free, [space EXCEPT ![t] = m.pg])
        /\ Whole(ram.free, space) /\ ~m.leak /\ old.ok => Whole(old.ram.free, [space EXCEPT ![t] = m.pg])
        /\ m.ok /\ Found(space[t], heap[t].size) => old.ok
    BY <1>1, <1>4, <1>5, <1>8, Replaces
  <2>2. ~Far(heap[t]) => old.ok
    <3>1. HeapFits(heap[t]) /\ Filled(space[t]) /\ Covers(space[t], heap[t]) /\ heap[t] \in HeapRecs
      BY <1>1, <1>10 DEF AInv, Proper
    <3> QED BY <1>3, <2>1, <3>1, NearFound
  <2>3. Leaves(old, Far(heap[t])) /\ walk' = [walk EXCEPT ![t] = [root |-> space[t].root, from |-> heap[t].start \div 2]]
    BY <1>2, <1>10
  <2>5. walk' \in [Procs -> Walks]
    <3>1. space[t].root \in 0..NPages /\ heap[t].start \div 2 \in Nat
      BY <1>1 DEF Tables, HeapRecs
    <3> QED BY <1>1, <2>3, <3>1 DEF Walks
  <2> QED BY <1>2, <1>5, <1>6, <1>7, <2>1, <2>2, <2>3, <2>5, DoneSafe
<1> QED BY <1>9, <1>10

\* A page fault in the heap adds one page.
LEMMA FaultSafe ==
  ASSUME AInv, NEW t \in Procs, NEW a \in 2..MaxBrk - 1, do_page_fault(t, a) PROVE AInv'
<1> DEFINE b == MemOf(space[t])
           v == a \div 2
           p == NextPage(b)
           F == Mine(ram.free, space[t])
           w == mappages(TakePage(b), v, p)
<1>1. ram \in Rams /\ space \in [Procs -> Tables] /\ heap \in [Procs -> HeapRecs] /\ walk \in [Procs -> Walks]
  BY DEF AInv, AType
<1>2. /\ Counted /\ Runs(t) /\ space[t].root # 0 /\ v \in VPages /\ space[t].leaf[v] = 0
      /\ a >= heap[t].start /\ a < heap[t].brk /\ CanAlloc(b) /\ w.ok /\ Leaves(w, FALSE)
      /\ space' = [space EXCEPT ![t] = w.pg] /\ UNCHANGED <<heap, walk>>
  BY DEF do_page_fault, Faults, Served, FaultPage, InHeap
<1>3. HeapFits(heap[t]) /\ Filled(space[t]) /\ Covers(space[t], heap[t])
  BY <1>2 DEF AInv, Proper
<1>4. b \in Mems /\ b.pg = space[t] /\ b.ram = ram /\ b.ok /\ ~b.leak
  <2>1. space[t] \in Tables
    BY <1>1
  <2> QED BY <1>1, <2>1 DEF MemOf, Mems
<1>5. v \in VPages /\ 2 * v >= heap[t].start /\ 2 * v < heap[t].max
  <2>1. v \in VPages
    BY <1>2
  <2>2. heap[t].size \in Nat /\ heap[t].start = 2 * heap[t].size /\ heap[t].brk <= heap[t].max /\ heap[t].brk \in Nat /\ heap[t].max \in Nat
    BY <1>1, <1>3 DEF HeapFits, HeapRecs
  <2>3. a \in Nat /\ a >= heap[t].start /\ a < heap[t].brk
    BY <1>2, AConstants
  <2> QED BY <2>1, <2>2, <2>3
<1>6. Built(b, F, {})
  <2>1. F \subseteq PPages /\ \A q \in PPages : q \in F <=> q \in ram.free \/ Has(space[t], q)
    BY DEF Mine
  <2>2. ram.free \subseteq PPages
    BY <1>1 DEF Rams
  <2>3. Once(space[t].root, space[t].tab, space[t].leaf) /\ \A q \in PPages : Has(space[t], q) => q \notin ram.free
    BY DEF AInv, Private
  <2> HIDE DEF F, b
  <2> QED BY <1>4, <2>1, <2>2, <2>3 DEF Built, Builds, Has
<1>7. Untouched(b, F, ram.val)
  BY <1>4 DEF Untouched
<1>8. p \in PPages
  BY <1>2, <1>4, NextFree
<1> HIDE DEF b, v, F
<1>9. MapsTo(w, b, F, ram.val, v, p)
  BY <1>2, <1>4, <1>5, <1>6, <1>7, TakeMap
<1> HIDE DEF w, p
<1>10. /\ w \in Mems /\ w.leak = b.leak /\ w.pg.root = b.pg.root /\ Built(w, F, {})
       /\ w.pg.leaf = [b.pg.leaf EXCEPT ![v] = p]
  BY <1>2, <1>9 DEF MapsTo
<1>11. w.pg \in Tables
  BY <1>10 DEF Mems
<1>12. \A x \in VPages : w.pg.leaf[x] = IF x = v THEN p ELSE space[t].leaf[x]
  <2>1. space[t].leaf \in LeafMaps
    BY <1>1 DEF Tables
  <2> QED BY <1>4, <1>10, <2>1 DEF LeafMaps
<1>13. Proper(w.pg, heap[t])
  BY <1>2, <1>3, <1>4, <1>5, <1>8, <1>10, <1>12, AConstants DEF Proper, Filled, Covers
<1>14. /\ Private(w.ram.free, [space EXCEPT ![t] = w.pg])
       /\ Whole(ram.free, space) /\ ~w.leak => Whole(w.ram.free, [space EXCEPT ![t] = w.pg])
  <2>1. Private(ram.free, space)
    BY DEF AInv
  <2> QED BY <1>1, <1>10, <2>1, Adopts DEF F
<1>15. walk' \in [Procs -> Walks] /\ heap' = [heap EXCEPT ![t] = heap[t]] /\ heap[t] \in HeapRecs
  BY <1>1, <1>2
<1> QED BY <1>2, <1>10, <1>11, <1>13, <1>14, <1>15, DoneSafe

\* The walk for the heap finds nothing: its root is free, and nobody's.
LEMMA HeapWalkSafe ==
  ASSUME AInv, NEW t \in Procs, do_free_task_heap(t), ~stale' PROVE AInv' /\ UNCHANGED <<ram, space>>
<1>1. walk[t].root \in ram.free /\ walk[t].root \in PPages
  BY DEF do_free_task_heap, AInv, AType, Rams
<1>2. {s \in Procs : space[s].root = walk[t].root} = {}
  <2>1. ASSUME NEW s \in Procs, space[s].root = walk[t].root PROVE FALSE
    <3>1. Has(space[s], walk[t].root)
      BY <2>1 DEF Has, Holds
    <3> QED BY <1>1, <3>1 DEF AInv, Private
  <2> QED BY <2>1
<1>3. walk' = [walk EXCEPT ![t] = NoWalk] /\ UNCHANGED <<ram, space, kpanic, spoilt, heap, asteps>>
  BY <1>2 DEF do_free_task_heap
<1>4. AType'
  BY <1>3, AConstants DEF AInv, AType, NoWalk, Walks
<1> QED BY <1>3, <1>4 DEF AInv, Private, Whole

\* sbrk moves the end of the heap, and only ever raises how far it has been.
LEMMA SbrkSafe ==
  ASSUME AInv, NEW t \in Procs, NEW d \in Deltas, sys_sbrk(t, d) PROVE AInv'
<1> DEFINE h == heap[t]
           e == h.brk + d
           g == [h EXCEPT !.brk = e, !.max = IF e > h.max THEN e ELSE h.max]
<1>1. space \in [Procs -> Tables] /\ heap \in [Procs -> HeapRecs]
  BY DEF AInv, AType
<1>2. /\ Counted /\ Runs(t) /\ space[t].root # 0 /\ e >= h.start /\ e <= MaxBrk
      /\ UNCHANGED <<ram, space, walk, kpanic, spoilt>>
  BY DEF sys_sbrk
<1>3. heap' = [heap EXCEPT ![t] = g]
  BY <1>1 DEF sys_sbrk, HeapRecs
<1>4. HeapFits(h) /\ Filled(space[t]) /\ Covers(space[t], h) /\ h \in HeapRecs
  BY <1>1, <1>2 DEF AInv, Proper
<1>5. e \in Nat /\ h.max \in Nat /\ h.brk \in Nat /\ h.start \in Nat
  BY <1>2, <1>4, AConstants DEF HeapRecs
<1> HIDE DEF h, e
<1>6. g \in HeapRecs /\ g.size = h.size /\ g.start = h.start /\ g.brk = e /\ g.max = IF e > h.max THEN e ELSE h.max
  BY <1>4, <1>5 DEF HeapRecs
<1> HIDE DEF g
<1>7. HeapFits(g)
  BY <1>2, <1>4, <1>5, <1>6, AConstants DEF HeapFits
<1>8. Covers(space[t], g)
  <2>1. ASSUME NEW v \in VPages, space[t].leaf[v] # 0
        PROVE  v \in Stack \/ v < g.size \/ (2 * v >= g.start /\ 2 * v < g.max)
    <3>1. v \in Stack \/ v < h.size \/ (2 * v >= h.start /\ 2 * v < h.max)
      BY <1>4, <2>1 DEF Covers
    <3>2. v \in Nat /\ h.max <= g.max /\ g.max \in Nat
      BY <1>5, <1>6, AConstants
    <3> QED BY <1>5, <1>6, <3>1, <3>2
  <2> QED BY <2>1 DEF Covers
<1>9. AType'
  BY <1>1, <1>2, <1>3, <1>6 DEF AInv, AType, Counted
<1>10. ASSUME NEW s \in Procs PROVE Proper(space'[s], heap'[s])
  <2>1. heap'[s] = (IF s = t THEN g ELSE heap[s]) /\ space'[s] = space[s]
    BY <1>1, <1>2, <1>3
  <2> QED BY <1>4, <1>7, <1>8, <2>1 DEF AInv, Proper
<1> QED BY <1>2, <1>9, <1>10 DEF AInv

\* A store changes the contents of a page.
LEMMA StoreSafe ==
  ASSUME AInv, NEW t \in Procs, NEW v \in VPages, NEW x \in Stored, Store(t, v, x) PROVE AInv'
<1>1. /\ space[t].leaf[v] \in PPages /\ ram' = [ram EXCEPT !.val[space[t].leaf[v]] = x]
      /\ UNCHANGED <<space, heap, walk, kpanic, spoilt, asteps>>
  BY DEF Store
<1>2. ram \in Rams
  BY DEF AInv, AType
<1>3. ram' \in Rams /\ ram'.free = ram.free
  BY <1>1, <1>2 DEF Rams, Kept
<1>4. AType'
  BY <1>1, <1>3 DEF AInv, AType
<1> QED BY <1>1, <1>3, <1>4 DEF AInv

-----------------------------------------------------------------------------
(* Address spaces: the theorems                                             *)

\* Initially all pages are free.
LEMMA AInvInit == AInit => AHist
<1> SUFFICES ASSUME AInit PROVE AInv /\ stale = FALSE
  BY DEF AHist
<1>1. NoTable \in Tables /\ NoTable.root = 0 /\ \A v \in VPages : NoTable.leaf[v] = 0
  BY AConstants DEF NoTable, Tables, Tabs, LeafMaps
<1>2. AType
  BY <1>1, AConstants DEF AInit, AType, NoHeap, NoWalk, HeapRecs, Walks, Rams, Kept
<1>3. \A t \in Procs : space[t] = NoTable /\ heap[t] = NoHeap /\ walk[t].root = 0
  BY DEF AInit, NoWalk
<1>4. \A p \in PPages : ~Has(NoTable, p)
  BY AConstants DEF NoTable, Has, Holds
<1>5. Once(NoTable.root, NoTable.tab, NoTable.leaf)
  BY AConstants DEF NoTable, Once
<1>6. Private(ram.free, space) /\ Whole(ram.free, space)
  BY <1>3, <1>4, <1>5 DEF AInit, Private, Whole
<1>7. \A t \in Procs : Proper(space[t], heap[t])
  BY <1>1, <1>3, AConstants DEF Proper, Filled, Covers
<1> QED BY <1>2, <1>6, <1>7 DEF AInit, AInv

\* Every step keeps the invariant, until the walk for a heap goes wrong.
LEMMA AInvStep == ASSUME AInv, [ANext]_asVars, ~stale' PROVE AInv'
<1>1. ASSUME NEW t \in Procs, NEW n \in 1..MaxSeg, kexec(t, n) PROVE AInv'
  BY <1>1, ExecSafe
<1>2. ASSUME NEW t \in Procs, NEW n \in 1..MaxSeg, ExecFails(t, n) PROVE AInv'
  BY <1>2, ExecFailsSafe
<1>3. ASSUME NEW t \in Procs, NEW n \in 1..MaxSeg, NEW k \in 0..n - 1, ReadFails(t, n, k) PROVE AInv'
  BY <1>3, ReadFailsSafe
<1>4. ASSUME NEW t \in Procs, NEW u \in Procs, kfork(t, u) PROVE AInv'
  BY <1>4, ForkSafe
<1>5. ASSUME NEW t \in Procs, NEW u \in Procs, ForkFails(t, u) PROVE AInv'
  BY <1>5, ForkFailsSafe
<1>6. ASSUME NEW t \in Procs, kexit(t) PROVE AInv'
  BY <1>6, ExitSafe
<1>7. ASSUME NEW t \in Procs, do_free_task_heap(t) PROVE AInv'
  BY <1>7, HeapWalkSafe
<1>8. ASSUME NEW t \in Procs, NEW d \in Deltas, sys_sbrk(t, d) PROVE AInv'
  BY <1>8, SbrkSafe
<1>9. ASSUME NEW t \in Procs, NEW v \in VPages, NEW x \in Stored, Store(t, v, x) PROVE AInv'
  BY <1>9, StoreSafe
<1>10. ASSUME NEW t \in Procs, NEW a \in 2..MaxBrk - 1, do_page_fault(t, a) PROVE AInv'
  BY <1>10, FaultSafe
<1>11. ASSUME NEW t \in Procs, NEW a \in 2..MaxBrk - 1, FaultKills(t, a) PROVE AInv'
  BY <1>6, <1>11 DEF FaultKills
<1>12. ASSUME UNCHANGED asVars PROVE AInv'
  BY <1>12 DEF asVars, AInv, AType
<1>13. CASE Halted
  BY <1>12, <1>13 DEF Halted
<1>14. ASSUME NEW t \in Procs, ExecOom(t) PROVE AInv'
  BY <1>14, PanicSafe DEF ExecOom
<1>15. ASSUME NEW t \in Procs, NEW u \in Procs, ForkRemaps(t, u) PROVE AInv'
  BY <1>15, PanicSafe DEF ForkRemaps, Forks
<1> QED BY <1>1, <1>2, <1>3, <1>4, <1>5, <1>6, <1>7, <1>8, <1>9, <1>10, <1>11, <1>12, <1>13, <1>14, <1>15 DEF ANext

\* What has gone wrong has gone wrong.
LEMMA StaleStays == ASSUME stale \in BOOLEAN, [ANext]_asVars PROVE stale' \in BOOLEAN /\ (stale => stale')
<1>1. ASSUME NEW m, NEW bad, Leaves(m, bad) PROVE stale' = stale
  BY <1>1 DEF Leaves
<1>2. ASSUME NEW t, NEW n, kexec(t, n) \/ ExecFails(t, n) PROVE stale' = stale
  BY <1>1, <1>2 DEF kexec, ExecFails
<1>3. ASSUME NEW t, NEW n, NEW k, ReadFails(t, n, k) PROVE stale' = stale
  BY <1>1, <1>3 DEF ReadFails
<1>4. ASSUME NEW t, NEW u, kfork(t, u) \/ ForkRemaps(t, u) \/ ForkFails(t, u) PROVE stale' = stale
  BY <1>1, <1>4 DEF kfork, ForkRemaps, ForkFails
<1>5. ASSUME NEW t, kexit(t) \/ ExecOom(t) PROVE stale' = stale
  BY <1>1, <1>5 DEF kexit, ExecOom
<1>6. ASSUME NEW t, NEW a, do_page_fault(t, a) \/ FaultKills(t, a) PROVE stale' = stale
  BY <1>1, <1>5, <1>6 DEF do_page_fault, FaultKills
<1>7. ASSUME NEW t, NEW d, sys_sbrk(t, d) PROVE stale' = stale
  BY <1>7 DEF sys_sbrk
<1>8. ASSUME NEW t, NEW v, NEW x, Store(t, v, x) PROVE stale' = stale
  BY <1>8 DEF Store
<1>9. ASSUME NEW t, do_free_task_heap(t) PROVE stale' \in BOOLEAN /\ (stale => stale')
  BY <1>9 DEF do_free_task_heap
<1>10. CASE Halted \/ UNCHANGED asVars
  BY <1>10 DEF Halted, asVars
<1> QED BY <1>2, <1>3, <1>4, <1>5, <1>6, <1>7, <1>8, <1>9, <1>10 DEF ANext

\* The invariant holds in every reachable state.
LEMMA AInvHolds == ASpec => []AHist
<1>1. AHist /\ [ANext]_asVars => AHist'
  BY AInvStep, StaleStays DEF AHist
<1> QED BY <1>1, AInvInit, PTL DEF ASpec

\* The page of a use.
LEMMA UseIs ==
  ASSUME NEW u \in Uses
  PROVE  \E t \in Procs :
           \/ \E v \in VPages : u = <<t, "leaf", v>> /\ PageOf(u) = space[t].leaf[v]
           \/ \E r \in Regions : u = <<t, "tab", r>> /\ PageOf(u) = space[t].tab[r]
           \/ u = <<t, "root", 0>> /\ PageOf(u) = space[t].root
<1>1. CASE \E t \in Procs, v \in VPages : u = <<t, "leaf", v>>
  BY <1>1 DEF PageOf
<1>2. CASE \E t \in Procs, r \in Regions : u = <<t, "tab", r>>
  BY <1>2 DEF PageOf
<1>3. CASE \E t \in Procs : u = <<t, "root", 0>>
  BY <1>3 DEF PageOf
<1> QED BY <1>1, <1>2, <1>3 DEF Uses

\* It is a page of the table of the task.
LEMMA UseHas ==
  ASSUME NEW u \in Uses PROVE \E t \in Procs : u[1] = t /\ Has(space[t], PageOf(u))
<1>1. PICK t \in Procs :
           \/ \E v \in VPages : u = <<t, "leaf", v>> /\ PageOf(u) = space[t].leaf[v]
           \/ \E r \in Regions : u = <<t, "tab", r>> /\ PageOf(u) = space[t].tab[r]
           \/ u = <<t, "root", 0>> /\ PageOf(u) = space[t].root
  BY UseIs
<1>2. u[1] = t
  BY <1>1
<1>3. Has(space[t], PageOf(u))
  BY <1>1 DEF Has, Holds
<1> QED BY <1>2, <1>3

\* Every page of a table has a use.
LEMMA HasUse ==
  ASSUME NEW t \in Procs, NEW p, Has(space[t], p) PROVE \E u \in Uses : PageOf(u) = p
<1>1. CASE space[t].root = p
  <2>1. <<t, "root", 0>> \in Uses /\ PageOf(<<t, "root", 0>>) = space[t].root
    BY DEF Uses, PageOf
  <2> QED BY <1>1, <2>1
<1>2. CASE \E r \in Regions : space[t].tab[r] = p
  <2>1. PICK r \in Regions : space[t].tab[r] = p
    BY <1>2
  <2>2. <<t, "tab", r>> \in Uses /\ PageOf(<<t, "tab", r>>) = space[t].tab[r]
    BY DEF Uses, PageOf
  <2> QED BY <2>1, <2>2
<1>3. CASE \E v \in VPages : space[t].leaf[v] = p
  <2>1. PICK v \in VPages : space[t].leaf[v] = p
    BY <1>3
  <2>2. <<t, "leaf", v>> \in Uses /\ PageOf(<<t, "leaf", v>>) = space[t].leaf[v]
    BY DEF Uses, PageOf
  <2> QED BY <2>1, <2>2
<1> QED BY <1>1, <1>2, <1>3 DEF Has, Holds

\* A page with two uses is none.
LEMMA UsesOnce ==
  ASSUME AInv, NEW u \in Uses, NEW w \in Uses, PageOf(u) \in PPages, PageOf(u) = PageOf(w) PROVE u = w
<1> DEFINE p == PageOf(u)
<1>1. p # 0 /\ p \in PPages
  BY AConstants
<1>2. PICK t \in Procs :
           \/ \E v \in VPages : u = <<t, "leaf", v>> /\ p = space[t].leaf[v]
           \/ \E r \in Regions : u = <<t, "tab", r>> /\ p = space[t].tab[r]
           \/ u = <<t, "root", 0>> /\ p = space[t].root
  BY UseIs
<1>3. PICK s \in Procs :
           \/ \E v \in VPages : w = <<s, "leaf", v>> /\ PageOf(w) = space[s].leaf[v]
           \/ \E r \in Regions : w = <<s, "tab", r>> /\ PageOf(w) = space[s].tab[r]
           \/ w = <<s, "root", 0>> /\ PageOf(w) = space[s].root
  BY UseIs
<1>4. p = PageOf(w)
  OBVIOUS
<1> HIDE DEF p
<1>5. Has(space[t], p) /\ Has(space[s], p)
  BY <1>2, <1>3, <1>4 DEF Has, Holds
<1>6. s = t /\ Once(space[t].root, space[t].tab, space[t].leaf)
  BY <1>1, <1>5 DEF AInv, Private
<1>7. CASE \E v \in VPages : u = <<t, "leaf", v>> /\ p = space[t].leaf[v]
  BY <1>1, <1>3, <1>4, <1>6, <1>7 DEF Once
<1>8. CASE \E r \in Regions : u = <<t, "tab", r>> /\ p = space[t].tab[r]
  BY <1>1, <1>3, <1>4, <1>6, <1>8 DEF Once
<1>9. CASE u = <<t, "root", 0>> /\ p = space[t].root
  BY <1>1, <1>3, <1>4, <1>6, <1>9 DEF Once
<1> QED BY <1>2, <1>7, <1>8, <1>9

(* Physical pages are neither shared nor lost: a page is used once, by one  *)
(* task, and is not free while it is used; every page that is not free is   *)
(* used and there is no panic, until a clean-up has more to free than it    *)
(* looks for or a mapping fails unnoticed; and what is mapped is within the *)
(* program, the stack and the heap.  Through exec, fork, exit, page faults  *)
(* and all their failures, for every number of tasks and pages and however  *)
(* the halves of a clean-up interleave with other tasks, until a heap is    *)
(* looked for from a root that is in use again.                             *)
THEOREM PagesSoundHolds == ASpec => []PagesSound
<1>1. AHist => PagesSound
  <2> SUFFICES ASSUME AInv PROVE PagesPrivate /\ PagesReturned /\ MappedWithin
    BY DEF AHist, PagesSound
  <2>1. PagesPrivate
    <3>1. \A u, w \in InUse : PageOf(u) = PageOf(w) => u = w
      BY UsesOnce DEF InUse
    <3>2. ASSUME NEW u \in InUse PROVE PageOf(u) \notin ram.free
      <4>1. u \in Uses /\ PageOf(u) \in PPages
        BY DEF InUse
      <4>2. \E t \in Procs : Has(space[t], PageOf(u))
        BY <4>1, UseHas
      <4> QED BY <4>1, <4>2 DEF AInv, Private
    <3> QED BY <3>1, <3>2 DEF PagesPrivate
  <2>2. PagesReturned
    <3>1. ASSUME ~spoilt, NEW p \in PPages, p \notin ram.free PROVE \E u \in InUse : PageOf(u) = p
      <4>1. PICK t \in Procs : Has(space[t], p)
        BY <3>1 DEF AInv, Whole
      <4>2. PICK u \in Uses : PageOf(u) = p
        BY <4>1, HasUse
      <4> QED BY <4>2 DEF InUse
    <3>2. \A u \in InUse : PageOf(u) \in PPages /\ PageOf(u) \notin ram.free
      BY <2>1 DEF PagesPrivate, InUse
    <3>3. ~spoilt => ~kpanic
      BY DEF AInv
    <3> QED BY <3>1, <3>2, <3>3 DEF PagesReturned
  <2>3. MappedWithin
    BY DEF AInv, Proper, Covers, MappedWithin
  <2> QED BY <2>1, <2>2, <2>3
<1> QED BY <1>1, AInvHolds, PTL

\* fork: what the child and its father see.
LEMMA ForkSees ==
  ASSUME AInv, NEW t \in Procs, NEW u \in Procs, kfork(t, u), NEW v \in VPages
  PROVE  /\ Sees(u, v)' = Sees(t, v) /\ Sees(t, v)' = Sees(t, v)
         /\ space'[u].leaf[v] = 0 <=> space[t].leaf[v] = 0
<1> DEFINE m == ForkMem(t)
<1>1. ram \in Rams /\ space \in [Procs -> Tables] /\ heap \in [Procs -> HeapRecs]
  BY DEF AInv, AType
<1>2. /\ HeapFits(heap[t]) /\ Covers(space[t], heap[t]) /\ heap[t] \in HeapRecs /\ space[t] \in Tables
      /\ space[t].leaf[v] # NullPage
  BY <1>1 DEF AInv, Proper, Filled, kfork, Forks
<1>3. Forked(m, space[t])
  BY <1>1, <1>2, ForkForks
<1>4. ram' = m.ram /\ space' = [space EXCEPT ![u] = m.pg] /\ m.ok /\ u # t
  BY DEF kfork, Forks, Leaves, Idle
<1> HIDE DEF m
<1>5. space'[u] = m.pg /\ space'[t] = space[t]
  BY <1>1, <1>4
<1>6. space[t].leaf[v] \in PPages \cup {0} /\ m.pg.leaf[v] \in PPages \cup {0}
  <2>1. space[t].leaf[v] \in 0..NullPage
    BY <1>2 DEF Tables, LeafMaps
  <2>2. m.pg.leaf[v] \in 0..NullPage /\ m.pg.leaf[v] # NullPage
    BY <1>3 DEF Forked, Built, Mems, Tables, LeafMaps, NoNull
  <2> QED BY <1>2, <2>1, <2>2, AConstants
<1>7. space'[u].leaf[v] = 0 <=> space[t].leaf[v] = 0
  BY <1>3, <1>4, <1>5, <1>6, AConstants DEF Forked
<1>8. Sees(t, v)' = Sees(t, v)
  <2>1. ASSUME space[t].leaf[v] \in PPages PROVE ram'.val[space[t].leaf[v]] = ram.val[space[t].leaf[v]]
    <3>1. Has(space[t], space[t].leaf[v])
      BY DEF Has, Holds
    <3>2. space[t].leaf[v] \notin ram.free
      BY <2>1, <3>1 DEF AInv, Private
    <3> QED BY <1>3, <1>4, <2>1, <3>2 DEF Forked, Untouched
  <2> QED BY <1>5, <2>1 DEF Sees
<1>9. Sees(u, v)' = Sees(t, v)
  <2>1. CASE space[t].leaf[v] \in PPages
    BY <1>3, <1>4, <1>5, <2>1 DEF Forked, Sees
  <2>2. CASE space[t].leaf[v] = 0
    BY <1>5, <1>7, <2>2, AConstants DEF Sees
  <2> QED BY <1>6, <2>1, <2>2
<1> QED BY <1>7, <1>8, <1>9

\* Another's page is none of what is free or somebody else's.
LEMMA SeesSame ==
  ASSUME NEW t, NEW v, space'[t] = space[t],
         space[t].leaf[v] \in PPages => ram'.val[space[t].leaf[v]] = ram.val[space[t].leaf[v]]
  PROVE  Sees(t, v)' = Sees(t, v)
BY DEF Sees

\* The steps of one task, as another sees them.
LEMMA StepSees ==
  ASSUME AInv, ~stale', NEW t \in Procs, NEW s \in Procs \ {t}, NEW v \in VPages,
         \/ \E w \in VPages, x \in Stored : Store(s, w, x)
         \/ kexit(s)
         \/ do_free_task_heap(s)
         \/ \E n \in 1..MaxSeg : kexec(s, n)
  PROVE  Sees(t, v)' = Sees(t, v)
<1> DEFINE p == space[t].leaf[v]
<1>1. ram \in Rams /\ space \in [Procs -> Tables] /\ Private(ram.free, space)
  BY DEF AInv, AType
<1>2. Has(space[t], p)
  BY DEF Has, Holds
<1>3. p \in PPages => p \notin ram.free /\ ~Has(space[s], p)
  BY <1>1, <1>2 DEF Private
<1>4. ASSUME NEW w \in VPages, NEW x \in Stored, Store(s, w, x) PROVE Sees(t, v)' = Sees(t, v)
  <2>1. Has(space[s], space[s].leaf[w])
    BY DEF Has, Holds
  <2>2. ram' = [ram EXCEPT !.val[space[s].leaf[w]] = x] /\ space' = space
    BY <1>4 DEF Store
  <2>3. p \in PPages => ram'.val[p] = ram.val[p]
    BY <1>1, <1>3, <2>1, <2>2 DEF Rams
  <2> QED BY <2>2, <2>3, SeesSame
<1>5. ASSUME kexit(s) PROVE Sees(t, v)' = Sees(t, v)
  <2> DEFINE b == MemOf(space[s])
             m == free_task_pgtable(b, heap[s].size)
  <2>1. ram' = m.ram /\ space' = [space EXCEPT ![s] = NoTable]
    BY <1>5 DEF kexit, Leaves
  <2>2. b \in Mems /\ b.ram = ram
    BY <1>1 DEF MemOf, Mems
  <2> HIDE DEF b
  <2>3. m.ram.val = ram.val
    BY <2>2, VmfreeIs DEF free_task_pgtable
  <2> QED BY <1>1, <2>1, <2>3, SeesSame
<1>6. ASSUME do_free_task_heap(s) PROVE Sees(t, v)' = Sees(t, v)
  BY <1>6, HeapWalkSafe, SeesSame
<1>7. ASSUME NEW n \in 1..MaxSeg, kexec(s, n) PROVE Sees(t, v)' = Sees(t, v)
  <2> DEFINE c == ExecTable
             m == GivesBuffer(map_user_stack(Load(c, n)))
             old == Retires(m, space[s], heap[s].size)
  <2>1. c.ok /\ CanExec /\ space' = [space EXCEPT ![s] = m.pg] /\ (ram' = m.ram \/ ram' = old.ram)
    BY <1>7 DEF kexec, Leaves, Retires, free_task_pgtable
  <2>2. Stacked(m, ram.free, ram.val, n)
    <3>1. n \in 0..MaxSeg
      BY AConstants
    <3> QED BY <1>1, <2>1, <3>1, ExecBuilds
  <2> HIDE DEF c, m
  <2>3. Built(m, ram.free, {}) /\ Untouched(m, ram.free, ram.val)
    BY <2>2 DEF Stacked
  <2>4. old.ram.val = m.ram.val
    <3> DEFINE x == [m EXCEPT !.pg = space[s]]
    <3>1. m \in Mems /\ space[s] \in Tables
      BY <1>1, <2>3 DEF Built
    <3>2. x \in Mems /\ x.ram = m.ram
      BY <3>1 DEF Mems
    <3>3. old = pg_user_vmfree(x, heap[s].size)
      BY DEF Retires
    <3> HIDE DEF x, old
    <3> QED BY <3>2, <3>3, VmfreeIs
  <2> HIDE DEF old
  <2>5. p \in PPages => ram'.val[p] = ram.val[p]
    BY <1>3, <2>1, <2>3, <2>4 DEF Untouched
  <2>6. space'[t] = space[t]
    BY <1>1, <2>1
  <2> QED BY <2>5, <2>6, SeesSame
<1> QED BY <1>4, <1>5, <1>6, <1>7

(* A child starts with the memory of its father, page for page; and what a  *)
(* task stores, its exit, its clean-up and its exec are not seen by others, *)
(* until a heap is looked for from a root that is in use again.             *)
THEOREM MemoryPrivateHolds == ASpec => MemoryPrivate
<1> DEFINE FC == \A t, u \in Procs :
                   (kfork(t, u) /\ space[u].root = 0 /\ ~stale) =>
                     \A v \in VPages : /\ Sees(u, v)' = Sees(t, v) /\ Sees(t, v)' = Sees(t, v)
                                       /\ (space'[u].leaf[v] = 0 <=> space[t].leaf[v] = 0)
           IS == \A t \in Procs :
                   (~stale' /\ \E s \in Procs \ {t} : (\E v \in VPages, x \in Stored : Store(s, v, x)) \/ kexit(s)
                                           \/ do_free_task_heap(s) \/ \E n \in 1..MaxSeg : kexec(s, n)) =>
                     \A v \in VPages : Sees(t, v)' = Sees(t, v)
<1>1. AHist => FC
  BY ForkSees DEF AHist
<1>2. AHist /\ [ANext]_asVars => IS
  <2>1. ASSUME AHist, [ANext]_asVars, ~stale' PROVE AInv
    BY <2>1, StaleStays DEF AHist
  <2> QED BY <2>1, StepSees
<1>3. AHist /\ [ANext]_asVars => [FC]_asVars /\ [IS]_asVars
  BY <1>1, <1>2
<1>4. MemoryPrivate <=> ([][FC]_asVars /\ [][IS]_asVars)
  BY DEF MemoryPrivate, ForkCopies, Isolated
<1> HIDE DEF FC, IS
<1> QED BY <1>3, <1>4, AInvHolds, PTL DEF ASpec
=============================================================================
