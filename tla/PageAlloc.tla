----------------------------- MODULE PageAlloc ------------------------------
(***************************************************************************)
(* The page allocator (mm/memory.c): a linked list of free pages behind    *)
(* memory_lock.  alloc_page() takes the head, free_page() appends at the   *)
(* tail; both clear the page after they have released the lock.            *)
(*                                                                         *)
(* A user is a thread of control in the kernel.  free_list is an auxiliary *)
(* variable: the list that free_head, next and free_tail represent.        *)
(***************************************************************************)
EXTENDS Naturals, Sequences, FiniteSets

CONSTANTS Users, Pages,
          NULL,        \* the null pointer; nobody
          InitList     \* the free pages in the order init_memory() links them

ASSUME NULLAssumption == NULL \notin Pages \cup Users
ASSUME InitListAssumption ==
  /\ InitList \in Seq(Pages) /\ InitList # <<>>
  /\ \A i, j \in 1..Len(InitList) : InitList[i] = InitList[j] => i = j
  /\ \A p \in Pages : \E i \in 1..Len(InitList) : InitList[i] = p
ASSUME ZeroAssumption == {"zero", "old"} \cap Users = {}

VARIABLES
  \* gmd and struct page
  free_head, free_tail, next, flags, refcount,
  data,        \* contents of a page: "zero", "old", or whose data it is
  owner,       \* the user alloc_page() gave the page to, or NULL
  pc, pg,      \* of a user: what it has to clear yet, and the page
  free_list

listVars == <<free_head, free_tail, next, flags, refcount, free_list>>
vars == <<listVars, data, owner, pc, pg>>

\* "clear_new": in alloc_page() after release(); "clear_old": in free_page().
Points == {"idle", "clear_new", "clear_old"}

Init ==
  /\ free_list = InitList
  /\ free_head = InitList[1]
  /\ free_tail = InitList[Len(InitList)]
  /\ next \in [Pages -> Pages \cup {NULL}]
  /\ \A i \in 1..(Len(InitList) - 1) : next[InitList[i]] = InitList[i + 1]
  /\ next[free_tail] = NULL
  /\ flags = [p \in Pages |-> "FREE"]
  /\ refcount = [p \in Pages |-> 0]
  /\ data = [p \in Pages |-> "old"]
  /\ owner = [p \in Pages |-> NULL]
  /\ pc = [u \in Users |-> "idle"]
  /\ pg = [u \in Users |-> NULL]

-----------------------------------------------------------------------------
(* alloc_page()                                                             *)

\* Mutant: the tail stays when the list becomes empty.
TailAfterAllocKept == free_tail

\* The tail after the head has been taken.
TailAfterAlloc == IF next[free_head] = NULL THEN NULL ELSE free_tail

\* With an empty list alloc_page() returns NULL and changes nothing.
AllocPage(u, p) ==
  /\ pc[u] = "idle" /\ p = free_head /\ p # NULL
  /\ free_head' = next[p]
  /\ free_tail' = TailAfterAlloc
  /\ next' = [next EXCEPT ![p] = NULL]
  /\ flags' = [flags EXCEPT ![p] = "USED"]
  /\ refcount' = [refcount EXCEPT ![p] = @ + 1]
  /\ free_list' = Tail(free_list)
  /\ owner' = [owner EXCEPT ![p] = u]
  /\ pc' = [pc EXCEPT ![u] = "clear_new"]
  /\ pg' = [pg EXCEPT ![u] = p]
  /\ UNCHANGED data

\* Mutant: alloc_page() relies on the memset of free_page().
ClearedNot(u) == data

\* memset(pg->paddr, 0, PG_4K_SIZE)
Cleared(u) == [data EXCEPT ![pg[u]] = "zero"]

AllocClear(u) ==
  /\ pc[u] = "clear_new"
  /\ data' = Cleared(u)
  /\ pc' = [pc EXCEPT ![u] = "idle"]
  /\ pg' = [pg EXCEPT ![u] = NULL]
  /\ UNCHANGED <<listVars, owner>>

\* The owner uses its page.
Write(u, p) ==
  /\ pc[u] = "idle" /\ owner[p] = u
  /\ data' = [data EXCEPT ![p] = u]
  /\ UNCHANGED <<listVars, owner, pc, pg>>

-----------------------------------------------------------------------------
(* free_page()                                                              *)

\* refcount after the decrement.
RefAfter(p) == IF refcount[p] > 0 THEN refcount[p] - 1 ELSE 0

\* The owner frees its page: flags are tested and the page is appended; no
\* code adds a second reference, so refcount is 0 after the decrement.
FreePage(u, p) ==
  /\ pc[u] = "idle" /\ owner[p] = u
  /\ flags[p] = "USED" /\ RefAfter(p) = 0
  /\ refcount' = [refcount EXCEPT ![p] = RefAfter(p)]
  /\ flags' = [flags EXCEPT ![p] = "FREE"]
  /\ next' = [x \in Pages |-> IF x = p THEN NULL
                              ELSE IF x = free_tail THEN p ELSE next[x]]
  /\ free_head' = IF free_tail = NULL THEN p ELSE free_head
  /\ free_tail' = p
  /\ free_list' = Append(free_list, p)
  /\ owner' = [owner EXCEPT ![p] = NULL]
  /\ pc' = [pc EXCEPT ![u] = "clear_old"]
  /\ pg' = [pg EXCEPT ![u] = p]
  /\ UNCHANGED data

\* The page may have a new owner by now.
FreeClear(u) ==
  /\ pc[u] = "clear_old"
  /\ data' = Cleared(u)
  /\ pc' = [pc EXCEPT ![u] = "idle"]
  /\ pg' = [pg EXCEPT ![u] = NULL]
  /\ UNCHANGED <<listVars, owner>>

-----------------------------------------------------------------------------
Next ==
  \E u \in Users :
    \/ AllocClear(u) \/ FreeClear(u)
    \/ \E p \in Pages : AllocPage(u, p) \/ Write(u, p) \/ FreePage(u, p)

Spec == Init /\ [][Next]_vars
-----------------------------------------------------------------------------
(* Properties                                                               *)

TypeOK ==
  /\ free_head \in Pages \cup {NULL}
  /\ free_tail \in Pages \cup {NULL}
  /\ next \in [Pages -> Pages \cup {NULL}]
  /\ flags \in [Pages -> {"FREE", "USED"}]
  /\ refcount \in [Pages -> Nat]
  /\ data \in [Pages -> Users \cup {"zero", "old"}]
  /\ owner \in [Pages -> Users \cup {NULL}]
  /\ pc \in [Users -> Points]
  /\ pg \in [Users -> Pages \cup {NULL}]
  /\ free_list \in Seq(Pages)

\* The pointers form one list, from free_head to free_tail, of exactly the
\* pages that nobody owns, each once, also when the list was empty and is
\* filled again: a tail that stays behind would have the next free_page()
\* link its page behind one that is in use, and lose it.
ListExact ==
  /\ free_list = <<>> => free_head = NULL /\ free_tail = NULL
  /\ free_list # <<>> => /\ free_head = free_list[1]
                         /\ free_tail = free_list[Len(free_list)]
                         /\ next[free_tail] = NULL
  /\ \A i \in 1..Len(free_list) : i < Len(free_list) => next[free_list[i]] = free_list[i + 1]
  /\ \A i, j \in 1..Len(free_list) : free_list[i] = free_list[j] => i = j
  /\ \A p \in Pages : (\E i \in 1..Len(free_list) : free_list[i] = p) <=> owner[p] = NULL
  /\ \A p \in Pages : /\ owner[p] = NULL <=> flags[p] = "FREE"
                      /\ refcount[p] = (IF flags[p] = "USED" THEN 1 ELSE 0)

\* A page that alloc_page() has returned holds zeros or what its owner has
\* written, whoever had it before and however late that one clears it.
NoForeignData ==
  \A p \in Pages, u \in Users :
    owner[p] = u /\ ~(pc[u] = "clear_new" /\ pg[u] = p) => data[p] \in {"zero", u}

\* The inductive invariant: with the two properties, what the locals of
\* alloc_page() and free_page() hold.
IInv ==
  /\ TypeOK
  /\ ListExact
  /\ \A u \in Users : /\ pc[u] = "idle" <=> pg[u] = NULL
                      /\ pc[u] = "clear_new" => owner[pg[u]] = u
  /\ NoForeignData

\* What the owner of a page has written stays.  The comment at free_page()
\* says that memory_lock is held all the time, hence that it is safe.
OwnerKeepsData ==
  [][\A p \in Pages, u \in Users :
       data[p] = u /\ owner[p] = u /\ owner'[p] = u => data'[p] = u]_vars
=============================================================================
