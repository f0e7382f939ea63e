---------------------------- MODULE AddressSpace ----------------------------
(***************************************************************************)
(* User address spaces (mm/vm.c, kexec(), kfork() and kexit() of           *)
(* kernel/proc.c, sys_sbrk()): page tables, the pages they map, the lazily *)
(* filled heap, and what is freed on every way out.                        *)
(*                                                                         *)
(* A page table is its root, one table page for each region of the address *)
(* space that has a mapping, and the mapped pages.  User addresses count   *)
(* in half pages; the stack lies above program and heap.  A panic stops    *)
(* the system.                                                             *)
(*                                                                         *)
(* The clean-up has three defects, which the model has as well: a page     *)
(* table that failed is freed as if it had no program (kexec(), kfork()),  *)
(* an old one as if its heap were at most Span pages for a page of the     *)
(* program, and the heap is looked for from a root that has been freed     *)
(* already.  The history variables spoilt and stale say when one of them   *)
(* has bitten.                                                             *)
(***************************************************************************)
EXTENDS Integers, FiniteSets, Sequences

CONSTANTS Procs,          \* tasks
          NPages,         \* physical pages 1..NPages
          MaxSeg,         \* bound: pages of a program
          LowTop,         \* bound: last virtual page of program and heap
          StackPages,     \* USER_STACK_PAGES
          Span,           \* PG_4K_SIZE / PG_4K_SHIFT
          Deltas,         \* arguments of sbrk, in half pages
          Stored,         \* what programs store; 0 is an untouched page
          MaxASteps       \* bound: steps other than stores

ASSUME AddressSpaceAssumption ==
  /\ NPages \in Nat \ {0} /\ MaxSeg \in Nat \ {0} /\ StackPages \in Nat \ {0} /\ Span \in Nat \ {0}
  /\ LowTop \in Nat /\ LowTop > MaxSeg /\ Deltas \subseteq Int /\ 0 \notin Stored
  /\ MaxASteps \in Nat

PPages == 1..NPages
NullPage == NPages + 1          \* a mapping of physical address 0
Low == 1..LowTop
Stack == LowTop + 1..LowTop + StackPages
VPages == Low \cup Stack
MaxBrk == 2 * (LowTop + StackPages + 1)    \* bound: end of the heap, over the stack
Regions == {"low", "stack", "top"}
RegionOf(v) == IF v \in Stack THEN "stack" ELSE "low"

VARIABLES
  ram,       \* free (the free pages) and val (what each page holds)
  space,     \* the page table of each task: root, tab, leaf; root 0 is none
  heap,      \* size of the program (pages), heap_start, heap_brk, heap_history_max
  walk,      \* do_free_task_heap() still to be done by a task: root and range
  kpanic,    \* the kernel has panicked
  spoilt,    \* history: a clean-up had pages before it that it does not look for,
             \* a mapping failed unnoticed, or memory was out where that is a panic
  stale,     \* history: a heap was looked for from a root in use again
  asteps      \* steps other than stores so far

asVars == <<ram, space, heap, walk, kpanic, spoilt, stale, asteps>>

NoTable == [root |-> 0, tab |-> [r \in Regions |-> 0], leaf |-> [v \in VPages |-> 0]]
NoHeap == [size |-> 0, start |-> 0, brk |-> 0, max |-> 0]
NoWalk == [root |-> 0, from |-> 0]

AInit ==
  /\ ram = [free |-> PPages, val |-> [p \in PPages |-> 0]]
  /\ space = [t \in Procs |-> NoTable]
  /\ heap = [t \in Procs |-> NoHeap]
  /\ walk = [t \in Procs |-> NoWalk]
  /\ kpanic = FALSE /\ spoilt = FALSE /\ stale = FALSE /\ asteps = 0

-----------------------------------------------------------------------------
(* Page tables.  A state m of the memory under construction has the free    *)
(* pages and their values, a page table, and whether all went well.         *)

MemOf(pg) == [ram |-> ram, pg |-> pg, ok |-> TRUE, leak |-> FALSE]
Fail(m) == [m EXCEPT !.ok = FALSE]

\* alloc_page(), which clears the page.
CanAlloc(m) == m.ram.free # {}
NextPage(m) == CHOOSE p \in m.ram.free : \A q \in m.ram.free : p <= q
TakePage(m) == [m EXCEPT !.ram = [free |-> @.free \ {NextPage(m)}, val |-> [@.val EXCEPT ![NextPage(m)] = 0]]]

\* pte_walk() with create: the table of the region.
pte_walk(m, r) ==
  IF m.pg.tab[r] # 0 THEN m
  ELSE IF ~CanAlloc(m) THEN Fail(m)
  ELSE [TakePage(m) EXCEPT !.pg.tab[r] = NextPage(m)]

mappages(m, v, p) ==
  LET w == pte_walk(m, RegionOf(v)) IN
  IF w.ok THEN [w EXCEPT !.pg.leaf[v] = p] ELSE w

\* pg_unmap() with do_free: the pages of a range of virtual pages.
Mapped(pg, vs) == {pg.leaf[v] : v \in vs \cap VPages} \ {0}
pg_unmap(m, vs) ==
  [m EXCEPT !.ram.free = @ \cup (Mapped(m.pg, vs) \ {NullPage}),
            !.pg.leaf = [v \in VPages |-> IF v \in vs THEN 0 ELSE @[v]],
            !.ok = @ /\ NullPage \notin Mapped(m.pg, vs)]

\* freewalk(): the tables and the root; a mapping that is left is a panic.
freewalk(m) ==
  [m EXCEPT !.ram.free = @ \cup (({m.pg.tab[r] : r \in Regions} \cup {m.pg.root}) \ {0}),
            !.pg = NoTable,
            !.ok = @ /\ \A v \in VPages : m.pg.leaf[v] = 0]

\* Mutant: the stack is forgotten.
pg_user_vmfreeNoStack(m, size) ==
  freewalk([pg_unmap(m, 1..Span * size) EXCEPT !.pg.leaf = [v \in VPages |-> 0]])

\* pg_user_vmfree(): Span pages for every page of the size, from page 1 on.
\* (The count is the size divided by PG_4K_SHIFT, not by the page size.)
pg_user_vmfree(m, size) == freewalk(pg_unmap(pg_unmap(m, 1..Span * size), Stack))

\* free_task_pgtable(): trampoline and trapframe are not the task's to free.
free_task_pgtable(m, size) == pg_user_vmfree(m, size)

\* create_task_pgtable(): a root, and a table for trampoline and trapframe.
create_task_pgtable(m) ==
  LET a == [TakePage(m) EXCEPT !.pg = [NoTable EXCEPT !.root = NextPage(m)]]
      b == pte_walk(a, "top")
  IN IF ~CanAlloc(m) THEN Fail(m)
     ELSE IF b.ok THEN b
     ELSE Fail(pg_user_vmfree([b EXCEPT !.ok = TRUE], 0))

-----------------------------------------------------------------------------
(* exec                                                                     *)

\* load_segment(): a page and its mapping; the result of the mapping is not
\* looked at, and the page is lost when it failed.
LoadPage(m, v) ==
  LET w == mappages(TakePage(m), v, NextPage(m)) IN
  IF ~m.ok THEN m
  ELSE IF ~CanAlloc(m) THEN Fail(m)
  ELSE IF w.ok THEN w ELSE [w EXCEPT !.ok = TRUE, !.leak = TRUE]
Load(m, n) ==
  LET st[i \in 0..n] == IF i = 0 THEN m ELSE LoadPage(st[i - 1], i)
  IN st[n]

\* _map_user_stack(): the result of the allocation is not looked at either.
StackPage(m, v) ==
  LET a == IF CanAlloc(m) THEN TakePage(m) ELSE m
      w == mappages(a, v, IF CanAlloc(m) THEN NextPage(m) ELSE NullPage)
  IN IF w.ok THEN w ELSE [w EXCEPT !.ok = TRUE, !.leak = @ \/ CanAlloc(m)]
map_user_stack(m) ==
  LET st[i \in 0..StackPages] == IF i = 0 THEN m ELSE StackPage(st[i - 1], LowTop + i)
  IN st[StackPages]

\* The arguments go to the top of the stack.
ArgsFit(m) == m.pg.leaf[LowTop + StackPages] \in PPages

Clear(t) == walk[t].root = 0
Runs(t) == ~kpanic /\ Clear(t)

Counted == asteps < MaxASteps /\ asteps' = asteps + 1

\* After a clean-up: memory, and a panic when one was met; bad when there was
\* more to free than it looks for.
Leaves(m, bad) == /\ ram' = m.ram /\ kpanic' = ~m.ok /\ spoilt' = (spoilt \/ m.leak \/ bad)
                  /\ UNCHANGED stale

\* The heap has been further than the pages pg_user_vmfree() looks for.
Far(h) == h.max > 2 * (Span * h.size + 1)
\* Program or heap pages of a table whose size is still 0.
Uncounted(pg) == \E v \in Low : pg.leaf[v] # 0

\* kexec() reads the file through a page of its own, taken first and given
\* back at the end whatever has happened.
CanExec == CanAlloc(MemOf(NoTable))
Buffer == NextPage(MemOf(NoTable))
WithBuffer == TakePage(MemOf(NoTable))
ExecTable == create_task_pgtable(WithBuffer)
GivesBuffer(m) == [m EXCEPT !.ram.free = @ \cup {Buffer}]

\* No page for it: a panic.
ExecOom(t) ==
  /\ Counted /\ Runs(t) /\ ~CanExec /\ kpanic' = TRUE /\ spoilt' = TRUE
  /\ UNCHANGED <<ram, space, heap, walk, stale>>

\* kexec(): everything is built beside the old page table, which is freed when
\* nothing can fail any more; its heap is freed in a second pass.
kexec(t, n) ==
  LET c == ExecTable
      m == GivesBuffer(map_user_stack(Load(c, n)))
      old == free_task_pgtable([m EXCEPT !.pg = space[t]], heap[t].size)
  IN /\ Counted /\ Runs(t) /\ CanExec /\ c.ok /\ Load(c, n).ok /\ ArgsFit(m)
     /\ space' = [space EXCEPT ![t] = m.pg]
     /\ heap' = [heap EXCEPT ![t] = [size |-> n + 1, start |-> 2 * (n + 1),
                                     brk |-> 2 * (n + 1), max |-> 2 * (n + 1)]]
     /\ IF space[t].root = 0
        THEN Leaves(m, FALSE) /\ UNCHANGED walk
        ELSE /\ Leaves(old, Far(heap[t]))
             /\ walk' = [walk EXCEPT ![t] = [root |-> space[t].root, from |-> heap[t].start \div 2]]

\* kexec() fails: without a page table nothing is left behind; while loading
\* a page for want of memory, when the program has not been counted yet; or
\* for want of a stack, of which physical address 0 is freed.
ExecFails(t, n) ==
  LET c == ExecTable
      l == GivesBuffer(Load(c, n))
      m == GivesBuffer(map_user_stack(Load(c, n)))
  IN /\ Counted /\ Runs(t) /\ CanExec
     /\ \/ ~c.ok /\ Leaves([GivesBuffer(c) EXCEPT !.ok = TRUE], FALSE)
        \/ c.ok /\ ~l.ok /\ Leaves(free_task_pgtable([l EXCEPT !.ok = TRUE], 0), Uncounted(l.pg))
        \/ c.ok /\ l.ok /\ ~ArgsFit(m) /\ Leaves(free_task_pgtable(m, n + 1), TRUE)
     /\ UNCHANGED <<space, heap, walk>>

\* A page of the program cannot be read: k pages are mapped by then.
ReadFails(t, n, k) ==
  LET c == ExecTable
      l == GivesBuffer(Load(c, k))
  IN /\ Counted /\ Runs(t) /\ CanExec /\ k < n /\ c.ok /\ l.ok
     /\ Leaves(free_task_pgtable(l, 0), Uncounted(l.pg))
     /\ UNCHANGED <<space, heap, walk>>

-----------------------------------------------------------------------------
(* fork, exit and the heap                                                  *)

\* One page of vm_pagetbl_copy_asign(): a new page with the same contents.  What
\* is not mapped, or to physical address 0, is passed over.
CopyPage(m, pg, v) ==
  LET p == NextPage(m)
      a == [TakePage(m) EXCEPT !.ram.val[p] = ram.val[pg.leaf[v]]]
      w == mappages(a, v, p)
  IN IF ~m.ok \/ pg.leaf[v] \notin PPages THEN m
     ELSE IF ~CanAlloc(m) THEN Fail(m)
     ELSE IF w.ok THEN w
     ELSE Fail([w EXCEPT !.ram.free = @ \cup {p}])

\* n pages from page v on.
vm_pagetbl_copy_asign(m, pg, v, n) ==
  LET st[i \in 0..n] == IF i = 0 THEN m ELSE CopyPage(st[i - 1], pg, v + i - 1)
  IN st[n]

\* The end of a heap, as far as the stack.
UpToStack(e) == IF e > 2 * (LowTop + 1) THEN 2 * (LowTop + 1) ELSE e

\* Mutant: the heap up to its present end only.
HeapCopiedBrk(h) == (UpToStack(h.brk) - h.start + 1) \div 2

\* The pages of the heap that fork copies: as far as it ever was.
HeapCopied(h) == (UpToStack(h.max) - h.start + 1) \div 2

\* What fork copies: the program, the stack and the heap.
ForkMem(t) ==
  LET h == heap[t]
      prog == vm_pagetbl_copy_asign(create_task_pgtable(MemOf(NoTable)), space[t], 1, h.size - 1)
      stack == vm_pagetbl_copy_asign(prog, space[t], LowTop + 1, StackPages)
  IN vm_pagetbl_copy_asign(stack, space[t], h.start \div 2, HeapCopied(h))

Idle(u) == space[u].root = 0 /\ Clear(u)
Forks(t, u) == Counted /\ Runs(t) /\ space[t].root # 0 /\ Idle(u)

\* A heap that reaches over the stack is copied over the child's stack.
Overlaps(t) == \E v \in Stack : 2 * v < heap[t].max /\ space[t].leaf[v] \in PPages

kfork(t, u) ==
  /\ Forks(t, u) /\ ForkMem(t).ok /\ ~Overlaps(t)
  /\ Leaves(ForkMem(t), FALSE)
  /\ space' = [space EXCEPT ![u] = ForkMem(t).pg]
  /\ heap' = [heap EXCEPT ![u] = heap[t]]
  /\ UNCHANGED walk

\* mappages() finds the stack mapped: a panic.
ForkRemaps(t, u) ==
  /\ Forks(t, u) /\ ForkMem(t).ok /\ Overlaps(t) /\ CanAlloc(ForkMem(t))
  /\ kpanic' = TRUE /\ spoilt' = TRUE
  /\ UNCHANGED <<ram, space, heap, walk, stale>>

\* fork fails: free_task() while the size of the child is still 0.
ForkFails(t, u) ==
  LET m == ForkMem(t) IN
  /\ Forks(t, u) /\ (~m.ok \/ (Overlaps(t) /\ ~CanAlloc(m)))
  /\ Leaves(IF m.pg.root = 0 THEN [m EXCEPT !.ok = TRUE]
            ELSE free_task_pgtable([m EXCEPT !.ok = TRUE], 0), Uncounted(m.pg))
  /\ UNCHANGED <<space, heap, walk>>

\* kexit(): the page table, then the walk for the heap.
kexit(t) ==
  LET m == free_task_pgtable(MemOf(space[t]), heap[t].size) IN
  /\ Counted /\ Runs(t) /\ space[t].root # 0
  /\ Leaves(m, Far(heap[t]))
  /\ space' = [space EXCEPT ![t] = NoTable]
  /\ heap' = [heap EXCEPT ![t] = NoHeap]
  /\ walk' = [walk EXCEPT ![t] = [root |-> space[t].root, from |-> heap[t].start \div 2]]

\* do_free_task_heap(): walks from a root that was freed before.  A root that
\* is still free is all zero.  One that is another task's root by now gives the
\* walk that task's pages; what it does to a page in use otherwise is not
\* modelled, and nothing is claimed from there on.
do_free_task_heap(t) ==
  LET owner == {s \in Procs : space[s].root = walk[t].root}
      s == CHOOSE x \in owner : TRUE
      m == pg_unmap(MemOf(space[s]), {v \in VPages : v >= walk[t].from})
  IN /\ ~kpanic /\ ~Clear(t)
     /\ walk' = [walk EXCEPT ![t] = NoWalk]
     /\ stale' = (stale \/ walk[t].root \notin ram.free)
     /\ IF owner = {} THEN UNCHANGED <<ram, space, kpanic>>
        ELSE ram' = m.ram /\ kpanic' = ~m.ok /\ space' = [space EXCEPT ![s] = m.pg]
     /\ UNCHANGED <<heap, spoilt, asteps>>

\* sys_sbrk(): only numbers change.  The code has no upper bound; MaxBrk is
\* the model's, and lies above the stack.
sys_sbrk(t, d) ==
  /\ Counted /\ Runs(t) /\ space[t].root # 0
  /\ heap[t].brk + d >= heap[t].start /\ heap[t].brk + d <= MaxBrk
  /\ heap' = [heap EXCEPT ![t].brk = @ + d,
                          ![t].max = IF heap[t].brk + d > @ THEN heap[t].brk + d ELSE @]
  /\ UNCHANGED <<ram, space, walk, kpanic, spoilt, stale>>

InHeap(t, a) == a >= heap[t].start /\ a < heap[t].brk

\* A program stores to one of its pages.  (Which pages of the program are
\* data and which are read-only text is not told apart.)
Store(t, v, x) ==
  /\ Runs(t) /\ space[t].leaf[v] \in PPages
  /\ ram' = [ram EXCEPT !.val[space[t].leaf[v]] = x]
  /\ UNCHANGED <<space, heap, walk, kpanic, spoilt, stale, asteps>>

\* do_page_fault(), and do_page_fault_with_new_pa() for the kernel's copies: a
\* new page, when the address is in the heap and there is memory.
FaultPage(t, a) == mappages(TakePage(MemOf(space[t])), a \div 2, NextPage(MemOf(space[t])))
Faults(t, a) == Runs(t) /\ space[t].root # 0 /\ (a \div 2) \in VPages /\ space[t].leaf[a \div 2] = 0
Served(t, a) == InHeap(t, a) /\ CanAlloc(MemOf(space[t])) /\ FaultPage(t, a).ok

do_page_fault(t, a) ==
  /\ Counted /\ Faults(t, a) /\ Served(t, a)
  /\ Leaves(FaultPage(t, a), FALSE)
  /\ space' = [space EXCEPT ![t] = FaultPage(t, a).pg]
  /\ UNCHANGED <<heap, walk>>

\* The fault cannot be served: the task is to be killed, and ends.  (init is
\* spared by kexit() and faults again, which changes nothing here.)
FaultKills(t, a) == Faults(t, a) /\ ~Served(t, a) /\ kexit(t)

Halted == (kpanic \/ asteps = MaxASteps) /\ UNCHANGED asVars

ANext ==
  \/ \E t \in Procs :
       \/ ExecOom(t)
       \/ \E n \in 1..MaxSeg : \/ kexec(t, n) \/ ExecFails(t, n)
                               \/ \E k \in 0..n - 1 : ReadFails(t, n, k)
       \/ \E u \in Procs : kfork(t, u) \/ ForkRemaps(t, u) \/ ForkFails(t, u)
       \/ kexit(t) \/ do_free_task_heap(t)
       \/ \E d \in Deltas : sys_sbrk(t, d)
       \/ \E v \in VPages, x \in Stored : Store(t, v, x)
       \/ \E a \in 2..MaxBrk - 1 : do_page_fault(t, a) \/ FaultKills(t, a)
  \/ Halted

ASpec == AInit /\ [][ANext]_asVars

-----------------------------------------------------------------------------
(* Properties                                                               *)

\* Every use of a physical page: <<task, "leaf" | "tab" | "root", where>>.
Uses == {<<t, "leaf", v>> : t \in Procs, v \in VPages} \cup {<<t, "tab", r>> : t \in Procs, r \in Regions}
        \cup {<<t, "root", 0>> : t \in Procs}
PageOf(u) == CASE u[2] = "leaf" -> space[u[1]].leaf[u[3]]
               [] u[2] = "tab" -> space[u[1]].tab[u[3]]
               [] u[2] = "root" -> space[u[1]].root
InUse == {u \in Uses : PageOf(u) \in PPages}

\* A physical page has one use: no two address spaces share a page, no page is
\* both data and page table, and no page in use is on the free list, through
\* fork, exec and their failures.
PagesPrivate ==
  /\ \A u, w \in InUse : PageOf(u) = PageOf(w) => u = w
  /\ \A u \in InUse : PageOf(u) \notin ram.free

\* Whatever way an address space ends, its pages are free again, and the
\* kernel has not panicked: unless pages were mapped that the clean-up does
\* not look for.
PagesReturned == ~spoilt => ~kpanic /\ PPages \ ram.free = {PageOf(u) : u \in InUse}

\* Every page that is mapped is one of the program, the stack, or the heap as
\* far as it ever was.
MappedWithin ==
  \A t \in Procs : \A v \in VPages :
    space[t].leaf[v] # 0 =>
      v \in Stack \/ v < heap[t].size \/ (2 * v >= heap[t].start /\ 2 * v < heap[t].max)

\* What a program sees of its memory.
Sees(t, v) == IF space[t].leaf[v] \in PPages THEN ram.val[space[t].leaf[v]] ELSE 0

\* A child starts with the memory of its father, page for page, and the father
\* keeps his own.
ForkCopies ==
  [][\A t, u \in Procs :
       (kfork(t, u) /\ space[u].root = 0 /\ ~stale) =>
         \A v \in VPages : /\ Sees(u, v)' = Sees(t, v) /\ Sees(t, v)' = Sees(t, v)
                           /\ (space'[u].leaf[v] = 0 <=> space[t].leaf[v] = 0)]_asVars

\* What one task stores, another never sees: its memory changes only by its
\* own steps.
Isolated ==
  [][\A t \in Procs :
       (~stale' /\ \E s \in Procs \ {t} : (\E v \in VPages, x \in Stored : Store(s, v, x)) \/ kexit(s)
                               \/ do_free_task_heap(s) \/ \E n \in 1..MaxSeg : kexec(s, n)) =>
         \A v \in VPages : Sees(t, v)' = Sees(t, v)]_asVars

\* Until a clean-up looks for a heap from a root that is in use again
\* (kexit() and kexec() free the page table before the heap), physical pages
\* are neither shared nor lost, and the clean-up can find them.
PagesSound == ~stale => PagesPrivate /\ PagesReturned /\ MappedWithin

\* A child gets a copy of the memory of its father, and from then on what one
\* task does is not seen by another, until a clean-up looks for a heap from a
\* root that is in use again.
MemoryPrivate == ForkCopies /\ Isolated
=============================================================================
