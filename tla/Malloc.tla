------------------------------- MODULE Malloc --------------------------------
(***************************************************************************)
(* The user library's allocator (user/malloc.c): blocks with a header,     *)
(* first fit without splitting, neighbours merged when freed, the heap     *)
(* grown by sbrk() (external here; the kernel's side is in AddressSpace).  *)
(* Processes share no memory, so heap_lock is never contended and a call   *)
(* is one step.  An address is a number; a header is not a cell of mem.    *)
(***************************************************************************)
EXTENDS Integers, FiniteSets, FiniteSetsExt

CONSTANTS Hdr,        \* BLK_HDR
          Align,      \* ALIGN, of which BLK_HDR is a multiple
          Requests,   \* sizes asked for
          Tags,       \* what callers write
          MaxHeap,    \* bound: where sbrk() starts to refuse
          MaxLive     \* bound: allocations held at a time

ASSUME MallocAssumption ==
  /\ Align \in Nat \ {0} /\ Hdr \in Nat \ {0} /\ Hdr % Align = 0
  /\ Requests \subseteq Nat \ {0} /\ MaxHeap \in Nat /\ MaxLive \in Nat

VARIABLES
  blk,      \* header of each block: its size, whether it is free, and its neighbours
  htail,    \* heap_tail (heap_head never changes once set: it is the lowest block)
  brk,      \* where the heap ends
  mem,      \* the payload cells
  held      \* history: what callers hold: length, and the tag they wrote into it

mVars == <<blk, htail, brk, mem, held>>

Nil == 0 - 1
ALIGN_UP(n) == ((n + Align - 1) \div Align) * Align
Cells(p, n) == p..p + n - 1

MInit ==
  /\ blk = [b \in {} |-> 0] /\ htail = Nil /\ brk = 0
  /\ mem = [a \in 0..MaxHeap - 1 |-> 0]
  /\ held = [p \in {} |-> 0]

-----------------------------------------------------------------------------
(* The state after malloc(n), n # 0, and the block it gives: the first free *)
(* block that is large enough, whole, or a new one at the end.              *)
Fits(n) == {b \in DOMAIN blk : blk[b].free /\ blk[b].size >= ALIGN_UP(n)}

grow_heap(n) ==
  [at |-> brk, brk |-> brk + ALIGN_UP(ALIGN_UP(n) + Hdr), tail |-> brk,
   blk |-> [b \in DOMAIN blk \cup {brk} |->
              IF b = brk THEN [size |-> ALIGN_UP(ALIGN_UP(n) + Hdr) - Hdr, free |-> FALSE, next |-> Nil, prev |-> htail]
              ELSE IF b = htail THEN [blk[b] EXCEPT !.next = brk] ELSE blk[b]]]

TookShort(n) ==
  IF {b \in DOMAIN blk : blk[b].free} # {}
  THEN LET b == Min({c \in DOMAIN blk : blk[c].free})
       IN [at |-> b, brk |-> brk, tail |-> htail, blk |-> [blk EXCEPT ![b].free = FALSE]]
  ELSE grow_heap(n)

Took(n) ==
  IF Fits(n) # {}
  THEN [at |-> Min(Fits(n)), brk |-> brk, tail |-> htail, blk |-> [blk EXCEPT ![Min(Fits(n))].free = FALSE]]
  ELSE grow_heap(n)

(* free(): the run of free blocks that follows is taken in, then the block  *)
(* before, if that is free; the last block of the list is the tail.         *)
FreeRun(bl, b) == {c \in DOMAIN bl : c > b /\ \A d \in DOMAIN bl : (b < d /\ d <= c) => bl[d].free}

MergedInto(bl, b, gone) ==
  LET last == IF gone = {} THEN b ELSE Max(gone)
      next == bl[last].next
  IN [c \in DOMAIN bl \ gone |->
        IF c = b THEN [size |-> last + bl[last].size - b, free |-> TRUE, next |-> next, prev |-> bl[b].prev]
        ELSE IF c = next THEN [bl[c] EXCEPT !.prev = b] ELSE bl[c]]

FreedStale(bl, b) ==
  LET fwd == MergedInto(bl, b, FreeRun(bl, b))
      prev == fwd[b].prev
  IN IF prev # Nil /\ fwd[prev].free
     THEN [blk |-> MergedInto([fwd EXCEPT ![b].next = bl[b].next], prev, {b}), at |-> prev]
     ELSE [blk |-> fwd, at |-> b]

Freed(bl, b) ==
  LET fwd == MergedInto(bl, b, FreeRun(bl, b))
      prev == fwd[b].prev
  IN IF prev # Nil /\ fwd[prev].free THEN [blk |-> MergedInto(fwd, prev, {b}), at |-> prev]
     ELSE [blk |-> fwd, at |-> b]

FreedTail(f, tail) == IF f.blk[f.at].next = Nil THEN f.at ELSE tail

-----------------------------------------------------------------------------
\* the caller writes its tag into the cells from place i on
Filled(m, p, i, n, tag) == [a \in DOMAIN m |-> IF a \in Cells(p, n) \ Cells(p, i) THEN tag ELSE m[a]]

Holding(p, n, tag) ==
  [q \in DOMAIN held \cup {p} |-> IF q = p THEN [len |-> n, tag |-> tag] ELSE held[q]]

\* sbrk() refuses only what the bound cuts off: malloc() returns NULL and nothing changes
MayTake(n) == Took(n).brk <= MaxHeap /\ Cardinality(DOMAIN held) < MaxLive

malloc(n, tag) ==
  /\ MayTake(n)
  /\ LET t == Took(n)
     IN /\ blk' = t.blk /\ htail' = t.tail /\ brk' = t.brk
        /\ mem' = Filled(mem, t.at + Hdr, 0, n, tag)
        /\ held' = Holding(t.at + Hdr, n, tag)

(* calloc(): the cells are zeroed before the caller sees them (tag 0).      *)
calloc(n) == malloc(n, 0)

Free(p) ==
  /\ LET f == Freed([blk EXCEPT ![p - Hdr].free = TRUE], p - Hdr)
     IN blk' = f.blk /\ htail' = FreedTail(f, htail)
  /\ held' = [q \in DOMAIN held \ {p} |-> held[q]]
  /\ UNCHANGED <<brk, mem>>

\* realloc(): a block that is large enough stays where it is;
ReallocStays(p, n) ==
  /\ blk[p - Hdr].size >= n
  /\ held' = Holding(p, n, held[p].tag)
  /\ mem' = Filled(mem, p, IF held[p].len < n THEN held[p].len ELSE n, n, held[p].tag)
  /\ UNCHANGED <<blk, htail, brk>>

\* otherwise a new one is taken, the whole old payload is copied, and the old one freed
PayloadCopied(m, from, to, size) == [a \in DOMAIN m |-> IF a \in Cells(to, size) THEN m[from + (a - to)] ELSE m[a]]

ReallocMoves(p, n) ==
  /\ blk[p - Hdr].size < n /\ MayTake(n)
  /\ LET t == Took(n)
         np == t.at + Hdr
         f == Freed([t.blk EXCEPT ![p - Hdr].free = TRUE], p - Hdr)
     IN /\ blk' = f.blk /\ brk' = t.brk /\ htail' = FreedTail(f, t.tail)
        /\ mem' = Filled(PayloadCopied(mem, p, np, blk[p - Hdr].size), np, held[p].len, n, held[p].tag)
        /\ held' = [q \in (DOMAIN held \ {p}) \cup {np} |->
                      IF q = np THEN [len |-> n, tag |-> held[p].tag] ELSE held[q]]

MNext ==
  \/ \E n \in Requests : (\E tag \in Tags : malloc(n, tag)) \/ calloc(n)
  \/ \E p \in DOMAIN held : Free(p) \/ \E n \in Requests : ReallocStays(p, n) \/ ReallocMoves(p, n)

MSpec == MInit /\ [][MNext]_mVars

-----------------------------------------------------------------------------
(* The blocks tile the heap from its start to its end, next and prev are    *)
(* each other's inverse and heap_tail is the last block: a stale tail or a  *)
(* size that misses a header would hand out memory twice or lose it.        *)
BlocksTile ==
  /\ (DOMAIN blk = {}) = (htail = Nil)
  /\ \A b \in DOMAIN blk :
       LET end == b + Hdr + blk[b].size
       IN /\ IF blk[b].next = Nil THEN end = brk /\ b = htail
             ELSE end = blk[b].next /\ end \in DOMAIN blk /\ blk[end].prev = b
          /\ (blk[b].prev = Nil) = (b = 0)

(* No two free blocks are neighbours: what can be merged has been, so that  *)
(* first fit finds it.                                                      *)
NoFreeNeighbours ==
  \A b \in DOMAIN blk : (blk[b].free /\ blk[b].next \in DOMAIN blk) => ~blk[blk[b].next].free

(* Whatever was allocated, freed, merged and reallocated in between, every  *)
(* allocation is inside a block of its own that is not free, is as long as  *)
(* was asked, and still holds what its owner wrote.                         *)
OwnersKeepData ==
  \A p \in DOMAIN held :
    /\ p - Hdr \in DOMAIN blk /\ ~blk[p - Hdr].free /\ held[p].len <= blk[p - Hdr].size
    /\ \A a \in Cells(p, held[p].len) : mem[a] = held[p].tag

\* malloc(), realloc() and free() keep the heap whole and what is in it.
HeapSound == BlocksTile /\ NoFreeNeighbours /\ OwnersKeepData
=============================================================================
