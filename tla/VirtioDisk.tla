----------------------------- MODULE VirtioDisk -----------------------------
(***************************************************************************)
(* The block driver (drivers/virtio_disk.c): virtio_blk_read() and         *)
(* virtio_blk_write() over virtio_disk_rw_sync(), one step for each access *)
(* to the shared rings, and the device (external) on the other side.       *)
(*                                                                         *)
(* A request is its number; its header, buffer and status byte are fields  *)
(* of the request, so a descriptor holds the number of the request whose   *)
(* address it was given.                                                   *)
(***************************************************************************)
EXTENDS Integers, Sequences, FiniteSets

CONSTANTS DUsers,       \* tasks that call the driver
          DQSize,       \* QUEUE_SIZE, the ring size the driver counts with
          DevSize,      \* the ring size the device is told
          UsedSlot,     \* for an index, the element (idx & (QUEUE_SIZE - 1)) of the used ring
          DWord,        \* bits of an int: 1 << i wraps there
          IdxMod,       \* 2^16, the range of the ring indices
          Sectors, DVals,
          MaxReqs,      \* bound: requests
          Lazy          \* the device looks for requests only when notified

ASSUME VirtioDiskAssumption ==
  /\ DQSize \in Nat \ {0} /\ DWord \in Nat \ {0} /\ MaxReqs \in Nat /\ Lazy \in BOOLEAN
  /\ DevSize \in Nat /\ DevSize >= DQSize /\ IdxMod \in Nat /\ IdxMod >= DevSize /\ 0 \in DVals
  /\ UsedSlot \in [0..IdxMod - 1 -> 0..DQSize - 1] /\ \A i \in 0..IdxMod - 1 : UsedSlot[i] <= i

Descs == 0..DQSize - 1
RingSlots == 0..DevSize - 1
NoAns == [st |-> "none", val |-> 0]

VARIABLES
  dq,       \* the queue: free_desc_bit_map, next, NEXT flags, addresses
  ring,     \* avail ring and index, used index and the used elements written so far
  dev,      \* device: notified, next avail entry to take, requests in flight
  media,    \* the sectors
  req,      \* requests issued so far
  dcall,    \* where each task stands in the driver
  crowded   \* history: two tasks have been in the driver at once

dVars == <<dq, ring, dev, media, req, dcall, crowded>>

DIdle == [pc |-> "idle", r |-> 0, head |-> 0, last |-> 0]

DInit ==
  /\ dq = [busy |-> {}, next |-> [d \in Descs |-> 0], more |-> {}, addr |-> [d \in Descs |-> 0]]
  /\ ring = [avail |-> [i \in RingSlots |-> 0], aidx |-> 0, uidx |-> 0, written |-> {}]
  /\ dev = [kick |-> FALSE, taken |-> 0, flight |-> {}]
  /\ media = [s \in Sectors |-> 0]
  /\ req = <<>> /\ dcall = [u \in DUsers |-> DIdle] /\ crowded = FALSE

-----------------------------------------------------------------------------
(* The bit (1 << i) of an int, widened to the 64 bits of the map: the shift *)
(* count wraps, and the sign bit spreads over the upper half.               *)
Bit(i) == IF i % DWord = DWord - 1 THEN DWord - 1..2 * DWord - 1 ELSE {i % DWord}

\* the loop of alloc_desc(3): each round marks the lowest descriptor whose bit is clear
Unmarked(busy) == {d \in Descs : Bit(d) \cap busy = {}}
LowestFree(busy) == CHOOSE d \in Descs : Bit(d) \cap busy = {} /\ \A e \in 0..d - 1 : Bit(e) \cap busy # {}
MarkNext(s) ==
  IF Unmarked(s.busy) = {} THEN s
  ELSE LET d == LowestFree(s.busy)
       IN [busy |-> s.busy \cup Bit(d), found |-> Append(s.found, d)]
Pass(busy) == {MarkNext(b) : b \in {MarkNext(a) : a \in {MarkNext([busy |-> busy, found |-> <<>>])}}}

RollbackNone(s) == s.busy

\* the bits of the descriptors of a failed pass are cleared again
Rollback(s) == s.busy \ UNION {Bit(s.found[k]) : k \in DOMAIN s.found}

alloc_desc(u) ==
  /\ dcall[u].pc = "alloc"
  /\ \E s \in Pass(dq.busy) :
       LET f == s.found
       IN IF Len(f) = 3
          THEN /\ dq' = [busy |-> s.busy, more |-> (dq.more \cup {f[1], f[2]}) \ {f[3]},
                         next |-> [dq.next EXCEPT ![f[1]] = f[2], ![f[2]] = f[3]], addr |-> dq.addr]
               /\ dcall' = [dcall EXCEPT ![u] = [pc |-> "fill", r |-> dcall[u].r, head |-> f[1], last |-> 0]]
          ELSE /\ dq' = [busy |-> Rollback(s), more |-> dq.more \ {f[k] : k \in DOMAIN f},
                         next |-> dq.next, addr |-> dq.addr]
               /\ UNCHANGED dcall
  /\ UNCHANGED <<ring, dev, media, req, crowded>>

\* the descriptors that free_desc(head) reaches
DescChain(h) ==
  LET m == dq.next[h]
  IN IF h \notin dq.more THEN {h} ELSE IF m \notin dq.more THEN {h, m} ELSE {h, m, dq.next[m]}

FreedBitsHead(h) == dq.busy \ Bit(h)
FreedBits(h) == dq.busy \ UNION {Bit(d) : d \in DescChain(h)}

free_desc(h) ==
  dq' = [busy |-> FreedBits(h), more |-> dq.more \ DescChain(h), next |-> dq.next, addr |-> dq.addr]

-----------------------------------------------------------------------------
(* virtio_blk_read() and virtio_blk_write() build a request; the page it    *)
(* lives in is zero, so its status byte starts as 0.                        *)
Issue(u, op, s, v) ==
  /\ dcall[u].pc = "idle" /\ Len(req) < MaxReqs
  /\ req' = Append(req, [op |-> op, sec |-> s, buf |-> v, st |-> 0, ans |-> NoAns, ret |-> "none"])
  /\ dcall' = [dcall EXCEPT ![u] = [pc |-> "alloc", r |-> Len(req) + 1, head |-> 0, last |-> 0]]
  /\ crowded' = (crowded \/ \E w \in DUsers : dcall[w].pc # "idle")
  /\ UNCHANGED <<dq, ring, dev, media>>

virtio_blk_read(u) == \E s \in Sectors : Issue(u, "read", s, 0)

virtio_blk_write(u) == \E s \in Sectors, v \in DVals \ {0} : Issue(u, "write", s, v)

\* the three descriptors of virtio_disk_rw_sync()
Fill(u) ==
  /\ dcall[u].pc = "fill"
  /\ LET h == dcall[u].head
         m == dq.next[h]
         t == dq.next[m]
     IN dq' = [busy |-> dq.busy, more |-> (dq.more \cup {h, m}) \ {t}, next |-> dq.next,
               addr |-> [dq.addr EXCEPT ![h] = dcall[u].r, ![m] = dcall[u].r, ![t] = dcall[u].r]]
  /\ dcall' = [dcall EXCEPT ![u].pc = "ring"]
  /\ UNCHANGED <<ring, dev, media, req, crowded>>

RingEntry(u) ==
  /\ dcall[u].pc = "ring"
  /\ ring' = [avail |-> [ring.avail EXCEPT ![ring.aidx % DQSize] = dcall[u].head],
              aidx |-> ring.aidx, uidx |-> ring.uidx, written |-> ring.written]
  /\ dcall' = [dcall EXCEPT ![u].pc = "publish"]
  /\ UNCHANGED <<dq, dev, media, req, crowded>>

Publish(u) ==
  /\ dcall[u].pc = "publish"
  /\ ring' = [avail |-> ring.avail, aidx |-> (ring.aidx + 1) % IdxMod, uidx |-> ring.uidx, written |-> ring.written]
  /\ dcall' = [dcall EXCEPT ![u].pc = "last"]
  /\ UNCHANGED <<dq, dev, media, req, crowded>>

ReadLastOff(u) ==
  /\ dcall[u].pc = "last"
  /\ dcall' = [dcall EXCEPT ![u] = [pc |-> "notify", r |-> dcall[u].r, head |-> dcall[u].head,
                                         last |-> (ring.uidx + IdxMod - 1) % IdxMod]]
  /\ UNCHANGED <<dq, ring, dev, media, req, crowded>>

ReadLast(u) ==
  /\ dcall[u].pc = "last"
  /\ dcall' = [dcall EXCEPT ![u] = [pc |-> "notify", r |-> dcall[u].r, head |-> dcall[u].head, last |-> ring.uidx]]
  /\ UNCHANGED <<dq, ring, dev, media, req, crowded>>

Notify(u) ==
  /\ dcall[u].pc = "notify"
  /\ dev' = [kick |-> TRUE, taken |-> dev.taken, flight |-> dev.flight]
  /\ dcall' = [dcall EXCEPT ![u].pc = "wait"]
  /\ UNCHANGED <<dq, ring, media, req, crowded>>

Returned(q, how) ==
  [op |-> q.op, sec |-> q.sec, buf |-> q.buf, st |-> q.st, ans |-> q.ans, ret |-> how]

\* Is the element the length is read from still the zero it began with?  Its len
\* - 1 is then the -1 that callers take for a failure.  QUEUE_SIZE - 1 is no mask:
\* the element is mostly that of an earlier request.
LengthUnset == UsedSlot[(ring.uidx + IdxMod - 1) % IdxMod] \notin ring.written

\* the used index has moved: look at the status byte, give the descriptors back, return
Finish(u) ==
  /\ dcall[u].pc = "wait" /\ ring.uidx # dcall[u].last
  /\ free_desc(dcall[u].head)
  /\ req' = [req EXCEPT ![dcall[u].r] = Returned(@, IF @.st # 0 \/ LengthUnset THEN "failed" ELSE "ok")]
  /\ dcall' = [dcall EXCEPT ![u] = DIdle]
  /\ UNCHANGED <<ring, dev, media, crowded>>

-----------------------------------------------------------------------------
(* The device (external): it takes the entries of the avail ring in order,  *)
(* serves them in any order, and may fail a request.                        *)
DevTake ==
  /\ dev.kick /\ dev.taken # ring.aidx
  /\ LET h == ring.avail[dev.taken % DevSize]
         m == dq.next[h]
         t == dq.next[m]
         seen == (dev.taken + 1) % IdxMod
     IN dev' = [kick |-> IF Lazy THEN seen # ring.aidx ELSE TRUE, taken |-> seen,
                flight |-> dev.flight \cup {[head |-> h, hdr |-> dq.addr[h], buf |-> dq.addr[m], st |-> dq.addr[t]]}]
  /\ UNCHANGED <<dq, ring, media, req, dcall, crowded>>

LookAgain ==
  /\ dev.kick /\ dev.taken = ring.aidx
  /\ dev' = [kick |-> FALSE, taken |-> dev.taken, flight |-> dev.flight]
  /\ UNCHANGED <<dq, ring, media, req, dcall, crowded>>

\* the next element of the used ring, whose len is never 0, and the index
Used == ring' = [avail |-> ring.avail, aidx |-> ring.aidx, uidx |-> (ring.uidx + 1) % IdxMod,
                 written |-> ring.written \cup {ring.uidx % DevSize}]

\* the data, the status byte and (history) the answer, through the addresses of the chain
DevWrites(f, buf, st, ans) ==
  req' = [i \in DOMAIN req |->
           [op |-> req[i].op, sec |-> req[i].sec, ret |-> req[i].ret,
            buf |-> IF i = f.buf THEN buf ELSE req[i].buf,
            st |-> IF i = f.st THEN st ELSE req[i].st,
            ans |-> IF i = f.hdr THEN ans ELSE req[i].ans]]

Complete(f) ==
  /\ dev' = [kick |-> dev.kick, taken |-> dev.taken, flight |-> dev.flight \ {f}]
  /\ UNCHANGED <<dq, dcall, crowded>>

Serve(f) ==
  /\ LET r == req[f.hdr]
         v == IF r.op = "read" THEN media[r.sec] ELSE req[f.buf].buf
     IN /\ DevWrites(f, v, 0, [st |-> "ok", val |-> v])
        /\ media' = IF r.op = "read" THEN media ELSE [media EXCEPT ![r.sec] = v]
  /\ Used /\ Complete(f)

Reject(f) ==
  /\ DevWrites(f, req[f.buf].buf, 1, [st |-> "failed", val |-> 0])
  /\ UNCHANGED media
  /\ Used /\ Complete(f)

Driver(u) == alloc_desc(u) \/ Fill(u) \/ RingEntry(u) \/ Publish(u) \/ ReadLast(u) \/ Notify(u) \/ Finish(u)

DNext ==
  \/ \E u \in DUsers : virtio_blk_read(u) \/ virtio_blk_write(u)
  \/ \E u \in DUsers : Driver(u)
  \/ DevTake \/ LookAgain
  \/ \E f \in dev.flight : Serve(f) \/ Reject(f)

DSpec == DInit /\ [][DNext]_dVars

\* Harts keep running and so does the device; failing a request is its choice.
DFair ==
  /\ \A u \in DUsers : WF_dVars(Driver(u))
  /\ WF_dVars(DevTake) /\ WF_dVars(LookAgain)
  /\ WF_dVars(\E f \in dev.flight : Serve(f) \/ Reject(f))

-----------------------------------------------------------------------------
InFlight == {u \in DUsers : dcall[u].pc \notin {"idle", "alloc"}}

(* However many tasks are in the driver: every pending request has three    *)
(* descriptors of its own, and the bit map marks exactly those, whatever    *)
(* passes of alloc_desc() had to be rolled back.                            *)
DescsOwned ==
  /\ \A u \in InFlight : Cardinality(DescChain(dcall[u].head)) = 3
  /\ \A u, w \in InFlight : u # w => DescChain(dcall[u].head) \cap DescChain(dcall[w].head) = {}
  /\ dq.busy = UNION {Bit(d) : d \in UNION {DescChain(dcall[u].head) : u \in InFlight}}

\* The request has been answered and its caller was told exactly that answer.
Answered(r) ==
  /\ r.ret = r.ans.st
  /\ r.ret = "ok" => r.buf = r.ans.val

(* While the tasks use the driver one at a time: a call returns only after  *)
(* the device served that very request, reports success or failure as the   *)
(* device did, though its two ends count the rings with different sizes and *)
(* the length comes from the wrong element, and a read delivers what the    *)
(* device wrote.  (The length itself may be another request's: no caller    *)
(* uses more than its sign.)                                                *)
OwnAnswer ==
  ~crowded => \A i \in DOMAIN req : req[i].ret # "none" => Answered(req[i])

(* While the tasks use the driver one at a time: the device never holds a   *)
(* request whose page and buffer its caller has taken back.                 *)
NoLateTransfer ==
  ~crowded => \A f \in dev.flight : \A i \in {f.hdr, f.buf, f.st} : req[i].ret = "none"

(* A task that is alone in the driver gets out of it again.                 *)
DReturns == \A u \in DUsers : (dcall[u].pc # "idle") ~> (dcall[u].pc = "idle" \/ crowded)

\* virtio_disk_rw_sync() returns with the answer to its own request, and with
\* nothing of it left at the device.
RequestsServed == OwnAnswer /\ NoLateTransfer
=============================================================================
