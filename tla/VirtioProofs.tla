---------------------------- MODULE VirtioProofs ----------------------------
(***************************************************************************)
(* Proofs about the users of a virtqueue: virtqueue_send() of              *)
(* drivers/virtio_mmio.c (Virtqueue), the block driver of                  *)
(* drivers/virtio_disk.c (VirtioDisk), the keyboard of                     *)
(* drivers/virtio_keyboard.c (Keyboard), the screen of                     *)
(* drivers/tty/gpu_tty.c and drivers/gpu/kgfx.c (Screen), and of the       *)
(* terminal of drivers/tty.c, which reads the one and writes the other     *)
(* (Tty).                                                                  *)
(*                                                                         *)
(*   CommandsServedHolds     VSpec => []CommandsServed                     *)
(*   DescsOwnedHolds         DSpec => []DescsOwned                         *)
(*   RequestsServedHolds     DSpec => []RequestsServed                     *)
(*   KeysDeliveredHolds      KSpec => []KeysDelivered                      *)
(*   OneCursorHolds          SSpec => []OneCursor                          *)
(*   LinesDeliveredHolds     TSpec => []LinesDelivered                     *)
(*                                                                         *)
(* The argument for the first two is the same: while they are used one     *)
(* request at a time, that request is in one of three phases (published,   *)
(* held by the device, answered), the used index tells the last from the   *)
(* first two, and nothing else is at the device.  The block driver needs   *)
(* the chains of the descriptors first, and those however many tasks are   *)
(* inside at once.                                                         *)
(*                                                                         *)
(* The keyboard goes the other way round: all its buffers are at the device *)
(* but the few that it has filled and the driver has not read.  KInv counts *)
(* events: the used ring holds the events from the n-th on, and what the   *)
(* driver has made of the first n is the meaning of those n events.        *)
(*                                                                         *)
(* On the screen every operation is followed cell by cell of the window:   *)
(* between two characters a cursor is where the terminal is, and while a   *)
(* character is put there is none.                                         *)
(*                                                                         *)
(* The line of the terminal is a stack of the keys typed.  For each of its *)
(* characters the invariant knows the key it was and that, of the keys     *)
(* after that one, the characters outnumber the erasures by as many as the *)
(* line has behind it: an erasure takes the character with no surplus.     *)
(***************************************************************************)
EXTENDS Virtqueue, VirtioDisk, Keyboard, Screen, Tty, NatLemmas, TLAPS, WellFoundedInduction, FiniteSetTheorems, SequenceTheorems

(***************************************************************************)
(* Virtqueue: the GPU's command queue                                      *)
(***************************************************************************)

\* The values of a ring index, and of the variables.
VIndices == 0..VIdxMod - 1
VFlights == [at : VIndices, cmd : Nat, resp : Nat]

VQueues == [busy : SUBSET VDescs, next : [VDescs -> VDescs], cmd : [VDescs -> Nat],
            avail : [VDescs -> VDescs], aidx : VIndices, uidx : VIndices]
VLocks == [by : VUsers \cup {0}, i0 : VDescs, i1 : VDescs, old : VIndices, n : Nat]
VSends == [answered : BOOLEAN, ret : {"none", "ok", "timeout"}]

QTypeOK ==
  /\ vq \in VQueues
  /\ vlock \in VLocks
  /\ vdev \in [taken : VIndices, flight : SUBSET VFlights]
  /\ sends \in Seq(VSends)
  /\ late \in BOOLEAN

\* Between calls the bit map is empty, and the holder of vq_lock has exactly its
\* own two descriptors.
HolderInv ==
  /\ NeverFull
  /\ vlock # VFree => /\ vlock.i0 # vlock.i1 /\ vq.busy = {vlock.i0, vlock.i1}
                      /\ vlock.n = Len(sends) /\ vlock.n > 0

\* The phases of the one command: published and not taken, at the device,
\* answered in the caller's own buffer.
Queued == /\ (vdev.taken + 1) % VIdxMod = vq.aidx /\ vdev.flight = {} /\ vq.uidx = vlock.old
          /\ vq.avail[vdev.taken % VQSize] = vlock.i0 /\ vq.next[vlock.i0] = vlock.i1
          /\ vq.cmd[vlock.i0] = vlock.n /\ vq.cmd[vlock.i1] = vlock.n
Held == /\ vdev.taken = vq.aidx /\ vq.uidx = vlock.old
        /\ \E f \in vdev.flight : vdev.flight = {f} /\ f.cmd = vlock.n /\ f.resp = vlock.n
Done == /\ vdev.taken = vq.aidx /\ vdev.flight = {} /\ vq.uidx # vlock.old
        /\ sends[vlock.n].answered

\* Until a command times out, nothing is at the device but the holder's command.
PromptInv ==
  ~late =>
    /\ vlock = VFree => vdev.taken = vq.aidx /\ vdev.flight = {}
    /\ vlock # VFree => sends[vlock.n].ret = "none" /\ (Queued \/ Held \/ Done)
    /\ \A n \in DOMAIN sends : sends[n].ret = "ok" => sends[n].answered

\* The inductive invariant of virtqueue_send() and the device.
QInv == QTypeOK /\ HolderInv /\ PromptInv

\* An index stays in range when it is advanced, and never stands still: the
\* waiter does see that the device has answered.
LEMMA Wrap == \A i \in VIndices : (i + 1) % VIdxMod \in VIndices /\ (i + 1) % VIdxMod # i
<1>1. VIdxMod \in Nat /\ VIdxMod > 1
  BY VirtqueueAssumption
<1> SUFFICES ASSUME NEW i \in VIndices PROVE (i + 1) % VIdxMod \in VIndices /\ (i + 1) % VIdxMod # i
  OBVIOUS
<1>2. CASE i + 1 < VIdxMod
  BY <1>1, <1>2 DEF VIndices
<1>3. CASE i + 1 = VIdxMod
  BY <1>1, <1>3 DEF VIndices
<1> QED BY <1>1, <1>2, <1>3 DEF VIndices

\* An index selects an entry of the ring.
LEMMA Slot == \A i \in VIndices : i % VQSize \in VDescs
BY VirtqueueAssumption DEF VIndices, VDescs

\* A send that finds the bit map empty takes the descriptors 0 and 1.
LEMMA FirstTwo ==
  ASSUME TRUE
  PROVE  /\ 0 \in VDescs /\ 1 \in VDescs
         /\ vq_find_free_desc({}) = 0 /\ vq_find_free_desc({0}) = 1
<1>1. 0 \in VDescs /\ 1 \in VDescs
  BY VirtqueueAssumption DEF VDescs
<1>2. vq_find_free_desc({}) = 0
  BY <1>1, VirtqueueAssumption DEF vq_find_free_desc, FreeDescs, VDescs
<1>3. vq_find_free_desc({0}) = 1
  BY <1>1, VirtqueueAssumption DEF vq_find_free_desc, FreeDescs, VDescs
<1> QED BY <1>1, <1>2, <1>3

\* Overwriting an element of a sequence.
LEMMA SeqPut ==
  ASSUME NEW S, NEW q \in Seq(S), NEW i \in 1..Len(q), NEW x \in S
  PROVE  /\ [q EXCEPT ![i] = x] \in Seq(S) /\ Len([q EXCEPT ![i] = x]) = Len(q)
         /\ [q EXCEPT ![i] = x][i] = x /\ \A j \in 1..Len(q) : j # i => [q EXCEPT ![i] = x][j] = q[j]
OBVIOUS

\* The fields of a command record that an update leaves alone.
LEMMA SendRecords ==
  ASSUME NEW r \in VSends, NEW a
  PROVE  /\ [r EXCEPT !.answered = a] = [answered |-> a, ret |-> r.ret]
         /\ [r EXCEPT !.ret = a] = [answered |-> r.answered, ret |-> a]
<1>1. [r EXCEPT !.answered = a] = [answered |-> a, ret |-> r.ret]
  BY DEF VSends
<1>2. [r EXCEPT !.ret = a] = [answered |-> r.answered, ret |-> a]
  BY DEF VSends
<1> QED BY <1>1, <1>2, Zenon

\* What virtqueue_send() does from the states of the invariant.
SendEffect(u) ==
  /\ vq' = [busy |-> {0, 1}, next |-> [vq.next EXCEPT ![0] = 1, ![1] = 0],
            cmd |-> [vq.cmd EXCEPT ![0] = Len(sends) + 1, ![1] = Len(sends) + 1],
            avail |-> [vq.avail EXCEPT ![vq.aidx % VQSize] = 0],
            aidx |-> (vq.aidx + 1) % VIdxMod, uidx |-> vq.uidx]
  /\ vlock' = [by |-> u, i0 |-> 0, i1 |-> 1, old |-> vq.uidx, n |-> Len(sends) + 1]
  /\ sends' = Append(sends, [answered |-> FALSE, ret |-> "none"])
  /\ vlock = VFree /\ vdev' = vdev /\ late' = late

\* virtqueue_send() does that.
LEMMA StepSend ==
  ASSUME QTypeOK, HolderInv, NEW u \in VUsers, virtqueue_send(u)
  PROVE  SendEffect(u)
<1>1. vq.busy = {} /\ vlock = VFree
  BY DEF virtqueue_send, HolderInv, NeverFull
<1>2. vq_find_free_desc(vq.busy) = 0 /\ vq.busy \cup {0} = {0} /\ vq_find_free_desc({0}) = 1 /\ {0} \cup {1} = {0, 1}
  BY <1>1, FirstTwo
<1>3. vq' = [vq EXCEPT !.busy = {0, 1}, !.next = [@ EXCEPT ![0] = 1, ![1] = 0],
                       !.cmd = [@ EXCEPT ![0] = Len(sends) + 1, ![1] = Len(sends) + 1],
                       !.avail[vq.aidx % VQSize] = 0, !.aidx = (@ + 1) % VIdxMod]
  BY <1>2, Zenon DEF virtqueue_send
<1>4. vq' = [busy |-> {0, 1}, next |-> [vq.next EXCEPT ![0] = 1, ![1] = 0],
             cmd |-> [vq.cmd EXCEPT ![0] = Len(sends) + 1, ![1] = Len(sends) + 1],
             avail |-> [vq.avail EXCEPT ![vq.aidx % VQSize] = 0],
             aidx |-> (vq.aidx + 1) % VIdxMod, uidx |-> vq.uidx]
  BY <1>3, Zenon DEF QTypeOK, VQueues
<1>5. vlock' = [by |-> u, i0 |-> 0, i1 |-> 1, old |-> vq.uidx, n |-> Len(sends) + 1]
  BY <1>2, Zenon DEF virtqueue_send
<1>6. sends' = Append(sends, [answered |-> FALSE, ret |-> "none"]) /\ vdev' = vdev /\ late' = late
  BY Zenon DEF virtqueue_send
<1> QED BY <1>1, <1>4, <1>5, <1>6, Zenon DEF SendEffect

\* What the end of virtqueue_send() does, after an answer or a timeout.
ReturnEffect(how) ==
  /\ vq' = [busy |-> {}, next |-> vq.next, cmd |-> vq.cmd, avail |-> vq.avail,
            aidx |-> vq.aidx, uidx |-> vq.uidx]
  /\ vlock' = VFree /\ vdev' = vdev
  /\ sends[vlock.n] \in VSends
  /\ sends' = [sends EXCEPT ![vlock.n] = [answered |-> sends[vlock.n].answered, ret |-> how]]

\* The return does that.
LEMMA StepReturn ==
  ASSUME QTypeOK, HolderInv, NEW how, vlock # VFree, SendReturn(how)
  PROVE  ReturnEffect(how)
<1>1. GiveBack = {}
  BY DEF GiveBack, HolderInv
<1>2. vq' = [vq EXCEPT !.busy = {}]
  BY <1>1, Zenon DEF SendReturn
<1>3. vq' = [busy |-> {}, next |-> vq.next, cmd |-> vq.cmd, avail |-> vq.avail,
             aidx |-> vq.aidx, uidx |-> vq.uidx]
  BY <1>2, Zenon DEF QTypeOK, VQueues
<1>4. sends[vlock.n] \in VSends
  BY DEF QTypeOK, HolderInv
<1>5. [sends[vlock.n] EXCEPT !.ret = how] = [answered |-> sends[vlock.n].answered, ret |-> how]
  BY <1>4, SendRecords, Zenon
<1> QED BY <1>3, <1>4, <1>5, Zenon DEF SendReturn, ReturnEffect

\* What an answer of the device does (a: it is in the right buffer).
AnswerEffect(f, a) ==
  /\ vq' = [busy |-> vq.busy, next |-> vq.next, cmd |-> vq.cmd, avail |-> vq.avail,
            aidx |-> vq.aidx, uidx |-> (vq.uidx + 1) % VIdxMod]
  /\ vdev' = [taken |-> vdev.taken, flight |-> vdev.flight \ {f}]
  /\ f.resp \in 1..Len(sends) =>
       /\ sends[f.resp] \in VSends
       /\ sends' = [sends EXCEPT ![f.resp] = [answered |-> a, ret |-> sends[f.resp].ret]]
  /\ f.resp \notin 1..Len(sends) => sends' = sends
  /\ vlock' = vlock /\ late' = late

\* An answer does that.
LEMMA StepAnswer ==
  ASSUME QTypeOK, NEW f \in vdev.flight, VAnswer(f)
  PROVE  \E a \in BOOLEAN : (a <=> f.cmd = f.resp) /\ AnswerEffect(f, a)
<1>1. vq' = [busy |-> vq.busy, next |-> vq.next, cmd |-> vq.cmd, avail |-> vq.avail,
             aidx |-> vq.aidx, uidx |-> (vq.uidx + 1) % VIdxMod]
  BY Zenon DEF VAnswer, QTypeOK, VQueues
<1>2. vdev' = [taken |-> vdev.taken, flight |-> vdev.flight \ {f}]
  BY Zenon DEF VAnswer, QTypeOK
<1> DEFINE s == [sends[f.resp] EXCEPT !.answered = (f.cmd = f.resp)]
<1>4. sends' = [sends EXCEPT ![f.resp] = s] /\ vlock' = vlock /\ late' = late
  BY Zenon DEF VAnswer
<1>3. PICK a \in BOOLEAN : a = (f.cmd = f.resp)
  BY Zenon
<1>5. ASSUME f.resp \in 1..Len(sends)
      PROVE  sends[f.resp] \in VSends /\ s = [answered |-> a, ret |-> sends[f.resp].ret]
  <2>1. sends[f.resp] \in VSends
    BY <1>5 DEF QTypeOK
  <2>2. s = [sends[f.resp] EXCEPT !.answered = a]
    BY <1>3, Zenon
  <2> QED BY <2>1, <2>2, SendRecords, Zenon
<1> HIDE DEF s
<1>6. ASSUME f.resp \notin 1..Len(sends) PROVE sends' = sends
  <2>1. sends \in [1..Len(sends) -> VSends]
    BY DEF QTypeOK
  <2> QED BY <1>4, <1>6, <2>1
<1> QED BY <1>1, <1>2, <1>3, <1>4, <1>5, <1>6, Zenon DEF AnswerEffect

\* Every step keeps the variables in their types.
LEMMA QTypeStep == QTypeOK /\ HolderInv /\ [VNext]_qVars => QTypeOK'
<1> SUFFICES ASSUME QTypeOK, HolderInv, [VNext]_qVars PROVE QTypeOK'
  OBVIOUS
<1>1. ASSUME NEW u \in VUsers, virtqueue_send(u) PROVE QTypeOK'
  <2>1. SendEffect(u)
    BY <1>1, StepSend
  <2>5. Len(sends) + 1 \in Nat
    BY DEF QTypeOK
  <2>2. vq' \in VQueues
    BY <2>1, <2>5, FirstTwo, Wrap, Slot DEF SendEffect, QTypeOK, VQueues
  <2>3. vlock' \in VLocks
    BY <2>1, FirstTwo DEF SendEffect, QTypeOK, VQueues, VLocks
  <2>4. [answered |-> FALSE, ret |-> "none"] \in VSends
    BY DEF VSends
  <2> QED BY <2>1, <2>2, <2>3, <2>4 DEF SendEffect, QTypeOK
<1>2. ASSUME NEW how \in {"ok", "timeout"}, vlock # VFree, SendReturn(how), late' \in BOOLEAN PROVE QTypeOK'
  <2>1. ReturnEffect(how)
    BY <1>2, StepReturn
  <2>2. vq' \in VQueues
    BY <2>1 DEF ReturnEffect, QTypeOK, VQueues
  <2>3. vlock' \in VLocks
    BY <2>1, FirstTwo, VirtqueueAssumption DEF ReturnEffect, VFree, VLocks, VIndices
  <2>4. [answered |-> sends[vlock.n].answered, ret |-> how] \in VSends
    BY <2>1, Zenon DEF ReturnEffect, VSends
  <2>5. sends' \in Seq(VSends)
    <3>1. vlock.n \in 1..Len(sends)
      BY <1>2 DEF QTypeOK, VLocks, HolderInv
    <3> QED BY <2>1, <2>4, <3>1, SeqPut, Zenon DEF QTypeOK, ReturnEffect
  <2> QED BY <1>2, <2>1, <2>2, <2>3, <2>5 DEF ReturnEffect, QTypeOK
<1>3. CASE VTake
  BY <1>3, Wrap, Slot DEF VTake, VFlights, QTypeOK, VQueues
<1>4. ASSUME NEW f \in vdev.flight, VAnswer(f) PROVE QTypeOK'
  <2>1. PICK a \in BOOLEAN : AnswerEffect(f, a)
    BY <1>4, StepAnswer, Zenon
  <2>2. vq' \in VQueues
    BY <2>1, Wrap DEF AnswerEffect, QTypeOK, VQueues
  <2>3. vdev' \in [taken : VIndices, flight : SUBSET VFlights]
    BY <2>1 DEF AnswerEffect, QTypeOK
  <2>4. sends' \in Seq(VSends)
    <3>1. CASE f.resp \in 1..Len(sends)
      <4>1. [answered |-> a, ret |-> sends[f.resp].ret] \in VSends
        BY <2>1, <3>1, Zenon DEF AnswerEffect, VSends
      <4> QED BY <2>1, <3>1, <4>1 DEF AnswerEffect, QTypeOK
    <3>2. CASE f.resp \notin 1..Len(sends)
      BY <2>1, <3>2 DEF AnswerEffect, QTypeOK
    <3> QED BY <3>1, <3>2
  <2> QED BY <2>1, <2>2, <2>3, <2>4 DEF AnswerEffect, QTypeOK
<1>5. CASE UNCHANGED qVars
  BY <1>5 DEF QTypeOK, qVars
<1>6. CASE SendDone \/ SendTimeout
  BY <1>2, <1>6 DEF SendDone, SendTimeout, QTypeOK
<1> QED BY <1>1, <1>3, <1>4, <1>5, <1>6 DEF VNext

\* Every step keeps the bit map to the holder of the lock.
LEMMA HolderStep == QTypeOK /\ HolderInv /\ [VNext]_qVars => HolderInv'
<1> SUFFICES ASSUME QTypeOK, HolderInv, [VNext]_qVars PROVE HolderInv'
  OBVIOUS
<1>1. ASSUME NEW u \in VUsers, virtqueue_send(u) PROVE HolderInv'
  <2>1. SendEffect(u)
    BY <1>1, StepSend
  <2>2. Len(sends') = Len(sends) + 1 /\ Len(sends) \in Nat
    BY <2>1 DEF SendEffect, QTypeOK
  <2>3. vlock'.n # 0
    BY <2>1, <2>2 DEF SendEffect
  <2>4. vlock' # VFree
    BY <2>3 DEF VFree
  <2> QED BY <2>1, <2>2, <2>4 DEF SendEffect, HolderInv, NeverFull
<1>2. ASSUME NEW how, vlock # VFree, SendReturn(how) PROVE HolderInv'
  <2>1. ReturnEffect(how)
    BY <1>2, StepReturn
  <2> QED BY <2>1 DEF ReturnEffect, HolderInv, NeverFull
<1>3. CASE VTake
  BY <1>3 DEF VTake, HolderInv, NeverFull
<1>4. ASSUME NEW f \in vdev.flight, VAnswer(f) PROVE HolderInv'
  <2>1. PICK a \in BOOLEAN : AnswerEffect(f, a)
    BY <1>4, StepAnswer, Zenon
  <2>2. Len(sends') = Len(sends)
    BY <2>1 DEF AnswerEffect, QTypeOK
  <2> QED BY <2>1, <2>2 DEF AnswerEffect, HolderInv, NeverFull
<1>5. CASE UNCHANGED qVars
  BY <1>5 DEF qVars, HolderInv, NeverFull
<1> QED BY <1>1, <1>2, <1>3, <1>4, <1>5 DEF VNext, SendDone, SendTimeout

\* Every step takes the one command from a phase to the next.
LEMMA PromptStep == QInv /\ [VNext]_qVars => PromptInv'
<1> SUFFICES ASSUME QInv, [VNext]_qVars, ~late' PROVE PromptInv'
  BY DEF PromptInv
<1>0. QTypeOK /\ HolderInv /\ PromptInv
  BY DEF QInv
<1>1. ASSUME NEW u \in VUsers, virtqueue_send(u) PROVE PromptInv'
  <2>1. SendEffect(u)
    BY <1>0, <1>1, StepSend
  <2>2. /\ Len(sends) \in Nat /\ Len(sends') = Len(sends) + 1
        /\ sends'[Len(sends) + 1] = [answered |-> FALSE, ret |-> "none"]
        /\ \A n \in 1..Len(sends) : sends'[n] = sends[n]
        /\ DOMAIN sends' = 1..(Len(sends) + 1) /\ DOMAIN sends = 1..Len(sends)
    BY <1>0, <2>1 DEF SendEffect, QTypeOK
  <2>3. ~late /\ vdev.taken = vq.aidx /\ vdev.flight = {}
        /\ \A n \in DOMAIN sends : sends[n].ret = "ok" => sends[n].answered
    BY <1>0, <2>1 DEF SendEffect, PromptInv
  <2>4. vlock'.n = Len(sends) + 1 /\ vlock' # VFree
    BY <2>1, <2>2 DEF SendEffect, VFree
  <2>5. Queued'
    BY <1>0, <2>1, <2>2, <2>3, FirstTwo, Slot DEF SendEffect, Queued, QTypeOK, VQueues
  <2>6. \A n \in DOMAIN sends' : sends'[n].ret = "ok" => sends'[n].answered
    BY <2>2, <2>3
  <2> QED BY <2>2, <2>4, <2>5, <2>6 DEF PromptInv
<1>2. CASE SendDone
  <2>1. ReturnEffect("ok") /\ vlock # VFree /\ late' = late /\ DoneSeen
    BY <1>0, <1>2, StepReturn DEF SendDone
  <2>2. ~late /\ Done
    BY <2>1, <1>0 DEF PromptInv, DoneSeen, Queued, Held
  <2>3. vlock.n \in 1..Len(sends) /\ DOMAIN sends = 1..Len(sends)
    BY <1>0, <2>1 DEF QTypeOK, VLocks, HolderInv
  <2>4. /\ DOMAIN sends' = DOMAIN sends
        /\ sends'[vlock.n] = [answered |-> sends[vlock.n].answered, ret |-> "ok"]
        /\ \A n \in DOMAIN sends : n # vlock.n => sends'[n] = sends[n]
    BY <2>1, <2>3 DEF ReturnEffect
  <2>5. sends'[vlock.n].answered
    BY <2>2, <2>4 DEF Done
  <2>6. \A n \in DOMAIN sends' : sends'[n].ret = "ok" => sends'[n].answered
    BY <1>0, <2>2, <2>3, <2>4, <2>5 DEF PromptInv
  <2> QED BY <2>1, <2>2, <2>6 DEF ReturnEffect, Done, PromptInv
<1>3. CASE SendTimeout
  BY <1>3 DEF SendTimeout
<1>4. CASE VTake
  <2>1. ~late /\ vlock # VFree /\ Queued
    BY <1>0, <1>4 DEF VTake, PromptInv, Held, Done
  <2>2. vdev' = [taken |-> vq.aidx,
                 flight |-> {[at |-> vdev.taken, cmd |-> vlock.n, resp |-> vlock.n]}]
        /\ UNCHANGED <<vq, vlock, sends, late>>
    BY <1>4, <2>1 DEF VTake, Queued
  <2>3. Held'
    BY <2>1, <2>2 DEF Held, Queued
  <2> QED BY <1>0, <2>1, <2>2, <2>3 DEF PromptInv
<1>5. ASSUME NEW f \in vdev.flight, VAnswer(f) PROVE PromptInv'
  <2>1. PICK a \in BOOLEAN : (a <=> f.cmd = f.resp) /\ AnswerEffect(f, a)
    BY <1>0, <1>5, StepAnswer, Zenon
  <2>2. ~late /\ vlock # VFree /\ Held
    BY <1>0, <2>1 DEF AnswerEffect, PromptInv, Queued, Done
  <2>3. vdev.flight = {f} /\ f.cmd = vlock.n /\ f.resp = vlock.n /\ a = TRUE
    BY <2>1, <2>2 DEF Held
  <2>4. vlock.n \in 1..Len(sends) /\ DOMAIN sends = 1..Len(sends)
    BY <1>0, <2>2 DEF QTypeOK, VLocks, HolderInv
  <2>5. /\ DOMAIN sends' = DOMAIN sends
        /\ sends'[vlock.n] = [answered |-> TRUE, ret |-> sends[vlock.n].ret]
        /\ \A n \in DOMAIN sends : n # vlock.n => sends'[n] = sends[n]
    BY <2>1, <2>3, <2>4 DEF AnswerEffect
  <2>6. Done'
    BY <1>0, <2>1, <2>2, <2>3, <2>5, Wrap DEF AnswerEffect, Done, Held, QTypeOK, VQueues
  <2>7. sends'[vlock'.n].ret = "none"
    BY <1>0, <2>1, <2>2, <2>5 DEF AnswerEffect, PromptInv
  <2>8. \A n \in DOMAIN sends' : sends'[n].ret = "ok" => sends'[n].answered
    BY <1>0, <2>2, <2>4, <2>5 DEF PromptInv
  <2> QED BY <2>1, <2>2, <2>6, <2>7, <2>8 DEF AnswerEffect, PromptInv
<1>6. CASE UNCHANGED qVars
  BY <1>0, <1>6 DEF qVars, PromptInv, Queued, Held, Done
<1> QED BY <1>1, <1>2, <1>3, <1>4, <1>5, <1>6 DEF VNext

\* The invariant holds in every state of the command queue.
THEOREM QueueInvariant == VSpec => []QInv
<1>1. VInit => QInv
  <2> SUFFICES ASSUME VInit PROVE QInv
    OBVIOUS
  <2>1. 0 \in VIndices /\ \A d \in VDescs : (d + 1) % VQSize \in VDescs
    BY VirtqueueAssumption DEF VIndices, VDescs
  <2>2. QTypeOK
    BY <2>1, FirstTwo DEF VInit, QTypeOK, VQueues, VLocks, VSends, VFree
  <2>3. HolderInv
    BY DEF VInit, HolderInv, NeverFull
  <2>4. PromptInv
    BY DEF VInit, PromptInv
  <2> QED BY <2>2, <2>3, <2>4 DEF QInv
<1>2. QInv /\ [VNext]_qVars => QInv'
  BY QTypeStep, HolderStep, PromptStep DEF QInv
<1> QED BY <1>1, <1>2, PTL DEF VSpec

\* For any number of senders, any queue and any number of commands: until one
\* times out, virtqueue_send() returns 0 only with the answer to its own command
\* and the device holds no buffer that was taken back; and whatever timed out,
\* the two descriptors always come back.
THEOREM CommandsServedHolds == VSpec => []CommandsServed
<1>1. QInv => CommandsServed
  <2> SUFFICES ASSUME QInv PROVE CommandsServed
    OBVIOUS
  <2>1. NeverFull
    BY DEF QInv, HolderInv
  <2>2. ASSUME ~late, NEW f \in vdev.flight PROVE sends[f.resp].ret = "none"
    BY <2>2 DEF QInv, PromptInv, Queued, Held, Done
  <2> QED BY <2>1, <2>2 DEF QInv, PromptInv, CommandsServed, SendAnswered
<1> QED BY <1>1, QueueInvariant, PTL

-----------------------------------------------------------------------------
(***************************************************************************)
(* VirtioDisk: the descriptors                                             *)
(***************************************************************************)

\* A set of numbers that is not empty has a least element.
LEMMA NatMin == ASSUME NEW T \in SUBSET Nat, T # {} PROVE \E x \in T : \A y \in T : x <= y
<1>1. PICK x \in T : \A y \in T : <<y, x>> \notin OpToRel(<, Nat)
  BY WFMin, NatLessThanWellFounded, Zenon
<1>2. \A y \in T : ~(y < x)
  BY <1>1, Zenon DEF OpToRel
<1> QED BY <1>2

\* Every descriptor has a bit, whatever the width of an int.
LEMMA BitSome == \A d \in Descs : Bit(d) # {}
<1>1. DWord \in Nat /\ DWord > 0
  BY VirtioDiskAssumption
<1>2. DWord - 1 \in DWord - 1..2 * DWord - 1
  BY <1>1
<1> QED BY <1>2 DEF Bit

\* The search of alloc_desc() yields a descriptor whose bit is clear.
LEMMA LowestFreeFree ==
  ASSUME NEW busy, Unmarked(busy) # {}
  PROVE  LowestFree(busy) \in Descs /\ Bit(LowestFree(busy)) \cap busy = {}
<1>1. Unmarked(busy) \in SUBSET Nat
  BY VirtioDiskAssumption DEF Unmarked, Descs
<1>2. \E d \in Unmarked(busy) : \A e \in Unmarked(busy) : d <= e
  BY <1>1, NatMin
<1>3. \E d \in Descs : Bit(d) \cap busy = {} /\ \A e \in 0..d - 1 : Bit(e) \cap busy # {}
  <2>1. PICK d \in Unmarked(busy) : \A e \in Unmarked(busy) : d <= e
    BY <1>2
  <2>2. d \in Descs /\ Bit(d) \cap busy = {}
    BY Zenon DEF Unmarked
  <2>3. \A e \in 0..d - 1 : e \in Descs /\ ~(d <= e)
    BY <2>2, VirtioDiskAssumption DEF Descs
  <2>4. \A e \in 0..d - 1 : Bit(e) \cap busy # {}
    BY <2>1, <2>3, Zenon DEF Unmarked
  <2> QED BY <2>2, <2>4, Zenon
<1> QED BY <1>3, Zenon DEF LowestFree

\* What a pass of alloc_desc() has done: the descriptors it found had clear bits,
\* apart from one another, and the map is marked with exactly those.
PassOK(found, marked, busy) ==
  /\ found \in Seq(Descs)
  /\ marked = busy \cup UNION {Bit(found[k]) : k \in DOMAIN found}
  /\ \A k \in DOMAIN found : Bit(found[k]) \cap busy = {}
  /\ \A k, l \in DOMAIN found : k # l => Bit(found[k]) \cap Bit(found[l]) = {}

\* One round of the loop keeps this.
LEMMA MarkNextOK ==
  ASSUME NEW s, NEW busy, PassOK(s.found, s.busy, busy)
  PROVE  PassOK(MarkNext(s).found, MarkNext(s).busy, busy)
         /\ Len(MarkNext(s).found) <= Len(s.found) + 1
<1>0. Len(s.found) \in Nat /\ DOMAIN s.found = 1..Len(s.found)
  BY DEF PassOK
<1>1. CASE Unmarked(s.busy) = {}
  <2>1. MarkNext(s) = s
    BY <1>1, Zenon DEF MarkNext
  <2> QED BY <2>1, <1>0
<1>2. CASE Unmarked(s.busy) # {}
  <2>1. PICK d : d = LowestFree(s.busy) /\ d \in Descs /\ Bit(d) \cap s.busy = {}
    BY <1>2, LowestFreeFree, Zenon
  <2>2. MarkNext(s).busy = s.busy \cup Bit(d) /\ MarkNext(s).found = Append(s.found, d)
    BY <1>2, <2>1 DEF MarkNext
  <2>3. PICK f : f = Append(s.found, d)
    OBVIOUS
  <2>4. /\ f \in Seq(Descs) /\ Len(f) = Len(s.found) + 1 /\ DOMAIN f = 1..(Len(s.found) + 1)
        /\ f[Len(s.found) + 1] = d /\ \A k \in DOMAIN s.found : k \in DOMAIN f /\ f[k] = s.found[k]
    BY <2>1, <2>3, <1>0 DEF PassOK
  <2>5. \A k \in DOMAIN f : k = Len(s.found) + 1 \/ k \in DOMAIN s.found
    BY <2>4, <1>0
  <2>6. \A k \in DOMAIN s.found : Bit(s.found[k]) \subseteq s.busy
    BY Zenon DEF PassOK
  <2>7. UNION {Bit(f[k]) : k \in DOMAIN f} = Bit(d) \cup UNION {Bit(s.found[k]) : k \in DOMAIN s.found}
    BY <2>4, <2>5, <1>0
  <2>8. s.busy \cup Bit(d) = busy \cup UNION {Bit(f[k]) : k \in DOMAIN f}
    BY <2>7 DEF PassOK
  <2>9. \A k \in DOMAIN f : Bit(f[k]) \cap busy = {}
    BY <2>1, <2>4, <2>5 DEF PassOK
  <2>10. \A k, l \in DOMAIN f : k # l => Bit(f[k]) \cap Bit(f[l]) = {}
    <3> SUFFICES ASSUME NEW k \in DOMAIN f, NEW l \in DOMAIN f, k # l PROVE Bit(f[k]) \cap Bit(f[l]) = {}
      OBVIOUS
    <3>1. CASE k \in DOMAIN s.found /\ l \in DOMAIN s.found
      BY <3>1, <2>4, Zenon DEF PassOK
    <3>2. CASE k \in DOMAIN s.found /\ l = Len(s.found) + 1
      BY <3>2, <2>1, <2>4, <2>6
    <3>3. CASE l \in DOMAIN s.found /\ k = Len(s.found) + 1
      BY <3>3, <2>1, <2>4, <2>6
    <3> QED BY <2>5, <3>1, <3>2, <3>3
  <2>11. MarkNext(s).found = f /\ MarkNext(s).busy = busy \cup UNION {Bit(f[k]) : k \in DOMAIN f}
    BY <2>2, <2>3, <2>8, Zenon
  <2>12. PassOK(MarkNext(s).found, MarkNext(s).busy, busy)
    <3>1. PassOK(f, busy \cup UNION {Bit(f[k]) : k \in DOMAIN f}, busy)
      BY <2>4, <2>9, <2>10, Zenon DEF PassOK
    <3> QED BY <2>11, <3>1, Zenon
  <2> QED BY <1>0, <2>4, <2>11, <2>12
<1> QED BY <1>1, <1>2

\* So does a whole pass, which finds three descriptors at most.
LEMMA PassSound ==
  ASSUME NEW busy, NEW s \in Pass(busy)
  PROVE  PassOK(s.found, s.busy, busy) /\ Len(s.found) \in 0..3
<1> DEFINE s0 == [busy |-> busy, found |-> <<>>]
           s1 == MarkNext(s0)
           s2 == MarkNext(s1)
<1>1. PassOK(s0.found, s0.busy, busy) /\ Len(s0.found) = 0
  BY DEF PassOK
<1> HIDE DEF s0
<1>2. PassOK(s1.found, s1.busy, busy) /\ Len(s1.found) <= Len(s0.found) + 1
  BY <1>1, MarkNextOK DEF s1
<1> HIDE DEF s1
<1>3. PassOK(s2.found, s2.busy, busy) /\ Len(s2.found) <= Len(s1.found) + 1
  BY <1>2, MarkNextOK DEF s2
<1> HIDE DEF s2
<1>4. PassOK(MarkNext(s2).found, MarkNext(s2).busy, busy) /\ Len(MarkNext(s2).found) <= Len(s2.found) + 1
  BY <1>3, MarkNextOK
<1>5. Len(s1.found) \in Nat /\ Len(s2.found) \in Nat /\ Len(MarkNext(s2).found) \in Nat
  BY <1>2, <1>3, <1>4 DEF PassOK
<1>6. s = MarkNext(s2)
  BY Zenon DEF Pass, s0, s1, s2
<1>7. Len(MarkNext(s2).found) \in 0..3
  <2>1. \A a, b, c \in Nat : a <= 0 + 1 /\ b <= a + 1 /\ c <= b + 1 => c \in 0..3
    OBVIOUS
  <2>2. Len(s1.found) <= 0 + 1
    BY <1>1, <1>2, Zenon
  <2> QED BY <1>3, <1>4, <1>5, <2>1, <2>2, Zenon
<1> QED BY <1>4, <1>6, <1>7, Zenon

-----------------------------------------------------------------------------
\* Every task has a record of its call.
Call(x) == x = [pc |-> x.pc, r |-> x.r, head |-> x.head, last |-> x.last]
CallsOK == DOMAIN dcall = DUsers /\ \A u \in DUsers : Call(dcall[u])

\* Moving on within a call leaves the rest of its record alone.
LEMMA CallFields ==
  ASSUME NEW x, Call(x), NEW v
  PROVE  [x EXCEPT !.pc = v] = [pc |-> v, r |-> x.r, head |-> x.head, last |-> x.last]
<1>1. PICK a, b, c, d : x = [pc |-> a, r |-> b, head |-> c, last |-> d]
  BY DEF Call
<1> DEFINE y == [pc |-> a, r |-> b, head |-> c, last |-> d]
<1>2. [y EXCEPT !.pc = v] = [pc |-> v, r |-> b, head |-> c, last |-> d]
  OBVIOUS
<1>3. x.r = b /\ x.head = c /\ x.last = d
  BY <1>1
<1> QED BY <1>1, <1>2, <1>3, Zenon

\* The same for the record of a task.
LEMMA CallPc ==
  ASSUME CallsOK, NEW u \in DUsers, NEW p
  PROVE  [dcall EXCEPT ![u].pc = p] =
           [dcall EXCEPT ![u] = [pc |-> p, r |-> dcall[u].r, head |-> dcall[u].head, last |-> dcall[u].last]]
<1>1. PICK x : x = dcall[u] /\ Call(x)
  BY DEF CallsOK
<1>2. [x EXCEPT !.pc = p] = [pc |-> p, r |-> x.r, head |-> x.head, last |-> x.last]
  BY <1>1, CallFields
<1> QED BY <1>1, <1>2, Zenon

-----------------------------------------------------------------------------
\* The three descriptors that hang together from the head of a call.
Owned(u) == {dcall[u].head, dq.next[dcall[u].head], dq.next[dq.next[dcall[u].head]]}

\* They are chained by their NEXT flags, the last one ends the chain, and their
\* bits are apart.
Linked(u) ==
  LET h == dcall[u].head
      m == dq.next[h]
      t == dq.next[m]
  IN /\ h \in Descs /\ h \in dq.more /\ m \in dq.more /\ t \notin dq.more
     /\ Bit(h) \cap Bit(m) = {} /\ Bit(h) \cap Bit(t) = {} /\ Bit(m) \cap Bit(t) = {}

\* The bits of a set of descriptors.
Marks(D) == UNION {Bit(d) : d \in D}

\* The inductive invariant of the descriptors: every call in flight has its chain,
\* no bit belongs to two chains, and the map is marked with these bits alone.
DescInv ==
  /\ CallsOK /\ dq.next \in [Descs -> Descs]
  /\ \A u \in InFlight : Linked(u)
  /\ \A u, w \in InFlight : u # w => \A d \in Owned(u), e \in Owned(w) : Bit(d) \cap Bit(e) = {}
  /\ dq.busy = Marks(UNION {Owned(u) : u \in InFlight})

\* free_desc() walks exactly the chain of the call.
LEMMA ChainOwned ==
  ASSUME DescInv, NEW u \in InFlight
  PROVE  DescChain(dcall[u].head) = Owned(u) /\ Owned(u) \in SUBSET Descs
<1>1. Linked(u)
  BY DEF DescInv
<1> QED BY <1>1 DEF DescInv, DescChain, Owned, Linked

\* A bit is set in the map iff a call in flight has its descriptor.
LEMMA Busy ==
  ASSUME DescInv
  PROVE  /\ \A u \in InFlight : \A d \in Owned(u) : Bit(d) \subseteq dq.busy
         /\ \A x \in dq.busy : \E u \in InFlight : \E d \in Owned(u) : x \in Bit(d)
<1>1. dq.busy = UNION {Bit(d) : d \in UNION {Owned(u) : u \in InFlight}}
  BY DEF DescInv, Marks
<1>2. ASSUME NEW u \in InFlight, NEW d \in Owned(u), NEW x \in Bit(d) PROVE x \in dq.busy
  BY <1>1, <1>2
<1>3. ASSUME NEW x \in dq.busy PROVE \E u \in InFlight : \E d \in Owned(u) : x \in Bit(d)
  BY <1>1, <1>3
<1> QED BY <1>2, <1>3

\* Descriptors with bits apart are different.
LEMMA DistinctDescs ==
  ASSUME NEW d \in Descs, NEW e \in Descs, Bit(d) \cap Bit(e) = {} PROVE d # e
BY BitSome

\* A step that neither marks nor frees descriptors nor moves a head keeps the invariant.
LEMMA DescKept ==
  ASSUME DescInv, CallsOK', InFlight' = InFlight,
         \A u \in InFlight : dcall'[u].head = dcall[u].head,
         dq'.next = dq.next, dq'.busy = dq.busy,
         \A u \in InFlight : \A d \in Owned(u) : d \in dq'.more <=> d \in dq.more
  PROVE  DescInv'
<1>1. \A u \in InFlight : Owned(u)' = Owned(u)
  BY Zenon DEF Owned
<1>2. ASSUME NEW u \in InFlight PROVE Linked(u)'
  <2>1. Linked(u)
    BY DEF DescInv
  <2> QED BY <2>1 DEF Linked, Owned
<1>3. \A u, w \in InFlight : u # w => \A d \in Owned(u)', e \in Owned(w)' : Bit(d) \cap Bit(e) = {}
  BY <1>1 DEF DescInv
<1>4. UNION {Owned(u)' : u \in InFlight} = UNION {Owned(u) : u \in InFlight}
  BY <1>1
<1>5. dq'.busy = Marks(UNION {Owned(u)' : u \in InFlight})
  BY <1>4, Zenon DEF DescInv
<1> QED BY <1>2, <1>3, <1>5 DEF DescInv

\* Every step keeps the invariant: a pass that succeeds takes bits nobody had, one
\* that fails gives back what it took, and Finish frees the chain of its own call.
LEMMA DescStep == DescInv /\ [DNext]_dVars => DescInv'
<1> SUFFICES ASSUME DescInv, [DNext]_dVars PROVE DescInv'
  OBVIOUS
<1>0. CallsOK
  BY DEF DescInv
<1>1. ASSUME NEW u \in DUsers, NEW op, NEW s, NEW v, Issue(u, op, s, v) PROVE DescInv'
  <2>1. dcall[u].pc = "idle" /\ dq' = dq
        /\ dcall' = [dcall EXCEPT ![u] = [pc |-> "alloc", r |-> Len(req) + 1, head |-> 0, last |-> 0]]
    BY <1>1, Zenon DEF Issue
  <2>2. CallsOK' /\ InFlight' = InFlight /\ \A w \in InFlight : dcall'[w].head = dcall[w].head
    BY <1>0, <2>1 DEF CallsOK, Call, InFlight
  <2> QED BY <2>1, <2>2, DescKept
<1>2. ASSUME NEW u \in DUsers, NEW p \in {"ring", "publish", "last", "notify", "wait"},
             dcall[u].pc \in {"fill", "ring", "publish", "last", "notify"}, NEW l,
             dcall' = [dcall EXCEPT ![u] = [pc |-> p, r |-> dcall[u].r, head |-> dcall[u].head, last |-> l]]
      PROVE  CallsOK' /\ InFlight' = InFlight /\ \A w \in InFlight : dcall'[w].head = dcall[w].head
  BY <1>0, <1>2 DEF CallsOK, Call, InFlight
<1>3. ASSUME NEW u \in DUsers, Fill(u) PROVE DescInv'
  <2>1. dcall' = [dcall EXCEPT ![u] = [pc |-> "ring", r |-> dcall[u].r, head |-> dcall[u].head, last |-> dcall[u].last]]
        /\ dcall[u].pc = "fill"
    BY <1>0, <1>3, CallPc, Zenon DEF Fill
  <2>2. CallsOK' /\ InFlight' = InFlight /\ \A w \in InFlight : dcall'[w].head = dcall[w].head
    BY <1>2, <2>1
  <2>3. u \in InFlight
    BY <2>1 DEF InFlight
  <2>4. PICK h, m, t : h = dcall[u].head /\ m = dq.next[h] /\ t = dq.next[m]
    OBVIOUS
  <2>5. dq'.busy = dq.busy /\ dq'.next = dq.next /\ dq'.more = (dq.more \cup {h, m}) \ {t}
    BY <1>3, <2>4 DEF Fill
  <2>6. h \in dq.more /\ m \in dq.more /\ t \notin dq.more
    BY <2>3, <2>4 DEF DescInv, Linked
  <2>7. dq'.more = dq.more
    BY <2>5, <2>6
  <2> QED BY <2>2, <2>5, <2>7, DescKept
<1>4. ASSUME NEW u \in DUsers, RingEntry(u) \/ Publish(u) \/ ReadLast(u) \/ Notify(u) PROVE DescInv'
  <2>1. dq' = dq /\ \E p \in {"ring", "publish", "last", "notify", "wait"} : \E l :
                       dcall' = [dcall EXCEPT ![u] = [pc |-> p, r |-> dcall[u].r, head |-> dcall[u].head, last |-> l]]
    <3>2. CASE RingEntry(u)
      <4>1. dcall' = [dcall EXCEPT ![u] = [pc |-> "publish", r |-> dcall[u].r, head |-> dcall[u].head, last |-> dcall[u].last]]
            /\ dq' = dq
        BY <1>0, <3>2, CallPc, Zenon DEF RingEntry
      <4> QED BY <4>1
    <3>3. CASE Publish(u)
      <4>1. dcall' = [dcall EXCEPT ![u] = [pc |-> "last", r |-> dcall[u].r, head |-> dcall[u].head, last |-> dcall[u].last]]
            /\ dq' = dq
        BY <1>0, <3>3, CallPc, Zenon DEF Publish
      <4> QED BY <4>1
    <3>4. CASE ReadLast(u)
      <4>1. dcall' = [dcall EXCEPT ![u] = [pc |-> "notify", r |-> dcall[u].r, head |-> dcall[u].head, last |-> ring.uidx]]
            /\ dq' = dq
        BY <3>4, Zenon DEF ReadLast
      <4> QED BY <4>1
    <3>5. CASE Notify(u)
      <4>1. dcall' = [dcall EXCEPT ![u] = [pc |-> "wait", r |-> dcall[u].r, head |-> dcall[u].head, last |-> dcall[u].last]]
            /\ dq' = dq
        BY <1>0, <3>5, CallPc, Zenon DEF Notify
      <4> QED BY <4>1
    <3> QED BY <1>4, <3>2, <3>3, <3>4, <3>5
  <2>2. dcall[u].pc \in {"fill", "ring", "publish", "last", "notify"}
    BY <1>4 DEF RingEntry, Publish, ReadLast, Notify
  <2>3. CallsOK' /\ InFlight' = InFlight /\ \A w \in InFlight : dcall'[w].head = dcall[w].head
    BY <1>2, <2>1, <2>2
  <2>4. dq' = dq
    BY <2>1
  <2> QED BY <2>3, <2>4, DescKept
<1>5. ASSUME NEW u \in DUsers, alloc_desc(u) PROVE DescInv'
  <2>1. PICK s \in Pass(dq.busy) :
          LET f == s.found
          IN IF Len(f) = 3
             THEN /\ dq' = [busy |-> s.busy, more |-> (dq.more \cup {f[1], f[2]}) \ {f[3]},
                            next |-> [dq.next EXCEPT ![f[1]] = f[2], ![f[2]] = f[3]], addr |-> dq.addr]
                  /\ dcall' = [dcall EXCEPT ![u] = [pc |-> "fill", r |-> dcall[u].r, head |-> f[1], last |-> 0]]
             ELSE /\ dq' = [busy |-> Rollback(s), more |-> dq.more \ {f[k] : k \in DOMAIN f},
                            next |-> dq.next, addr |-> dq.addr]
                  /\ UNCHANGED dcall
    BY <1>5, Zenon DEF alloc_desc
  <2>2. PICK f : f = s.found
    OBVIOUS
  <2>3. PassOK(f, s.busy, dq.busy) /\ Len(f) \in 0..3
    BY <2>1, <2>2, PassSound, Zenon
  <2>4. f \in Seq(Descs) /\ DOMAIN f = 1..Len(f)
    BY <2>3 DEF PassOK
  <2>5. u \notin InFlight /\ dcall[u].pc = "alloc"
    BY <1>5 DEF alloc_desc, InFlight
  <2>6. \A k \in DOMAIN f : \A w \in InFlight : \A d \in Owned(w) : f[k] # d
    <3> SUFFICES ASSUME NEW k \in DOMAIN f, NEW w \in InFlight, NEW d \in Owned(w), f[k] = d PROVE FALSE
      OBVIOUS
    <3>1. Bit(d) \subseteq dq.busy
      BY Busy
    <3>2. Bit(f[k]) \cap dq.busy = {} /\ Bit(f[k]) # {}
      BY <2>3, <2>4, BitSome DEF PassOK
    <3> QED BY <3>1, <3>2
  <2>7. CASE Len(f) # 3
    <3>1. /\ dq' = [busy |-> Rollback(s), more |-> dq.more \ {f[k] : k \in DOMAIN f},
                    next |-> dq.next, addr |-> dq.addr]
          /\ dcall' = dcall
      BY <1>5, <2>1, <2>2, <2>7, Zenon DEF alloc_desc
    <3>2. s.busy = dq.busy \cup UNION {Bit(f[k]) : k \in DOMAIN f}
          /\ \A k \in DOMAIN f : Bit(f[k]) \cap dq.busy = {}
      BY <2>3, Zenon DEF PassOK
    <3>3. Rollback(s) = s.busy \ UNION {Bit(f[k]) : k \in DOMAIN f}
      BY <2>2, Zenon DEF Rollback
    <3>4. Rollback(s) = dq.busy
      BY <3>2, <3>3
    <3>5. \A w \in InFlight : \A d \in Owned(w) : d \in dq'.more <=> d \in dq.more
      BY <2>6, <3>1
    <3>6. CallsOK' /\ InFlight' = InFlight /\ \A w \in InFlight : dcall'[w].head = dcall[w].head
      BY <1>0, <3>1 DEF CallsOK, Call, InFlight
    <3>7. dq'.busy = dq.busy /\ dq'.next = dq.next
      BY <3>1, <3>4
    <3> QED BY <3>5, <3>6, <3>7, DescKept
  <2>8. CASE Len(f) = 3
    <3>1. PICK h, m, t : h = f[1] /\ m = f[2] /\ t = f[3]
      OBVIOUS
    <3>2. h \in Descs /\ m \in Descs /\ t \in Descs /\ DOMAIN f = {1, 2, 3}
      <4>1. 1..3 = {1, 2, 3}
        OBVIOUS
      <4>2. DOMAIN f = {1, 2, 3}
        BY <2>4, <2>8, <4>1
      <4>3. \A k \in 1..Len(f) : f[k] \in Descs
        BY <2>4
      <4>4. h \in Descs /\ m \in Descs /\ t \in Descs
        BY <4>3, <2>8, <3>1
      <4> QED BY <4>2, <4>4
    <3>3. /\ dq' = [busy |-> s.busy, more |-> (dq.more \cup {h, m}) \ {t},
                    next |-> [dq.next EXCEPT ![h] = m, ![m] = t], addr |-> dq.addr]
          /\ dcall' = [dcall EXCEPT ![u] = [pc |-> "fill", r |-> dcall[u].r, head |-> h, last |-> 0]]
      BY <1>5, <2>1, <2>2, <2>8, <3>1, Zenon DEF alloc_desc
    <3>5. CallsOK' /\ InFlight' = InFlight \cup {u} /\ dcall'[u].head = h
          /\ \A w \in InFlight : dcall'[w].head = dcall[w].head
      BY <1>0, <2>5, <3>3 DEF CallsOK, Call, InFlight
    <3>6. Bit(h) \cap Bit(m) = {} /\ Bit(h) \cap Bit(t) = {} /\ Bit(m) \cap Bit(t) = {}
      BY <2>3, <3>1, <3>2 DEF PassOK
    <3>7. h # m /\ h # t /\ m # t
      BY <3>2, <3>6, DistinctDescs
    <3>8. dq'.next \in [Descs -> Descs] /\ dq'.next[h] = m /\ dq'.next[m] = t
          /\ \A d \in Descs : d # h /\ d # m => dq'.next[d] = dq.next[d]
      BY <3>2, <3>3, <3>7 DEF DescInv
    <3>9. Owned(u)' = {h, m, t} /\ Linked(u)'
      <4>1. dcall'[u].head = h /\ dq'.next[h] = m /\ dq'.next[m] = t
        BY <3>5, <3>8
      <4>2. dq'.more = (dq.more \cup {h, m}) \ {t}
        BY <3>3
      <4>3. Owned(u)' = {h, m, t}
        BY <4>1, Zenon DEF Owned
      <4>4. Linked(u)'
        BY <3>2, <3>6, <3>7, <4>1, <4>2 DEF Linked
      <4> QED BY <4>3, <4>4
    <3>10. ASSUME NEW w \in InFlight PROVE Owned(w)' = Owned(w) /\ Linked(w)'
      <4>1. Linked(w) /\ Owned(w) \in SUBSET Descs
        BY ChainOwned DEF DescInv
      <4>2. \A d \in Owned(w) : d # h /\ d # m /\ d # t
        BY <2>6, <3>1, <3>2
      <4>3. dcall'[w].head = dcall[w].head
        BY <3>5
      <4>4. Owned(w)' = Owned(w)
        BY <4>1, <4>2, <4>3, <3>8 DEF Owned
      <4>5. \A d \in Owned(w) : d \in dq'.more <=> d \in dq.more
        BY <4>2, <3>3
      <4>6. PICK a, b, c : a = dcall[w].head /\ b = dq.next[a] /\ c = dq.next[b] /\ Owned(w) = {a, b, c}
        BY DEF Owned
      <4>7. dcall'[w].head = a /\ dq'.next[a] = b /\ dq'.next[b] = c
        BY <4>1, <4>2, <4>3, <4>6, <3>8
      <4> QED BY <4>1, <4>4, <4>5, <4>6, <4>7 DEF Linked
    <3>11. ASSUME NEW w \in InFlight, NEW d \in Owned(w), NEW e \in {h, m, t} PROVE Bit(d) \cap Bit(e) = {}
      <4>1. Bit(d) \subseteq dq.busy
        BY Busy
      <4>2. Bit(e) \cap dq.busy = {}
        BY <2>3, <3>1, <3>2 DEF PassOK
      <4> QED BY <4>1, <4>2
    <3>12. \A v, w \in InFlight' : v # w => \A d \in Owned(v)', e \in Owned(w)' : Bit(d) \cap Bit(e) = {}
      <4> SUFFICES ASSUME NEW v \in InFlight', NEW w \in InFlight', v # w, NEW d \in Owned(v)', NEW e \in Owned(w)'
                   PROVE  Bit(d) \cap Bit(e) = {}
        OBVIOUS
      <4>1. CASE v \in InFlight /\ w \in InFlight
        BY <4>1, <3>10 DEF DescInv
      <4>2. CASE v \in InFlight /\ w = u
        BY <4>2, <3>9, <3>10, <3>11
      <4>3. CASE v = u /\ w \in InFlight
        BY <4>3, <3>9, <3>10, <3>11
      <4> QED BY <3>5, <4>1, <4>2, <4>3
    <3>13. dq'.busy = Marks(UNION {Owned(w)' : w \in InFlight'})
      <4>1. UNION {Owned(w)' : w \in InFlight'} = {h, m, t} \cup UNION {Owned(w) : w \in InFlight}
        BY <3>5, <3>9, <3>10
      <4>2. s.busy = dq.busy \cup Bit(h) \cup Bit(m) \cup Bit(t)
        BY <2>3, <3>1, <3>2 DEF PassOK
      <4>3. dq.busy = Marks(UNION {Owned(w) : w \in InFlight})
        BY DEF DescInv
      <4>4. \A D : Marks({h, m, t} \cup D) = Marks(D) \cup Bit(h) \cup Bit(m) \cup Bit(t)
        BY DEF Marks
      <4> QED BY <4>1, <4>2, <4>3, <4>4, <3>3
    <3> QED BY <3>5, <3>8, <3>9, <3>10, <3>12, <3>13 DEF DescInv
  <2> QED BY <2>7, <2>8
<1>6. ASSUME NEW u \in DUsers, Finish(u) PROVE DescInv'
  <2>1. u \in InFlight /\ dcall[u].pc = "wait"
    BY <1>6 DEF Finish, InFlight
  <2>2. DescChain(dcall[u].head) = Owned(u) /\ Owned(u) \in SUBSET Descs
    BY <2>1, ChainOwned
  <2>3. /\ dq' = [busy |-> dq.busy \ Marks(Owned(u)), more |-> dq.more \ Owned(u), next |-> dq.next, addr |-> dq.addr]
        /\ dcall' = [dcall EXCEPT ![u] = DIdle]
    BY <1>6, <2>2, Zenon DEF Finish, free_desc, FreedBits, Marks
  <2>4. CallsOK' /\ InFlight' = InFlight \ {u} /\ \A w \in InFlight' : dcall'[w] = dcall[w]
    BY <1>0, <2>1, <2>3 DEF CallsOK, Call, InFlight, DIdle
  <2>5. \A w \in InFlight' : Owned(w)' = Owned(w)
    BY <2>3, <2>4 DEF Owned
  <2>6. \A w \in InFlight' : \A d \in Owned(w) : \A e \in Owned(u) : Bit(d) \cap Bit(e) = {}
    BY <2>1, <2>4 DEF DescInv
  <2>7. \A w \in InFlight' : Owned(w) \in SUBSET Descs /\ Linked(w)
    BY <2>4, ChainOwned DEF DescInv
  <2>8. \A w \in InFlight' : \A d \in Owned(w) : d \in dq'.more <=> d \in dq.more
    BY <2>2, <2>3, <2>6, <2>7, DistinctDescs
  <2>9. ASSUME NEW w \in InFlight' PROVE Linked(w)'
    BY <2>3, <2>4, <2>7, <2>8 DEF Linked, Owned
  <2>10. \A v, w \in InFlight' : v # w => \A d \in Owned(v)', e \in Owned(w)' : Bit(d) \cap Bit(e) = {}
    BY <2>4, <2>5 DEF DescInv
  <2>11. dq'.busy = Marks(UNION {Owned(w)' : w \in InFlight'})
    <3>1. UNION {Owned(w)' : w \in InFlight'} = UNION {Owned(w) : w \in InFlight'}
      BY <2>5
    <3>2. ASSUME NEW x \in dq'.busy PROVE x \in Marks(UNION {Owned(w) : w \in InFlight'})
      <4>1. x \in dq.busy /\ \A e \in Owned(u) : x \notin Bit(e)
        BY <2>3, <3>2 DEF Marks
      <4>2. PICK w \in InFlight : \E d \in Owned(w) : x \in Bit(d)
        BY <4>1, Busy
      <4>3. w \in InFlight'
        BY <4>1, <4>2, <2>4
      <4> QED BY <4>2, <4>3 DEF Marks
    <3>3. ASSUME NEW x \in Marks(UNION {Owned(w) : w \in InFlight'}) PROVE x \in dq'.busy
      <4>1. PICK w \in InFlight' : \E d \in Owned(w) : x \in Bit(d)
        BY <3>3 DEF Marks
      <4>2. PICK d \in Owned(w) : x \in Bit(d)
        BY <4>1
      <4>3. x \in dq.busy
        BY <4>2, <2>4, Busy
      <4>4. \A e \in Owned(u) : x \notin Bit(e)
        BY <4>2, <2>6
      <4> QED BY <4>3, <4>4, <2>3 DEF Marks
    <3> QED BY <3>1, <3>2, <3>3
  <2>12. dq'.next \in [Descs -> Descs]
    BY <2>3 DEF DescInv
  <2> QED BY <2>4, <2>9, <2>10, <2>11, <2>12 DEF DescInv
<1>7. CASE UNCHANGED <<dq, dcall>>
  <2>1. CallsOK' /\ InFlight' = InFlight /\ dq' = dq /\ dcall' = dcall
    BY <1>0, <1>7 DEF CallsOK, InFlight
  <2> QED BY <2>1, DescKept
<1>8. CASE UNCHANGED dVars
  BY <1>7, <1>8 DEF dVars
<1>9. CASE DevTake \/ LookAgain \/ \E f \in dev.flight : Serve(f) \/ Reject(f)
  BY <1>7, <1>9, Zenon DEF DevTake, LookAgain, Serve, Reject, Complete
<1> QED BY <1>1, <1>3, <1>4, <1>5, <1>6, <1>8, <1>9, Zenon DEF DNext, Driver, virtio_blk_read, virtio_blk_write

\* The queue as init_virtio_queue() leaves it.
LEMMA DescInit == DInit => DescInv
<1> SUFFICES ASSUME DInit PROVE DescInv
  OBVIOUS
<1>1. InFlight = {}
  BY DEF DInit, InFlight, DIdle
<1>2. CallsOK
  BY DEF DInit, CallsOK, Call, DIdle
<1>3. dq.next \in [Descs -> Descs]
  BY VirtioDiskAssumption DEF DInit, Descs
<1>4. dq.busy = Marks(UNION {Owned(u) : u \in InFlight})
  BY <1>1 DEF DInit, Marks
<1> QED BY <1>1, <1>2, <1>3, <1>4 DEF DescInv

\* For any number of tasks, any queue size and any width of int: each request in
\* flight has three descriptors of its own and free_desc_bit_map marks exactly
\* those, through any interleaving of allocation, rollback and release.
THEOREM DescsOwnedHolds == DSpec => []DescsOwned
<1>1. DescInv => DescsOwned
  <2> SUFFICES ASSUME DescInv PROVE DescsOwned
    OBVIOUS
  <2>1. ASSUME NEW u \in InFlight PROVE Cardinality(DescChain(dcall[u].head)) = 3
    <3>1. DescChain(dcall[u].head) = Owned(u) /\ Owned(u) \in SUBSET Descs /\ Linked(u)
      BY ChainOwned DEF DescInv
    <3>2. PICK h, m, t : Owned(u) = {h, m, t} /\ h # m /\ h # t /\ m # t
      <4>1. PICK h, m, t : h = dcall[u].head /\ m = dq.next[h] /\ t = dq.next[m]
        OBVIOUS
      <4>2. Owned(u) = {h, m, t}
        BY <4>1 DEF Owned
      <4>3. h \in Descs /\ m \in Descs /\ t \in Descs
        BY <4>2, <3>1
      <4>4. Bit(h) \cap Bit(m) = {} /\ Bit(h) \cap Bit(t) = {} /\ Bit(m) \cap Bit(t) = {}
        BY <3>1, <4>1 DEF Linked
      <4> QED BY <4>2, <4>3, <4>4, DistinctDescs
    <3>3. IsFiniteSet({}) /\ Cardinality({}) = 0
      BY FS_EmptySet
    <3>4. IsFiniteSet({h}) /\ Cardinality({h}) = 1
      BY FS_Singleton
    <3>5. IsFiniteSet({h, m}) /\ Cardinality({h, m}) = 2
      <4>1. {h, m} = {h} \cup {m} /\ m \notin {h}
        BY <3>2
      <4> QED BY <3>4, <4>1, FS_AddElement
    <3>6. Cardinality({h, m, t}) = 3
      <4>1. {h, m, t} = {h, m} \cup {t} /\ t \notin {h, m}
        BY <3>2
      <4> QED BY <3>5, <4>1, FS_AddElement
    <3> QED BY <3>1, <3>2, <3>6
  <2>2. ASSUME NEW u \in InFlight, NEW w \in InFlight, u # w
        PROVE  DescChain(dcall[u].head) \cap DescChain(dcall[w].head) = {}
    <3>1. DescChain(dcall[u].head) = Owned(u) /\ DescChain(dcall[w].head) = Owned(w)
          /\ Owned(u) \in SUBSET Descs /\ Owned(w) \in SUBSET Descs
      BY ChainOwned
    <3>2. \A d \in Owned(u), e \in Owned(w) : d # e
      BY <2>2, <3>1, DistinctDescs DEF DescInv
    <3> QED BY <3>1, <3>2
  <2>3. dq.busy = UNION {Bit(d) : d \in UNION {DescChain(dcall[u].head) : u \in InFlight}}
    <3>1. UNION {DescChain(dcall[u].head) : u \in InFlight} = UNION {Owned(u) : u \in InFlight}
      BY ChainOwned
    <3> QED BY <3>1 DEF DescInv, Marks
  <2> QED BY <2>1, <2>2, <2>3 DEF DescsOwned
<1> QED BY <1>1, DescInit, DescStep, PTL DEF DSpec

-----------------------------------------------------------------------------
(***************************************************************************)
(* VirtioDisk: the requests, while the tasks use the driver one at a time  *)
(***************************************************************************)

\* The values of a ring index, and of a request.
DIndices == 0..IdxMod - 1
Reqs == [op : {"read", "write"}, sec : Sectors, buf : DVals, st : {0, 1},
         ans : [st : {"none", "ok", "failed"}, val : DVals], ret : {"none", "ok", "failed"}]

\* Types that hold while the driver is used one task at a time: every chain then
\* begins at descriptor 0, so that all entries of the avail ring are 0, and the used
\* elements below the index have been written.
ServeType ==
  /\ req \in Seq(Reqs) /\ media \in [Sectors -> DVals] /\ dq.addr \in [Descs -> Nat]
  /\ ring \in [avail : [RingSlots -> {0}], aidx : DIndices, uidx : DIndices, written : SUBSET RingSlots]
  /\ \A s \in RingSlots : s \in ring.written \/ s >= ring.uidx
  /\ dev.taken \in DIndices

\* Nothing is at the device and nothing is waiting for it.
Quiet == dev.taken = ring.aidx /\ dev.flight = {}

\* The three descriptors of the call carry the addresses of its own request.
Filled(u) ==
  LET h == dcall[u].head
      m == dq.next[h]
      t == dq.next[m]
  IN dq.addr[h] = Len(req) /\ dq.addr[m] = Len(req) /\ dq.addr[t] = Len(req)

\* The phases of the one request: published, at the device, answered.
DQueued(u) == (dev.taken + 1) % IdxMod = ring.aidx /\ dev.flight = {}

DHeld(u) ==
  /\ dev.taken = ring.aidx
  /\ dev.flight = {[head |-> dcall[u].head, hdr |-> Len(req), buf |-> Len(req), st |-> Len(req)]}

AnswerOf(r) ==
  \/ r.st = 0 /\ r.ans.st = "ok" /\ r.buf = r.ans.val
  \/ r.st = 1 /\ r.ans.st = "failed"

DServed == Quiet /\ AnswerOf(req[Len(req)])

\* The request of the task inside the driver, by where the task stands.  It takes
\* the used index for its own answer only when there is one, and an index that has
\* come round since means that every used element has been written.
InCall(u) ==
  /\ dcall[u].r = Len(req) /\ Len(req) > 0 /\ req[Len(req)].ret = "none"
  /\ dcall[u].pc \in {"alloc", "fill", "ring", "publish"} => Quiet
  /\ dcall[u].pc \in {"ring", "publish", "last", "notify", "wait"} => Filled(u)
  /\ dcall[u].pc # "alloc" => dcall[u].head = 0
  /\ dcall[u].pc \in {"last", "notify", "wait"} => DQueued(u) \/ DHeld(u) \/ DServed
  /\ dcall[u].pc \in {"notify", "wait"} =>
       /\ dcall[u].last = ring.uidx \/ DServed
       /\ dcall[u].last \in DIndices /\ (dcall[u].last > ring.uidx => \A s \in RingSlots : s \in ring.written)

DPcs == {"idle", "alloc", "fill", "ring", "publish", "last", "notify", "wait"}

\* No task, and at most one task, is inside the driver.
AllOut == \A u \in DUsers : dcall[u].pc = "idle"

OneIn == \A u, w \in DUsers : dcall[u].pc # "idle" /\ dcall[w].pc # "idle" => u = w

\* Every call that has returned did so with its own answer.
ReturnsAnswered == \A i \in DOMAIN req : req[i].ret # "none" => Answered(req[i])

\* The inductive invariant of the requests, until two tasks meet in the driver.
Alone ==
  /\ ServeType /\ OneIn /\ ReturnsAnswered
  /\ \A u \in DUsers : dcall[u].pc \in DPcs
  /\ AllOut => Quiet
  /\ \A u \in DUsers : dcall[u].pc # "idle" => InCall(u)

AloneInv == ~crowded => Alone

\* An index stays in range and selects an entry of the ring, for the driver and for
\* the device.
LEMMA DIndexNext ==
  \A i \in DIndices : (i + 1) % IdxMod \in DIndices /\ i % DQSize \in RingSlots /\ i % DevSize \in RingSlots
<1>1. IdxMod \in Nat /\ IdxMod > 0 /\ DQSize \in Nat /\ DQSize > 0 /\ DevSize \in Nat /\ DevSize >= DQSize
  BY VirtioDiskAssumption
<1> SUFFICES ASSUME NEW i \in DIndices
             PROVE  (i + 1) % IdxMod \in DIndices /\ i % DQSize \in RingSlots /\ i % DevSize \in RingSlots
  OBVIOUS
<1>2. i \in Nat /\ (i + 1) % IdxMod \in 0..IdxMod - 1 /\ i % DQSize \in 0..DQSize - 1 /\ i % DevSize \in 0..DevSize - 1
  BY <1>1 DEF DIndices
<1> QED BY <1>1, <1>2 DEF DIndices, RingSlots

\* With no descriptor in use a pass begins with descriptor 0.
LEMMA FirstDesc == ASSUME NEW s \in Pass({}), Len(s.found) = 3 PROVE s.found[1] = 0
<1>1. DQSize \in Nat /\ DQSize > 0 /\ 0 \in Descs
  BY VirtioDiskAssumption DEF Descs
<1>2. Unmarked({}) # {}
  BY <1>1 DEF Unmarked
<1>3. LowestFree({}) = 0
  <2>1. Bit(0) \cap {} = {} /\ \A e \in 0..0 - 1 : Bit(e) \cap {} # {}
    OBVIOUS
  <2>2. ASSUME NEW d \in Descs, \A e \in 0..d - 1 : Bit(e) \cap {} # {} PROVE d = 0
    <3>1. d \in Nat /\ 0..d - 1 = {}
      BY <1>1, <2>2 DEF Descs
    <3> QED BY <3>1
  <2> QED BY <1>1, <2>1, <2>2 DEF LowestFree
<1>4. PICK a : a = MarkNext([busy |-> {}, found |-> <<>>])
  OBVIOUS
<1>5. a.found = <<0>>
  BY <1>2, <1>3, <1>4 DEF MarkNext
<1>6. PICK b : b = MarkNext(a) /\ s = MarkNext(b)
  BY <1>4, Zenon DEF Pass
<1>7. ASSUME NEW x, x.found \in Seq(Descs), Len(x.found) > 0, x.found[1] = 0
      PROVE  MarkNext(x).found \in Seq(Descs) /\ Len(MarkNext(x).found) > 0 /\ MarkNext(x).found[1] = 0
  <2>1. CASE Unmarked(x.busy) = {}
    BY <1>7, <2>1 DEF MarkNext
  <2>2. CASE Unmarked(x.busy) # {}
    <3>1. LowestFree(x.busy) \in Descs
      BY <2>2, LowestFreeFree
    <3>2. MarkNext(x).found = Append(x.found, LowestFree(x.busy))
      BY <2>2 DEF MarkNext
    <3> QED BY <1>7, <3>1, <3>2
  <2> QED BY <2>1, <2>2
<1>8. a.found \in Seq(Descs) /\ Len(a.found) > 0 /\ a.found[1] = 0
  BY <1>1, <1>5
<1>9. b.found \in Seq(Descs) /\ Len(b.found) > 0 /\ b.found[1] = 0
  BY <1>6, <1>7, <1>8
<1> QED BY <1>6, <1>7, <1>9

\* A step of the one task inside the driver, which stays inside.
LEMMA AloneMoves ==
  ASSUME CallsOK, Alone, NEW u \in DUsers, dcall[u].pc # "idle",
         \A w \in DUsers : w # u => dcall'[w] = dcall[w], dcall'[u].pc \in DPcs \ {"idle"}, req' = req,
         ServeType', InCall(u)'
  PROVE  Alone'
<1>1. \A w \in DUsers : w # u => dcall'[w].pc = "idle"
  BY DEF Alone, OneIn
<1>3. OneIn' /\ ~AllOut' /\ \A w \in DUsers : dcall'[w].pc \in DPcs
  BY <1>1 DEF OneIn, AllOut, DPcs
<1>4. ReturnsAnswered'
  BY DEF Alone, ReturnsAnswered
<1>5. \A w \in DUsers : dcall'[w].pc # "idle" => InCall(w)'
  BY <1>1
<1> QED BY <1>3, <1>4, <1>5 DEF Alone

\* A task enters the empty driver with a new request.
LEMMA AloneIssue ==
  ASSUME CallsOK, Alone, NEW u \in DUsers, NEW op \in {"read", "write"}, NEW s \in Sectors, NEW v \in DVals,
         Issue(u, op, s, v), ~crowded'
  PROVE  Alone'
<1>1. PICK r : r = [op |-> op, sec |-> s, buf |-> v, st |-> 0, ans |-> NoAns, ret |-> "none"]
  OBVIOUS
<1>2. r \in Reqs /\ r.ret = "none"
  BY <1>1, VirtioDiskAssumption DEF Reqs, NoAns
<1>3. /\ req' = Append(req, r) /\ AllOut
      /\ dcall' = [dcall EXCEPT ![u] = [pc |-> "alloc", r |-> Len(req) + 1, head |-> 0, last |-> 0]]
      /\ dq' = dq /\ ring' = ring /\ dev' = dev /\ media' = media
  BY <1>1, Zenon DEF Issue, AllOut
<1>4. req \in Seq(Reqs)
  BY DEF Alone, ServeType
<1>5. /\ req' \in Seq(Reqs) /\ Len(req') = Len(req) + 1 /\ Len(req) \in Nat /\ req'[Len(req) + 1] = r
      /\ DOMAIN req' = 1..(Len(req) + 1) /\ \A i \in DOMAIN req : req'[i] = req[i] /\ DOMAIN req = 1..Len(req)
  BY <1>2, <1>3, <1>4
<1>6. ServeType' /\ Quiet'
  BY <1>3, <1>5 DEF Alone, ServeType, Quiet
<1>7. \A w \in DUsers : w # u => dcall'[w].pc = "idle"
  BY <1>3 DEF AllOut, CallsOK
<1>8. dcall'[u] = [pc |-> "alloc", r |-> Len(req) + 1, head |-> 0, last |-> 0]
        /\ \A w \in DUsers : w # u => dcall'[w] = dcall[w]
  BY <1>3 DEF CallsOK
<1>9. OneIn' /\ \A w \in DUsers : dcall'[w].pc \in DPcs
  BY <1>7, <1>8 DEF OneIn, DPcs
<1>10. InCall(u)'
  BY <1>2, <1>5, <1>6, <1>8 DEF InCall
<1>11. ReturnsAnswered'
  <2> SUFFICES ASSUME NEW i \in DOMAIN req', req'[i].ret # "none" PROVE Answered(req'[i])
    BY DEF ReturnsAnswered
  <2>1. i \in DOMAIN req /\ req'[i] = req[i]
    BY <1>2, <1>4, <1>5
  <2> QED BY <2>1 DEF Alone, ReturnsAnswered
<1> QED BY <1>6, <1>7, <1>9, <1>10, <1>11 DEF Alone

\* Each step of virtio_disk_rw_sync() up to the wait.
LEMMA AloneDriver ==
  ASSUME DescInv, Alone, NEW u \in DUsers,
         alloc_desc(u) \/ Fill(u) \/ RingEntry(u) \/ Publish(u) \/ ReadLast(u) \/ Notify(u)
  PROVE  Alone'
<1>0. CallsOK /\ dcall[u].pc # "idle" /\ InCall(u) /\ ServeType /\ req' = req /\ media' = media
  <2>1. dcall[u].pc # "idle" /\ req' = req /\ media' = media
    BY Zenon DEF alloc_desc, Fill, RingEntry, Publish, ReadLast, Notify
  <2> QED BY <2>1 DEF DescInv, Alone
<1>1. dq.next \in [Descs -> Descs] /\ (dcall[u].pc \notin {"idle", "alloc"} => dcall[u].head \in Descs)
  BY DEF DescInv, Linked, InFlight
<1>2. CASE alloc_desc(u)
  <2>1. dcall[u].pc = "alloc" /\ dq'.addr = dq.addr /\ ring' = ring /\ dev' = dev
    BY <1>2 DEF alloc_desc
  <2>2. ServeType'
    BY <1>0, <2>1 DEF ServeType
  <2>3. Quiet'
    BY <1>0, <2>1 DEF InCall, Quiet
  <2>4. CASE dcall' = dcall
    <3>1. InCall(u)'
      BY <1>0, <2>1, <2>3, <2>4 DEF InCall
    <3> QED BY <1>0, <2>1, <2>2, <2>4, <3>1, AloneMoves DEF DPcs
  <2>5. CASE \E s \in Pass(dq.busy) : Len(s.found) = 3
               /\ dcall' = [dcall EXCEPT ![u] = [pc |-> "fill", r |-> dcall[u].r, head |-> s.found[1], last |-> 0]]
    <3>0. PICK s \in Pass(dq.busy) : Len(s.found) = 3
               /\ dcall' = [dcall EXCEPT ![u] = [pc |-> "fill", r |-> dcall[u].r, head |-> s.found[1], last |-> 0]]
      BY <2>5
    <3>5. dq.busy = {}
      <4>1. InFlight = {}
        BY <2>1 DEF Alone, OneIn, InFlight
      <4> QED BY <4>1 DEF DescInv, Marks
    <3>1. PICK h : h = 0 /\ dcall' = [dcall EXCEPT ![u] = [pc |-> "fill", r |-> dcall[u].r, head |-> h, last |-> 0]]
      BY <3>0, <3>5, FirstDesc
    <3>2. dcall'[u] = [pc |-> "fill", r |-> dcall[u].r, head |-> h, last |-> 0]
        /\ \A w \in DUsers : w # u => dcall'[w] = dcall[w]
      BY <1>0, <3>1 DEF CallsOK
    <3>3. InCall(u)'
      <4>1. h = 0
        BY <3>1
      <4>2. dcall'[u].pc = "fill" /\ dcall'[u].r = dcall[u].r /\ dcall'[u].head = 0
        BY <3>2, <4>1
      <4> QED BY <1>0, <2>3, <4>2 DEF InCall
    <3> QED BY <1>0, <2>2, <3>2, <3>3, AloneMoves DEF DPcs
  <2> QED BY <1>2, <2>4, <2>5, Zenon DEF alloc_desc
<1>3. CASE Fill(u)
  <2>1. dcall[u].pc = "fill" /\ ring' = ring /\ dev' = dev
    BY <1>3 DEF Fill
  <2>2. PICK h, m, t : h = dcall[u].head /\ m = dq.next[h] /\ t = dq.next[m]
    OBVIOUS
  <2>3. h \in Descs /\ m \in Descs /\ t \in Descs
    BY <1>1, <2>1, <2>2
  <2>4. dq'.next = dq.next /\ dq'.addr = [dq.addr EXCEPT ![h] = dcall[u].r, ![m] = dcall[u].r, ![t] = dcall[u].r]
    BY <1>3, <2>2 DEF Fill
  <2>5. dcall' = [dcall EXCEPT ![u] = [pc |-> "ring", r |-> dcall[u].r, head |-> dcall[u].head, last |-> dcall[u].last]]
    BY <1>0, <1>3, CallPc, Zenon DEF Fill
  <2>6. dcall'[u] = [pc |-> "ring", r |-> dcall[u].r, head |-> dcall[u].head, last |-> dcall[u].last]
        /\ \A w \in DUsers : w # u => dcall'[w] = dcall[w]
    BY <1>0, <2>5 DEF CallsOK
  <2>7. dcall[u].r = Len(req) /\ Len(req) \in Nat /\ dq.addr \in [Descs -> Nat]
    BY <1>0 DEF InCall, ServeType
  <2>8. dq'.addr \in [Descs -> Nat] /\ dq'.addr[h] = Len(req) /\ dq'.addr[m] = Len(req) /\ dq'.addr[t] = Len(req)
    BY <2>3, <2>4, <2>7
  <2>9. ServeType'
    BY <1>0, <2>1, <2>8 DEF ServeType
  <2>10. Filled(u)'
    <3>1. dcall'[u].head = h /\ dq'.next[h] = m /\ dq'.next[m] = t /\ Len(req') = Len(req)
      BY <1>0, <2>2, <2>4, <2>6
    <3> QED BY <2>8, <3>1 DEF Filled
  <2>11. InCall(u)'
    BY <1>0, <2>1, <2>6, <2>10 DEF InCall, Quiet
  <2> QED BY <1>0, <2>6, <2>9, <2>11, AloneMoves DEF DPcs
<1>4. CASE RingEntry(u)
  <2>1. dcall[u].pc = "ring" /\ dq' = dq /\ dev' = dev
        /\ ring' = [avail |-> [ring.avail EXCEPT ![ring.aidx % DQSize] = dcall[u].head],
                    aidx |-> ring.aidx, uidx |-> ring.uidx, written |-> ring.written]
    BY <1>4, Zenon DEF RingEntry
  <2>2. dcall' = [dcall EXCEPT ![u] = [pc |-> "publish", r |-> dcall[u].r, head |-> dcall[u].head, last |-> dcall[u].last]]
    BY <1>0, <1>4, CallPc, Zenon DEF RingEntry
  <2>3. dcall'[u] = [pc |-> "publish", r |-> dcall[u].r, head |-> dcall[u].head, last |-> dcall[u].last]
        /\ \A w \in DUsers : w # u => dcall'[w] = dcall[w]
    BY <1>0, <2>2 DEF CallsOK
  <2>4. ring.aidx % DQSize \in RingSlots /\ dcall[u].head = 0
    BY <1>0, <2>1, DIndexNext DEF ServeType, InCall
  <2>5. ServeType'
    BY <1>0, <2>1, <2>4 DEF ServeType
  <2>7. InCall(u)'
    BY <1>0, <2>1, <2>3 DEF InCall, Quiet, Filled
  <2> QED BY <1>0, <2>3, <2>5, <2>7, AloneMoves DEF DPcs
<1>5. CASE Publish(u)
  <2>1. dcall[u].pc = "publish" /\ dq' = dq /\ dev' = dev
        /\ ring' = [avail |-> ring.avail, aidx |-> (ring.aidx + 1) % IdxMod, uidx |-> ring.uidx, written |-> ring.written]
    BY <1>5, Zenon DEF Publish
  <2>2. dcall' = [dcall EXCEPT ![u] = [pc |-> "last", r |-> dcall[u].r, head |-> dcall[u].head, last |-> dcall[u].last]]
    BY <1>0, <1>5, CallPc, Zenon DEF Publish
  <2>3. dcall'[u] = [pc |-> "last", r |-> dcall[u].r, head |-> dcall[u].head, last |-> dcall[u].last]
        /\ \A w \in DUsers : w # u => dcall'[w] = dcall[w]
    BY <1>0, <2>2 DEF CallsOK
  <2>4. ServeType'
    BY <1>0, <2>1, DIndexNext DEF ServeType
  <2>5. DQueued(u)'
    BY <1>0, <2>1, <2>3 DEF InCall, Quiet, DQueued
  <2>6. InCall(u)'
    BY <1>0, <2>1, <2>3, <2>5 DEF InCall, Filled
  <2> QED BY <1>0, <2>3, <2>4, <2>6, AloneMoves DEF DPcs
<1>6. CASE ReadLast(u)
  <2>1. dcall[u].pc = "last" /\ dq' = dq /\ dev' = dev /\ ring' = ring
        /\ dcall' = [dcall EXCEPT ![u] = [pc |-> "notify", r |-> dcall[u].r, head |-> dcall[u].head, last |-> ring.uidx]]
    BY <1>6, Zenon DEF ReadLast
  <2>2. dcall'[u] = [pc |-> "notify", r |-> dcall[u].r, head |-> dcall[u].head, last |-> ring.uidx]
        /\ \A w \in DUsers : w # u => dcall'[w] = dcall[w]
    BY <1>0, <2>1 DEF CallsOK
  <2>3. ServeType'
    BY <1>0, <2>1 DEF ServeType
  <2>4. DQueued(u)' \/ DHeld(u)' \/ DServed'
    BY <1>0, <2>1, <2>2 DEF InCall, DQueued, DHeld, DServed, Quiet, AnswerOf
  <2>6. dcall'[u].last = ring'.uidx /\ ring'.uidx \in DIndices /\ ~(dcall'[u].last > ring'.uidx)
    BY <1>0, <2>1, <2>2 DEF ServeType, DIndices
  <2>5. InCall(u)'
    BY <1>0, <2>1, <2>2, <2>4, <2>6 DEF InCall, Filled
  <2> QED BY <1>0, <2>2, <2>3, <2>5, AloneMoves DEF DPcs
<1>7. CASE Notify(u)
  <2>1. dcall[u].pc = "notify" /\ dq' = dq /\ ring' = ring
        /\ dev' = [kick |-> TRUE, taken |-> dev.taken, flight |-> dev.flight]
    BY <1>7, Zenon DEF Notify
  <2>2. dcall' = [dcall EXCEPT ![u] = [pc |-> "wait", r |-> dcall[u].r, head |-> dcall[u].head, last |-> dcall[u].last]]
    BY <1>0, <1>7, CallPc, Zenon DEF Notify
  <2>3. dcall'[u] = [pc |-> "wait", r |-> dcall[u].r, head |-> dcall[u].head, last |-> dcall[u].last]
        /\ \A w \in DUsers : w # u => dcall'[w] = dcall[w]
    BY <1>0, <2>2 DEF CallsOK
  <2>4. ServeType' /\ dev'.taken = dev.taken /\ dev'.flight = dev.flight
    BY <1>0, <2>1 DEF ServeType
  <2>5. DServed => DServed'
    BY <1>0, <2>1, <2>4 DEF DServed, Quiet, AnswerOf
  <2>6. DQueued(u)' \/ DHeld(u)' \/ DServed'
    BY <1>0, <2>1, <2>3, <2>4, <2>5 DEF InCall, DQueued, DHeld
  <2>7. InCall(u)'
    BY <1>0, <2>1, <2>3, <2>5, <2>6 DEF InCall, Filled
  <2> QED BY <1>0, <2>3, <2>4, <2>7, AloneMoves DEF DPcs
<1> QED BY <1>2, <1>3, <1>4, <1>5, <1>6, <1>7

\* The wait ends only in the last phase, so the result is that of this request, and
\* the element whose length is returned has been written.
LEMMA AloneFinish ==
  ASSUME DescInv, Alone, NEW u \in DUsers, Finish(u)
  PROVE  Alone'
<1>0. CallsOK /\ dcall[u].pc = "wait" /\ ring.uidx # dcall[u].last /\ ServeType
  BY DEF DescInv, Finish, Alone
<1>1. InCall(u)
  BY <1>0 DEF Alone
<1>2. PICK n : n = Len(req) /\ n = dcall[u].r /\ n \in 1..Len(req) /\ DOMAIN req = 1..Len(req)
  BY <1>0, <1>1 DEF InCall, ServeType
<1>3. Quiet /\ AnswerOf(req[n]) /\ req[n] \in Reqs
  BY <1>0, <1>1, <1>2 DEF InCall, DServed, ServeType
<1>4. PICK x : x = Returned(req[n], IF req[n].st # 0 \/ LengthUnset THEN "failed" ELSE "ok")
  OBVIOUS
<1>11. ~LengthUnset
  <2>1. PICK i : i = ring.uidx /\ i \in DIndices
    BY <1>0 DEF ServeType
  <2>2. IdxMod \in Nat /\ IdxMod >= DevSize /\ DevSize >= DQSize /\ DevSize \in Nat /\ DQSize \in Nat \ {0}
        /\ UsedSlot \in [0..IdxMod - 1 -> 0..DQSize - 1] /\ \A k \in 0..IdxMod - 1 : UsedSlot[k] <= k
    BY VirtioDiskAssumption
  <2>3. \A s \in RingSlots : s \in ring.written \/ s >= i
    BY <1>0, <2>1 DEF ServeType
  <2>4. i # dcall[u].last /\ dcall[u].last \in DIndices
        /\ (dcall[u].last > i => \A s \in RingSlots : s \in ring.written)
    BY <1>0, <1>1, <2>1 DEF InCall
  <2>5. CASE i > 0
    <3>1. i + IdxMod - 1 = (i - 1) + IdxMod /\ i - 1 \in 0..IdxMod - 1
      BY <2>1, <2>2, <2>5 DEF DIndices
    <3>2. (i + IdxMod - 1) % IdxMod = i - 1
      <4>1. i + IdxMod - 1 \in IdxMod..IdxMod + IdxMod - 1 /\ IdxMod \in Nat \ {0}
        BY <2>2, <3>1, <2>1, <2>5 DEF DIndices
      <4> QED BY <3>1, <4>1, ModOnce
    <3>3. UsedSlot[i - 1] \in RingSlots /\ UsedSlot[i - 1] <= i - 1
      BY <2>2, <3>1 DEF RingSlots
    <3>4. UsedSlot[i - 1] \in ring.written
      BY <2>1, <2>3, <3>3 DEF DIndices, RingSlots
    <3> QED BY <2>1, <3>2, <3>4 DEF LengthUnset
  <2>6. CASE i = 0
    <3>1. \A s \in RingSlots : s \in ring.written
      BY <2>4, <2>6 DEF DIndices
    <3>2. (0 + IdxMod - 1) % IdxMod = IdxMod - 1 /\ IdxMod - 1 \in 0..IdxMod - 1
      BY <2>2
    <3>3. UsedSlot[IdxMod - 1] \in RingSlots
      BY <2>2, <3>2 DEF RingSlots
    <3> QED BY <2>1, <2>6, <3>1, <3>2, <3>3 DEF LengthUnset
  <2> QED BY <2>1, <2>5, <2>6 DEF DIndices
<1>5. /\ req' = [req EXCEPT ![n] = x] /\ dcall' = [dcall EXCEPT ![u] = DIdle]
      /\ dq'.addr = dq.addr /\ ring' = ring /\ dev' = dev /\ media' = media
  <2>1. req' = [req EXCEPT ![n] = x] /\ dcall' = [dcall EXCEPT ![u] = DIdle] /\ ring' = ring /\ dev' = dev /\ media' = media
    BY <1>2, <1>4, Zenon DEF Finish
  <2>2. dq'.addr = dq.addr
    BY DEF Finish, free_desc
  <2> QED BY <2>1, <2>2
<1>6. x \in Reqs /\ Answered(x)
  <2>1. PICK how \in {"ok", "failed"} : x = Returned(req[n], how) /\ (how = "failed" <=> req[n].st # 0)
    BY <1>4, <1>11
  <2>2. x \in Reqs
    BY <1>3, <2>1 DEF Returned, Reqs
  <2>3. x.ret = how /\ x.ans = req[n].ans /\ x.buf = req[n].buf
    BY <2>1 DEF Returned
  <2> QED BY <1>3, <2>1, <2>2, <2>3 DEF AnswerOf, Answered
<1>7. /\ req' \in Seq(Reqs) /\ DOMAIN req' = DOMAIN req
      /\ req'[n] = x /\ \A i \in DOMAIN req : i # n => req'[i] = req[i]
  BY <1>0, <1>2, <1>5, <1>6 DEF ServeType
<1>8. ServeType' /\ Quiet'
  BY <1>0, <1>3, <1>5, <1>7 DEF ServeType, Quiet
<1>9. AllOut' /\ OneIn' /\ \A w \in DUsers : dcall'[w].pc \in DPcs
  BY <1>0, <1>5 DEF Alone, OneIn, AllOut, CallsOK, DIdle, DPcs
<1>10. ReturnsAnswered'
  <2> SUFFICES ASSUME NEW i \in DOMAIN req', req'[i].ret # "none" PROVE Answered(req'[i])
    BY DEF ReturnsAnswered
  <2>1. CASE i = n
    BY <1>6, <1>7, <2>1
  <2>2. CASE i # n
    BY <1>7, <2>2 DEF Alone, ReturnsAnswered
  <2> QED BY <2>1, <2>2
<1> QED BY <1>8, <1>9, <1>10 DEF Alone, AllOut

\* A step of the device while one task is inside: the phase of that task's request.
LEMMA AloneDevice ==
  ASSUME Alone, NEW u \in DUsers, dcall[u].pc # "idle", dcall' = dcall, dq' = dq,
         ServeType', InCall(u)', ReturnsAnswered'
  PROVE  Alone'
<1>1. \A w \in DUsers : dcall[w].pc # "idle" => w = u
  BY DEF Alone, OneIn
<1>2. OneIn' /\ \A w \in DUsers : dcall'[w].pc \in DPcs
  BY DEF Alone, OneIn
<1>3. ~AllOut'
  BY DEF AllOut
<1>4. \A w \in DUsers : dcall'[w].pc # "idle" => InCall(w)'
  BY <1>1
<1> QED BY <1>2, <1>3, <1>4 DEF Alone

\* The device takes the published chain, which is that of the one request.
LEMMA AloneTake == ASSUME DescInv, Alone, DevTake PROVE Alone'
<1>1. PICK u \in DUsers : dcall[u].pc # "idle"
  BY DEF Alone, AllOut, Quiet, DevTake
<1>2. InCall(u) /\ ServeType /\ dcall[u].pc \in DPcs
  BY <1>1 DEF Alone
<1>3. dev.taken # ring.aidx /\ UNCHANGED <<dq, ring, media, req, dcall, crowded>>
  BY DEF DevTake
<1>4. dcall[u].pc \in {"last", "notify", "wait"} /\ DQueued(u) /\ Filled(u)
  BY <1>1, <1>2, <1>3 DEF InCall, DPcs, Quiet, DHeld, DServed
<1>5. PICK n : n = Len(req)
  OBVIOUS
<1>6. PICK h, m, t : h = dcall[u].head /\ m = dq.next[h] /\ t = dq.next[m]
  OBVIOUS
<1>7. ring.avail[dev.taken % DevSize] = h /\ dq.addr[h] = n /\ dq.addr[m] = n /\ dq.addr[t] = n
      /\ (dev.taken + 1) % IdxMod = ring.aidx /\ dev.flight = {}
  <2>1. ring.avail[dev.taken % DevSize] = 0
    BY <1>2, DIndexNext DEF ServeType
  <2>2. h = 0
    BY <1>2, <1>4, <1>6 DEF InCall
  <2> QED BY <1>4, <1>5, <1>6, <2>1, <2>2 DEF DQueued, Filled
<1>8. dev'.taken = ring.aidx /\ dev'.flight = {[head |-> h, hdr |-> n, buf |-> n, st |-> n]}
  BY <1>6, <1>7 DEF DevTake
<1>9. ServeType'
  BY <1>2, <1>3, <1>8 DEF ServeType
<1>10. DHeld(u)'
  BY <1>3, <1>5, <1>6, <1>8 DEF DHeld
<1>11. ~DServed
  BY <1>3 DEF DServed, Quiet
<1>12. InCall(u)'
  BY <1>2, <1>3, <1>4, <1>10, <1>11 DEF InCall, Filled
<1>13. ReturnsAnswered'
  BY <1>3 DEF Alone, ReturnsAnswered
<1> QED BY <1>1, <1>3, <1>9, <1>12, <1>13, AloneDevice

\* A device that looks and finds nothing to take changes nothing of this.
LEMMA AloneKept ==
  ASSUME Alone, UNCHANGED <<dq, ring, media, req, dcall>>, dev'.taken = dev.taken, dev'.flight = dev.flight
  PROVE  Alone'
<1>1. UNCHANGED <<dq, ring, media, req, dcall>> /\ dev'.taken = dev.taken /\ dev'.flight = dev.flight
  OBVIOUS
<1>2. ServeType' /\ OneIn' /\ ReturnsAnswered' /\ (\A u \in DUsers : dcall'[u].pc \in DPcs) /\ (AllOut' => Quiet')
  BY <1>1 DEF Alone, ServeType, OneIn, ReturnsAnswered, AllOut, Quiet
<1>3. ASSUME NEW u \in DUsers, dcall'[u].pc # "idle" PROVE InCall(u)'
  <2>1. InCall(u)
    BY <1>1, <1>3 DEF Alone
  <2> QED BY <1>1, <2>1 DEF InCall, Quiet, Filled, DQueued, DHeld, DServed, AnswerOf
<1> QED BY <1>2, <1>3 DEF Alone

\* The device writes data and status through a chain of one request only.
LEMMA DevWritesOne ==
  ASSUME req \in Seq(Reqs), NEW n \in 1..Len(req), NEW f, f.hdr = n, f.buf = n, f.st = n,
         NEW v \in DVals, NEW b \in {0, 1}, NEW a \in [st : {"none", "ok", "failed"}, val : DVals],
         DevWrites(f, v, b, a)
  PROVE  /\ req' \in Seq(Reqs) /\ Len(req') = Len(req) /\ DOMAIN req' = DOMAIN req
         /\ req'[n] = [op |-> req[n].op, sec |-> req[n].sec, ret |-> req[n].ret,
                       buf |-> v, st |-> b, ans |-> a]
         /\ \A i \in DOMAIN req : i # n => req'[i] = req[i]
<1>1. DOMAIN req = 1..Len(req) /\ Len(req) \in Nat /\ \A i \in 1..Len(req) : req[i] \in Reqs
  OBVIOUS
<1>2. PICK x : x = [op |-> req[n].op, sec |-> req[n].sec, ret |-> req[n].ret,
                    buf |-> v, st |-> b, ans |-> a]
  OBVIOUS
<1>3. x \in Reqs
  BY <1>1, <1>2 DEF Reqs
<1>4. DOMAIN req' = 1..Len(req) /\ req'[n] = x
  BY <1>1, <1>2 DEF DevWrites
<1>5. \A i \in 1..Len(req) : i # n => req'[i] = req[i]
  <2> SUFFICES ASSUME NEW i \in 1..Len(req), i # n PROVE req'[i] = req[i]
    OBVIOUS
  <2>1. req[i] = [op |-> req[i].op, sec |-> req[i].sec, ret |-> req[i].ret,
                  buf |-> req[i].buf, st |-> req[i].st, ans |-> req[i].ans]
    BY <1>1 DEF Reqs
  <2>2. req'[i] = [op |-> req[i].op, sec |-> req[i].sec, ret |-> req[i].ret,
                   buf |-> req[i].buf, st |-> req[i].st, ans |-> req[i].ans]
    BY <1>1 DEF DevWrites
  <2> QED BY <2>1, <2>2
<1>6. \A i \in 1..Len(req) : req'[i] \in Reqs
  BY <1>1, <1>3, <1>4, <1>5
<1>7. req' = [i \in 1..Len(req) |-> req'[i]]
  BY <1>1 DEF DevWrites
<1>8. req' \in Seq(Reqs) /\ Len(req') = Len(req)
  BY <1>1, <1>6, <1>7
<1> QED BY <1>1, <1>2, <1>4, <1>5, <1>8

\* The device answers: what it held was the one request.
LEMMA AloneAnswer ==
  ASSUME DescInv, Alone, NEW f \in dev.flight, Serve(f) \/ Reject(f)
  PROVE  Alone'
<1>1. PICK u \in DUsers : dcall[u].pc # "idle"
  BY DEF Alone, AllOut, Quiet
<1>2. InCall(u) /\ ServeType /\ dcall[u].pc \in DPcs
  BY <1>1 DEF Alone
<1>3. dcall[u].pc \in {"last", "notify", "wait"} /\ DHeld(u) /\ Filled(u)
  BY <1>1, <1>2 DEF InCall, DPcs, Quiet, DQueued, DServed
<1>4. PICK n : n = Len(req) /\ n \in 1..Len(req) /\ DOMAIN req = 1..Len(req)
  BY <1>2 DEF InCall, ServeType
<1>5. f.hdr = n /\ f.buf = n /\ f.st = n /\ dev.flight = {f} /\ dev.taken = ring.aidx
  BY <1>3, <1>4 DEF DHeld
<1>6. req[n] \in Reqs /\ req[n].ret = "none"
  BY <1>2, <1>4 DEF InCall, ServeType
<1>7. dcall' = dcall /\ dq' = dq /\ dev'.taken = dev.taken /\ dev'.flight = {}
  BY <1>5 DEF Serve, Reject, Complete
<1>8. \E v \in DVals, b \in {0, 1}, a \in [st : {"none", "ok", "failed"}, val : DVals] :
         /\ DevWrites(f, v, b, a) /\ Used /\ media' \in [Sectors -> DVals]
         /\ \/ b = 0 /\ a.st = "ok" /\ a.val = v
            \/ b = 1 /\ a.st = "failed"
  <2>1. media \in [Sectors -> DVals] /\ req[n].sec \in Sectors /\ req[n].buf \in DVals
    BY <1>2, <1>6 DEF ServeType, Reqs
  <2>2. CASE Serve(f)
    <3>1. PICK v \in DVals : v = IF req[n].op = "read" THEN media[req[n].sec] ELSE req[n].buf
      BY <2>1
    <3>2. DevWrites(f, v, 0, [st |-> "ok", val |-> v]) /\ Used
      BY <1>5, <2>2, <3>1, Zenon DEF Serve
    <3>3. media' = IF req[n].op = "read" THEN media ELSE [media EXCEPT ![req[n].sec] = v]
      BY <1>5, <2>2, <3>1, Zenon DEF Serve
    <3>4. media' \in [Sectors -> DVals]
      BY <2>1, <3>3
    <3>5. [st |-> "ok", val |-> v] \in [st : {"none", "ok", "failed"}, val : DVals]
      OBVIOUS
    <3> QED BY <3>2, <3>4, <3>5
  <2>3. CASE Reject(f)
    <3>1. DevWrites(f, req[n].buf, 1, [st |-> "failed", val |-> 0]) /\ Used /\ media' = media
      BY <1>5, <2>3, Zenon DEF Reject
    <3>2. [st |-> "failed", val |-> 0] \in [st : {"none", "ok", "failed"}, val : DVals]
      BY VirtioDiskAssumption
    <3> QED BY <2>1, <3>1, <3>2
  <2> QED BY <2>2, <2>3
<1>9. PICK v \in DVals, b \in {0, 1}, a \in [st : {"none", "ok", "failed"}, val : DVals] :
         /\ DevWrites(f, v, b, a) /\ Used /\ media' \in [Sectors -> DVals]
         /\ \/ b = 0 /\ a.st = "ok" /\ a.val = v
            \/ b = 1 /\ a.st = "failed"
  BY <1>8
<1>10. /\ req' \in Seq(Reqs) /\ Len(req') = Len(req) /\ DOMAIN req' = DOMAIN req
       /\ req'[n] = [op |-> req[n].op, sec |-> req[n].sec, ret |-> req[n].ret,
                     buf |-> v, st |-> b, ans |-> a]
       /\ \A i \in DOMAIN req : i # n => req'[i] = req[i]
  BY <1>2, <1>4, <1>5, <1>9, DevWritesOne DEF ServeType
<1>11. ring' = [avail |-> ring.avail, aidx |-> ring.aidx, uidx |-> (ring.uidx + 1) % IdxMod,
                written |-> ring.written \cup {ring.uidx % DevSize}]
  BY <1>9 DEF Used
<1>16. (\A s \in RingSlots : s \in ring'.written \/ s >= ring'.uidx)
       /\ (ring'.uidx = ring.uidx + 1 \/ \A s \in RingSlots : s \in ring'.written)
  <2>1. PICK i : i = ring.uidx /\ i \in DIndices
    BY <1>2 DEF ServeType
  <2>2. \A s \in RingSlots : s \in ring.written \/ s >= i
    BY <1>2, <2>1 DEF ServeType
  <2>3. IdxMod \in Nat /\ IdxMod >= DevSize /\ DevSize \in Nat /\ DevSize > 0
    BY VirtioDiskAssumption
  <2>4. ring'.uidx = (i + 1) % IdxMod /\ ring'.written = ring.written \cup {i % DevSize}
    BY <1>11, <2>1
  <2>5. \A s \in RingSlots : s = i => i % DevSize = s
    BY <2>1, <2>3 DEF RingSlots
  <2>6. \A s \in RingSlots : s \in ring'.written \/ s >= i + 1
    BY <2>1, <2>2, <2>4, <2>5 DEF RingSlots, DIndices
  <2>7. CASE i + 1 < IdxMod
    <3>1. (i + 1) % IdxMod = i + 1
      BY <2>1, <2>3, <2>7 DEF DIndices
    <3> QED BY <2>1, <2>4, <2>6, <3>1
  <2>8. CASE i + 1 = IdxMod
    <3>1. \A s \in RingSlots : ~(s >= i + 1)
      BY <2>3, <2>8 DEF RingSlots
    <3> QED BY <2>6, <3>1
  <2> QED BY <2>1, <2>3, <2>7, <2>8 DEF DIndices
<1>12. ServeType'
  BY <1>2, <1>7, <1>9, <1>10, <1>11, <1>16, DIndexNext DEF ServeType
<1>13. DServed'
  <2>1. AnswerOf(req[n])'
    BY <1>9, <1>10, <1>11 DEF AnswerOf
  <2>2. Quiet'
    BY <1>5, <1>7, <1>11 DEF Quiet
  <2> QED BY <1>4, <1>10, <2>1, <2>2 DEF DServed
<1>14. InCall(u)'
  <2>1. dcall'[u].r = Len(req') /\ Len(req') > 0 /\ req'[Len(req')].ret = "none"
    BY <1>2, <1>4, <1>6, <1>7, <1>10 DEF InCall
  <2>2. Filled(u)'
    BY <1>3, <1>7, <1>10 DEF Filled
  <2>3. dcall[u].pc \in {"notify", "wait"} => dcall'[u].last \in DIndices
          /\ (dcall'[u].last > ring'.uidx => \A s \in RingSlots : s \in ring'.written)
    <3> SUFFICES ASSUME dcall[u].pc \in {"notify", "wait"}
                 PROVE  dcall'[u].last \in DIndices
                        /\ (dcall'[u].last > ring'.uidx => \A s \in RingSlots : s \in ring'.written)
      OBVIOUS
    <3>1. PICK l : l = dcall[u].last /\ l \in DIndices /\ (l > ring.uidx => \A s \in RingSlots : s \in ring.written)
      BY <1>2 DEF InCall
    <3>2. dcall'[u].last = l /\ ring.written \subseteq ring'.written /\ ring.uidx \in Nat /\ l \in Nat
      BY <1>2, <1>7, <1>11, <3>1 DEF ServeType, DIndices
    <3> QED BY <1>16, <3>1, <3>2
  <2>4. dcall'[u].head = 0
    BY <1>2, <1>3, <1>7 DEF InCall
  <2> QED BY <1>3, <1>7, <1>13, <2>1, <2>2, <2>3, <2>4 DEF InCall
<1>15. ReturnsAnswered'
  <2> SUFFICES ASSUME NEW i \in DOMAIN req', req'[i].ret # "none" PROVE Answered(req'[i])
    BY DEF ReturnsAnswered
  <2>1. i # n
    BY <1>6, <1>10
  <2> QED BY <1>10, <2>1 DEF Alone, ReturnsAnswered
<1> QED BY <1>1, <1>7, <1>12, <1>14, <1>15, AloneDevice

\* Every step keeps the invariant, as long as no two tasks meet.
LEMMA AloneStep == DescInv /\ AloneInv /\ [DNext]_dVars => AloneInv'
<1> SUFFICES ASSUME DescInv, AloneInv, [DNext]_dVars, ~crowded' PROVE Alone'
  BY DEF AloneInv
<1>1. ~crowded
  BY Zenon DEF DNext, dVars, Driver, virtio_blk_read, virtio_blk_write, Issue, alloc_desc, Fill, RingEntry, Publish,
            ReadLast, Notify, Finish, DevTake, LookAgain, Serve, Reject, Complete
<1>2. Alone /\ CallsOK
  BY <1>1 DEF AloneInv, DescInv
<1>3. ASSUME NEW u \in DUsers, virtio_blk_read(u) \/ virtio_blk_write(u) PROVE Alone'
  BY <1>2, <1>3, AloneIssue, VirtioDiskAssumption DEF virtio_blk_read, virtio_blk_write
<1>4. ASSUME NEW u \in DUsers, Driver(u) PROVE Alone'
  BY <1>2, <1>4, AloneDriver, AloneFinish, Zenon DEF Driver
<1>5. CASE UNCHANGED dVars
  BY <1>2, <1>5, AloneKept DEF dVars
<1>6. CASE LookAgain
  BY <1>2, <1>6, AloneKept DEF LookAgain
<1> QED BY <1>2, <1>3, <1>4, <1>5, <1>6, AloneTake, AloneAnswer, Zenon DEF DNext

\* For any number of tasks and requests, while they do not meet in the driver:
\* virtio_disk_rw_sync() returns only after the device served its very request,
\* with its result, and nothing of a request that has returned is left at the
\* device.  The queue size of the driver, that of the device and the range of the
\* indices are any numbers in that order, 56, 256 and 65536 among them.
THEOREM RequestsServedHolds == DSpec => []RequestsServed
<1>1. DInit => DescInv
  BY DescInit
<1>2. DInit => AloneInv
  <2> SUFFICES ASSUME DInit PROVE Alone
    BY DEF AloneInv
  <2>1. ServeType
    BY VirtioDiskAssumption DEF DInit, ServeType, Descs, DIndices, RingSlots
  <2>2. OneIn /\ ReturnsAnswered /\ Quiet /\ \A u \in DUsers : dcall[u].pc = "idle"
    BY DEF DInit, OneIn, ReturnsAnswered, Quiet, DIdle
  <2> QED BY <2>1, <2>2 DEF Alone, DPcs
<1>3. AloneInv => RequestsServed
  <2> SUFFICES ASSUME AloneInv, ~crowded PROVE OwnAnswer /\ NoLateTransfer
    BY DEF RequestsServed, OwnAnswer, NoLateTransfer
  <2>1. OwnAnswer
    BY DEF AloneInv, Alone, ReturnsAnswered, OwnAnswer
  <2>2. ASSUME NEW f \in dev.flight, NEW i \in {f.hdr, f.buf, f.st} PROVE req[i].ret = "none"
    <3>1. PICK u \in DUsers : dcall[u].pc # "idle"
      BY <2>2 DEF AloneInv, Alone, AllOut, Quiet
    <3>2. InCall(u) /\ dcall[u].pc \in DPcs
      BY <3>1 DEF AloneInv, Alone
    <3>3. DHeld(u)
      BY <3>1, <3>2, <2>2 DEF InCall, DPcs, Quiet, DQueued, DServed
    <3> QED BY <2>2, <3>2, <3>3 DEF InCall, DHeld
  <2> QED BY <2>1, <2>2 DEF NoLateTransfer
<1>4. DescInv /\ AloneInv /\ [DNext]_dVars => (DescInv /\ AloneInv)'
  BY DescStep, AloneStep
<1> QED BY <1>1, <1>2, <1>3, <1>4, PTL DEF DSpec


(***************************************************************************)
(* Keyboard                                                                *)
(***************************************************************************)

-----------------------------------------------------------------------------
(* Keyboard: what the events mean                                           *)

\* Characters of the keyboard, and its state without the ring.
KeyChars == {"esc", "[", "A", "Q", "^q", "q", "0"}
KeyStates == [shift : BOOLEAN, ctrl : BOOLEAN, out : Seq(KeyChars)]
NothingYet == [shift |-> FALSE, ctrl |-> FALSE, out |-> <<>>]

\* An event is a pair.
LEMMA EventPair ==
  ASSUME NEW e \in Events
  PROVE  /\ e[1] \in {"letter", "shift", "ctrl", "arrow", "syn"} /\ e[2] \in {0, 1} /\ e = <<e[1], e[2]>>
BY DEF Events

\* What an event does to the modifiers and to the characters sent.
LEMMA EffectIs ==
  ASSUME NEW s \in KeyStates, NEW e \in Events
  PROVE  /\ Effect(s, e) \in KeyStates
         /\ Effect(s, e).shift = (IF e[1] = "shift" THEN e[2] = 1 ELSE s.shift)
         /\ Effect(s, e).ctrl = (IF e[1] = "ctrl" THEN e[2] = 1 ELSE s.ctrl)
         /\ Effect(s, e).out = IF e = <<"letter", 1>> THEN Append(s.out, Letter(s))
                               ELSE IF e = <<"arrow", 1>> THEN s.out \o Arrow ELSE s.out
<1>1. /\ e[1] \in {"letter", "shift", "ctrl", "arrow", "syn"} /\ e[2] \in {0, 1} /\ e = <<e[1], e[2]>>
  BY EventPair
<1>2. Letter(s) \in KeyChars /\ Arrow \in Seq(KeyChars) /\ s.out \in Seq(KeyChars)
  BY DEF Letter, Arrow, KeyChars, KeyStates
<1>3. CASE e[1] = "shift"
  <2>1. Effect(s, e) = [s EXCEPT !.shift = (e[2] = 1)] /\ e # <<"letter", 1>> /\ e # <<"arrow", 1>>
    BY <1>1, <1>3 DEF Effect
  <2> QED BY <1>3, <2>1 DEF KeyStates
<1>4. CASE e[1] = "ctrl"
  <2>1. Effect(s, e) = [s EXCEPT !.ctrl = (e[2] = 1)] /\ e # <<"letter", 1>> /\ e # <<"arrow", 1>>
    BY <1>1, <1>4 DEF Effect
  <2> QED BY <1>4, <2>1 DEF KeyStates
<1>5. CASE e = <<"letter", 1>>
  <2>1. Effect(s, e) = [s EXCEPT !.out = Append(@, Letter(s))] /\ e[1] = "letter" /\ e # <<"arrow", 1>>
    BY <1>1, <1>5 DEF Effect
  <2>2. Append(s.out, Letter(s)) \in Seq(KeyChars)
    BY <1>2
  <2> QED BY <1>5, <2>1, <2>2 DEF KeyStates
<1>6. CASE e = <<"arrow", 1>>
  <2>1. Effect(s, e) = [s EXCEPT !.out = @ \o Arrow] /\ e[1] = "arrow" /\ e # <<"letter", 1>>
    BY <1>1, <1>6 DEF Effect
  <2>2. s.out \o Arrow \in Seq(KeyChars)
    BY <1>2
  <2> QED BY <1>6, <2>1, <2>2 DEF KeyStates
<1>7. CASE e[1] \notin {"shift", "ctrl"} /\ e # <<"letter", 1>> /\ e # <<"arrow", 1>>
  <2>1. Effect(s, e) = s
    BY <1>7 DEF Effect
  <2> QED BY <1>7, <2>1 DEF KeyStates
<1> QED BY <1>3, <1>4, <1>5, <1>6, <1>7

\* The loop over the first n events.
IsRun(f, evs, n) == f[0] = NothingYet /\ \A i \in 1..n : f[i] = Effect(f[i - 1], evs[i])

\* Meaning() takes the rounds of that loop.
LEMMA MeaningRun ==
  ASSUME NEW evs \in Seq(Events), NEW n \in 0..Len(evs)
  PROVE  \E f \in [0..n -> KeyStates] : IsRun(f, evs, n) /\ Meaning(evs, n) = f[n]
<1> DEFINE F == [i \in 1..n |-> [s \in KeyStates |-> Effect(s, evs[i])]]
           Body(g) == [i \in 0..n |-> IF i = 0 THEN NothingYet ELSE Effect(g[i - 1], evs[i])]
           st == CHOOSE g : g = Body(g)
<1>1. n \in Nat /\ \A i \in 1..n : evs[i] \in Events
  OBVIOUS
<1>2. F \in [1..n -> [KeyStates -> KeyStates]]
  BY <1>1, EffectIs
<1>3. NothingYet \in KeyStates
  BY DEF NothingYet, KeyStates
<1>4. PICK f \in [0..n -> KeyStates] : IsLoop(f, n, NothingYet, F)
  <2> HIDE DEF F
  <2> QED BY <1>1, <1>2, <1>3, LoopExists
<1>5. IsRun(f, evs, n)
  BY <1>1, <1>4 DEF IsLoop, IsRun
<1>6. f = Body(f)
  <2>1. ASSUME NEW i \in 0..n PROVE f[i] = Body(f)[i]
    BY <1>5 DEF IsRun
  <2> QED BY <2>1
<1>7. st = Body(st)
  BY <1>6
<1>8. IsRun(st, evs, n)
  <2> HIDE DEF st
  <2> QED BY <1>7 DEF IsRun
<1>9. \A i \in 0..n : st[i] = f[i]
  <2>1. Alike(st, f, n)
    BY <1>5, <1>8 DEF IsRun, Alike
  <2> HIDE DEF st
  <2> QED BY <1>1, <2>1, LoopsAgree
<1>10. Meaning(evs, n) = st[n]
  BY DEF Meaning, NothingYet
<1> QED BY <1>5, <1>9, <1>10

\* The first event more.
LEMMA MeaningFirst ==
  ASSUME NEW evs \in Seq(Events) PROVE Meaning(evs, 0) = NothingYet
BY MeaningRun DEF IsRun

\* One event more.
LEMMA MeaningStep ==
  ASSUME NEW evs \in Seq(Events), NEW n \in 1..Len(evs)
  PROVE  Meaning(evs, n) = Effect(Meaning(evs, n - 1), evs[n])
<1>1. n \in 0..Len(evs) /\ n - 1 \in 0..Len(evs) /\ n - 1 \in Nat
  OBVIOUS
<1>2. PICK f \in [0..n -> KeyStates] : IsRun(f, evs, n) /\ Meaning(evs, n) = f[n]
  BY <1>1, MeaningRun
<1>3. PICK g \in [0..n - 1 -> KeyStates] : IsRun(g, evs, n - 1) /\ Meaning(evs, n - 1) = g[n - 1]
  BY <1>1, MeaningRun
<1>4. Alike(f, g, n - 1)
  BY <1>1, <1>2, <1>3 DEF Alike, IsRun
<1>5. f[n - 1] = g[n - 1]
  BY <1>1, <1>4, LoopsAgree
<1> QED BY <1>1, <1>2, <1>3, <1>5 DEF IsRun

\* What the events mean does not depend on later ones.
LEMMA MeaningAppend ==
  ASSUME NEW evs \in Seq(Events), NEW e \in Events, NEW n \in 0..Len(evs)
  PROVE  Meaning(Append(evs, e), n) = Meaning(evs, n) /\ Meaning(evs, n) \in KeyStates
<1> DEFINE more == Append(evs, e)
<1>1. /\ more \in Seq(Events) /\ Len(more) = Len(evs) + 1 /\ n \in 0..Len(more) /\ n \in Nat
      /\ \A i \in 1..n : more[i] = evs[i]
  OBVIOUS
<1> HIDE DEF more
<1>2. PICK f \in [0..n -> KeyStates] : IsRun(f, evs, n) /\ Meaning(evs, n) = f[n]
  BY MeaningRun
<1>3. PICK g \in [0..n -> KeyStates] : IsRun(g, more, n) /\ Meaning(more, n) = g[n]
  BY <1>1, MeaningRun
<1>4. Alike(f, g, n)
  BY <1>1, <1>2, <1>3 DEF Alike, IsRun
<1>5. f[n] = g[n]
  BY <1>1, <1>4, LoopsAgree
<1> QED BY <1>1, <1>2, <1>3, <1>5 DEF more

-----------------------------------------------------------------------------
(* Keyboard: the ring of characters                                         *)

KbRecs == [shift : BOOLEAN, ctrl : BOOLEAN, buf : [0..KRing - 1 -> KeyChars],
           head : 0..KRing - 1, tail : 0..KRing - 1]

\* The characters in the ring, from the oldest on.
WaitingOf(k) == [i \in 1..RingCount(k) |-> k.buf[(k.head + i - 1) % KRing]]

\* Where an index in the ring goes.
Around(x) == IF x < KRing THEN x ELSE x - KRing

\* The remainder of an index is where it goes.
LEMMA RingIndex ==
  ASSUME NEW x \in 0..KRing + KRing - 1 PROVE x % KRing = Around(x) /\ Around(x) \in 0..KRing - 1
<1>1. KRing \in Nat \ {0}
  BY KeyboardAssumption
<1>2. CASE x < KRing
  BY <1>1, <1>2, ModSmall DEF Around
<1>3. CASE x >= KRing
  BY <1>1, <1>3, ModOnce DEF Around
<1> QED BY <1>1, <1>2, <1>3

\* How many characters wait: one place of the ring stays free.
LEMMA RingCountIs ==
  ASSUME NEW k \in KbRecs
  PROVE  /\ RingCount(k) = (IF k.tail >= k.head THEN k.tail - k.head ELSE k.tail + KRing - k.head)
         /\ RingCount(k) \in 0..KRing - 1
<1>1. KRing \in Nat \ {0} /\ k.tail \in 0..KRing - 1 /\ k.head \in 0..KRing - 1
  BY KeyboardAssumption DEF KbRecs
<1>2. k.tail + KRing - k.head \in 0..KRing + KRing - 1
  BY <1>1
<1>3. (k.tail + KRing - k.head) % KRing = Around(k.tail + KRing - k.head)
  BY <1>2, RingIndex
<1> QED BY <1>1, <1>3 DEF RingCount, Around

\* The characters that wait, by their places in the ring.
LEMMA WaitingIs ==
  ASSUME NEW k \in KbRecs
  PROVE  /\ WaitingOf(k) \in Seq(KeyChars) /\ Len(WaitingOf(k)) = RingCount(k)
         /\ \A i \in 1..RingCount(k) : WaitingOf(k)[i] = k.buf[Around(k.head + i - 1)]
<1>1. KRing \in Nat \ {0} /\ k.head \in 0..KRing - 1 /\ RingCount(k) \in 0..KRing - 1
  BY KeyboardAssumption, RingCountIs DEF KbRecs
<1>2. ASSUME NEW i \in 1..RingCount(k)
      PROVE  (k.head + i - 1) % KRing = Around(k.head + i - 1) /\ k.buf[Around(k.head + i - 1)] \in KeyChars
  <2>1. k.head + i - 1 \in 0..KRing + KRing - 1
    BY <1>1
  <2> QED BY <2>1, RingIndex DEF KbRecs
<1>3. WaitingOf(k) \in [1..RingCount(k) -> KeyChars]
  BY <1>2 DEF WaitingOf
<1>4. WaitingOf(k) \in Seq(KeyChars) /\ Len(WaitingOf(k)) = RingCount(k)
  BY <1>1, <1>3
<1>5. \A i \in 1..RingCount(k) : WaitingOf(k)[i] = k.buf[Around(k.head + i - 1)]
  BY <1>2 DEF WaitingOf
<1> QED BY <1>4, <1>5

\* buf_push() with room: the character is the last one that waits.
LEMMA PushRoom ==
  ASSUME NEW k \in KbRecs, NEW c \in KeyChars, RingCount(k) < KRing - 1
  PROVE  /\ RingCount(buf_push(k, c)) = RingCount(k) + 1
         /\ WaitingOf(buf_push(k, c)) = Append(WaitingOf(k), c)
         /\ buf_push(k, c) \in KbRecs
         /\ buf_push(k, c).shift = k.shift /\ buf_push(k, c).ctrl = k.ctrl
<1> DEFINE k2 == PutAt(k, c)
           n == RingCount(k)
<1>1. KRing \in Nat \ {0} /\ k.tail \in 0..KRing - 1 /\ k.head \in 0..KRing - 1 /\ n \in 0..KRing - 1 /\ n \in Nat
  BY KeyboardAssumption, RingCountIs DEF KbRecs
<1>2. (k.tail + 1) % KRing = Around(k.tail + 1) /\ Around(k.tail + 1) \in 0..KRing - 1
  <2>1. k.tail + 1 \in 0..KRing + KRing - 1
    BY <1>1
  <2> QED BY <2>1, RingIndex
<1>3. Around(k.tail + 1) # k.head
  BY <1>1, RingCountIs DEF Around
<1>4. buf_push(k, c) = k2
  BY <1>2, <1>3 DEF buf_push, buf_full
<1>5. /\ k2.shift = k.shift /\ k2.ctrl = k.ctrl /\ k2.head = k.head
      /\ k2.tail = Around(k.tail + 1) /\ k2.buf = [k.buf EXCEPT ![k.tail] = c] /\ k2 \in KbRecs
  BY <1>1, <1>2 DEF PutAt, KbRecs
<1> HIDE DEF k2
<1>6. RingCount(k2) = n + 1
  <2>1. RingCount(k) = (IF k.tail >= k.head THEN k.tail - k.head ELSE k.tail + KRing - k.head)
    BY RingCountIs
  <2>2. RingCount(k2) = (IF k2.tail >= k2.head THEN k2.tail - k2.head ELSE k2.tail + KRing - k2.head)
    BY <1>5, RingCountIs
  <2> QED BY <1>1, <1>3, <1>5, <2>1, <2>2 DEF Around
<1>7. k.tail = Around(k.head + n)
  BY <1>1, RingCountIs DEF Around
<1>8. WaitingOf(k2) = Append(WaitingOf(k), c)
  <2>1. WaitingOf(k2) \in Seq(KeyChars) /\ Len(WaitingOf(k2)) = n + 1
    BY <1>5, <1>6, WaitingIs
  <2>2. WaitingOf(k) \in Seq(KeyChars) /\ Len(WaitingOf(k)) = n
    BY WaitingIs
  <2>3. ASSUME NEW i \in 1..n + 1 PROVE WaitingOf(k2)[i] = Append(WaitingOf(k), c)[i]
    <3>1. WaitingOf(k2)[i] = k2.buf[Around(k.head + i - 1)]
      BY <1>5, <1>6, WaitingIs
    <3>2. CASE i = n + 1
      <4>1. Around(k.head + i - 1) = k.tail
        BY <1>1, <1>7, <3>2
      <4> QED BY <1>1, <1>5, <2>2, <3>1, <3>2, <4>1 DEF KbRecs
    <3>3. CASE i \in 1..n
      <4>1. WaitingOf(k)[i] = k.buf[Around(k.head + i - 1)]
        BY <3>3, WaitingIs
      <4>2. Around(k.head + i - 1) \in 0..KRing - 1 /\ Around(k.head + i - 1) # k.tail
        BY <1>1, <1>7, <3>3 DEF Around
      <4> QED BY <1>5, <2>2, <3>1, <3>3, <4>1, <4>2 DEF KbRecs
    <3>4. i = n + 1 \/ i \in 1..n
      BY <1>1
    <3> QED BY <3>2, <3>3, <3>4
  <2> QED BY <1>1, <2>1, <2>2, <2>3
<1> QED BY <1>4, <1>5, <1>6, <1>8

\* buf_push(), with room or without, leaves the modifiers alone.
LEMMA PushAny ==
  ASSUME NEW k \in KbRecs, NEW c \in KeyChars
  PROVE  /\ buf_push(k, c) \in KbRecs /\ buf_push(k, c).shift = k.shift /\ buf_push(k, c).ctrl = k.ctrl
<1>1. CASE buf_full(k)
  BY <1>1 DEF buf_push
<1>2. CASE ~buf_full(k)
  <2>1. KRing \in Nat \ {0} /\ k.tail \in 0..KRing - 1
    BY KeyboardAssumption DEF KbRecs
  <2>2. (k.tail + 1) % KRing \in 0..KRing - 1
    BY <2>1
  <2> QED BY <1>2, <2>2 DEF buf_push, PutAt, KbRecs
<1> QED BY <1>1, <1>2

\* The first element of a sequence moves to the end of the one before it.
IsTail(v, w) == Len(w) = Len(v) + 1 /\ \A i \in 1..Len(v) : v[i] = w[i + 1]

\* The text of the two together is the same before and after.
LEMMA FirstMoves ==
  ASSUME NEW S, NEW g \in Seq(S), NEW c \in S, NEW w \in Seq(S), NEW v \in Seq(S), IsTail(v, w), w[1] = c
  PROVE  Append(g, c) \o v = g \o w
<1> USE DEF IsTail
<1> DEFINE h == Append(g, c)
           a == h \o v
           b == g \o w
           n == Len(g)
           m == Len(v)
<1>1. n \in Nat /\ m \in Nat /\ h \in Seq(S) /\ Len(h) = n + 1 /\ h[n + 1] = c /\ \A i \in 1..n : h[i] = g[i]
  OBVIOUS
<1> HIDE DEF h
<1>2. a \in Seq(S) /\ Len(a) = n + 1 + m
  <2>1. a \in Seq(S) /\ Len(a) = Len(h) + Len(v)
    BY <1>1, ConcatProperties, Zenon
  <2> QED BY <1>1, <2>1
<1>3. b \in Seq(S) /\ Len(b) = n + 1 + m
  <2>1. b \in Seq(S) /\ Len(b) = Len(g) + Len(w)
    BY <1>1, ConcatProperties, Zenon
  <2> QED BY <1>1, <2>1
<1>4. ASSUME NEW i \in 1..n + 1 + m PROVE a[i] = b[i]
  <2>1. CASE i <= n
    BY <1>1, <2>1
  <2>2. CASE i = n + 1
    BY <1>1, <2>2
  <2>3. CASE i > n + 1
    <3>1. i - (n + 1) \in 1..m /\ i - n = (i - (n + 1)) + 1
      BY <1>1, <2>3
    <3>2. a[i] = v[i - (n + 1)]
      BY <1>1, <2>3
    <3>3. b[i] = w[i - n]
      BY <1>1, <2>3
    <3> QED BY <3>1, <3>2, <3>3
  <2> QED BY <1>1, <2>1, <2>2, <2>3
<1> HIDE DEF a, b, n, m
<1>5. a = b
  BY <1>1, <1>2, <1>3, <1>4
<1> QED BY <1>5 DEF a, b, h

\* buf_pop(): the oldest character leaves the ring.
Popped(k) == [k EXCEPT !.head = (@ + 1) % KRing]

\* What was read and what waits together stay the same.
LEMMA PopOne ==
  ASSUME NEW k \in KbRecs, ~buf_empty(k), NEW g \in Seq(KeyChars)
  PROVE  /\ Popped(k) \in KbRecs /\ Popped(k).shift = k.shift /\ Popped(k).ctrl = k.ctrl /\ k.buf[k.head] \in KeyChars
         /\ Append(g, k.buf[k.head]) \o WaitingOf(Popped(k)) = g \o WaitingOf(k)
<1> DEFINE n == RingCount(k)
           c == k.buf[k.head]
           k2 == Popped(k)
<1>1. /\ KRing \in Nat \ {0} /\ k.tail \in 0..KRing - 1 /\ k.head \in 0..KRing - 1 /\ n \in 1..KRing - 1
      /\ n \in Nat \ {0}
  BY KeyboardAssumption, RingCountIs DEF KbRecs, buf_empty
<1>2. (k.head + 1) % KRing = Around(k.head + 1) /\ Around(k.head + 1) \in 0..KRing - 1
  <2>1. k.head + 1 \in 0..KRing + KRing - 1
    BY <1>1
  <2> QED BY <2>1, RingIndex
<1>3. /\ k2.shift = k.shift /\ k2.ctrl = k.ctrl /\ k2.tail = k.tail
      /\ k2.head = Around(k.head + 1) /\ k2.buf = k.buf /\ k2 \in KbRecs /\ c \in KeyChars
  BY <1>1, <1>2 DEF KbRecs, Popped
<1> HIDE DEF k2
<1>4. RingCount(k2) = n - 1
  <2>1. RingCount(k) = (IF k.tail >= k.head THEN k.tail - k.head ELSE k.tail + KRing - k.head)
    BY RingCountIs
  <2>2. RingCount(k2) = (IF k2.tail >= k2.head THEN k2.tail - k2.head ELSE k2.tail + KRing - k2.head)
    BY <1>3, RingCountIs
  <2>3. k.head # k.tail
    BY DEF buf_empty
  <2>4. k2.tail = k.tail /\ k2.head = Around(k.head + 1)
    BY <1>3
  <2>5. CASE k.head + 1 < KRing
    BY <1>1, <2>1, <2>2, <2>3, <2>4, <2>5 DEF Around
  <2>6. CASE k.head + 1 = KRing
    BY <1>1, <2>1, <2>2, <2>3, <2>4, <2>6 DEF Around
  <2> QED BY <1>1, <2>5, <2>6
<1>5. WaitingOf(k2) \in Seq(KeyChars) /\ Len(WaitingOf(k2)) = n - 1
  BY <1>3, <1>4, WaitingIs
<1>6. WaitingOf(k) \in Seq(KeyChars) /\ Len(WaitingOf(k)) = n
  BY WaitingIs
<1>7. WaitingOf(k)[1] = c
  <2>1. 1 \in 1..RingCount(k)
    BY <1>1
  <2>2. WaitingOf(k)[1] = k.buf[Around(k.head + 1 - 1)]
    BY <2>1, WaitingIs
  <2>3. Around(k.head + 1 - 1) = k.head
    BY <1>1 DEF Around
  <2> QED BY <2>2, <2>3
<1>8. ASSUME NEW i \in 1..n - 1 PROVE WaitingOf(k2)[i] = WaitingOf(k)[i + 1]
  <2>1. WaitingOf(k2)[i] = k.buf[Around(Around(k.head + 1) + i - 1)]
    BY <1>3, <1>4, WaitingIs
  <2>2. i \in Nat /\ i + 1 \in 1..RingCount(k)
    BY <1>1
  <2>3. WaitingOf(k)[i + 1] = k.buf[Around(k.head + (i + 1) - 1)]
    BY <2>2, WaitingIs
  <2>4. Around(Around(k.head + 1) + i - 1) = Around(k.head + (i + 1) - 1)
    BY <1>1, <2>2 DEF Around
  <2> QED BY <2>1, <2>3, <2>4
<1>9. IsTail(WaitingOf(k2), WaitingOf(k))
  BY <1>1, <1>5, <1>6, <1>8 DEF IsTail
<1>10. Append(g, c) \o WaitingOf(k2) = g \o WaitingOf(k)
  BY <1>3, <1>5, <1>6, <1>7, <1>9, FirstMoves
<1> QED BY <1>3, <1>10 DEF k2

\* A character after two sequences.
LEMMA AppendConcat ==
  ASSUME NEW g \in Seq(KeyChars), NEW w \in Seq(KeyChars), NEW c \in KeyChars
  PROVE  g \o Append(w, c) = Append(g \o w, c)
<1> DEFINE v == Append(w, c)
           h == g \o w
           a == g \o v
           b == Append(h, c)
           n == Len(g)
           m == Len(w)
<1>1. n \in Nat /\ m \in Nat /\ v \in Seq(KeyChars) /\ Len(v) = m + 1 /\ v[m + 1] = c /\ \A i \in 1..m : v[i] = w[i]
  OBVIOUS
<1> HIDE DEF v
<1>2. /\ h \in Seq(KeyChars) /\ Len(h) = n + m
      /\ \A i \in 1..n + m : h[i] = IF i <= n THEN g[i] ELSE w[i - n]
  <2>1. h \in Seq(KeyChars) /\ Len(h) = Len(g) + Len(w)
    BY ConcatProperties, Zenon
  <2> QED BY <1>1, <2>1
<1>3. /\ a \in Seq(KeyChars) /\ Len(a) = n + m + 1
      /\ \A i \in 1..n + m + 1 : a[i] = IF i <= n THEN g[i] ELSE v[i - n]
  <2>1. a \in Seq(KeyChars) /\ Len(a) = Len(g) + Len(v)
    BY <1>1, ConcatProperties, Zenon
  <2> QED BY <1>1, <2>1
<1> HIDE DEF h, a
<1>4. /\ b \in Seq(KeyChars) /\ Len(b) = n + m + 1 /\ b[n + m + 1] = c
      /\ \A i \in 1..n + m : b[i] = h[i]
  <2>1. h \in Seq(KeyChars) /\ Len(h) = n + m /\ n + m \in Nat
    BY <1>1, <1>2
  <2> HIDE DEF n, m
  <2>2. b \in Seq(KeyChars) /\ Len(b) = Len(h) + 1 /\ b[Len(h) + 1] = c /\ \A i \in 1..Len(h) : b[i] = h[i]
    BY <2>1
  <2> QED BY <2>1, <2>2
<1> HIDE DEF b, n, m
<1>5. ASSUME NEW i \in 1..n + m + 1 PROVE a[i] = b[i]
  <2>1. CASE i <= n
    BY <1>1, <1>2, <1>3, <1>4, <2>1
  <2>2. CASE i = n + m + 1
    <3>1. i - n = m + 1 /\ ~(i <= n)
      BY <1>1, <2>2
    <3> QED BY <1>1, <1>3, <1>4, <2>2, <3>1
  <2>3. CASE n < i /\ i < n + m + 1
    <3>1. i - n \in 1..m /\ ~(i <= n) /\ i \in 1..n + m
      BY <1>1, <2>3
    <3> QED BY <1>1, <1>2, <1>3, <1>4, <3>1
  <2> QED BY <1>1, <2>1, <2>2, <2>3
<1>6. a = b
  BY <1>1, <1>3, <1>4, <1>5
<1> QED BY <1>6 DEF a, b, h, v

\* The three characters of an arrow key, one after the other.
LEMMA ThreeAppends ==
  ASSUME NEW s \in Seq(KeyChars)
  PROVE  s \o Arrow = Append(Append(Append(s, "esc"), "["), "A")
<1> DEFINE n == Len(s)
           t1 == Append(s, "esc")
           t2 == Append(t1, "[")
           t3 == Append(t2, "A")
           a == s \o Arrow
<1>1. n \in Nat /\ "esc" \in KeyChars /\ "[" \in KeyChars /\ "A" \in KeyChars
  BY DEF KeyChars
<1>2. t1 \in Seq(KeyChars) /\ Len(t1) = n + 1 /\ t1[n + 1] = "esc" /\ \A i \in 1..n : t1[i] = s[i]
  BY <1>1
<1> HIDE DEF t1
<1>3. t2 \in Seq(KeyChars) /\ Len(t2) = n + 2 /\ t2[n + 2] = "[" /\ \A i \in 1..n + 1 : t2[i] = t1[i]
  BY <1>1, <1>2
<1> HIDE DEF t2
<1>4. t3 \in Seq(KeyChars) /\ Len(t3) = n + 3 /\ t3[n + 3] = "A" /\ \A i \in 1..n + 2 : t3[i] = t2[i]
  BY <1>1, <1>3
<1> HIDE DEF t3
<1>5. /\ Arrow \in Seq(KeyChars) /\ Len(Arrow) = 3 /\ Arrow[1] = "esc" /\ Arrow[2] = "[" /\ Arrow[3] = "A"
  BY <1>1 DEF Arrow
<1>6. /\ a \in Seq(KeyChars) /\ Len(a) = n + 3
      /\ \A i \in 1..n + 3 : a[i] = IF i <= n THEN s[i] ELSE Arrow[i - n]
  <2>1. a \in Seq(KeyChars) /\ Len(a) = Len(s) + Len(Arrow)
    BY <1>5, ConcatProperties, Zenon
  <2> QED BY <1>1, <1>5, <2>1
<1> HIDE DEF a, n
<1>7. ASSUME NEW i \in 1..n + 3 PROVE a[i] = t3[i]
  <2>1. CASE i <= n
    BY <1>1, <1>2, <1>3, <1>4, <1>6, <2>1
  <2>2. CASE i = n + 1
    <3>1. i - n = 1 /\ ~(i <= n)
      BY <1>1, <2>2
    <3> QED BY <1>1, <1>2, <1>3, <1>4, <1>5, <1>6, <2>2, <3>1
  <2>3. CASE i = n + 2
    <3>1. i - n = 2 /\ ~(i <= n)
      BY <1>1, <2>3
    <3> QED BY <1>1, <1>3, <1>4, <1>5, <1>6, <2>3, <3>1
  <2>4. CASE i = n + 3
    <3>1. i - n = 3 /\ ~(i <= n)
      BY <1>1, <2>4
    <3> QED BY <1>1, <1>4, <1>5, <1>6, <2>4, <3>1
  <2> QED BY <1>1, <2>1, <2>2, <2>3, <2>4
<1>8. a = t3
  BY <1>1, <1>4, <1>6, <1>7
<1> QED BY <1>8 DEF a, t1, t2, t3

\* handle_key() keeps the modifiers as the events say.
LEMMA HandleAny ==
  ASSUME NEW k \in KbRecs, NEW e \in Events
  PROVE  /\ handle_key(k, e) \in KbRecs
         /\ handle_key(k, e).shift = (IF e[1] = "shift" THEN e[2] = 1 ELSE k.shift)
         /\ handle_key(k, e).ctrl = (IF e[1] = "ctrl" THEN e[2] = 1 ELSE k.ctrl)
<1>1. /\ e[1] \in {"letter", "shift", "ctrl", "arrow", "syn"} /\ e[2] \in {0, 1} /\ e = <<e[1], e[2]>>
  BY EventPair
<1>2. CASE e[1] = "shift"
  <2>1. handle_key(k, e) = [k EXCEPT !.shift = (e[2] = 1)]
    BY <1>1, <1>2 DEF handle_key
  <2> QED BY <1>2, <2>1 DEF KbRecs
<1>3. CASE e[1] = "ctrl"
  <2>1. handle_key(k, e) = [k EXCEPT !.ctrl = (e[2] = 1)]
    BY <1>1, <1>3 DEF handle_key
  <2> QED BY <1>3, <2>1 DEF KbRecs
<1>4. CASE e = <<"letter", 1>>
  <2>1. handle_key(k, e) = buf_push(k, Letter(k)) /\ e[1] = "letter"
    BY <1>1, <1>4 DEF handle_key
  <2>2. Letter(k) \in KeyChars
    BY DEF Letter, KeyChars
  <2> QED BY <2>1, <2>2, PushAny
<1>5. CASE e = <<"arrow", 1>>
  <2> DEFINE k1 == buf_push(k, "esc")
             k2 == buf_push(k1, "[")
             k3 == buf_push(k2, "A")
  <2>1. handle_key(k, e) = k3 /\ e[1] = "arrow"
    BY <1>1, <1>5 DEF handle_key, buf_push_n, Arrow
  <2>2. k1 \in KbRecs /\ k1.shift = k.shift /\ k1.ctrl = k.ctrl
    BY PushAny DEF KeyChars
  <2>3. k2 \in KbRecs /\ k2.shift = k.shift /\ k2.ctrl = k.ctrl
    <3> HIDE DEF k1
    <3> QED BY <2>2, PushAny DEF KeyChars
  <2>4. k3 \in KbRecs /\ k3.shift = k.shift /\ k3.ctrl = k.ctrl
    <3> HIDE DEF k2
    <3> QED BY <2>3, PushAny DEF KeyChars
  <2> HIDE DEF k3
  <2> QED BY <2>1, <2>4
<1>6. CASE e[1] \notin {"shift", "ctrl"} /\ e # <<"letter", 1>> /\ e # <<"arrow", 1>>
  BY <1>6 DEF handle_key
<1> QED BY <1>2, <1>3, <1>4, <1>5, <1>6

\* A ring with the same characters.
LEMMA SameRing ==
  ASSUME NEW k, NEW k2, k2.buf = k.buf, k2.head = k.head, k2.tail = k.tail
  PROVE  WaitingOf(k2) = WaitingOf(k) /\ RingCount(k2) = RingCount(k)
BY DEF WaitingOf, RingCount

\* As long as all the characters fit, handle_key() sends what the event means.
LEMMA HandleRoom ==
  ASSUME NEW k \in KbRecs, NEW e \in Events, RingCount(k) + SentBy(e) <= KRing - 1,
         NEW g \in Seq(KeyChars), NEW m \in KeyStates, m.shift = k.shift, m.ctrl = k.ctrl,
         g \o WaitingOf(k) = m.out
  PROVE  g \o WaitingOf(handle_key(k, e)) = Effect(m, e).out
<1>1. /\ e[1] \in {"letter", "shift", "ctrl", "arrow", "syn"} /\ e[2] \in {0, 1} /\ e = <<e[1], e[2]>>
  BY EventPair
<1>2. Effect(m, e).out = IF e = <<"letter", 1>> THEN Append(m.out, Letter(m))
                         ELSE IF e = <<"arrow", 1>> THEN m.out \o Arrow ELSE m.out
  BY EffectIs
<1>3. WaitingOf(k) \in Seq(KeyChars) /\ RingCount(k) \in Nat /\ KRing \in Nat /\ m.out \in Seq(KeyChars)
  BY WaitingIs, RingCountIs, KeyboardAssumption DEF KeyStates
<1>4. CASE e # <<"letter", 1>> /\ e # <<"arrow", 1>>
  <2>1. \/ handle_key(k, e) = [k EXCEPT !.shift = (e[2] = 1)]
        \/ handle_key(k, e) = [k EXCEPT !.ctrl = (e[2] = 1)]
        \/ handle_key(k, e) = k
    BY <1>1, <1>4 DEF handle_key
  <2>2. handle_key(k, e).buf = k.buf /\ handle_key(k, e).head = k.head /\ handle_key(k, e).tail = k.tail
    BY <2>1 DEF KbRecs
  <2>3. WaitingOf(handle_key(k, e)) = WaitingOf(k)
    BY <2>2, SameRing
  <2> QED BY <1>2, <1>4, <2>3
<1>5. CASE e = <<"letter", 1>>
  <2>1. handle_key(k, e) = buf_push(k, Letter(k)) /\ SentBy(e) = 1 /\ Letter(m) = Letter(k)
    BY <1>1, <1>5 DEF handle_key, SentBy, Letter
  <2>2. Letter(k) \in KeyChars /\ RingCount(k) < KRing - 1
    BY <1>3, <2>1 DEF Letter, KeyChars
  <2>3. WaitingOf(handle_key(k, e)) = Append(WaitingOf(k), Letter(k))
    BY <2>1, <2>2, PushRoom
  <2>4. g \o Append(WaitingOf(k), Letter(k)) = Append(g \o WaitingOf(k), Letter(k))
    BY <1>3, <2>2, AppendConcat
  <2> QED BY <1>2, <1>5, <2>1, <2>3, <2>4
<1>6. CASE e = <<"arrow", 1>>
  <2> DEFINE k1 == buf_push(k, "esc")
             k2 == buf_push(k1, "[")
             k3 == buf_push(k2, "A")
             w1 == Append(WaitingOf(k), "esc")
             w2 == Append(w1, "[")
  <2>1. handle_key(k, e) = k3 /\ SentBy(e) = 3
    BY <1>1, <1>6 DEF handle_key, buf_push_n, Arrow, SentBy
  <2>2. "esc" \in KeyChars /\ "[" \in KeyChars /\ "A" \in KeyChars
    BY DEF KeyChars
  <2>3. k1 \in KbRecs /\ RingCount(k1) = RingCount(k) + 1 /\ WaitingOf(k1) = w1
    <3>1. RingCount(k) < KRing - 1
      BY <1>3, <2>1
    <3> QED BY <2>2, <3>1, PushRoom
  <2> HIDE DEF k1
  <2>4. k2 \in KbRecs /\ RingCount(k2) = RingCount(k) + 2 /\ WaitingOf(k2) = w2
    <3>1. RingCount(k1) < KRing - 1
      BY <1>3, <2>1, <2>3
    <3> QED BY <1>3, <2>2, <2>3, <3>1, PushRoom
  <2> HIDE DEF k2
  <2>5. WaitingOf(k3) = Append(w2, "A")
    <3>1. RingCount(k2) < KRing - 1
      BY <1>3, <2>1, <2>4
    <3> QED BY <2>2, <2>4, <3>1, PushRoom
  <2>6. w1 \in Seq(KeyChars)
    BY <1>3, <2>2
  <2>7. g \o w1 = Append(g \o WaitingOf(k), "esc")
    BY <1>3, <2>2, AppendConcat
  <2> HIDE DEF w1
  <2>8. w2 \in Seq(KeyChars)
    BY <2>2, <2>6
  <2>9. g \o w2 = Append(g \o w1, "[")
    BY <2>2, <2>6, AppendConcat
  <2> HIDE DEF w2
  <2>13. g \o Append(w2, "A") = Append(g \o w2, "A")
    BY <2>2, <2>8, AppendConcat
  <2>10. g \o Append(w2, "A") = Append(Append(Append(m.out, "esc"), "["), "A")
    BY <2>7, <2>9, <2>13
  <2>11. m.out \o Arrow = Append(Append(Append(m.out, "esc"), "["), "A")
    BY <1>3, ThreeAppends
  <2> HIDE DEF k3
  <2>12. e # <<"letter", 1>>
    BY <1>6
  <2> QED BY <1>2, <1>6, <2>1, <2>5, <2>10, <2>11, <2>12
<1> QED BY <1>4, <1>5, <1>6

-----------------------------------------------------------------------------
(* Keyboard: the inductive invariant, with n the number of events taken     *)

KQueues == [avail : [EvBufs -> EvBufs], aidx : 0..KIdxMod - 1, used : [EvBufs -> EvBufs],
            uidx : 0..KIdxMod - 1, last : 0..KIdxMod - 1, busy : SUBSET EvBufs]
KCalls == [pc : {"out", "poll", "take", "handle", "pop"}, ev : Events]
KTypeOK ==
  /\ kq \in KQueues /\ ev_bufs \in [EvBufs -> Events] /\ kb \in KbRecs
  /\ kcall \in [KUsers -> KCalls]
  /\ typed \in Seq(Events) /\ got \in Seq(KeyChars) /\ full \in BOOLEAN

\* The buffer of event j: it is in the used ring once the device has filled it, in the avail ring before.
BufAt(q, t, j) == IF j < t THEN q.used[j % KBufs] ELSE q.avail[j % KBufs]
Window(n) == n..n + KBufs - 1
\* The indices of the rings are the numbers of events, and the buffers of KBufs events in a row differ.
QueueInv(n) ==
  /\ n <= Len(typed) /\ Len(typed) <= n + KBufs
  /\ kq.last = n % KIdxMod /\ kq.aidx = (n + KBufs) % KIdxMod
  /\ kq.uidx = Len(typed) % KIdxMod /\ kdev = Len(typed) % KIdxMod /\ kq.busy = EvBufs
  /\ \A i, j \in Window(n) : BufAt(kq, Len(typed), i) = BufAt(kq, Len(typed), j) => i = j
  /\ \A j \in n..Len(typed) - 1 : ev_bufs[kq.used[j % KBufs]] = typed[j + 1]

\* One task at a time polls; between the unlock and handle_key() it holds the last event taken.
PollInv(n) ==
  /\ \A u, w \in KUsers : kcall[u].pc # "out" /\ kcall[w].pc # "out" => u = w
  /\ \A u \in KUsers : /\ kcall[u].pc = "take" => n < Len(typed)
                       /\ kcall[u].pc = "handle" => n > 0 /\ kcall[u].ev = typed[n]

\* The modifiers and the characters are those of the events handled.
HandlingOf(c) == Cardinality({u \in KUsers : c[u].pc = "handle"})
Tells(k, g, f, m) == k.shift = m.shift /\ k.ctrl = m.ctrl /\ (~f => g \o WaitingOf(k) = m.out)
KeysInv(n) == Tells(kb, got, full, Meaning(typed, n - HandlingOf(kcall)))

KAt(n) == KTypeOK /\ QueueInv(n) /\ PollInv(n) /\ KeysInv(n)
KInv == \E n \in Nat : KAt(n)

\* The constants of the queue.
LEMMA KConstants ==
  /\ KBufs \in Nat \ {0} /\ KBufs \in Nat /\ KIdxMod \in Nat \ {0} /\ KIdxMod > KBufs /\ (KIdxMod % KBufs) = 0
  /\ KRing \in Nat \ {0}
BY KeyboardAssumption

\* The initial state: no event has been taken.
LEMMA KStart ==
  ASSUME KInit PROVE KAt(0)
<1> USE KConstants
<1>1. /\ typed = <<>> /\ Len(typed) = 0 /\ got = <<>> /\ full = FALSE /\ typed \in Seq(Events) /\ got \in Seq(KeyChars)
      /\ kq.avail = [i \in EvBufs |-> i] /\ kq.aidx = KBufs /\ kq.uidx = 0 /\ kq.last = 0 /\ kq.busy = EvBufs
      /\ kdev = 0
  BY DEF KInit
<1>2. \A i \in 0..KIdxMod - 1 : (i % KIdxMod) = i
  BY ModSmall
<1>3. \A i \in EvBufs : (i % KBufs) = i
  BY ModSmall DEF EvBufs
<1>4. kq \in KQueues
  BY DEF KInit, KQueues, EvBufs
<1>5. ev_bufs \in [EvBufs -> Events] /\ kcall \in [KUsers -> KCalls] /\ \A u \in KUsers : kcall[u].pc = "out"
  BY DEF KInit, Events, NoEvent, KCalls, KOut
<1>6. kb \in KbRecs /\ kb.head = 0 /\ kb.tail = 0 /\ kb.shift = FALSE /\ kb.ctrl = FALSE
  BY DEF KInit, KbRecs, KeyChars
<1>7. KTypeOK
  BY <1>1, <1>4, <1>5, <1>6 DEF KTypeOK
<1>8. QueueInv(0)
  <2>1. ASSUME NEW i \in Window(0), NEW j \in Window(0),
               BufAt(kq, Len(typed), i) = BufAt(kq, Len(typed), j)
        PROVE  i = j
    <3>1. i \in EvBufs /\ j \in EvBufs
      BY DEF Window, EvBufs
    <3> QED BY <1>1, <1>3, <2>1, <3>1 DEF BufAt, EvBufs
  <2> QED BY <1>1, <1>2, <2>1 DEF QueueInv
<1>9. PollInv(0)
  BY <1>5 DEF PollInv
<1>10. HandlingOf(kcall) = 0
  <2>1. {u \in KUsers : kcall[u].pc = "handle"} = {}
    BY <1>5
  <2> QED BY <2>1, FS_EmptySet DEF HandlingOf
<1>11. KeysInv(0)
  <2>1. Meaning(typed, 0) = NothingYet
    BY <1>1, MeaningFirst
  <2>6. 0 - HandlingOf(kcall) = 0
    BY <1>10
  <2>2. RingCount(kb) = 0
    BY <1>6, RingCountIs
  <2>3. WaitingOf(kb) \in Seq(KeyChars) /\ Len(WaitingOf(kb)) = 0
    BY <1>6, <2>2, WaitingIs
  <2>4. WaitingOf(kb) = <<>>
    BY <2>3
  <2>5. got \o WaitingOf(kb) = <<>>
    BY <1>1, <2>4
  <2>7. NothingYet.shift = FALSE /\ NothingYet.ctrl = FALSE /\ NothingYet.out = <<>>
    BY DEF NothingYet
  <2>8. Tells(kb, got, full, NothingYet)
    BY <1>6, <2>5, <2>7 DEF Tells
  <2> QED BY <2>1, <2>6, <2>8 DEF KeysInv
<1> QED BY <1>7, <1>8, <1>9, <1>11 DEF KAt

\* Nobody, or one task, is about to handle an event.
LEMMA NoHandler ==
  ASSUME NEW c, \A u \in KUsers : c[u].pc # "handle"
  PROVE  HandlingOf(c) = 0
<1>1. {u \in KUsers : c[u].pc = "handle"} = {}
  OBVIOUS
<1> QED BY <1>1, FS_EmptySet DEF HandlingOf

\* One task holds an event in hand.
LEMMA OneHandler ==
  ASSUME NEW c, NEW u \in KUsers, c[u].pc = "handle", \A w \in KUsers \ {u} : c[w].pc # "handle"
  PROVE  HandlingOf(c) = 1
<1>1. {w \in KUsers : c[w].pc = "handle"} = {u}
  OBVIOUS
<1> QED BY <1>1, FS_Singleton DEF HandlingOf

\* A task moves between two places of keyboard_getchar() other than handle_key(): nothing it has read changes.
LEMMA KMoves ==
  ASSUME NEW n \in Nat, KAt(n), NEW u \in KUsers, NEW p \in {"out", "poll", "take", "pop"}, NEW x \in Events,
         UNCHANGED <<kq, ev_bufs, kdev, typed>>, KTypeOK',
         kcall' = [kcall EXCEPT ![u] = [pc |-> p, ev |-> x]],
         kcall[u].pc = "out" => \A w \in KUsers : kcall[w].pc = "out", kcall[u].pc # "handle",
         p = "take" => n < Len(typed)
  PROVE  QueueInv(n)' /\ PollInv(n)' /\ HandlingOf(kcall') = 0 /\ HandlingOf(kcall) = 0
<1>1. kcall \in [KUsers -> KCalls] /\ QueueInv(n) /\ PollInv(n)
  BY DEF KAt, KTypeOK
<1>2. QueueInv(n)'
  BY <1>1 DEF QueueInv, BufAt
<1>3. \A w \in KUsers : kcall'[w] = IF w = u THEN [pc |-> p, ev |-> x] ELSE kcall[w]
  BY <1>1
<1>4. \A w \in KUsers \ {u} : kcall[w].pc = "out"
  BY <1>1 DEF PollInv
<1>5. \A w \in KUsers : kcall[w].pc # "handle" /\ kcall'[w].pc # "handle"
  BY <1>3, <1>4
<1>6. PollInv(n)'
  BY <1>3, <1>4 DEF PollInv
<1> QED BY <1>2, <1>5, <1>6, NoHandler

\* The task's record when only its place changes.
LEMMA OnlyPc ==
  ASSUME NEW c \in [KUsers -> KCalls], NEW u \in KUsers, NEW x
  PROVE  [c EXCEPT ![u].pc = x] = [c EXCEPT ![u] = [pc |-> x, ev |-> c[u].ev]] /\ c[u].ev \in Events
<1>1. c[u] \in KCalls
  OBVIOUS
<1>2. [c[u] EXCEPT !.pc = x] = [pc |-> x, ev |-> c[u].ev] /\ c[u].ev \in Events
  BY <1>1 DEF KCalls
<1>3. [c EXCEPT ![u].pc = x] = [c EXCEPT ![u] = [c[u] EXCEPT !.pc = x]]
  OBVIOUS
<1> QED BY <1>2, <1>3

\* keyboard_getchar() and the comparison of keyboard_poll(): only the task moves.
LEMMA KCallStep ==
  ASSUME NEW n \in Nat, KAt(n), PollAlone, NEW u \in KUsers, keyboard_getchar(u) \/ Compare(u)
  PROVE  KAt(n)'
<1> DEFINE p == kcall'[u].pc
<1>1. KTypeOK /\ QueueInv(n) /\ PollInv(n) /\ KeysInv(n) /\ kcall \in [KUsers -> KCalls]
  BY DEF KAt, KTypeOK
<1>2. UNCHANGED <<kq, ev_bufs, kb, kdev, typed, got, full>>
  BY DEF keyboard_getchar, Compare
<1>3. PICK x \in {"poll", "take", "pop"} :
        /\ kcall' = [kcall EXCEPT ![u].pc = x] /\ kcall[u].pc \in {"out", "poll"}
        /\ x = "take" => kq.uidx # kq.last
        /\ kcall[u].pc = "out" => \A w \in KUsers : kcall[w].pc = "out"
  BY DEF keyboard_getchar, Compare
<1>4. kcall' = [kcall EXCEPT ![u] = [pc |-> x, ev |-> kcall[u].ev]] /\ kcall[u].ev \in Events
  BY <1>1, <1>3, OnlyPc
<1>5. kcall' \in [KUsers -> KCalls]
  BY <1>1, <1>4 DEF KCalls
<1>6. KTypeOK'
  BY <1>1, <1>2, <1>5 DEF KTypeOK
<1>7. x = "take" => n < Len(typed)
  <2>1. Len(typed) \in Nat /\ n <= Len(typed)
    BY <1>1 DEF KTypeOK, QueueInv
  <2>2. kq.uidx # kq.last => n # Len(typed)
    BY <1>1 DEF QueueInv
  <2> QED BY <1>3, <2>1, <2>2
<1>8. QueueInv(n)' /\ PollInv(n)' /\ HandlingOf(kcall') = 0 /\ HandlingOf(kcall) = 0
  BY <1>2, <1>3, <1>4, <1>6, <1>7, KMoves
<1>9. KeysInv(n)'
  BY <1>1, <1>2, <1>8 DEF KeysInv
<1> QED BY <1>6, <1>8, <1>9 DEF KAt

\* buf_pop(): the reader gets the oldest character.
LEMMA KPopStep ==
  ASSUME NEW n \in Nat, KAt(n), NEW u \in KUsers, Pop(u)
  PROVE  KAt(n)'
<1>1. KTypeOK /\ QueueInv(n) /\ PollInv(n) /\ KeysInv(n) /\ kcall \in [KUsers -> KCalls]
  BY DEF KAt, KTypeOK
<1>2. UNCHANGED <<kq, ev_bufs, kdev, typed, full>> /\ kcall[u].pc = "pop"
  BY DEF Pop
<1>3. CASE buf_empty(kb)
  <2>1. kcall' = [kcall EXCEPT ![u].pc = "poll"] /\ UNCHANGED <<kb, got>>
    BY <1>3 DEF Pop
  <2>2. kcall' = [kcall EXCEPT ![u] = [pc |-> "poll", ev |-> kcall[u].ev]] /\ kcall[u].ev \in Events
    BY <1>1, <2>1, OnlyPc
  <2>3. kcall' \in [KUsers -> KCalls]
    BY <1>1, <2>2 DEF KCalls
  <2>4. KTypeOK'
    BY <1>1, <1>2, <2>1, <2>3 DEF KTypeOK
  <2>5. QueueInv(n)' /\ PollInv(n)' /\ HandlingOf(kcall') = 0 /\ HandlingOf(kcall) = 0
    BY <1>2, <2>2, <2>4, KMoves
  <2>6. KeysInv(n)'
    BY <1>1, <1>2, <2>1, <2>5 DEF KeysInv
  <2> QED BY <2>4, <2>5, <2>6 DEF KAt
<1>4. CASE ~buf_empty(kb)
  <2>1. got' = Append(got, kb.buf[kb.head]) /\ kb' = Popped(kb) /\ kcall' = [kcall EXCEPT ![u] = KOut]
    BY <1>4 DEF Pop, Popped
  <2>2. kcall' = [kcall EXCEPT ![u] = [pc |-> "out", ev |-> NoEvent]] /\ NoEvent \in Events
    BY <1>1, <2>1 DEF KCalls, KOut, NoEvent, Events
  <2>3. kcall' \in [KUsers -> KCalls]
    BY <1>1, <2>2 DEF KCalls
  <2>4. kb \in KbRecs /\ got \in Seq(KeyChars)
    BY <1>1 DEF KTypeOK
  <2>5. /\ Popped(kb) \in KbRecs /\ Popped(kb).shift = kb.shift /\ Popped(kb).ctrl = kb.ctrl
        /\ kb.buf[kb.head] \in KeyChars
        /\ Append(got, kb.buf[kb.head]) \o WaitingOf(Popped(kb)) = got \o WaitingOf(kb)
    BY <1>4, <2>4, PopOne
  <2>6. got' \in Seq(KeyChars)
    BY <2>1, <2>4, <2>5
  <2>7. KTypeOK'
    BY <1>1, <1>2, <2>1, <2>3, <2>5, <2>6 DEF KTypeOK
  <2>8. QueueInv(n)' /\ PollInv(n)' /\ HandlingOf(kcall') = 0 /\ HandlingOf(kcall) = 0
    BY <1>2, <2>2, <2>7, KMoves
  <2>9. KeysInv(n)'
    BY <1>1, <1>2, <2>1, <2>5, <2>8 DEF KeysInv, Tells
  <2> QED BY <2>7, <2>8, <2>9 DEF KAt
<1> QED BY <1>3, <1>4

\* handle_key() after the unlock: the event is the last one taken.
LEMMA KHandleStep ==
  ASSUME NEW n \in Nat, KAt(n), NEW u \in KUsers, Handle(u)
  PROVE  KAt(n)'
<1> DEFINE e == kcall[u].ev
           m == Meaning(typed, n - 1)
<1>1. /\ KTypeOK /\ QueueInv(n) /\ PollInv(n) /\ KeysInv(n) /\ kcall \in [KUsers -> KCalls]
      /\ kb \in KbRecs /\ got \in Seq(KeyChars) /\ typed \in Seq(Events) /\ full \in BOOLEAN
  BY DEF KAt, KTypeOK
<1>2. /\ UNCHANGED <<kq, ev_bufs, kdev, typed, got>> /\ kcall[u].pc = "handle"
      /\ kb' = handle_key(kb, e) /\ full' = (full \/ RingCount(kb) + SentBy(e) > KRing - 1)
      /\ kcall' = [kcall EXCEPT ![u] = [pc |-> "poll", ev |-> NoEvent]]
  BY DEF Handle
<1>3. e \in Events /\ NoEvent \in Events /\ n > 0 /\ e = typed[n] /\ n \in 1..Len(typed)
  BY <1>1, <1>2 DEF KCalls, NoEvent, Events, PollInv, QueueInv
<1>4. kcall' \in [KUsers -> KCalls]
  BY <1>1, <1>2, <1>3 DEF KCalls
<1>5. /\ kb' \in KbRecs
      /\ kb'.shift = (IF e[1] = "shift" THEN e[2] = 1 ELSE kb.shift)
      /\ kb'.ctrl = (IF e[1] = "ctrl" THEN e[2] = 1 ELSE kb.ctrl)
  BY <1>1, <1>2, <1>3, HandleAny
<1>6. KTypeOK'
  BY <1>1, <1>2, <1>4, <1>5 DEF KTypeOK
<1>7. QueueInv(n)'
  BY <1>1, <1>2 DEF QueueInv, BufAt
<1>8. /\ \A w \in KUsers : kcall'[w] = IF w = u THEN [pc |-> "poll", ev |-> NoEvent] ELSE kcall[w]
      /\ \A w \in KUsers \ {u} : kcall[w].pc = "out"
  BY <1>1, <1>2 DEF PollInv
<1>9. PollInv(n)'
  BY <1>8 DEF PollInv
<1>10. HandlingOf(kcall) = 1
  BY <1>2, <1>8, OneHandler
<1>11. HandlingOf(kcall') = 0
  BY <1>8, NoHandler
<1>12. Tells(kb, got, full, m)
  BY <1>1, <1>10 DEF KeysInv
<1>13. Meaning(typed, n) = Effect(m, e)
  BY <1>1, <1>3, MeaningStep
<1>14. m \in KeyStates
  <2>1. n - 1 \in 0..Len(typed)
    BY <1>3
  <2> QED BY <1>1, <1>3, <2>1, MeaningAppend
<1> HIDE DEF m
<1>15. /\ Effect(m, e).shift = (IF e[1] = "shift" THEN e[2] = 1 ELSE m.shift)
       /\ Effect(m, e).ctrl = (IF e[1] = "ctrl" THEN e[2] = 1 ELSE m.ctrl)
  BY <1>3, <1>14, EffectIs
<1>16. ASSUME ~full' PROVE got' \o WaitingOf(kb') = Effect(m, e).out
  <2>1. SentBy(e) \in Nat /\ RingCount(kb) \in Nat /\ KRing \in Nat
    BY <1>1, RingCountIs, KConstants DEF SentBy
  <2>2. ~full /\ RingCount(kb) + SentBy(e) <= KRing - 1
    <3>1. ~full /\ ~(RingCount(kb) + SentBy(e) > KRing - 1)
      BY <1>2, <1>16, Zenon
    <3> QED BY <2>1, <3>1
  <2>3. m.shift = kb.shift /\ m.ctrl = kb.ctrl /\ got \o WaitingOf(kb) = m.out
    BY <1>12, <2>2 DEF Tells
  <2>4. got \o WaitingOf(handle_key(kb, e)) = Effect(m, e).out
    BY <1>1, <1>3, <1>14, <2>2, <2>3, HandleRoom
  <2> QED BY <1>2, <2>4
<1>17. Tells(kb', got', full', Effect(m, e))
  <2>1. kb.shift = m.shift /\ kb.ctrl = m.ctrl
    BY <1>12 DEF Tells
  <2> QED BY <1>5, <1>15, <1>16, <2>1 DEF Tells
<1>18. KeysInv(n)'
  <2>1. n - 0 = n
    OBVIOUS
  <2> QED BY <1>2, <1>11, <1>13, <1>17, <2>1 DEF KeysInv
<1> QED BY <1>6, <1>7, <1>9, <1>18 DEF KAt

\* The place in the rings of an index is the place of the number it stands for.
LEMMA IdxPlace ==
  ASSUME NEW x \in Int
  PROVE  ((x % KIdxMod) % KBufs) = (x % KBufs) /\ (x % KBufs) \in EvBufs
<1>1. (((x % KIdxMod) + 0) % KBufs) = ((x + 0) % KBufs)
  <2>1. KBufs \in Nat \ {0} /\ KIdxMod \in Nat \ {0} /\ (KIdxMod % KBufs) = 0
    BY KConstants
  <2>2. \A i \in Int : (((x % KIdxMod) + i) % KBufs) = ((x + i) % KBufs)
    BY <2>1, ModMod
  <2> QED BY <2>2
<1>2. (x % KIdxMod) \in Int /\ (x % KBufs) \in 0..KBufs - 1
  BY KConstants, DivMod
<1> QED BY <1>1, <1>2 DEF EvBufs

\* The next index.
LEMMA IdxNext ==
  ASSUME NEW x \in Int
  PROVE  (((x % KIdxMod) + 1) % KIdxMod) = ((x + 1) % KIdxMod) /\ ((x + 1) % KIdxMod) \in 0..KIdxMod - 1
<1>1. KIdxMod \in Nat \ {0}
  BY KConstants
<1>2. \A i \in Int : (((x % KIdxMod) + i) % KIdxMod) = ((x + i) % KIdxMod)
  BY <1>1, ModAdd
<1>3. ((x + 1) % KIdxMod) \in 0..KIdxMod - 1
  BY <1>1, DivMod
<1> QED BY <1>2, <1>3

\* Different numbers of a window have different places.
LEMMA PlacesDiffer ==
  ASSUME NEW x \in Int, NEW y \in Int, x # y, x - y < KBufs, y - x < KBufs
  PROVE  (x % KBufs) # (y % KBufs)
BY KConstants, ModDiffers

\* Once around.
LEMMA WholeTurn ==
  ASSUME NEW x \in Int
  PROVE  ((x + KBufs) % KBufs) = (x % KBufs)
<1>1. KBufs \in Nat \ {0}
  BY KConstants
<1>2. PICK q \in Int : x + KBufs = x + KBufs * q
  <2>1. x + KBufs = x + KBufs * 1
    BY <1>1
  <2> QED BY <2>1
<1>3. x + KBufs \in Int
  BY <1>1
<1> QED BY <1>1, <1>2, <1>3, ModSame

\* The device fills the next buffer: it holds no event that is still to be taken.
LEMMA KeyEventStep ==
  ASSUME NEW n \in Nat, KAt(n), NEW e \in Events, KeyEvent(e)
  PROVE  KAt(n)'
<1> DEFINE t == Len(typed)
           b == kq.avail[kdev % KBufs]
<1>1. /\ KTypeOK /\ QueueInv(n) /\ PollInv(n) /\ KeysInv(n) /\ typed \in Seq(Events) /\ t \in Nat
      /\ kq \in KQueues /\ ev_bufs \in [EvBufs -> Events]
  BY DEF KAt, KTypeOK
<1>2. /\ n <= t /\ t <= n + KBufs /\ kq.last = n % KIdxMod /\ kq.aidx = (n + KBufs) % KIdxMod
      /\ kq.uidx = t % KIdxMod /\ kdev = t % KIdxMod /\ kq.busy = EvBufs
      /\ \A i, j \in Window(n) : BufAt(kq, t, i) = BufAt(kq, t, j) => i = j
      /\ \A j \in n..t - 1 : ev_bufs[kq.used[j % KBufs]] = typed[j + 1]
  BY <1>1 DEF QueueInv
<1>3. /\ kdev # kq.aidx /\ ev_bufs' = [ev_bufs EXCEPT ![b] = e]
      /\ kq' = [kq EXCEPT !.used[kq.uidx % KBufs] = b, !.uidx = (@ + 1) % KIdxMod]
      /\ kdev' = (kdev + 1) % KIdxMod /\ typed' = Append(typed, e) /\ UNCHANGED <<kb, kcall, got, full>>
  BY DEF KeyEvent
<1>4. t < n + KBufs /\ t \in Window(n)
  <2>1. t # n + KBufs
    BY <1>2, <1>3
  <2>2. KBufs \in Nat /\ n <= t /\ t <= n + KBufs
    BY <1>2, KConstants
  <2> QED BY <1>1, <2>1, <2>2 DEF Window
<1>5. /\ (kdev % KBufs) = (t % KBufs) /\ (kq.uidx % KBufs) = (t % KBufs) /\ (t % KBufs) \in EvBufs
      /\ ((kdev + 1) % KIdxMod) = ((t + 1) % KIdxMod) /\ ((kq.uidx + 1) % KIdxMod) = ((t + 1) % KIdxMod)
      /\ ((t + 1) % KIdxMod) \in 0..KIdxMod - 1
  <2>1. t \in Int
    BY <1>1
  <2> QED BY <1>2, <2>1, IdxPlace, IdxNext
<1>6. b = BufAt(kq, t, t) /\ b \in EvBufs
  <2>1. b = kq.avail[t % KBufs] /\ ~(t < t)
    BY <1>1, <1>5
  <2> QED BY <1>1, <1>5, <2>1 DEF BufAt, KQueues
<1> HIDE DEF b
<1>7. /\ typed' \in Seq(Events) /\ Len(typed') = t + 1 /\ typed'[t + 1] = e
      /\ \A j \in 1..t : typed'[j] = typed[j]
  BY <1>1, <1>3
<1>8. /\ kq'.avail = kq.avail /\ kq'.aidx = kq.aidx /\ kq'.last = kq.last /\ kq'.busy = kq.busy
      /\ kq'.used = [kq.used EXCEPT ![t % KBufs] = b] /\ kq'.uidx = (t + 1) % KIdxMod
  BY <1>1, <1>3, <1>5 DEF KQueues
<1>9. kq' \in KQueues
  BY <1>1, <1>3, <1>5, <1>6 DEF KQueues
<1>10. ev_bufs' \in [EvBufs -> Events]
  BY <1>1, <1>3, <1>6
<1>11. KTypeOK'
  BY <1>1, <1>3, <1>7, <1>9, <1>10 DEF KTypeOK
<1>12. ASSUME NEW j \in Window(n) PROVE BufAt(kq', t + 1, j) = BufAt(kq, t, j)
  <2>1. j \in Int /\ t \in Int /\ n <= j /\ j < n + KBufs
    BY KConstants DEF Window
  <2>2. CASE j < t
    <3>1. (j % KBufs) # (t % KBufs) /\ j < t + 1
      BY <1>1, <1>4, <2>1, <2>2, KConstants, PlacesDiffer
    <3>2. (j % KBufs) \in EvBufs
      BY <2>1, IdxPlace
    <3>3. kq'.used[j % KBufs] = kq.used[j % KBufs]
      BY <1>1, <1>8, <3>1, <3>2 DEF KQueues
    <3> QED BY <2>2, <3>1, <3>3 DEF BufAt
  <2>3. CASE j = t
    <3>1. kq'.used[j % KBufs] = b /\ j < t + 1
      BY <1>1, <1>5, <1>8, <2>3 DEF KQueues
    <3> QED BY <1>6, <2>3, <3>1 DEF BufAt
  <2>4. CASE j > t
    <3>1. ~(j < t) /\ ~(j < t + 1)
      BY <1>1, <2>1, <2>4
    <3> QED BY <1>8, <3>1 DEF BufAt
  <2> QED BY <1>1, <2>1, <2>2, <2>3, <2>4
<1>13. ASSUME NEW j \in n..t PROVE ev_bufs'[kq'.used[j % KBufs]] = typed'[j + 1]
  <2>1. j \in Window(n) /\ j \in Int /\ j < t + 1 /\ j + 1 \in 1..t + 1
    BY <1>1, <1>4, KConstants DEF Window
  <2>2. kq'.used[j % KBufs] = BufAt(kq, t, j)
    <3>1. BufAt(kq', t + 1, j) = kq'.used[j % KBufs]
      BY <2>1 DEF BufAt
    <3> QED BY <1>12, <2>1, <3>1
  <2>3. CASE j = t
    BY <1>1, <1>3, <1>6, <1>7, <2>2, <2>3
  <2>4. CASE j < t
    <3>1. BufAt(kq, t, j) # b /\ j # t
      BY <1>2, <1>4, <1>6, <2>1, <2>4
    <3>2. BufAt(kq, t, j) = kq.used[j % KBufs]
      BY <2>4 DEF BufAt
    <3>3. kq.used[j % KBufs] \in EvBufs
      BY <1>1, <2>1, IdxPlace DEF KQueues
    <3>4. ev_bufs'[kq'.used[j % KBufs]] = ev_bufs[kq.used[j % KBufs]]
      BY <1>1, <1>3, <2>2, <3>1, <3>2, <3>3
    <3>5. j \in n..t - 1 /\ j + 1 \in 1..t
      BY <1>1, <2>1, <2>4
    <3> QED BY <1>2, <1>7, <3>4, <3>5
  <2> QED BY <1>1, <2>3, <2>4
<1>14. QueueInv(n)'
  <2>1. \A i, j \in Window(n) : BufAt(kq', t + 1, i) = BufAt(kq', t + 1, j) => i = j
    BY <1>2, <1>12
  <2>2. \A j \in n..(t + 1) - 1 : ev_bufs'[kq'.used[j % KBufs]] = typed'[j + 1]
    BY <1>1, <1>13
  <2>3. n <= t + 1 /\ t + 1 <= n + KBufs
    <3>1. KBufs \in Nat /\ n <= t
      BY <1>2, KConstants
    <3> QED BY <1>1, <1>4, <3>1
  <2> QED BY <1>2, <1>3, <1>5, <1>7, <1>8, <2>1, <2>2, <2>3 DEF QueueInv
<1>15. PollInv(n)'
  <2>1. ASSUME NEW u \in KUsers
        PROVE  /\ kcall[u].pc = "take" => n < t + 1
               /\ kcall[u].pc = "handle" => n > 0 /\ kcall[u].ev = typed'[n]
    <3>1. n > 0 => typed'[n] = typed[n]
      BY <1>1, <1>2, <1>7
    <3> QED BY <1>1, <1>2, <3>1 DEF PollInv
  <2> QED BY <1>1, <1>3, <1>7, <2>1 DEF PollInv
<1>16. HandlingOf(kcall) \in {0, 1} /\ n - HandlingOf(kcall) \in 0..t
  <2>1. CASE \A u \in KUsers : kcall[u].pc # "handle"
    <3>1. HandlingOf(kcall) = 0
      BY <2>1, NoHandler
    <3> QED BY <1>1, <1>2, <3>1
  <2>2. CASE \E u \in KUsers : kcall[u].pc = "handle"
    <3>1. PICK u \in KUsers : kcall[u].pc = "handle"
      BY <2>2
    <3>2. n > 0 /\ \A w \in KUsers \ {u} : kcall[w].pc # "handle"
      BY <1>1, <3>1 DEF PollInv
    <3>3. HandlingOf(kcall) = 1
      BY <3>1, <3>2, OneHandler
    <3> QED BY <1>1, <1>2, <3>2, <3>3
  <2> QED BY <2>1, <2>2
<1>17. Meaning(typed', n - HandlingOf(kcall)) = Meaning(typed, n - HandlingOf(kcall))
  BY <1>1, <1>3, <1>16, MeaningAppend
<1>18. KeysInv(n)'
  BY <1>1, <1>3, <1>17 DEF KeysInv
<1> QED BY <1>11, <1>14, <1>15, <1>18 DEF KAt

\* The locked part of keyboard_poll(): the oldest event is taken and its buffer goes to the end of the queue.
LEMMA KTakeStep ==
  ASSUME NEW n \in Nat, KAt(n), NEW u \in KUsers, TakeEvent(u)
  PROVE  KAt(n + 1)'
<1> DEFINE t == Len(typed)
           b == kq.used[kq.last % KBufs]
           q1 == [kq EXCEPT !.busy = @ \ {b}, !.last = (@ + 1) % KIdxMod]
<1>1. /\ KTypeOK /\ QueueInv(n) /\ PollInv(n) /\ KeysInv(n) /\ typed \in Seq(Events) /\ t \in Nat
      /\ kq \in KQueues /\ ev_bufs \in [EvBufs -> Events] /\ kcall \in [KUsers -> KCalls]
  BY DEF KAt, KTypeOK
<1>2. /\ n <= t /\ t <= n + KBufs /\ kq.last = n % KIdxMod /\ kq.aidx = (n + KBufs) % KIdxMod
      /\ kq.uidx = t % KIdxMod /\ kdev = t % KIdxMod /\ kq.busy = EvBufs
      /\ \A i, j \in Window(n) : BufAt(kq, t, i) = BufAt(kq, t, j) => i = j
      /\ \A j \in n..t - 1 : ev_bufs[kq.used[j % KBufs]] = typed[j + 1]
  BY <1>1 DEF QueueInv
<1>3. /\ kcall[u].pc = "take" /\ kq' = submit_event_locked(q1, b)
      /\ kcall' = [kcall EXCEPT ![u] = [pc |-> "handle", ev |-> ev_bufs[b]]]
      /\ UNCHANGED <<ev_bufs, kb, kdev, typed, got, full>>
  BY DEF TakeEvent
<1>4. KBufs \in Nat /\ KBufs > 0 /\ n \in Int /\ n + KBufs \in Int /\ t <= n + KBufs
  <2>1. KBufs \in Nat \ {0} /\ t <= n + KBufs
    BY <1>2, KConstants
  <2> QED BY <2>1
<1>5. n < t /\ n \in Window(n) /\ n \in n..t - 1
  <2>1. n < t
    BY <1>1, <1>3 DEF PollInv
  <2> QED BY <1>1, <1>4, <2>1 DEF Window
<1>6. /\ (kq.last % KBufs) = (n % KBufs) /\ (n % KBufs) \in EvBufs
      /\ ((kq.last + 1) % KIdxMod) = ((n + 1) % KIdxMod) /\ ((n + 1) % KIdxMod) \in 0..KIdxMod - 1
  BY <1>2, <1>4, IdxPlace, IdxNext
<1>7. /\ (kq.aidx % KBufs) = (n % KBufs)
      /\ ((kq.aidx + 1) % KIdxMod) = ((n + 1 + KBufs) % KIdxMod)
      /\ ((n + 1 + KBufs) % KIdxMod) \in 0..KIdxMod - 1
  <2>1. (kq.aidx % KBufs) = ((n + KBufs) % KBufs)
    BY <1>2, <1>4, IdxPlace
  <2>2. ((n + KBufs) % KBufs) = (n % KBufs)
    BY <1>4, WholeTurn
  <2>3. ((kq.aidx + 1) % KIdxMod) = (((n + KBufs) + 1) % KIdxMod)
        /\ (((n + KBufs) + 1) % KIdxMod) \in 0..KIdxMod - 1
    BY <1>2, <1>4, IdxNext
  <2>4. (n + KBufs) + 1 = n + 1 + KBufs
    BY <1>4
  <2> QED BY <2>1, <2>2, <2>3, <2>4
<1>8. b = kq.used[n % KBufs] /\ b = BufAt(kq, t, n) /\ b \in EvBufs
  BY <1>1, <1>5, <1>6 DEF BufAt, KQueues
<1>9. ev_bufs[b] = typed[n + 1] /\ ev_bufs[b] \in Events
  BY <1>1, <1>2, <1>5, <1>8
<1> HIDE DEF b
<1>10. /\ q1.avail = kq.avail /\ q1.aidx = kq.aidx /\ q1.used = kq.used /\ q1.uidx = kq.uidx
       /\ q1.last = (n + 1) % KIdxMod /\ q1.busy = EvBufs \ {b} /\ q1 \in KQueues
  BY <1>1, <1>2, <1>6 DEF KQueues
<1> HIDE DEF q1
<1>11. kq' = [q1 EXCEPT !.busy = @ \cup {b}, !.avail[q1.aidx % KBufs] = b, !.aidx = (@ + 1) % KIdxMod]
  BY <1>3, <1>10 DEF submit_event_locked
<1>12. /\ kq'.avail = [kq.avail EXCEPT ![n % KBufs] = b] /\ kq'.aidx = (n + 1 + KBufs) % KIdxMod
       /\ kq'.used = kq.used /\ kq'.uidx = kq.uidx /\ kq'.last = (n + 1) % KIdxMod /\ kq'.busy = EvBufs
  <2>1. (EvBufs \ {b}) \cup {b} = EvBufs
    BY <1>8
  <2> QED BY <1>7, <1>10, <1>11, <2>1 DEF KQueues
<1>13. kq' \in KQueues
  BY <1>6, <1>7, <1>8, <1>10, <1>11 DEF KQueues
<1>14. \A w \in KUsers : kcall'[w] = IF w = u THEN [pc |-> "handle", ev |-> ev_bufs[b]] ELSE kcall[w]
  BY <1>1, <1>3
<1>15. kcall' \in [KUsers -> KCalls]
  BY <1>1, <1>3, <1>9 DEF KCalls
<1>16. KTypeOK'
  BY <1>1, <1>3, <1>13, <1>15 DEF KTypeOK
<1>17. ASSUME NEW j \in Window(n), j # n PROVE BufAt(kq', t, j) = BufAt(kq, t, j)
  <2>1. j \in Int /\ j - n < KBufs /\ n - j < KBufs
    BY <1>4 DEF Window
  <2>2. (j % KBufs) # (n % KBufs) /\ (j % KBufs) \in EvBufs
    BY <1>4, <1>17, <2>1, PlacesDiffer, IdxPlace
  <2>3. kq'.avail[j % KBufs] = kq.avail[j % KBufs]
    BY <1>1, <1>12, <2>2 DEF KQueues
  <2> QED BY <1>12, <2>3 DEF BufAt
<1>18. BufAt(kq', t, n + KBufs) = b
  <2>1. ((n + KBufs) % KBufs) = (n % KBufs)
    BY <1>4, WholeTurn
  <2>2. ~(n + KBufs < t)
    BY <1>1, <1>4
  <2>3. kq'.avail[n % KBufs] = b
    BY <1>1, <1>6, <1>12 DEF KQueues
  <2> QED BY <2>1, <2>2, <2>3 DEF BufAt
<1>19. ASSUME NEW i \in Window(n + 1), NEW j \in Window(n + 1), BufAt(kq', t, i) = BufAt(kq', t, j)
       PROVE  i = j
  <2>1. \A x \in Window(n + 1) : x # n /\ (x = n + KBufs \/ x \in Window(n))
    BY <1>4 DEF Window
  <2>2. \A x \in Window(n + 1) : x = n + KBufs \/ BufAt(kq', t, x) # b
    <3>1. ASSUME NEW x \in Window(n + 1), x # n + KBufs PROVE BufAt(kq', t, x) # b
      <4>1. x \in Window(n) /\ x # n
        BY <2>1, <3>1
      <4>2. BufAt(kq', t, x) = BufAt(kq, t, x)
        BY <1>17, <4>1
      <4> QED BY <1>2, <1>5, <1>8, <4>1, <4>2
    <3> QED BY <3>1
  <2>3. CASE i = n + KBufs \/ j = n + KBufs
    BY <1>18, <1>19, <2>2, <2>3
  <2>4. CASE i # n + KBufs /\ j # n + KBufs
    <3>1. i \in Window(n) /\ i # n /\ j \in Window(n) /\ j # n
      BY <2>1, <2>4
    <3>2. BufAt(kq, t, i) = BufAt(kq, t, j)
      BY <1>17, <1>19, <3>1
    <3> QED BY <1>2, <3>1, <3>2
  <2> QED BY <2>3, <2>4
<1>20. QueueInv(n + 1)'
  <2>1. \A j \in n + 1..t - 1 : ev_bufs'[kq'.used[j % KBufs]] = typed'[j + 1]
    <3>1. \A j \in n + 1..t - 1 : j \in n..t - 1
      BY <1>1, <1>4
    <3> QED BY <1>2, <1>3, <1>12, <3>1
  <2>2. n + 1 <= t /\ t <= (n + 1) + KBufs
    BY <1>1, <1>4, <1>5
  <2> QED BY <1>2, <1>3, <1>12, <1>19, <2>1, <2>2 DEF QueueInv
<1>21. \A w \in KUsers \ {u} : kcall[w].pc = "out"
  BY <1>1, <1>3 DEF PollInv
<1>22. PollInv(n + 1)'
  <2>1. n + 1 > 0
    OBVIOUS
  <2> QED BY <1>3, <1>9, <1>14, <1>21, <2>1 DEF PollInv
<1>23. HandlingOf(kcall) = 0
  BY <1>3, <1>21, NoHandler
<1>24. HandlingOf(kcall') = 1
  BY <1>14, <1>21, OneHandler
<1>25. KeysInv(n + 1)'
  <2>1. n - HandlingOf(kcall) = n /\ (n + 1) - HandlingOf(kcall') = n
    BY <1>4, <1>23, <1>24
  <2> QED BY <1>1, <1>3, <2>1 DEF KeysInv
<1> QED BY <1>16, <1>20, <1>22, <1>25 DEF KAt

\* Every step keeps the invariant.
LEMMA KStep ==
  ASSUME PollAlone, KInv, [KNext]_kVars PROVE KInv'
<1>1. PICK n \in Nat : KAt(n)
  BY DEF KInv
<1>2. CASE UNCHANGED kVars
  <2>1. KAt(n)'
    BY <1>1, <1>2 DEF kVars, KAt, KTypeOK, QueueInv, PollInv, KeysInv, BufAt
  <2> QED BY <2>1 DEF KInv
<1>3. ASSUME NEW u \in KUsers, keyboard_getchar(u) \/ Compare(u) PROVE KInv'
  <2>1. KAt(n)'
    BY <1>1, <1>3, KCallStep
  <2> QED BY <2>1 DEF KInv
<1>4. ASSUME NEW u \in KUsers, TakeEvent(u) PROVE KInv'
  <2>1. KAt(n + 1)' /\ n + 1 \in Nat
    BY <1>1, <1>4, KTakeStep
  <2> QED BY <2>1 DEF KInv
<1>5. ASSUME NEW u \in KUsers, Handle(u) PROVE KInv'
  <2>1. KAt(n)'
    BY <1>1, <1>5, KHandleStep
  <2> QED BY <2>1 DEF KInv
<1>6. ASSUME NEW u \in KUsers, Pop(u) PROVE KInv'
  <2>1. KAt(n)'
    BY <1>1, <1>6, KPopStep
  <2> QED BY <2>1 DEF KInv
<1>7. ASSUME NEW e \in Events, KeyEvent(e) PROVE KInv'
  <2>1. KAt(n)'
    BY <1>1, <1>7, KeyEventStep
  <2> QED BY <2>1 DEF KInv
<1> QED BY <1>2, <1>3, <1>4, <1>5, <1>6, <1>7 DEF KNext

\* A one-to-one function on 0..d-1 has d values.
Apart(f, d) == \A i, j \in 0..d - 1 : f[i] = f[j] => i = j
LEMMA CountImage ==
  ASSUME NEW d \in Nat, NEW f, Apart(f, d)
  PROVE  Cardinality({f[i] : i \in 0..d - 1}) = d
<1> DEFINE S == 0..d - 1
           V == {f[i] : i \in S}
           g == [i \in S |-> f[i]]
<1>1. IsFiniteSet(S) /\ Cardinality(S) = d
  <2>1. 0 \in Int /\ d - 1 \in Int
    OBVIOUS
  <2>2. IsFiniteSet(0..d - 1) /\ Cardinality(0..d - 1) = IF 0 > d - 1 THEN 0 ELSE (d - 1) - 0 + 1
    BY <2>1, FS_Interval
  <2> QED BY <2>2
<1>2. g \in Bijection(S, V)
  BY DEF Bijection, Injection, Surjection, IsInjective, Apart
<1>3. ExistsBijection(S, V)
  BY <1>2 DEF ExistsBijection
<1> HIDE DEF S, V
<1>4. Cardinality(V) = d
  BY <1>1, <1>3, FS_Bijection
<1> QED BY <1>4 DEF S, V

\* The distance of two indices.
LEMMA IdxDistance ==
  ASSUME NEW x \in Nat, NEW y \in Nat, x <= y, y <= x + KBufs
  PROVE  (((y % KIdxMod) + KIdxMod - (x % KIdxMod)) % KIdxMod) = y - x
<1>1. KIdxMod \in Nat \ {0} /\ KBufs \in Nat /\ KBufs < KIdxMod
  BY KConstants
<1>2. PICK d \in 0..KIdxMod - 1 : y = x + d
  <2>1. y - x \in 0..KIdxMod - 1 /\ y = x + (y - x)
    BY <1>1
  <2> QED BY <2>1
<1>3. y - x = d
  BY <1>2
<1>4. ((((x + d) % KIdxMod) + KIdxMod - (x % KIdxMod)) % KIdxMod) = d
  <2>1. x \in Int
    OBVIOUS
  <2> QED BY <1>1, <2>1, ModDistance, Zenon
<1> QED BY <1>2, <1>3, <1>4, Zenon

\* The place of an index some steps on.
LEMMA IdxStepPlace ==
  ASSUME NEW x \in Int, NEW i \in Int
  PROVE  (((x % KIdxMod) + i) % KBufs) = ((x + i) % KBufs)
<1>1. KBufs \in Nat \ {0} /\ KIdxMod \in Nat \ {0} /\ (KIdxMod % KBufs) = 0
  BY KConstants
<1> QED BY <1>1, ModMod

\* What the invariant says of the characters.
LEMMA KInvOrder ==
  ASSUME NEW n \in Nat, KAt(n) PROVE KeysInOrder
<1> DEFINE t == Len(typed)
<1>1. /\ t \in Nat /\ n <= t /\ t <= n + KBufs /\ kq.uidx = t % KIdxMod /\ kq.last = n % KIdxMod /\ KeysInv(n)
      /\ kb \in KbRecs
  BY DEF KAt, KTypeOK, QueueInv
<1>2. Untaken = t - n
  <2>1. (((t % KIdxMod) + KIdxMod - (n % KIdxMod)) % KIdxMod) = t - n
    BY <1>1, IdxDistance
  <2> QED BY <1>1, <2>1 DEF Untaken
<1>3. Handling = HandlingOf(kcall) /\ Waiting = WaitingOf(kb)
  BY DEF Handling, HandlingOf, Waiting, WaitingOf
<1>4. t - Untaken - Handling = n - HandlingOf(kcall)
  <2>1. HandlingOf(kcall) \in Int
    <3>1. CASE \A u \in KUsers : kcall[u].pc # "handle"
      <4>1. HandlingOf(kcall) = 0
        BY <3>1, NoHandler
      <4> QED BY <4>1
    <3>2. CASE \E u \in KUsers : kcall[u].pc = "handle"
      <4>1. PICK u \in KUsers : kcall[u].pc = "handle"
        BY <3>2
      <4>2. \A w \in KUsers \ {u} : kcall[w].pc # "handle"
        BY <4>1 DEF PollInv, KAt
      <4>3. HandlingOf(kcall) = 1
        BY <4>1, <4>2, OneHandler
      <4> QED BY <4>3
    <3> QED BY <3>1, <3>2
  <2> QED BY <1>1, <1>2, <1>3, <2>1
<1> QED BY <1>1, <1>3, <1>4 DEF KeysInOrder, KeysInv, Tells

\* What the invariant says of the buffers.
LEMMA KInvBuffers ==
  ASSUME NEW n \in Nat, KAt(n) PROVE BuffersCirculate
<1> DEFINE t == Len(typed)
           d == n + KBufs - t
           queued == {kq.avail[(kdev + i) % KBufs] : i \in 0..((kq.aidx + KIdxMod - kdev) % KIdxMod) - 1}
           waiting == [i \in 1..Untaken |-> kq.used[(kq.last + i - 1) % KBufs]]
           f == [i \in 0..d - 1 |-> BufAt(kq, t, t + i)]
<1>1. /\ t \in Nat /\ n <= t /\ t <= n + KBufs /\ kq.last = n % KIdxMod /\ kq.aidx = (n + KBufs) % KIdxMod
      /\ kq.uidx = t % KIdxMod /\ kdev = t % KIdxMod
      /\ \A i, j \in Window(n) : BufAt(kq, t, i) = BufAt(kq, t, j) => i = j
      /\ \A j \in n..t - 1 : ev_bufs[kq.used[j % KBufs]] = typed[j + 1]
  BY DEF KAt, KTypeOK, QueueInv
<1>2. KBufs \in Nat /\ n + KBufs \in Nat /\ d \in Nat /\ n <= t /\ t <= n + KBufs /\ n + KBufs <= t + KBufs
  <2>1. KBufs \in Nat /\ n <= t /\ t <= n + KBufs
    BY <1>1, KConstants
  <2> QED BY <1>1, <2>1
<1>3. Untaken = t - n
  <2>1. (((t % KIdxMod) + KIdxMod - (n % KIdxMod)) % KIdxMod) = t - n
    BY <1>1, IdxDistance
  <2> QED BY <1>1, <2>1 DEF Untaken
<1>4. ((kq.aidx + KIdxMod - kdev) % KIdxMod) = d
  <2>1. ((((n + KBufs) % KIdxMod) + KIdxMod - (t % KIdxMod)) % KIdxMod) = (n + KBufs) - t
    BY <1>1, <1>2, IdxDistance
  <2>2. kq.aidx = (n + KBufs) % KIdxMod /\ kdev = t % KIdxMod
    BY <1>1
  <2>3. kq.aidx + KIdxMod - kdev = ((n + KBufs) % KIdxMod) + KIdxMod - (t % KIdxMod)
    BY <2>2
  <2>4. ((kq.aidx + KIdxMod - kdev) % KIdxMod) = (n + KBufs) - t
    BY <2>1, <2>3, Zenon
  <2>5. (n + KBufs) - t = d
    BY <1>1, <1>2
  <2> QED BY <2>4, <2>5
<1>5. ASSUME NEW i \in 0..d - 1
      PROVE  kq.avail[(kdev + i) % KBufs] = f[i] /\ t + i \in Window(n) /\ t + i >= t
  <2>1. i \in Int /\ t \in Int /\ t + i >= t /\ t + i \in Window(n) /\ ~(t + i < t)
    BY <1>1, <1>2 DEF Window
  <2>2. ((kdev + i) % KBufs) = ((t + i) % KBufs)
    BY <1>1, <2>1, IdxStepPlace
  <2> QED BY <2>1, <2>2 DEF BufAt
<1>6. queued = {f[i] : i \in 0..d - 1}
  BY <1>4, <1>5
<1>7. Cardinality(queued) = d
  <2>1. \A i, j \in 0..d - 1 : f[i] = f[j] => i = j
    <3>1. ASSUME NEW i \in 0..d - 1, NEW j \in 0..d - 1, f[i] = f[j] PROVE i = j
      <4>1. t + i = t + j
        BY <1>1, <1>5, <3>1
      <4> QED BY <1>1, <4>1
    <3> QED BY <3>1
  <2>2. Cardinality({f[i] : i \in 0..d - 1}) = d
    <3>1. Apart(f, d)
      BY <2>1 DEF Apart
    <3>2. d \in Nat
      BY <1>2
    <3> HIDE DEF f, d
    <3> QED BY <3>1, <3>2, CountImage
  <2> QED BY <1>6, <2>2
<1>8. ASSUME NEW i \in 1..Untaken
      PROVE  /\ waiting[i] = kq.used[(n + i - 1) % KBufs] /\ waiting[i] = BufAt(kq, t, n + i - 1)
             /\ n + i - 1 \in Window(n) /\ n + i - 1 \in n..t - 1 /\ n + i - 1 < t
  <2>1. i \in 1..(t - n)
    BY <1>3
  <2>2. n + i - 1 \in n..t - 1 /\ n + i - 1 < t /\ n + i - 1 \in Window(n) /\ i - 1 \in Int /\ n \in Int
    BY <1>1, <1>2, <2>1 DEF Window
  <2>3. (((n % KIdxMod) + (i - 1)) % KBufs) = ((n + (i - 1)) % KBufs)
    BY <2>2, IdxStepPlace
  <2>4. n + (i - 1) = n + i - 1
    BY <2>1
  <2>5. (n % KIdxMod) + (i - 1) = kq.last + i - 1
    <3>1. kq.last \in Int /\ kq.last = n % KIdxMod
      BY <1>1 DEF KAt, KTypeOK, KQueues
    <3> QED BY <2>1, <3>1
  <2>6. waiting[i] = kq.used[(n + i - 1) % KBufs]
    BY <2>3, <2>4, <2>5
  <2> QED BY <2>2, <2>6 DEF BufAt
<1>9. queued \cap {waiting[i] : i \in 1..Untaken} = {}
  <2>1. SUFFICES ASSUME NEW i \in 0..d - 1, NEW j \in 1..Untaken, f[i] = waiting[j] PROVE FALSE
    BY <1>6
  <2>2. t + i = n + j - 1
    BY <1>1, <1>5, <1>8, <2>1
  <2> QED BY <1>1, <1>5, <1>8, <2>2
<1>10. Cardinality(queued) + Untaken = KBufs
  BY <1>1, <1>2, <1>3, <1>7
<1>11. \A i \in 1..Untaken : ev_bufs[waiting[i]] = typed[t - Untaken + i]
  <2>1. ASSUME NEW i \in 1..Untaken PROVE ev_bufs[waiting[i]] = typed[t - Untaken + i]
    <3>1. ev_bufs[waiting[i]] = typed[(n + i - 1) + 1]
      BY <1>1, <1>8
    <3>2. (n + i - 1) + 1 = t - Untaken + i
      BY <1>1, <1>3
    <3> QED BY <3>1, <3>2
  <2> QED BY <2>1
<1> HIDE DEF queued, waiting
<1> QED BY <1>9, <1>10, <1>11 DEF BuffersCirculate, queued, waiting

(* What is typed arrives: with one task at a time in keyboard_getchar() the *)
(* characters read and waiting are those the events taken mean, each event  *)
(* once and in order, as long as none was dropped because the ring of       *)
(* characters was full; and every event buffer is either queued for the     *)
(* device or holds an event nobody has taken, whatever the number of        *)
(* buffers, the width of the indices and the size of the ring.              *)
THEOREM KeysDeliveredHolds ==
  ASSUME PollAlone PROVE KSpec => []KeysDelivered
<1>1. KInit => KInv
  BY KStart DEF KInv
<1>2. KInv /\ [KNext]_kVars => KInv'
  BY KStep
<1>3. KInv => KeysDelivered
  BY KInvOrder, KInvBuffers DEF KInv, KeysDelivered
<1> QED BY <1>1, <1>2, <1>3, PTL DEF KSpec

(***************************************************************************)
(* Screen: the terminal and its frame buffer                               *)
(***************************************************************************)

\* The values of the terminal's state and of the writers' places.
PutPcs == {"out", "draw", "point", "move", "show"}
SType ==
  /\ gt \in [x : 0..Cols, y : ScreenLines, bg : Colours, visible : BOOLEAN, drawn : BOOLEAN]
  /\ pan \in 0..Lines /\ crossed \in BOOLEAN
  /\ put \in [Writers -> [pc : PutPcs, c : Glyphs \cup {"CR", "NL", "BS", " "}]]

\* No cell of the window of the frame buffer f at the line p shows the cursor.
Dark(f, p) == \A y \in ScreenLines, x \in Columns : ~f[y + p][x].cursor

\* Only the cell (v, u) of the window of f at p may show it.
OnlyAt(f, p, u, v) == \A y \in ScreenLines, x \in Columns : f[y + p][x].cursor => y = v /\ x = u

AllAway == \A w \in Writers : put[w].pc = "out"

\* Until two harts have met: a cursor is where the terminal is, and on the screen
\* only between two characters.
CursorInv ==
  /\ \A w, v \in Writers : put[w].pc # "out" /\ put[v].pc # "out" => w = v
  /\ IF gt.drawn THEN OnlyAt(fb, pan, gt.x, gt.y) ELSE Dark(fb, pan)
  /\ gt.drawn => gt.visible /\ AllAway

ScreenInv == SType /\ (~crossed => CursorInv)

\* The sizes, and the lines of the window in the frame buffer.
LEMMA ScreenSizes == Cols \in Nat /\ Cols > 0 /\ Lines \in Nat /\ Lines > 0 /\ 0 \in Colours
BY ScreenAssumption

LEMMA WindowRows == \A y \in ScreenLines, p \in 0..Lines : y + p \in Rows /\ y \in Int /\ p \in Int
BY ScreenSizes DEF ScreenLines, Rows

\* What drawing and erasing the strip, a character and a rectangle do to the cursors.
LEMMA StripCursor ==
  ASSUME NEW f, NEW p \in 0..Lines, NEW u, NEW v \in ScreenLines, NEW y \in ScreenLines, NEW x \in Columns
  PROVE  /\ Strip(f, p, u, v, FALSE)[y + p][x].cursor => f[y + p][x].cursor /\ ~(y = v /\ x = u)
         /\ Strip(f, p, u, v, TRUE)[y + p][x].cursor => f[y + p][x].cursor \/ (y = v /\ x = u)
<1>1. y + p \in Rows /\ (y + p = v + p <=> y = v)
  BY WindowRows DEF ScreenLines
<1> QED BY <1>1 DEF Strip

LEMMA GlyphCursor ==
  ASSUME NEW f, NEW p \in 0..Lines, NEW u, NEW v, NEW t, Dark(f, p)
  PROVE  Dark(kgfx_draw_char_nodirty(f, p, u, v, t), p)
BY WindowRows DEF Dark, kgfx_draw_char_nodirty, Cell

LEMMA FillCursor ==
  ASSUME NEW f, NEW p, NEW x0, NEW y0, NEW x1, NEW y1, NEW bg, NEW y \in Rows, NEW x \in Columns,
         kgfx_fill_rect_nodirty(f, p, x0, y0, x1, y1, bg)[y][x].cursor
  PROVE  f[y][x].cursor /\ ~(y - p \in ScreenLines /\ y0 <= y - p /\ y - p < y1 /\ x0 <= x /\ x < x1)
BY DEF kgfx_fill_rect_nodirty, Cell

\* Where no cursor is, none is after a fill, after an erasure, and after a scroll.
LEMMA FillDark ==
  ASSUME NEW f, NEW p \in 0..Lines, Dark(f, p), NEW x0, NEW y0, NEW x1, NEW y1, NEW bg
  PROVE  Dark(kgfx_fill_rect_nodirty(f, p, x0, y0, x1, y1, bg), p)
BY WindowRows, FillCursor DEF Dark

LEMMA ScrollDark ==
  ASSUME NEW f, NEW p \in 0..Lines, Dark(f, p), NEW bg
  PROVE  PanAfter(p) \in 0..Lines /\ Dark(kgfx_scroll_up(f, p, bg), PanAfter(p))
<1>1. PICK q : q = PanAfter(p)
  OBVIOUS
<1>2. q \in 0..Lines /\ (WrapsAt(p) => p = Lines /\ q = 0) /\ (~WrapsAt(p) => q = p + 1)
  BY <1>1, ScreenSizes DEF PanAfter, WrapsAt
<1> SUFFICES ASSUME NEW y \in ScreenLines, NEW x \in Columns, kgfx_scroll_up(f, p, bg)[y + q][x].cursor PROVE FALSE
  BY <1>1, <1>2 DEF Dark
<1>3. y + q \in Rows /\ y \in Int /\ q \in Int
  BY <1>2, WindowRows
<1>4. Moved(f, p)[y + q][x].cursor /\ ~(y + q - q \in ScreenLines /\ Lines - 1 <= y + q - q /\ y + q - q < Lines /\ 0 <= x /\ x < Cols)
  BY <1>1, <1>3, FillCursor DEF kgfx_scroll_up
<1>5. y + q - q = y /\ 0 <= x /\ x < Cols /\ 0 <= y /\ y < Lines
  BY <1>3, ScreenSizes DEF Columns, ScreenLines
<1>6. y < Lines - 1
  BY <1>4, <1>5, ScreenSizes DEF ScreenLines
<1>7. CASE WrapsAt(p)
  <2>1. Moved(f, p)[y + q] = f[y + p]
    BY <1>2, <1>3, <1>5, <1>7 DEF Moved
  <2> QED BY <1>4, <2>1 DEF Dark
<1>8. CASE ~WrapsAt(p)
  <2>1. Moved(f, p)[y + q] = f[(y + 1) + p] /\ y + 1 \in ScreenLines
    BY <1>2, <1>3, <1>5, <1>6, <1>8, ScreenSizes DEF Moved, ScreenLines
  <2> QED BY <1>4, <2>1 DEF Dark
<1> QED BY <1>7, <1>8

LEMMA StripDark ==
  ASSUME NEW f, NEW p \in 0..Lines, NEW u, NEW v \in ScreenLines, OnlyAt(f, p, u, v)
  PROVE  Dark(Strip(f, p, u, v, FALSE), p)
BY StripCursor DEF Dark, OnlyAt

\* gpu_tty_erase_cursor() leaves none and gpu_tty_draw_cursor() one.
LEMMA ErasedDark == ASSUME SType, CursorInv PROVE Dark(Erased, pan)
<1>1. gt.y \in ScreenLines /\ pan \in 0..Lines
  BY DEF SType
<1>2. CASE gt.drawn
  <2>1. Erased = Strip(fb, pan, gt.x, gt.y, FALSE) /\ OnlyAt(fb, pan, gt.x, gt.y)
    BY <1>2 DEF CursorInv, Erased
  <2> QED BY <1>1, <2>1, StripDark
<1>3. CASE ~gt.drawn
  BY <1>3 DEF CursorInv, Erased
<1> QED BY <1>2, <1>3

LEMMA StripLit ==
  ASSUME NEW f, NEW p \in 0..Lines, NEW u, NEW v \in ScreenLines, Dark(f, p)
  PROVE  OnlyAt(Strip(f, p, u, v, TRUE), p, u, v)
BY StripCursor DEF Dark, OnlyAt

LEMMA PointedOne == ASSUME SType, CursorInv PROVE OnlyAt(Pointed, pan, gt.x, gt.y)
<1>1. gt.y \in ScreenLines /\ pan \in 0..Lines
  BY DEF SType
<1>2. CASE gt.drawn
  BY <1>2 DEF CursorInv, Pointed
<1>3. CASE ~gt.drawn
  BY <1>1, <1>3, StripLit DEF CursorInv, Pointed
<1> QED BY <1>2, <1>3

\* A hart that comes in finds everybody out, unless two meet; one that goes on was
\* alone inside and no cursor is on the screen.
LEMMA EntersAlone ==
  ASSUME ScreenInv, NEW w \in Writers, NEW pc \in PutPcs, NEW c \in Glyphs \cup {"CR", "NL", "BS", " "},
         Enters(w, pc, c)
  PROVE  /\ put' \in [Writers -> [pc : PutPcs, c : Glyphs \cup {"CR", "NL", "BS", " "}]] /\ crossed' \in BOOLEAN
         /\ ~crossed' => /\ CursorInv
                         /\ \A v, z \in Writers : put'[v].pc # "out" /\ put'[z].pc # "out" => v = z
                         /\ pc = "out" => AllAway'
<1>1. put' = [put EXCEPT ![w] = [pc |-> pc, c |-> c]]
      /\ crossed' = (crossed \/ \E v \in Writers : put[v].pc # "out")
  BY DEF Enters, Comes
<1>2. put' \in [Writers -> [pc : PutPcs, c : Glyphs \cup {"CR", "NL", "BS", " "}]]
      /\ put'[w].pc = pc /\ \A v \in Writers : v # w => put'[v] = put[v]
  BY <1>1 DEF ScreenInv, SType
<1>3. crossed' \in BOOLEAN
  BY <1>1 DEF ScreenInv, SType
<1>4. ASSUME ~crossed' PROVE CursorInv /\ AllAway
  BY <1>1, <1>4 DEF ScreenInv, AllAway
<1> QED BY <1>2, <1>3, <1>4 DEF AllAway

LEMMA GoesAlone ==
  ASSUME ScreenInv, NEW w \in Writers, put[w].pc # "out", NEW pc \in PutPcs, Goes(w, pc)
  PROVE  /\ put' \in [Writers -> [pc : PutPcs, c : Glyphs \cup {"CR", "NL", "BS", " "}]] /\ crossed' = crossed
         /\ ~crossed => /\ CursorInv /\ ~gt.drawn /\ Dark(fb, pan)
                        /\ \A v, z \in Writers : put'[v].pc # "out" /\ put'[z].pc # "out" => v = z
                        /\ pc = "out" => AllAway'
<1>1. crossed' = crossed /\ put' = [put EXCEPT ![w].pc = pc]
  BY DEF Goes
<1>2. put \in [Writers -> [pc : PutPcs, c : Glyphs \cup {"CR", "NL", "BS", " "}]]
  BY DEF ScreenInv, SType
<1>3. put' \in [Writers -> [pc : PutPcs, c : Glyphs \cup {"CR", "NL", "BS", " "}]]
      /\ put'[w].pc = pc /\ \A v \in Writers : v # w => put'[v] = put[v]
  BY <1>1, <1>2
<1>4. ASSUME ~crossed PROVE CursorInv /\ ~gt.drawn /\ Dark(fb, pan) /\ \A v \in Writers : v # w => put[v].pc = "out"
  BY <1>4 DEF ScreenInv, SType, CursorInv, AllAway
<1> QED BY <1>1, <1>3, <1>4 DEF AllAway

\* A new state of the terminal, field by field.
LEMMA NewState ==
  ASSUME SType, NEW x \in 0..Cols, NEW y \in ScreenLines, NEW bg \in Colours, NEW v \in BOOLEAN, NEW d \in BOOLEAN,
         gt' = TermState(x, y, bg, v, d)
  PROVE  /\ gt' \in [x : 0..Cols, y : ScreenLines, bg : Colours, visible : BOOLEAN, drawn : BOOLEAN]
         /\ gt'.x = x /\ gt'.y = y /\ gt'.bg = bg /\ gt'.visible = v /\ gt'.drawn = d
BY DEF TermState

LEMMA OldState ==
  ASSUME SType
  PROVE  gt.x \in 0..Cols /\ gt.y \in ScreenLines /\ gt.bg \in Colours /\ gt.visible \in BOOLEAN /\ gt.drawn \in BOOLEAN
         /\ pan \in 0..Lines /\ 0 \in 0..Cols /\ 0 \in ScreenLines /\ (gt.x = 0 \/ gt.x - 1 \in 0..Cols)
         /\ (~(gt.x + 1 > Cols) => gt.x + 1 \in 0..Cols) /\ 0 + 1 \in 0..Cols /\ Columns \subseteq 0..Cols
<1>1. gt.x \in 0..Cols /\ gt.y \in ScreenLines /\ gt.bg \in Colours /\ gt.visible \in BOOLEAN
      /\ gt.drawn \in BOOLEAN /\ pan \in 0..Lines
  BY DEF SType
<1>2. 0 \in 0..Cols /\ 0 \in ScreenLines /\ 0 + 1 \in 0..Cols /\ Columns \subseteq 0..Cols
  BY ScreenSizes DEF ScreenLines, Columns
<1>3. PICK x \in 0..Cols : x = gt.x
  BY <1>1
<1>4. (x = 0 \/ x - 1 \in 0..Cols) /\ (~(x + 1 > Cols) => x + 1 \in 0..Cols)
  BY ScreenSizes
<1> QED BY <1>1, <1>2, <1>3, <1>4

\* gpu_tty_advance_line() keeps the terminal on the screen and the screen dark.
LEMMA AdvanceDark ==
  ASSUME SType
  PROVE  LineDown \in ScreenLines /\ PanAdvanced \in 0..Lines /\ (Dark(fb, pan) => Dark(FbAdvanced, PanAdvanced))
<1>1. gt.y \in ScreenLines /\ pan \in 0..Lines /\ PanAfter(pan) \in 0..Lines
  <2>1. \A p \in 0..Lines : PanAfter(p) \in 0..Lines
    BY ScreenSizes DEF PanAfter, WrapsAt
  <2> QED BY <2>1 DEF SType
<1>2. LineDown \in ScreenLines
  BY <1>1, ScreenSizes DEF LineDown, AtBottom, ScreenLines
<1>3. CASE AtBottom
  BY <1>1, <1>2, <1>3, ScrollDark DEF PanAdvanced, FbAdvanced
<1>4. CASE ~AtBottom
  BY <1>1, <1>2, <1>4 DEF PanAdvanced, FbAdvanced
<1> QED BY <1>3, <1>4

\* The last step of a character or a sequence: the cursor is shown if it is visible.
LEMMA ShownStep ==
  ASSUME ScreenInv, NEW w \in Writers, put[w].pc # "out", Goes(w, "out"), pan' = pan,
         fb' = (IF gt.visible THEN Strip(fb, pan, gt.x, gt.y, TRUE) ELSE fb)
           \/ fb' = (IF gt.visible THEN Pointed ELSE fb),
         gt' = TermState(gt.x, gt.y, gt.bg, gt.visible, gt.visible \/ gt.drawn)
  PROVE  ScreenInv'
<1>0. SType /\ "out" \in PutPcs
  BY DEF ScreenInv, PutPcs
<1>1. (gt.visible \/ gt.drawn) \in BOOLEAN
  OBVIOUS
<1>2. gt' \in [x : 0..Cols, y : ScreenLines, bg : Colours, visible : BOOLEAN, drawn : BOOLEAN]
      /\ gt'.drawn = (gt.visible \/ gt.drawn) /\ gt'.visible = gt.visible /\ gt'.x = gt.x /\ gt'.y = gt.y
  BY <1>0, <1>1, NewState, OldState
<1>3. SType'
  BY <1>0, <1>2, GoesAlone DEF SType
<1>4. ASSUME ~crossed' PROVE CursorInv'
  <2>1. ~crossed
    BY <1>0, <1>4, GoesAlone
  <2>2. CursorInv /\ ~gt.drawn /\ Dark(fb, pan) /\ AllAway'
        /\ \A v, z \in Writers : put'[v].pc # "out" /\ put'[z].pc # "out" => v = z
    BY <1>0, <2>1, GoesAlone
  <2>3. CASE gt.visible
    <3>1. fb' = Strip(fb, pan, gt.x, gt.y, TRUE)
      BY <2>2, <2>3 DEF Pointed
    <3>2. OnlyAt(fb', pan, gt.x, gt.y)
      BY <1>0, <2>2, <3>1, StripLit, OldState
    <3> QED BY <1>2, <2>2, <2>3, <3>2 DEF CursorInv
  <2>4. CASE ~gt.visible
    <3>1. fb' = fb
      BY <2>4
    <3> QED BY <1>2, <2>2, <2>4, <3>1 DEF CursorInv
  <2> QED BY <2>3, <2>4
<1> QED BY <1>3, <1>4 DEF ScreenInv

\* Every step of gpu_tty_putc().
LEMMA PutcStep == ASSUME ScreenInv, NEW w \in Writers, Putc(w) PROVE ScreenInv'
<1>0. SType
  BY DEF ScreenInv
<1>1. CASE gpu_tty_putc(w)
  <2>1. PICK c \in Glyphs \cup {"CR", "NL", "BS"} : Enters(w, "draw", c)
    BY <1>1 DEF gpu_tty_putc
  <2>2. fb' = Erased /\ pan' = pan /\ gt' = TermState(gt.x, gt.y, gt.bg, gt.visible, FALSE)
    BY <1>1 DEF gpu_tty_putc
  <2>3. gt' \in [x : 0..Cols, y : ScreenLines, bg : Colours, visible : BOOLEAN, drawn : BOOLEAN] /\ ~gt'.drawn
    BY <1>0, <2>2, NewState, OldState
  <2>4. "draw" \in PutPcs
    BY DEF PutPcs
  <2>5. SType'
    BY <1>0, <2>1, <2>2, <2>3, <2>4, EntersAlone DEF SType
  <2>6. ASSUME ~crossed' PROVE CursorInv'
    BY <1>0, <2>1, <2>2, <2>3, <2>4, <2>6, EntersAlone, ErasedDark DEF CursorInv
  <2> QED BY <2>5, <2>6 DEF ScreenInv
<1>2. ASSUME put[w].pc # "out", Goes(w, "point"), NEW x \in 0..Cols, NEW y \in ScreenLines,
             gt' = TermState(x, y, gt.bg, gt.visible, gt.drawn), pan' \in 0..Lines,
             Dark(fb, pan) => Dark(fb', pan')
      PROVE  ScreenInv'
  <2>1. "point" \in PutPcs
    BY DEF PutPcs
  <2>2. gt' \in [x : 0..Cols, y : ScreenLines, bg : Colours, visible : BOOLEAN, drawn : BOOLEAN] /\ gt'.drawn = gt.drawn
    BY <1>0, <1>2, NewState, OldState
  <2>3. SType'
    BY <1>0, <1>2, <2>1, <2>2, GoesAlone DEF SType
  <2>4. ASSUME ~crossed' PROVE CursorInv'
    <3>1. ~crossed
      BY <1>2, <2>1, <2>4, GoesAlone
    <3>2. ~gt.drawn /\ Dark(fb', pan') /\ \A v, z \in Writers : put'[v].pc # "out" /\ put'[z].pc # "out" => v = z
      BY <1>2, <2>1, <3>1, GoesAlone
    <3> QED BY <2>2, <3>2 DEF CursorInv
  <2> QED BY <2>3, <2>4 DEF ScreenInv
<1>3. CASE PutcReturn(w)
  <2>1. PICK x \in 0..Cols : gt' = TermState(x, gt.y, gt.bg, gt.visible, gt.drawn)
    BY <1>0, <1>3, OldState DEF PutcReturn
  <2> QED BY <1>0, <1>2, <1>3, <2>1, OldState DEF PutcReturn
<1>4. CASE PutcNewline(w)
  BY <1>0, <1>2, <1>4, OldState, AdvanceDark DEF PutcNewline
<1>5. CASE PutcGlyph(w)
  <2>1. PICK x, y, p, f : /\ x = IF gt.x + 1 > Cols THEN 0 ELSE gt.x
                          /\ y = IF gt.x + 1 > Cols THEN LineDown ELSE gt.y
                          /\ p = IF gt.x + 1 > Cols THEN PanAdvanced ELSE pan
                          /\ f = IF gt.x + 1 > Cols THEN FbAdvanced ELSE fb
    OBVIOUS
  <2>2. PICK t : pan' = p /\ fb' = kgfx_draw_char_nodirty(f, p, x, y, t)
                 /\ gt' = TermState(x + 1, y, gt.bg, gt.visible, gt.drawn) /\ Goes(w, "point") /\ put[w].pc = "draw"
    BY <1>5, <2>1, Zenon DEF PutcGlyph
  <2>3. y \in ScreenLines /\ p \in 0..Lines /\ (Dark(fb, pan) => Dark(f, p)) /\ x + 1 \in 0..Cols
    BY <1>0, <2>1, OldState, AdvanceDark
  <2>4. Dark(fb, pan) => Dark(fb', pan')
    BY <2>2, <2>3, GlyphCursor
  <2> QED BY <1>2, <2>2, <2>3, <2>4
<1>6. CASE PutcPoint(w)
  <2>1. /\ put[w].pc = "point" /\ Goes(w, "out") /\ pan' = pan
        /\ fb' = IF gt.visible THEN Strip(fb, pan, gt.x, gt.y, TRUE) ELSE fb
        /\ gt' = TermState(gt.x, gt.y, gt.bg, gt.visible, gt.visible \/ gt.drawn)
    BY <1>6 DEF PutcPoint
  <2> QED BY <1>0, <2>1, ShownStep
<1> QED BY <1>1, <1>3, <1>4, <1>5, <1>6 DEF Putc

\* Every step of gpu_tty_handle_csi().
LEMMA CsiStep == ASSUME ScreenInv, NEW w \in Writers, Csi(w) PROVE ScreenInv'
<1>0. SType /\ "move" \in PutPcs /\ "show" \in PutPcs /\ "out" \in PutPcs
  BY DEF ScreenInv, PutPcs
<1>1. ASSUME NEW pc \in {"show", "move"}, Enters(w, pc, " "), NEW x \in 0..Cols, NEW y \in ScreenLines,
             gt' = TermState(x, y, gt.bg, gt.visible, FALSE), pan' = pan,
             CursorInv => Dark(fb', pan)
      PROVE  ScreenInv'
  <2>1. gt' \in [x : 0..Cols, y : ScreenLines, bg : Colours, visible : BOOLEAN, drawn : BOOLEAN] /\ ~gt'.drawn
    BY <1>0, <1>1, NewState, OldState
  <2>2. SType'
    BY <1>0, <1>1, <2>1, EntersAlone DEF SType
  <2>3. ASSUME ~crossed' PROVE CursorInv'
    BY <1>0, <1>1, <2>1, <2>3, EntersAlone DEF CursorInv
  <2> QED BY <2>2, <2>3 DEF ScreenInv
<1>2. CASE CsiClear(w)
  <2>1. PICK f : f = kgfx_fill_rect_nodirty(fb, pan, 0, 0, Cols, Lines, gt.bg)
    OBVIOUS
  <2>2. Dark(f, pan)
    <3> SUFFICES ASSUME NEW y \in ScreenLines, NEW x \in Columns, f[y + pan][x].cursor PROVE FALSE
      BY DEF Dark
    <3>1. pan \in 0..Lines /\ y + pan \in Rows /\ pan \in Int /\ y \in Int
      BY <1>0, WindowRows DEF SType
    <3>2. y + pan - pan = y
      BY <3>1
    <3>3. 0 <= y /\ y < Lines /\ 0 <= x /\ x < Cols
      BY ScreenSizes DEF ScreenLines, Columns
    <3>4. ~(y + pan - pan \in ScreenLines /\ 0 <= y + pan - pan /\ y + pan - pan < Lines /\ 0 <= x /\ x < Cols)
      BY <2>1, <3>1, FillCursor
    <3> QED BY <3>2, <3>3, <3>4
  <2>3. Enters(w, "show", " ") /\ fb' = f /\ gt' = TermState(0, 0, gt.bg, gt.visible, FALSE) /\ pan' = pan
    BY <1>2, <2>1 DEF CsiClear
  <2> QED BY <1>0, <1>1, <2>2, <2>3, OldState
<1>3. CASE CsiMove(w)
  BY <1>0, <1>1, <1>3, OldState, ErasedDark DEF CsiMove
<1>4. CASE CsiMoved(w)
  <2>1. PICK x \in Columns, y \in ScreenLines : gt' = TermState(x, y, gt.bg, gt.visible, gt.drawn)
    BY <1>4 DEF CsiMoved
  <2>2. put[w].pc = "move" /\ Goes(w, "show") /\ fb' = fb /\ pan' = pan
    BY <1>4 DEF CsiMoved
  <2>3. gt' \in [x : 0..Cols, y : ScreenLines, bg : Colours, visible : BOOLEAN, drawn : BOOLEAN] /\ gt'.drawn = gt.drawn
    BY <1>0, <2>1, NewState, OldState
  <2>4. SType'
    BY <1>0, <2>2, <2>3, GoesAlone DEF SType
  <2>5. ASSUME ~crossed' PROVE CursorInv'
    <3>1. put[w].pc # "out"
      BY <2>2
    <3>2. ~crossed
      BY <1>0, <2>2, <2>5, <3>1, GoesAlone
    <3>3. ~gt.drawn /\ Dark(fb, pan) /\ \A v, z \in Writers : put'[v].pc # "out" /\ put'[z].pc # "out" => v = z
      BY <1>0, <2>2, <3>1, <3>2, GoesAlone
    <3> QED BY <2>2, <2>3, <3>3 DEF CursorInv
  <2> QED BY <2>4, <2>5 DEF ScreenInv
<1>5. CASE CsiEraseLine(w)
  <2>1. PICK x0, x1 : /\ Enters(w, "show", " ") /\ pan' = pan
                      /\ fb' = kgfx_fill_rect_nodirty(Erased, pan, x0, gt.y, x1, gt.y + 1, gt.bg)
                      /\ gt' = TermState(gt.x, gt.y, gt.bg, gt.visible, FALSE)
    BY <1>5, Zenon DEF CsiEraseLine
  <2>2. CursorInv => Dark(fb', pan)
    BY <1>0, <2>1, ErasedDark, FillDark, OldState
  <2> QED BY <1>0, <1>1, <2>1, <2>2, OldState
<1>6. CASE CsiShow(w)
  <2>1. /\ put[w].pc = "show" /\ Goes(w, "out") /\ pan' = pan
        /\ fb' = IF gt.visible THEN Pointed ELSE fb
        /\ gt' = TermState(gt.x, gt.y, gt.bg, gt.visible, gt.visible \/ gt.drawn)
    BY <1>6 DEF CsiShow
  <2> QED BY <1>0, <2>1, ShownStep
<1>7. ASSUME NEW v \in BOOLEAN, NEW d \in BOOLEAN, NEW bg \in Colours, Enters(w, "out", " "), pan' = pan,
             gt' = TermState(gt.x, gt.y, bg, v, d), d => v,
             CursorInv => (IF d THEN OnlyAt(fb', pan, gt.x, gt.y) ELSE Dark(fb', pan))
      PROVE  ScreenInv'
  <2>1. gt' \in [x : 0..Cols, y : ScreenLines, bg : Colours, visible : BOOLEAN, drawn : BOOLEAN]
        /\ gt'.drawn = d /\ gt'.visible = v /\ gt'.x = gt.x /\ gt'.y = gt.y
    BY <1>0, <1>7, NewState, OldState
  <2>2. SType'
    BY <1>0, <1>7, <2>1, EntersAlone DEF SType
  <2>3. ASSUME ~crossed' PROVE CursorInv'
    BY <1>0, <1>7, <2>1, <2>3, EntersAlone DEF CursorInv
  <2> QED BY <2>2, <2>3 DEF ScreenInv
<1>8. CASE CsiHide(w)
  BY <1>0, <1>7, <1>8, OldState, ErasedDark DEF CsiHide
<1>9. CASE CsiUnhide(w)
  BY <1>0, <1>7, <1>9, OldState, PointedOne DEF CsiUnhide
<1>10. CASE CsiColour(w)
  <2>1. PICK bg \in Colours : gt' = TermState(gt.x, gt.y, bg, gt.visible, gt.drawn)
    BY <1>10 DEF CsiColour
  <2>2. Enters(w, "out", " ") /\ pan' = pan /\ fb' = fb
    BY <1>10 DEF CsiColour
  <2>3. gt.visible \in BOOLEAN /\ gt.drawn \in BOOLEAN
    BY <1>0, OldState
  <2>4. CASE gt.drawn => gt.visible
    BY <1>7, <2>1, <2>2, <2>3, <2>4 DEF CursorInv
  <2>5. CASE gt.drawn /\ ~gt.visible
    <3>1. crossed'
      BY <2>2, <2>5, EntersAlone, <1>0 DEF CursorInv
    <3>2. gt' \in [x : 0..Cols, y : ScreenLines, bg : Colours, visible : BOOLEAN, drawn : BOOLEAN]
      BY <1>0, <2>1, NewState, OldState
    <3>3. SType'
      BY <1>0, <2>2, <3>2, EntersAlone DEF SType
    <3> QED BY <3>1, <3>3 DEF ScreenInv
  <2> QED BY <2>4, <2>5
<1> QED BY <1>2, <1>3, <1>4, <1>5, <1>6, <1>8, <1>9, <1>10 DEF Csi

\* gpu_tty_tick().
LEMMA TickStep == ASSUME ScreenInv, gpu_tty_tick PROVE ScreenInv'
<1>0. SType
  BY DEF ScreenInv
<1>1. /\ pan' = pan /\ put' = put /\ fb' = IF gt.visible THEN Erased ELSE Pointed
      /\ gt' = TermState(gt.x, gt.y, gt.bg, ~gt.visible, ~gt.visible)
      /\ crossed' = (crossed \/ \E w \in Writers : put[w].pc # "out")
  BY DEF gpu_tty_tick, Comes
<1>2. gt' \in [x : 0..Cols, y : ScreenLines, bg : Colours, visible : BOOLEAN, drawn : BOOLEAN]
      /\ gt'.drawn = ~gt.visible /\ gt'.visible = ~gt.visible /\ gt'.x = gt.x /\ gt'.y = gt.y
  <2>1. PICK v \in BOOLEAN : v = ~gt.visible
    OBVIOUS
  <2>2. gt' = TermState(gt.x, gt.y, gt.bg, v, v)
    BY <1>1, <2>1
  <2>3. gt' \in [x : 0..Cols, y : ScreenLines, bg : Colours, visible : BOOLEAN, drawn : BOOLEAN]
        /\ gt'.drawn = v /\ gt'.visible = v /\ gt'.x = gt.x /\ gt'.y = gt.y
    BY <1>0, <2>2, NewState, OldState
  <2> QED BY <2>1, <2>3
<1>3. crossed' \in BOOLEAN
  BY <1>0, <1>1 DEF SType
<1>4. SType'
  BY <1>0, <1>1, <1>2, <1>3 DEF SType
<1>5. ASSUME ~crossed' PROVE CursorInv'
  <2>1. CursorInv /\ AllAway /\ AllAway'
    BY <1>1, <1>5 DEF ScreenInv, AllAway
  <2>2. CASE gt.visible
    <3>1. Dark(fb', pan')
      BY <1>0, <1>1, <2>1, <2>2, ErasedDark
    <3> QED BY <1>2, <2>1, <2>2, <3>1 DEF CursorInv, AllAway
  <2>3. CASE ~gt.visible
    <3>1. OnlyAt(fb', pan', gt'.x, gt'.y)
      BY <1>0, <1>1, <1>2, <2>1, <2>3, PointedOne
    <3> QED BY <1>2, <2>1, <2>3, <3>1 DEF CursorInv, AllAway
  <2> QED BY <2>2, <2>3
<1> QED BY <1>4, <1>5 DEF ScreenInv

\* For a screen of any size and any number of writers, until two harts have met in
\* the terminal: a cursor on the screen is at the cell written next, recorded in
\* cursor_drawn, and off the screen while a character is put, so that no scroll
\* takes one along.
THEOREM OneCursorHolds == SSpec => []OneCursor
<1>1. SInit => ScreenInv
  <2> SUFFICES ASSUME SInit PROVE ScreenInv
    OBVIOUS
  <2>1. SType
    <3>1. 0 \in 0..Cols /\ 0 \in ScreenLines /\ 0 \in 0..Lines /\ 0 \in Colours
      BY ScreenSizes DEF ScreenLines
    <3>2. gt \in [x : 0..Cols, y : ScreenLines, bg : Colours, visible : BOOLEAN, drawn : BOOLEAN]
      BY <3>1 DEF SInit
    <3>3. put \in [Writers -> [pc : PutPcs, c : Glyphs \cup {"CR", "NL", "BS", " "}]]
      BY DEF SInit, PutPcs, Out
    <3> QED BY <3>1, <3>2, <3>3 DEF SInit, SType
  <2>2. ~gt.drawn /\ AllAway
    BY DEF SInit, AllAway, Out
  <2>3. Dark(fb, pan)
    <3>1. pan = 0 /\ pan \in 0..Lines
      BY ScreenSizes DEF SInit
    <3> QED BY <3>1, WindowRows DEF SInit, Dark, Cell
  <2> QED BY <2>1, <2>2, <2>3 DEF ScreenInv, CursorInv, AllAway
<1>2. ScreenInv /\ [SNext]_sVars => ScreenInv'
  <2> SUFFICES ASSUME ScreenInv, [SNext]_sVars PROVE ScreenInv'
    OBVIOUS
  <2>1. CASE UNCHANGED sVars
    BY <2>1 DEF sVars, ScreenInv, SType, CursorInv, AllAway, Dark, OnlyAt
  <2> QED BY <2>1, TickStep, PutcStep, CsiStep DEF SNext
<1>3. ScreenInv => OneCursor
  <2> SUFFICES ASSUME ScreenInv, ~crossed, NEW y \in ScreenLines, NEW x \in Columns, ShowsCursor(y, x)
               PROVE  y = gt.y /\ x = gt.x /\ gt.drawn /\ gt.visible /\ \A w \in Writers : put[w].pc = "out"
    BY DEF OneCursor
  <2> QED BY DEF ScreenInv, SType, CursorInv, Dark, OnlyAt, ShowsCursor, AllAway
<1> QED BY <1>1, <1>2, <1>3, PTL DEF SSpec

(***************************************************************************)
(* Tty: the line discipline                                                *)
(***************************************************************************)

\* Where the characters of the line l were typed: in order, each with as many more characters than erasures after
\* it as it has characters behind it in the line; and what is not in the line does not survive.
Places(e, l, keys) ==
  /\ e \in [1..Len(l) -> 1..Len(keys)]
  /\ \A k, j \in 1..Len(l) : k < j => e[k] < e[j]
  /\ \A k \in 1..Len(l) : keys[e[k]] = l[k] /\ l[k] \notin {"bs", "nl"} /\ Survives(keys, e[k])
  /\ \A i \in 1..Len(keys) : Survives(keys, i) => \E k \in 1..Len(l) : e[k] = i

Slack(e, l, keys) ==
  \A k \in 1..Len(l) : (Len(keys) - e[k]) - 2 * Erasures(keys, e[k], Len(keys)) = Len(l) - k

Follows(l, keys) == \E e : Places(e, l, keys) /\ Slack(e, l, keys)
Remains(l, keys) == \E e : Places(e, l, keys)

\* Erasures are counted one by one.
LEMMA ErasuresType ==
  ASSUME NEW keys, NEW i \in Int, NEW j \in Int PROVE Erasures(keys, i, j) \in Nat
<1> DEFINE S == {k \in i + 1..j : keys[k] = "bs"}
<1>1. IsFiniteSet(i + 1..j)
  BY FS_Interval
<1>2. S \subseteq i + 1..j
  OBVIOUS
<1>3. IsFiniteSet(S)
  BY <1>1, <1>2, FS_Subset
<1> HIDE DEF S
<1> QED BY <1>3, FS_CardinalityType DEF Erasures, S

\* There are none in an empty range.
LEMMA NoErasures ==
  ASSUME NEW keys, NEW i \in Int PROVE Erasures(keys, i, i) = 0
<1>1. {k \in i + 1..i : keys[k] = "bs"} = {}
  OBVIOUS
<1> QED BY <1>1, FS_EmptySet DEF Erasures

\* A key more.
LEMMA ErasuresMore ==
  ASSUME NEW keys \in Seq(Chars), NEW c \in Chars, NEW i \in 0..Len(keys)
  PROVE  /\ \A j \in 0..Len(keys) : Erasures(Append(keys, c), i, j) = Erasures(keys, i, j)
         /\ Erasures(Append(keys, c), i, Len(keys) + 1) = Erasures(keys, i, Len(keys)) + (IF c = "bs" THEN 1 ELSE 0)
<1> DEFINE n == Len(keys)
           more == Append(keys, c)
           S(j) == {k \in i + 1..j : keys[k] = "bs"}
           T(j) == {k \in i + 1..j : more[k] = "bs"}
<1>0. n \in Nat /\ more[n + 1] = c /\ \A k \in 1..n : more[k] = keys[k]
  OBVIOUS
<1> HIDE DEF more
<1>1. ASSUME NEW j \in 0..n PROVE T(j) = S(j)
  BY <1>0
<1>2. IsFiniteSet(S(n)) /\ n + 1 \notin S(n) /\ Cardinality(S(n)) \in Nat
  <2>1. IsFiniteSet(i + 1..n) /\ S(n) \subseteq i + 1..n
    BY <1>0, FS_Interval
  <2>2. IsFiniteSet(S(n))
    BY <2>1, FS_Subset
  <2>3. n + 1 \notin S(n)
    BY <1>0
  <2> HIDE DEF S
  <2> QED BY <2>2, <2>3, FS_CardinalityType
<1>3. CASE c = "bs"
  <2>1. T(n + 1) = S(n) \cup {n + 1}
    BY <1>0, <1>3
  <2>2. Cardinality(S(n) \cup {n + 1}) = Cardinality(S(n)) + 1
    <3> HIDE DEF S
    <3> QED BY <1>2, FS_AddElement
  <2>3. Cardinality(T(n + 1)) = Cardinality(S(n)) + 1
    <3> HIDE DEF S, T
    <3> QED BY <2>1, <2>2
  <2>4. n \in 0..n
    BY <1>0
  <2> QED BY <1>1, <1>3, <2>3 DEF Erasures, more
<1>4. CASE c # "bs"
  <2>1. T(n + 1) = S(n)
    BY <1>0, <1>4
  <2>2. Cardinality(T(n + 1)) = Cardinality(S(n))
    <3> HIDE DEF S, T
    <3> QED BY <2>1
  <2>3. Erasures(Append(keys, c), i, n + 1) = Cardinality(T(n + 1)) /\ Erasures(keys, i, n) = Cardinality(S(n))
    BY DEF Erasures, more
  <2>4. \A j \in 0..n : Erasures(Append(keys, c), i, j) = Erasures(keys, i, j)
    BY <1>1 DEF Erasures, more
  <2> HIDE DEF S, T
  <2> QED BY <1>2, <1>4, <2>2, <2>3, <2>4
<1> QED BY <1>3, <1>4

\* What a key more does to the survivors.
LEMMA SurvivesMore ==
  ASSUME NEW keys \in Seq(Chars), NEW c \in Chars, NEW i \in 1..Len(keys)
  PROVE  Survives(Append(keys, c), i) <=>
           Survives(keys, i) /\ 2 * Erasures(Append(keys, c), i, Len(keys) + 1) <= Len(keys) + 1 - i
<1> DEFINE n == Len(keys)
           more == Append(keys, c)
<1>1. n \in Nat /\ Len(more) = n + 1 /\ more[i] = keys[i] /\ i \in 0..n
  OBVIOUS
<1>2. \A j \in 0..n : Erasures(more, i, j) = Erasures(keys, i, j)
  BY <1>1, ErasuresMore
<1> HIDE DEF more
<1>3. \A j \in i + 1..n + 1 : j \in i + 1..n \/ j = n + 1
  BY <1>1
<1>4. n + 1 \in i + 1..n + 1 /\ \A j \in i + 1..n : j \in i + 1..n + 1 /\ j \in 0..n
  BY <1>1
<1> SUFFICES Survives(more, i) <=> Survives(keys, i) /\ 2 * Erasures(more, i, n + 1) <= n + 1 - i
  BY DEF more
<1> HIDE DEF n
<1> QED BY <1>1, <1>2, <1>3, <1>4 DEF Survives, n

\* The last key survives, if it is a character.
LEMMA LastKey ==
  ASSUME NEW keys \in Seq(Chars), NEW c \in Chars
  PROVE  Survives(Append(keys, c), Len(keys) + 1) <=> c \notin {"bs", "nl"}
BY DEF Survives

\* A letter joins the line.
LEMMA FollowsLetter ==
  ASSUME NEW l \in Seq(Chars), NEW keys \in Seq(Chars), NEW c \in Chars \ {"bs", "nl"}, Follows(l, keys)
  PROVE  Follows(Append(l, c), Append(keys, c))
<1>1. PICK e : Places(e, l, keys) /\ Slack(e, l, keys)
  BY DEF Follows
<1> DEFINE n == Len(keys)
           m == Len(l)
           x == Append(keys, c)
           y == Append(l, c)
           d == [k \in 1..m + 1 |-> IF k <= m THEN e[k] ELSE n + 1]
<1>2. /\ n \in Nat /\ m \in Nat /\ Len(x) = n + 1 /\ Len(y) = m + 1 /\ x[n + 1] = c /\ y[m + 1] = c
      /\ (\A i \in 1..n : x[i] = keys[i]) /\ (\A i \in 1..m : y[i] = l[i]) /\ x \in Seq(Chars) /\ y \in Seq(Chars)
  OBVIOUS
<1>3. \A k \in 1..m : d[k] = e[k] /\ e[k] \in 1..n /\ e[k] \in Int
  <2>1. \A k \in 1..m : k \in 1..m + 1 /\ k <= m
    BY <1>2
  <2>2. \A k \in 1..m : e[k] \in 1..n
    BY <1>1 DEF Places
  <2> QED BY <2>1, <2>2
<1>4. d[m + 1] = n + 1
  BY <1>2
<1>5. d \in [1..m + 1 -> 1..n + 1]
  <2>1. \A k \in 1..m : e[k] \in 1..n + 1
    <3>1. \A i \in 1..n : i \in 1..n + 1
      BY <1>2
    <3> HIDE DEF d, n, m
    <3> QED BY <1>3, <3>1
  <2>2. n + 1 \in 1..n + 1 /\ \A k \in 1..m + 1 : k <= m => k \in 1..m
    BY <1>2
  <2> QED BY <2>1, <2>2
<1>6. \A i \in 1..n : Survives(x, i) <=> Survives(keys, i) /\ 2 * Erasures(x, i, n + 1) <= n + 1 - i
  BY SurvivesMore
<1>7. \A i \in 0..n : Erasures(x, i, n + 1) = Erasures(keys, i, n) + 0 /\ Erasures(keys, i, n) \in Nat
  BY <1>2, ErasuresMore, ErasuresType
<1>8. Survives(x, n + 1) /\ Erasures(x, n + 1, n + 1) = 0
  BY <1>2, LastKey, NoErasures
<1> HIDE DEF x, y, d
<1>9. ASSUME NEW k \in 1..m + 1
      PROVE  /\ x[d[k]] = y[k] /\ y[k] \notin {"bs", "nl"}
             /\ (n + 1 - d[k]) - 2 * Erasures(x, d[k], n + 1) = m + 1 - k
             /\ Survives(x, d[k])
  <2>1. CASE k = m + 1
    BY <1>2, <1>4, <1>8, <2>1
  <2>2. CASE k \in 1..m
    <3>1. /\ keys[e[k]] = l[k] /\ l[k] \notin {"bs", "nl"} /\ Survives(keys, e[k])
          /\ (n - e[k]) - 2 * Erasures(keys, e[k], n) = m - k
      BY <1>1, <2>2 DEF Places, Slack
    <3>2. e[k] \in 1..n /\ d[k] = e[k] /\ e[k] \in 0..n /\ k \in Int
      BY <1>3, <2>2
    <3>3. Erasures(x, e[k], n + 1) = Erasures(keys, e[k], n) /\ Erasures(keys, e[k], n) \in Nat
      BY <1>7, <3>2
    <3>4. 2 * Erasures(keys, e[k], n) = (n - e[k]) - (m - k)
      BY <1>2, <3>1, <3>2, <3>3
    <3>5. 2 * Erasures(keys, e[k], n) <= n + 1 - e[k]
      BY <1>2, <2>2, <3>2, <3>3, <3>4
    <3>6. Survives(x, e[k])
      BY <1>6, <3>1, <3>2, <3>3, <3>5
    <3>7. (n + 1 - e[k]) - 2 * Erasures(x, e[k], n + 1) = m + 1 - k
      BY <1>2, <3>2, <3>3, <3>4
    <3> QED BY <1>2, <2>2, <3>1, <3>2, <3>6, <3>7
  <2> QED BY <1>2, <2>1, <2>2
<1>10. \A k, j \in 1..m + 1 : k < j => d[k] < d[j]
  <2> SUFFICES ASSUME NEW k \in 1..m + 1, NEW j \in 1..m + 1, k < j PROVE d[k] < d[j]
    OBVIOUS
  <2>1. k \in 1..m
    BY <1>2
  <2>2. CASE j \in 1..m
    BY <1>1, <1>3, <2>1, <2>2 DEF Places
  <2>3. CASE j = m + 1
    BY <1>2, <1>3, <1>4, <2>1, <2>3
  <2> QED BY <1>2, <2>2, <2>3
<1>11. ASSUME NEW i \in 1..n + 1, Survives(x, i) PROVE \E k \in 1..m + 1 : d[k] = i
  <2>1. CASE i = n + 1
    BY <1>2, <1>4, <2>1
  <2>2. CASE i \in 1..n
    <3>1. Survives(keys, i)
      BY <1>6, <1>11, <2>2
    <3>2. PICK k \in 1..m : e[k] = i
      BY <1>1, <2>2, <3>1 DEF Places
    <3>3. d[k] = i /\ k \in 1..m + 1
      BY <1>2, <1>3, <3>2
    <3> QED BY <3>3
  <2> QED BY <1>2, <2>1, <2>2
<1> HIDE DEF n, m
<1>12. Places(d, y, x)
  BY <1>2, <1>5, <1>9, <1>10, <1>11 DEF Places
<1>13. Slack(d, y, x)
  <2>0. \A k \in 1..m + 1 : d[k] \in 1..n + 1
    BY <1>5
  <2>1. ASSUME NEW k \in 1..m + 1 PROVE (n + 1) - d[k] = n + 1 - d[k]
    <3> DEFINE p == d[k]
    <3>1. p \in Int /\ n \in Int
      BY <1>2, <2>0
    <3> HIDE DEF p, n
    <3> QED BY <3>1 DEF p
  <2> QED BY <1>2, <1>9, <2>1 DEF Slack
<1> QED BY <1>12, <1>13 DEF Follows, x, y

\* The beginning of a line,
LEMMA Prefix ==
  ASSUME NEW l \in Seq(Chars), NEW q \in 0..Len(l)
  PROVE  /\ SubSeq(l, 1, q) \in Seq(Chars) /\ Len(SubSeq(l, 1, q)) = q
         /\ \A i \in 1..q : SubSeq(l, 1, q)[i] = l[i]
<1> DEFINE y == SubSeq(l, 1, q)
<1>1. q \in Int /\ q >= 0 /\ (\A i \in 1..q : l[i] \in Chars)
  OBVIOUS
<1>2. /\ y \in Seq(Chars) /\ Len(y) = (IF 1 <= q THEN q - 1 + 1 ELSE 0)
      /\ \A i \in 1..q - 1 + 1 : y[i] = l[1 + i - 1]
  BY <1>1, 1 \in Int, SubSeqProperties
<1> HIDE DEF y
<1>3. Len(y) = q
  BY <1>1, <1>2
<1>4. ASSUME NEW i \in 1..q PROVE y[i] = l[i]
  <2>1. 1 + i - 1 = i /\ i \in 1..q - 1 + 1
    BY <1>1
  <2> QED BY <1>2, <2>1
<1> QED BY <1>2, <1>3, <1>4 DEF y

\* and all but its last character.
LEMMA Shorter ==
  ASSUME NEW l \in Seq(Chars), l # <<>>
  PROVE  /\ SubSeq(l, 1, Len(l) - 1) \in Seq(Chars) /\ Len(SubSeq(l, 1, Len(l) - 1)) = Len(l) - 1
         /\ \A i \in 1..Len(l) - 1 : SubSeq(l, 1, Len(l) - 1)[i] = l[i]
<1>1. Len(l) - 1 \in 0..Len(l)
  OBVIOUS
<1> QED BY <1>1, Prefix

\* An erasure takes the last character of the line, and only that one stops to survive.
LEMMA FollowsErase ==
  ASSUME NEW l \in Seq(Chars), NEW keys \in Seq(Chars), Follows(l, keys)
  PROVE  Follows(IF l # <<>> THEN SubSeq(l, 1, Len(l) - 1) ELSE l, Append(keys, "bs"))
<1>1. PICK e : Places(e, l, keys) /\ Slack(e, l, keys)
  BY DEF Follows
<1> DEFINE n == Len(keys)
           m == Len(l)
           c == "bs"
           x == Append(keys, c)
           y == IF l # <<>> THEN SubSeq(l, 1, Len(l) - 1) ELSE l
           w == IF m = 0 THEN 0 ELSE m - 1
           d == [k \in 1..w |-> e[k]]
<1>0. c \in Chars
  BY DEF Chars
<1>2. /\ n \in Nat /\ m \in Nat /\ w \in Nat /\ w <= m /\ (m > 0 => w = m - 1) /\ Len(x) = n + 1 /\ x[n + 1] = c
      /\ (\A i \in 1..n : x[i] = keys[i])
  BY <1>0
<1>13. Len(y) = w /\ \A i \in 1..w : y[i] = l[i]
  <2>1. CASE l = <<>>
    BY <2>1
  <2>2. CASE l # <<>>
    <3>1. m > 0 /\ w = m - 1 /\ m \in Nat
      BY <2>2
    <3>2. y = SubSeq(l, 1, m - 1)
      BY <2>2
    <3>3. Len(SubSeq(l, 1, m - 1)) = m - 1 /\ \A i \in 1..m - 1 : SubSeq(l, 1, m - 1)[i] = l[i]
      BY <2>2, Shorter
    <3> HIDE DEF y, w
    <3> QED BY <3>1, <3>2, <3>3
  <2> QED BY <2>1, <2>2
<1>3. \A k \in 1..m : e[k] \in 1..n /\ e[k] \in Int
  BY <1>1 DEF Places
<1>4. \A k \in 1..w : d[k] = e[k] /\ k \in 1..m
  BY <1>2
<1>5. d \in [1..w -> 1..n + 1]
  BY <1>2, <1>3, <1>4
<1> HIDE DEF c
<1>6. \A i \in 1..n : Survives(x, i) <=> Survives(keys, i) /\ 2 * Erasures(x, i, n + 1) <= n + 1 - i
  BY <1>0, SurvivesMore
<1>7. \A i \in 0..n : Erasures(x, i, n + 1) = Erasures(keys, i, n) + 1 /\ Erasures(keys, i, n) \in Nat
  BY <1>0, <1>2, ErasuresMore, ErasuresType DEF c
<1>8. ~Survives(x, n + 1)
  BY <1>0, LastKey DEF c
<1> HIDE DEF x, y, d, w
<1>14. ASSUME NEW k \in 1..m
       PROVE  /\ Erasures(x, e[k], n + 1) \in Nat
              /\ 2 * Erasures(x, e[k], n + 1) = ((n - e[k]) - (m - k)) + 2
  <2>1. (n - e[k]) - 2 * Erasures(keys, e[k], n) = m - k
    BY <1>1 DEF Slack
  <2>2. e[k] \in 0..n /\ e[k] \in Int
    BY <1>3
  <2>3. Erasures(x, e[k], n + 1) = Erasures(keys, e[k], n) + 1 /\ Erasures(keys, e[k], n) \in Nat
    BY <1>7, <2>2
  <2>4. k \in Int
    BY <1>2
  <2> DEFINE E == Erasures(keys, e[k], n)
             X == Erasures(x, e[k], n + 1)
             p == e[k]
  <2> HIDE DEF n, m, E, X, p
  <2>5. (n - p) - 2 * E = m - k /\ X = E + 1 /\ E \in Nat /\ p \in Int
    BY <2>1, <2>2, <2>3 DEF E, X, p
  <2>6. X \in Nat /\ 2 * X = ((n - p) - (m - k)) + 2
    BY <1>2, <2>4, <2>5
  <2> QED BY <2>6 DEF X, p
<1>9. ASSUME NEW k \in 1..w
      PROVE  /\ x[d[k]] = y[k] /\ y[k] \notin {"bs", "nl"}
             /\ (n + 1 - d[k]) - 2 * Erasures(x, d[k], n + 1) = w - k
             /\ Survives(x, d[k])
  <2>1. k \in 1..m /\ w = m - 1 /\ k \in Int /\ k <= w
    BY <1>2, <1>4
  <2>2. /\ keys[e[k]] = l[k] /\ l[k] \notin {"bs", "nl"} /\ Survives(keys, e[k])
    BY <1>1, <2>1 DEF Places
  <2>3. e[k] \in 1..n /\ d[k] = e[k] /\ e[k] \in Int
    BY <1>3, <1>4, <2>1
  <2>4. 2 * Erasures(x, e[k], n + 1) = ((n - e[k]) - (m - k)) + 2 /\ Erasures(x, e[k], n + 1) \in Nat
    BY <1>14, <2>1
  <2> DEFINE X == Erasures(x, e[k], n + 1)
             p == e[k]
  <2>5. 2 * X <= n + 1 - p /\ (n + 1 - p) - 2 * X = w - k
    <3>1. 2 * X = ((n - p) - (m - k)) + 2 /\ X \in Nat /\ p \in Int
      BY <2>3, <2>4
    <3> HIDE DEF X, p, n, m
    <3> QED BY <1>2, <2>1, <3>1
  <2>6. (n + 1 - e[k]) - 2 * Erasures(x, e[k], n + 1) = w - k
    BY <2>5
  <2>7. Survives(x, e[k])
    BY <1>6, <2>2, <2>3, <2>5
  <2> QED BY <1>2, <1>13, <2>2, <2>3, <2>6, <2>7
<1>10. \A k, j \in 1..w : k < j => d[k] < d[j]
  BY <1>1, <1>4 DEF Places
<1>11. ASSUME NEW i \in 1..n + 1, Survives(x, i) PROVE \E k \in 1..w : d[k] = i
  <2>1. i \in 1..n /\ i # n + 1
    BY <1>2, <1>8, <1>11
  <2>2. Survives(keys, i) /\ 2 * Erasures(x, i, n + 1) <= n + 1 - i
    BY <1>6, <1>11, <2>1
  <2>3. PICK k \in 1..m : e[k] = i
    BY <1>1, <2>1, <2>2 DEF Places
  <2>4. 2 * Erasures(x, i, n + 1) = ((n - i) - (m - k)) + 2
    BY <1>14, <2>3
  <2>5. k # m
    BY <1>2, <2>1, <2>2, <2>4
  <2>6. k \in 1..w
    BY <1>2, <2>3, <2>5
  <2> QED BY <1>4, <2>3, <2>6
<1> HIDE DEF n, m
<1>12. Places(d, y, x)
  BY <1>2, <1>5, <1>9, <1>10, <1>11, <1>13 DEF Places
<1>15. Slack(d, y, x)
  <2>1. \A k \in 1..w : d[k] \in Int /\ (n + 1) - d[k] = n + 1 - d[k]
    BY <1>2, <1>5
  <2> QED BY <1>2, <1>9, <1>13, <2>1 DEF Slack
<1> QED BY <1>12, <1>15 DEF Follows, x, y, c

\* The values of a one-to-one function on 1..b are b.
LEMMA CountOf ==
  ASSUME NEW b \in Nat, NEW S, ExistsBijection(1..b, S) PROVE Cardinality(S) = b
<1>1. IsFiniteSet(1..b) /\ Cardinality(1..b) = IF 1 > b THEN 0 ELSE b - 1 + 1
  BY 1 \in Int, b \in Int, FS_Interval
<1>2. Cardinality(1..b) = b
  BY <1>1
<1>3. Cardinality(S) = Cardinality(1..b)
  BY <1>1, FS_Bijection
<1> QED BY <1>2, <1>3

\* A newline, like any key, erases nothing and is not among the survivors.
LEMMA FollowsNewline ==
  ASSUME NEW l \in Seq(Chars), NEW keys \in Seq(Chars), Follows(l, keys)
  PROVE  Remains(l, Append(keys, "nl"))
<1>1. PICK e : Places(e, l, keys) /\ Slack(e, l, keys)
  BY DEF Follows
<1> DEFINE n == Len(keys)
           m == Len(l)
           c == "nl"
           x == Append(keys, c)
<1>0. c \in Chars /\ c # "bs"
  BY DEF Chars
<1>2. n \in Nat /\ m \in Nat /\ Len(x) = n + 1 /\ \A i \in 1..n : x[i] = keys[i]
  BY <1>0
<1> HIDE DEF c
<1>3. \A k \in 1..m : e[k] \in 1..n /\ Survives(keys, e[k])
  BY <1>1 DEF Places
<1>4. \A i \in 1..n : Survives(x, i) <=> Survives(keys, i) /\ 2 * Erasures(x, i, n + 1) <= n + 1 - i
  BY <1>0, SurvivesMore
<1>5. ~Survives(x, n + 1)
  BY <1>0, LastKey DEF c
<1>6. \A i \in 1..n : Survives(keys, i) => Survives(x, i)
  <2> SUFFICES ASSUME NEW i \in 1..n, Survives(keys, i) PROVE 2 * Erasures(x, i, n + 1) <= n + 1 - i
    BY <1>4
  <2>1. i \in 0..n /\ i \in Int /\ n \in 0..n
    BY <1>2
  <2>2. Erasures(x, i, n + 1) = Erasures(keys, i, n) /\ Erasures(keys, i, n) \in Nat
    BY <1>0, <1>2, <2>1, ErasuresMore, ErasuresType
  <2>3. 2 * Erasures(keys, i, n) <= n - i
    <3>1. CASE i < n
      <4>1. n \in i + 1..n
        BY <1>2, <2>1, <3>1
      <4> QED BY <4>1 DEF Survives
    <3>2. CASE i = n
      BY <2>1, <3>2, NoErasures
    <3> QED BY <1>2, <3>1, <3>2
  <2> DEFINE X == Erasures(keys, i, n)
  <2> HIDE DEF X, n, x
  <2>4. 2 * X <= n - i /\ X \in Nat
    BY <2>2, <2>3 DEF X
  <2>5. 2 * X <= n + 1 - i
    BY <1>2, <2>1, <2>4
  <2> QED BY <2>2, <2>5 DEF X
<1> HIDE DEF x
<1>7. e \in [1..m -> 1..n + 1]
  <2>1. \A i \in 1..n : i \in 1..n + 1
    BY <1>2
  <2>2. e \in [1..m -> 1..n]
    BY <1>1 DEF Places
  <2> HIDE DEF n, m
  <2> QED BY <2>1, <2>2
<1>8. \A k \in 1..m : x[e[k]] = l[k] /\ l[k] \notin {"bs", "nl"} /\ Survives(x, e[k])
  <2>1. \A k \in 1..m : keys[e[k]] = l[k] /\ l[k] \notin {"bs", "nl"}
    BY <1>1 DEF Places
  <2> QED BY <1>2, <1>3, <1>6, <2>1
<1>9. \A k, j \in 1..m : k < j => e[k] < e[j]
  BY <1>1 DEF Places
<1>10. ASSUME NEW i \in 1..n + 1, Survives(x, i) PROVE \E k \in 1..m : e[k] = i
  <2>1. i \in 1..n
    BY <1>2, <1>5, <1>10
  <2>2. Survives(keys, i)
    BY <1>4, <1>10, <2>1
  <2> QED BY <1>1, <2>1, <2>2 DEF Places
<1> HIDE DEF n, m
<1>11. Places(e, l, x)
  BY <1>2, <1>7, <1>8, <1>9, <1>10 DEF Places, m
<1> QED BY <1>11 DEF Remains, x, c

\* A line of places is the text typed.
LEMMA RemainsTyped ==
  ASSUME NEW l \in Seq(Chars), NEW keys \in Seq(Chars), Remains(l, keys)
  PROVE  Typed(keys) = l
<1>1. PICK e : Places(e, l, keys)
  BY DEF Remains
<1> DEFINE n == Len(keys)
           m == Len(l)
           kept == {i \in DOMAIN keys : Survives(keys, i)}
           Before(k) == {j \in kept : j < e[k]}
           at(q) == CHOOSE i \in kept : Cardinality({j \in kept : j < i}) = q - 1
<1>2. n \in Nat /\ m \in Nat /\ DOMAIN keys = 1..n /\ DOMAIN l = 1..m
  OBVIOUS
<1>3. /\ e \in [1..m -> 1..n] /\ (\A k, j \in 1..m : k < j => e[k] < e[j])
      /\ (\A k \in 1..m : keys[e[k]] = l[k] /\ e[k] \in kept) /\ \A i \in kept : \E k \in 1..m : e[k] = i
  BY <1>1, <1>2 DEF Places
<1>4. \A k \in 1..m : k \in Int /\ e[k] \in Int
  BY <1>2, <1>3
<1>5. \A k, j \in 1..m : e[k] = e[j] => k = j
  <2> SUFFICES ASSUME NEW k \in 1..m, NEW j \in 1..m, e[k] = e[j], k # j PROVE FALSE
    OBVIOUS
  <2>1. k < j \/ j < k
    BY <1>4
  <2>2. e[k] < e[j] \/ e[j] < e[k]
    BY <1>3, <2>1
  <2> QED BY <1>4, <2>2
<1> HIDE DEF kept
<1>6. Cardinality(kept) = m
  <2>1. e \in Bijection(1..m, kept)
    <3>1. e \in [1..m -> kept]
      BY <1>3
    <3> QED BY <1>3, <1>5, <3>1 DEF Bijection, Injection, Surjection, IsInjective
  <2>2. ExistsBijection(1..m, kept)
    BY <2>1 DEF ExistsBijection
  <2> QED BY <1>2, <2>2, CountOf
<1>7. ASSUME NEW k \in 1..m PROVE Cardinality(Before(k)) = k - 1
  <2> DEFINE b == k - 1
             g == [i \in 1..b |-> e[i]]
  <2>1. b \in Nat /\ b <= m /\ (\A i \in 1..b : i \in 1..m /\ i < k)
    BY <1>2
  <2>2. \A i \in 1..b : g[i] = e[i] /\ e[i] \in Before(k)
    BY <1>3, <2>1
  <2>3. \A i \in Before(k) : \E j \in 1..b : g[j] = i
    <3> SUFFICES ASSUME NEW i \in kept, i < e[k] PROVE \E j \in 1..b : g[j] = i
      OBVIOUS
    <3>1. PICK j \in 1..m : e[j] = i
      BY <1>3
    <3>2. ~(k < j) /\ k # j
      <4>1. ASSUME k < j PROVE FALSE
        <5>1. e[k] < e[j]
          BY <1>3, <4>1
        <5> QED BY <1>4, <3>1, <5>1
      <4>2. ASSUME k = j PROVE FALSE
        BY <1>4, <3>1, <4>2
      <4> QED BY <4>1, <4>2
    <3>3. j \in 1..b
      BY <1>2, <3>2
    <3> QED BY <3>1, <3>3
  <2>4. \A i, j \in 1..b : g[i] = g[j] => i = j
    BY <1>5, <2>1, <2>2
  <2> HIDE DEF b, Before
  <2>5. g \in Bijection(1..b, Before(k))
    <3>1. g \in [1..b -> Before(k)]
      BY <2>2
    <3> QED BY <2>3, <2>4, <3>1 DEF Bijection, Injection, Surjection, IsInjective
  <2>6. ExistsBijection(1..b, Before(k))
    BY <2>5 DEF ExistsBijection
  <2>7. Cardinality(Before(k)) = b
    BY <2>1, <2>6, CountOf
  <2> QED BY <2>7 DEF b
<1>8. ASSUME NEW q \in 1..m PROVE at(q) = e[q]
  <2>1. e[q] \in kept /\ Cardinality({j \in kept : j < e[q]}) = q - 1
    BY <1>3, <1>7
  <2>2. ASSUME NEW i \in kept, Cardinality({j \in kept : j < i}) = q - 1 PROVE i = e[q]
    <3>1. PICK k \in 1..m : e[k] = i
      BY <1>3
    <3>2. k - 1 = q - 1
      BY <1>7, <2>2, <3>1
    <3>3. k = q
      BY <1>4, <3>2
    <3> QED BY <3>1, <3>3
  <2> QED BY <2>1, <2>2
<1>9. Typed(keys) = [q \in 1..m |-> keys[at(q)]]
  BY <1>6 DEF Typed, kept
<1>10. \A q \in 1..m : keys[at(q)] = l[q]
  BY <1>3, <1>8
<1> HIDE DEF at
<1>11. l = [q \in 1..m |-> l[q]]
  OBVIOUS
<1> QED BY <1>9, <1>10, <1>11

-----------------------------------------------------------------------------
\* The inductive invariant: with one reader at a time, a line that is ready waits for the reader that completed it.
TCalls == [pc : {"out", "raw", "look", "getc", "edit"}, count : Nat, c : Chars]
TTypeOK ==
  /\ line \in Seq(Chars) /\ lready \in BOOLEAN /\ tcall \in [TReaders -> TCalls] /\ since \in Seq(Chars)
  /\ taken \in [text : Seq(Chars), keys : Seq(Chars), count : Nat]

OneReader == \A r, w \in TReaders : tcall[r].pc # "out" /\ tcall[w].pc # "out" => r = w
ReadyLook == lready = TRUE => \E r \in TReaders : tcall[r].pc = "look"
NoNewline(l) == \A i \in 1..Len(l) : l[i] # "nl"

\* A line in the making, and one that its newline completed.
Making(l, keys) ==
  NoNewline(l) /\ Len(l) <= LineMax - 1 /\ Len(l) <= Len(keys) /\ (Len(keys) < LineMax => Follows(l, keys))
Made(whole, keys) ==
  \E l \in Seq(Chars) :
    /\ whole = Append(l, "nl") /\ NoNewline(l) /\ Len(l) <= LineMax - 1 /\ (Len(keys) < LineMax => Remains(l, keys))

LineInv == (lready = FALSE => Making(line, since)) /\ (lready = TRUE => Made(line, since))

TInv == TTypeOK /\ OneReader /\ ReadyLook /\ LineInv /\ LineAsTyped /\ OneLine

\* The constants of the terminal.
LEMMA TConstants == LineMax \in Nat /\ LineMax > 1 /\ Counts \subseteq Nat \ {0} /\ {"a", "bs", "nl"} \subseteq Chars
BY TtyAssumption DEF Chars

\* What tty_line_discipline() makes of a line.
LEMMA EditedIs ==
  ASSUME NEW l \in Seq(Chars), NEW c \in Chars
  PROVE  /\ c = "nl" => Edited(l, c) = Append(l, c)
         /\ c = "bs" => Edited(l, c) = IF l # <<>> THEN SubSeq(l, 1, Len(l) - 1) ELSE l
         /\ c \notin {"bs", "nl"} => Edited(l, c) = IF Len(l) < LineMax - 1 THEN Append(l, c) ELSE l
BY DEF Edited

\* Whatever the key, the line that tty_line_discipline() leaves is what remains of the keys.
LEMMA EditedMade ==
  ASSUME NEW l \in Seq(Chars), NEW keys \in Seq(Chars), NEW c \in Chars, Making(l, keys)
  PROVE  /\ Edited(l, c) \in Seq(Chars)
         /\ c # "nl" => Making(Edited(l, c), Append(keys, c))
         /\ c = "nl" => Made(Edited(l, c), Append(keys, c))
<1> DEFINE n == Len(keys)
           m == Len(l)
           x == Append(keys, c)
           y == Edited(l, c)
<1>1. /\ n \in Nat /\ m \in Nat /\ LineMax \in Nat /\ Len(x) = n + 1 /\ x \in Seq(Chars)
      /\ m <= LineMax - 1 /\ m <= n /\ NoNewline(l) /\ (n < LineMax => Follows(l, keys))
  BY TConstants DEF Making
<1>2. CASE c = "nl"
  <2>1. y = Append(l, c) /\ y \in Seq(Chars)
    BY <1>2, EditedIs
  <2>2. ASSUME Len(x) < LineMax PROVE Remains(l, x)
    <3>1. Follows(l, keys)
      BY <1>1, <2>2
    <3> QED BY <1>2, <3>1, FollowsNewline
  <2> HIDE DEF x, y
  <2>3. Made(y, x)
    BY <1>1, <1>2, <2>1, <2>2 DEF Made
  <2> QED BY <1>2, <2>1, <2>3 DEF x, y
<1>3. CASE c = "bs"
  <2>1. y = IF l # <<>> THEN SubSeq(l, 1, Len(l) - 1) ELSE l
    BY <1>3, EditedIs
  <2>2. y \in Seq(Chars) /\ Len(y) <= m /\ Len(y) \in Nat /\ \A i \in 1..Len(y) : y[i] = l[i] /\ i \in 1..m
    <3>1. CASE l = <<>>
      <4>1. y = l
        BY <2>1, <3>1
      <4> HIDE DEF y
      <4> QED BY <1>1, <4>1
    <3>2. CASE l # <<>>
      <4>1. y = SubSeq(l, 1, Len(l) - 1)
        BY <2>1, <3>2
      <4>2. /\ y \in Seq(Chars) /\ Len(y) = m - 1 /\ \A i \in 1..m - 1 : y[i] = l[i]
        BY <3>2, <4>1, Shorter
      <4>3. Len(y) \in Nat
        BY <4>2
      <4> HIDE DEF y
      <4> QED BY <1>1, <4>2, <4>3
    <3> QED BY <3>1, <3>2
  <2>3. ASSUME Len(x) < LineMax PROVE Follows(y, x)
    <3>1. Follows(l, keys)
      BY <1>1, <2>3
    <3>2. Follows(IF l # <<>> THEN SubSeq(l, 1, Len(l) - 1) ELSE l, Append(keys, "bs"))
      BY <3>1, FollowsErase
    <3> QED BY <1>3, <2>1, <3>2
  <2>4. NoNewline(y)
    BY <1>1, <2>2 DEF NoNewline
  <2> HIDE DEF x, y
  <2>5. Making(y, x)
    BY <1>1, <2>2, <2>3, <2>4 DEF Making
  <2> QED BY <1>3, <2>2, <2>5 DEF x, y
<1>4. CASE c \notin {"bs", "nl"} /\ m < LineMax - 1
  <2>1. y = Append(l, c)
    BY <1>4, EditedIs
  <2>2. y \in Seq(Chars) /\ Len(y) = m + 1 /\ y[m + 1] = c /\ \A i \in 1..m : y[i] = l[i]
    BY <2>1
  <2>3. ASSUME Len(x) < LineMax PROVE Follows(y, x)
    <3>1. Follows(l, keys)
      BY <1>1, <2>3
    <3> QED BY <1>4, <2>1, <3>1, FollowsLetter
  <2> HIDE DEF x, y
  <2>4. NoNewline(y)
    BY <1>1, <1>4, <2>2 DEF NoNewline
  <2>5. Making(y, x)
    BY <1>1, <1>4, <2>2, <2>3, <2>4 DEF Making
  <2> QED BY <1>4, <2>2, <2>5 DEF x, y
<1>5. CASE c \notin {"bs", "nl"} /\ ~(m < LineMax - 1)
  <2>1. y = l
    BY <1>5, EditedIs
  <2>2. ~(Len(x) < LineMax)
    BY <1>1, <1>5
  <2> HIDE DEF x, y
  <2>3. Making(y, x)
    BY <1>1, <2>1, <2>2 DEF Making
  <2> QED BY <1>5, <2>1, <2>3 DEF x, y
<1> QED BY <1>2, <1>3, <1>4, <1>5

\* A line handed out.
HandedOut(text, whole, keys, count) ==
  /\ text \in Seq(Chars)
  /\ Len(keys) < LineMax => whole = Append(Typed(keys), "nl")
  /\ \A i \in DOMAIN text : text[i] = "nl" => i = Len(text)
  /\ Len(text) < count => text[Len(text)] = "nl"

\* What tty_cdev_read() copies out of a line that is ended is what the reader may be handed.
LEMMA LineHandedOut ==
  ASSUME NEW whole \in Seq(Chars), NEW keys \in Seq(Chars), NEW count \in Nat, Made(whole, keys)
  PROVE  HandedOut(SubSeq(whole, 1, IF Len(whole) > count THEN count ELSE Len(whole)), whole, keys, count)
<1> DEFINE n == IF Len(whole) > count THEN count ELSE Len(whole)
           text == SubSeq(whole, 1, n)
<1>1. PICK l \in Seq(Chars) : whole = Append(l, "nl") /\ NoNewline(l) /\ (Len(keys) < LineMax => Remains(l, keys))
  BY DEF Made
<1> DEFINE m == Len(l)
<1>2. m \in Nat /\ Len(whole) = m + 1 /\ whole[m + 1] = "nl" /\ \A i \in 1..m : whole[i] = l[i]
  BY <1>1
<1>3. n \in 0..Len(whole) /\ (n = Len(whole) \/ n = count)
  BY <1>2
<1>4. text \in Seq(Chars) /\ Len(text) = n /\ \A i \in 1..n : text[i] = whole[i]
  BY <1>3, Prefix
<1>5. ASSUME NEW i \in 1..n, text[i] = "nl" PROVE i = n
  <2>1. whole[i] = "nl" /\ i \in Int /\ i <= m + 1 /\ i >= 1
    BY <1>2, <1>3, <1>4, <1>5
  <2>2. ~(i \in 1..m)
    <3>1. \A j \in 1..m : l[j] # "nl"
      BY <1>1 DEF NoNewline
    <3> HIDE DEF m
    <3> QED BY <1>2, <2>1, <3>1
  <2>3. i = m + 1
    BY <1>2, <2>1, <2>2
  <2> QED BY <1>2, <1>3, <1>5, <2>3
<1>6. ASSUME Len(text) < count PROVE text[Len(text)] = "nl"
  <2>1. n = m + 1 /\ n \in 1..n
    BY <1>2, <1>3, <1>4, <1>6
  <2> QED BY <1>2, <1>4, <2>1
<1>7. ASSUME Len(keys) < LineMax PROVE whole = Append(Typed(keys), "nl")
  <2>1. Typed(keys) = l
    BY <1>1, <1>7, RemainsTyped
  <2> QED BY <1>1, <2>1
<1>8. \A i \in DOMAIN text : i \in 1..n
  BY <1>4
<1>9. \A i \in DOMAIN text : text[i] = "nl" => i = Len(text)
  BY <1>4, <1>5, <1>8
<1> QED BY <1>4, <1>6, <1>7, <1>9 DEF HandedOut

\* Nothing typed, nothing in the line.
LEMMA FollowsNothing == Follows(<<>>, <<>>)
<1> DEFINE none == <<>>
<1>1. Len(none) = 0 /\ 1..0 = {} /\ none = [i \in 1..0 |-> 0]
  OBVIOUS
<1>2. none \in [1..0 -> 1..0]
  BY <1>1
<1> HIDE DEF none
<1>3. Places(none, none, none) /\ Slack(none, none, none)
  BY <1>1, <1>2 DEF Places, Slack
<1>4. Follows(none, none)
  BY <1>3 DEF Follows
<1> QED BY <1>4 DEF none

\* What holds at the beginning.
LEMMA TtyInit == ASSUME TInit PROVE TInv
<1> DEFINE none == <<>>
<1>1. none \in Seq(Chars) /\ Len(none) = 0
  OBVIOUS
<1>2. line = none /\ lready = FALSE /\ since = none /\ taken = [text |-> none, keys |-> none, count |-> 0]
      /\ tcall = [r \in TReaders |-> TOut]
  BY DEF TInit
<1>3. TOut \in TCalls /\ TOut.pc = "out"
  BY TConstants DEF TOut, TCalls
<1> HIDE DEF none
<1>4. TTypeOK /\ OneReader /\ ReadyLook
  BY <1>1, <1>2, <1>3 DEF TTypeOK, OneReader, ReadyLook
<1>5. Follows(none, none)
  BY FollowsNothing DEF none
<1>6. LineInv
  BY <1>1, <1>2, <1>5, TConstants DEF LineInv, Making, NoNewline
<1>7. LineAsTyped
  BY <1>2 DEF LineAsTyped, none
<1>8. OneLine
  <2>1. DOMAIN none = {}
    BY DEF none
  <2> QED BY <1>1, <1>2, <2>1 DEF OneLine
<1> QED BY <1>4, <1>6, <1>7, <1>8 DEF TInv

\* A step that only moves a task, away from a line that is ready only by taking it.
LEMMA OnlyMoves ==
  ASSUME TInv, UNCHANGED <<line, lready, since, taken>>, TTypeOK', OneReader', ReadyLook' PROVE TInv'
BY DEF TInv, LineInv, LineAsTyped, OneLine

\* A task inside is moved.
LEMMA MovedInside ==
  ASSUME TTypeOK, OneReader, NEW r \in TReaders, tcall[r].pc # "out", NEW x \in TCalls, tcall' = [tcall EXCEPT ![r] = x]
  PROVE  OneReader' /\ tcall' \in [TReaders -> TCalls] /\ tcall'[r] = x
<1>1. \A w \in TReaders : w # r => tcall'[w] = tcall[w] /\ tcall[w].pc = "out"
  BY DEF TTypeOK, OneReader
<1> QED BY <1>1 DEF OneReader, TTypeOK

\* No line is ready while the one task inside is not looking for it.
LEMMA NotReady ==
  ASSUME TTypeOK, OneReader, ReadyLook, NEW r \in TReaders, tcall[r].pc \notin {"out", "look"} PROVE lready = FALSE
<1>1. ASSUME NEW w \in TReaders, tcall[w].pc = "look" PROVE FALSE
  BY <1>1 DEF OneReader
<1> QED BY <1>1 DEF ReadyLook, TTypeOK

\* The steps.
LEMMA TtyStep == ASSUME TInv, [TNext]_tVars, ReadAlone PROVE TInv'
<1>0. TTypeOK /\ OneReader /\ ReadyLook /\ LineInv /\ TOut \in TCalls /\ TOut.pc = "out"
      /\ \A r \in TReaders : tcall[r] \in TCalls
  BY TConstants DEF TInv, TTypeOK, TOut, TCalls
<1>1. ASSUME NEW r \in TReaders, NEW n \in Counts, tty_cdev_read(r, n) PROVE TInv'
  <2> DEFINE x == [TOut EXCEPT !.pc = IF n = 1 THEN "raw" ELSE "look", !.count = n]
  <2>1. (\A w \in TReaders : tcall[w].pc = "out") /\ tcall' = [tcall EXCEPT ![r] = x] /\ UNCHANGED <<line, lready, since, taken>>
    BY <1>1 DEF tty_cdev_read
  <2>2. x \in TCalls
    BY TConstants DEF TOut, TCalls
  <2> HIDE DEF x
  <2>3. lready = FALSE
    BY <1>0, <2>1 DEF ReadyLook, TTypeOK
  <2>4. \A w \in TReaders : w # r => tcall'[w].pc = "out"
    BY <1>0, <2>1 DEF TTypeOK
  <2>5. tcall' \in [TReaders -> TCalls]
    BY <1>0, <2>1, <2>2 DEF TTypeOK
  <2>6. TTypeOK' /\ OneReader' /\ ReadyLook'
    BY <1>0, <2>1, <2>3, <2>4, <2>5 DEF TTypeOK, OneReader, ReadyLook
  <2> QED BY <2>1, <2>6, OnlyMoves
<1>2. ASSUME NEW r \in TReaders, TakeLine(r) PROVE TInv'
  <2> DEFINE n == IF Len(line) > tcall[r].count THEN tcall[r].count ELSE Len(line)
             text == SubSeq(line, 1, n)
             count == tcall[r].count
             none == <<>>
  <2>1. /\ tcall[r].pc = "look" /\ lready = TRUE /\ taken' = [text |-> text, keys |-> since, count |-> count]
        /\ line' = none /\ lready' = FALSE /\ since' = none /\ tcall' = [tcall EXCEPT ![r] = TOut]
    BY <1>0, <1>2 DEF TakeLine, TTypeOK
  <2>2. line \in Seq(Chars) /\ since \in Seq(Chars) /\ count \in Nat /\ Made(line, since)
    BY <1>0, <2>1 DEF TTypeOK, TCalls, LineInv
  <2>3. /\ text \in Seq(Chars)
        /\ Len(since) < LineMax => line = Append(Typed(since), "nl")
        /\ \A i \in DOMAIN text : text[i] = "nl" => i = Len(text)
        /\ Len(text) < count => text[Len(text)] = "nl"
    <3>1. HandedOut(text, line, since, count)
      BY <2>2, LineHandedOut
    <3> QED BY <3>1 DEF HandedOut
  <2>4. taken'.text = text /\ taken'.keys = since /\ taken'.count = count
    BY <2>1
  <2>5. LineAsTyped'
    <3> SUFFICES ASSUME Len(since) < LineMax
                 PROVE  LET whole == Append(Typed(since), "nl")
                        IN  text = SubSeq(whole, 1, IF Len(whole) > count THEN count ELSE Len(whole))
      BY <2>4 DEF LineAsTyped
    <3>1. line = Append(Typed(since), "nl")
      BY <2>3
    <3> QED BY <3>1
  <2>6. OneLine'
    <3> HIDE DEF text, count
    <3> QED BY <2>3, <2>4 DEF OneLine
  <2>7. OneReader' /\ tcall' \in [TReaders -> TCalls]
    BY <1>0, <2>1, MovedInside
  <2>8. none \in Seq(Chars) /\ Len(none) = 0
    OBVIOUS
  <2> HIDE DEF none, text, count
  <2>9. TTypeOK'
    BY <2>1, <2>2, <2>3, <2>7, <2>8 DEF TTypeOK
  <2>10. LineInv' /\ ReadyLook'
    <3>1. Making(none, none)
      BY <2>8, FollowsNothing, TConstants DEF Making, NoNewline, none
    <3> QED BY <2>1, <3>1 DEF LineInv, ReadyLook
  <2> QED BY <2>5, <2>6, <2>7, <2>9, <2>10 DEF TInv
<1>3. ASSUME NEW r \in TReaders, NoLine(r) PROVE TInv'
  <2> DEFINE x == [tcall[r] EXCEPT !.pc = "getc"]
  <2>1. tcall[r].pc = "look" /\ lready = FALSE /\ tcall' = [tcall EXCEPT ![r] = x] /\ UNCHANGED <<line, lready, since, taken>>
    BY <1>0, <1>3 DEF NoLine, TTypeOK
  <2>2. x \in TCalls
    BY <1>0 DEF TCalls
  <2> HIDE DEF x
  <2>3. OneReader' /\ tcall' \in [TReaders -> TCalls]
    BY <1>0, <2>1, <2>2, MovedInside
  <2>4. TTypeOK' /\ ReadyLook'
    BY <1>0, <2>1, <2>3 DEF TTypeOK, ReadyLook
  <2> QED BY <2>1, <2>3, <2>4, OnlyMoves
<1>4. ASSUME NEW r \in TReaders, tty_line_discipline(r) PROVE TInv'
  <2> DEFINE x == [tcall[r] EXCEPT !.pc = "look"]
             c == tcall[r].c
  <2>1. /\ tcall[r].pc = "edit" /\ line' = Edited(line, c) /\ lready' = (lready \/ c = "nl") /\ since' = Append(since, c)
        /\ tcall' = [tcall EXCEPT ![r] = x] /\ taken' = taken
    BY <1>0, <1>4 DEF tty_line_discipline, TTypeOK
  <2>2. x \in TCalls /\ x.pc = "look" /\ c \in Chars
    BY <1>0 DEF TCalls
  <2>3. lready = FALSE
    <3>1. ASSUME NEW w \in TReaders, tcall[w].pc = "look" PROVE FALSE
      BY <1>0, <2>1, <3>1 DEF OneReader
    <3> QED BY <1>0, <3>1 DEF ReadyLook, TTypeOK
  <2> HIDE DEF x, c
  <2>4. OneReader' /\ tcall' \in [TReaders -> TCalls] /\ tcall'[r] = x
    BY <1>0, <2>1, <2>2, MovedInside
  <2>5. Making(line, since) /\ line \in Seq(Chars) /\ since \in Seq(Chars)
    BY <1>0, <2>3 DEF LineInv, TTypeOK
  <2>6. /\ line' \in Seq(Chars) /\ since' \in Seq(Chars)
        /\ c # "nl" => Making(line', since')
        /\ c = "nl" => Made(line', since')
    BY <2>1, <2>2, <2>5, EditedMade
  <2>7. lready' \in BOOLEAN /\ (c = "nl" => lready' = TRUE) /\ (c # "nl" => lready' = FALSE)
    BY <2>1, <2>3
  <2>8. TTypeOK' /\ ReadyLook' /\ LineInv'
    BY <1>0, <2>1, <2>2, <2>4, <2>6, <2>7 DEF TTypeOK, ReadyLook, LineInv
  <2>9. LineAsTyped' /\ OneLine'
    BY <2>1 DEF TInv, LineAsTyped, OneLine
  <2> QED BY <2>4, <2>8, <2>9 DEF TInv
<1>5. ASSUME NEW r \in TReaders, GetcFails(r) PROVE TInv'
  <2>1. tcall[r].pc \in {"getc", "raw"} /\ tcall' = [tcall EXCEPT ![r] = TOut] /\ UNCHANGED <<line, lready, since, taken>>
    BY <1>5 DEF GetcFails
  <2>2. OneReader' /\ tcall' \in [TReaders -> TCalls]
    BY <1>0, <2>1, MovedInside
  <2>3. TTypeOK' /\ ReadyLook'
    BY <1>0, <2>1, <2>2, NotReady DEF TTypeOK, ReadyLook
  <2> QED BY <2>1, <2>2, <2>3, OnlyMoves
<1>6. ASSUME NEW r \in TReaders, NEW c \in Chars, Getc(r, c) PROVE TInv'
  <2> DEFINE x == IF tcall[r].pc = "raw" THEN TOut ELSE [tcall[r] EXCEPT !.pc = "edit", !.c = c]
  <2>1. tcall[r].pc \in {"getc", "raw"} /\ tcall' = [tcall EXCEPT ![r] = x] /\ UNCHANGED <<line, lready, since, taken>>
    BY <1>6 DEF Getc
  <2>2. x \in TCalls
    BY <1>0 DEF TCalls
  <2> HIDE DEF x
  <2>3. OneReader' /\ tcall' \in [TReaders -> TCalls]
    BY <1>0, <2>1, <2>2, MovedInside
  <2>4. TTypeOK' /\ ReadyLook'
    BY <1>0, <2>1, <2>3, NotReady DEF TTypeOK, ReadyLook
  <2> QED BY <2>1, <2>3, <2>4, OnlyMoves
<1>7. ASSUME UNCHANGED tVars PROVE TInv'
  BY <1>7 DEF tVars, TInv, TTypeOK, OneReader, ReadyLook, LineInv, LineAsTyped, OneLine
<1> QED BY <1>1, <1>2, <1>3, <1>4, <1>5, <1>6, <1>7 DEF TNext

\* With one reader at a time, for lines and counts of any length: linebuf is never overrun, and a reader gets the
\* characters of one line as they were typed and edited, ended by the newline or cut at its count.
THEOREM LinesDeliveredHolds == ASSUME ReadAlone PROVE TSpec => []LinesDelivered
<1>1. TInit => TInv
  BY TtyInit
<1>2. TInv /\ [TNext]_tVars => TInv'
  BY TtyStep
<1>3. TInv => LinesDelivered
  <2> SUFFICES ASSUME TInv PROVE LineFits
    BY DEF LinesDelivered, TInv
  <2>1. CASE lready = FALSE
    BY <2>1, TConstants DEF TInv, TTypeOK, LineInv, Making, LineFits
  <2>2. CASE lready = TRUE
    <3>1. PICK l \in Seq(Chars) : line = Append(l, "nl") /\ Len(l) <= LineMax - 1
      BY <2>2 DEF TInv, LineInv, Made
    <3>2. Len(line) = Len(l) + 1 /\ Len(l) \in Nat
      BY <3>1
    <3> QED BY <3>1, <3>2, TConstants DEF LineFits
  <2> QED BY <2>1, <2>2 DEF TInv, TTypeOK
<1> QED BY <1>1, <1>2, <1>3, PTL DEF TSpec
=============================================================================
