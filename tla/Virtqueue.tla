----------------------------- MODULE Virtqueue ------------------------------
(***************************************************************************)
(* virtqueue_send() (drivers/virtio_mmio.c), the command queue of the GPU: *)
(* two descriptors, one entry of the avail ring, a wait with a timeout.    *)
(* Everything before the wait runs under vq_lock and only the device       *)
(* (external) runs beside it, so it is one step.                           *)
(***************************************************************************)
EXTENDS Integers, Sequences, FiniteSets

CONSTANTS VUsers,       \* harts that send
          VQSize,       \* queue_size
          VIdxMod,      \* 2^16, the range of the ring indices
          MaxSends      \* bound: commands

ASSUME VirtqueueAssumption ==
  /\ VQSize \in Nat /\ VQSize > 1 /\ MaxSends \in Nat
  /\ VIdxMod \in Nat /\ VIdxMod > 0 /\ VIdxMod % VQSize = 0

VDescs == 0..VQSize - 1

VARIABLES
  vq,       \* free_desc_bit_map, next and command of each descriptor, rings
  vlock,    \* holder of vq_lock, with the two descriptors and old_used
  vdev,     \* device: next avail entry to take, chains in flight
  sends,    \* what became of each command
  late      \* history: a command timed out

qVars == <<vq, vlock, vdev, sends, late>>

VFree == [by |-> 0, i0 |-> 0, i1 |-> 0, old |-> 0, n |-> 0]

VInit ==
  /\ vq = [busy |-> {}, next |-> [d \in VDescs |-> (d + 1) % VQSize], cmd |-> [d \in VDescs |-> 0],
           avail |-> [i \in VDescs |-> 0], aidx |-> 0, uidx |-> 0]
  /\ vlock = VFree /\ vdev = [taken |-> 0, flight |-> {}] /\ sends = <<>> /\ late = FALSE

-----------------------------------------------------------------------------
(* vq_find_free_desc(): the lowest free descriptor.                         *)
FreeDescs(busy) == VDescs \ busy
vq_find_free_desc(busy) == CHOOSE d \in FreeDescs(busy) : \A e \in FreeDescs(busy) : d <= e

\* (with fewer than two free descriptors the call fails and changes nothing: NeverFull)
virtqueue_send(u) ==
  /\ vlock = VFree /\ Len(sends) < MaxSends /\ FreeDescs(vq.busy) # {}
  /\ LET i0 == vq_find_free_desc(vq.busy)
         b0 == vq.busy \cup {i0}
         n == Len(sends) + 1
     IN /\ FreeDescs(b0) # {}
        /\ LET i1 == vq_find_free_desc(b0)
           IN /\ vq' = [vq EXCEPT !.busy = b0 \cup {i1}, !.next = [@ EXCEPT ![i0] = i1, ![i1] = 0],
                                  !.cmd = [@ EXCEPT ![i0] = n, ![i1] = n],
                                  !.avail[vq.aidx % VQSize] = i0, !.aidx = (@ + 1) % VIdxMod]
              /\ vlock' = [by |-> u, i0 |-> i0, i1 |-> i1, old |-> vq.uidx, n |-> n]
        /\ sends' = Append(sends, [answered |-> FALSE, ret |-> "none"])
  /\ UNCHANGED <<vdev, late>>

GiveBackOne == vq.busy \ {vlock.i0}
GiveBack == vq.busy \ {vlock.i0, vlock.i1}

SendReturn(how) ==
  /\ vq' = [vq EXCEPT !.busy = GiveBack]
  /\ vlock' = VFree
  /\ sends' = [sends EXCEPT ![vlock.n].ret = how]
  /\ UNCHANGED vdev

DoneSeen == vq.uidx # vlock.old

SendDone == vlock # VFree /\ DoneSeen /\ SendReturn("ok") /\ UNCHANGED late

\* the count of wait rounds has run out with the used index still where it was
SendTimeout == vlock # VFree /\ ~DoneSeen /\ SendReturn("timeout") /\ late' = TRUE

-----------------------------------------------------------------------------
(* The device (external) takes entries in order and answers in any order.   *)
VTake ==
  /\ vdev.taken # vq.aidx
  /\ LET i0 == vq.avail[vdev.taken % VQSize]
     IN vdev' = [taken |-> (vdev.taken + 1) % VIdxMod,
                 flight |-> vdev.flight \cup {[at |-> vdev.taken, cmd |-> vq.cmd[i0], resp |-> vq.cmd[vq.next[i0]]]}]
  /\ UNCHANGED <<vq, vlock, sends, late>>

VAnswer(f) ==
  /\ sends' = [sends EXCEPT ![f.resp].answered = (f.cmd = f.resp)]
  /\ vq' = [vq EXCEPT !.uidx = (@ + 1) % VIdxMod]
  /\ vdev' = [vdev EXCEPT !.flight = @ \ {f}]
  /\ UNCHANGED <<vlock, late>>

VNext ==
  \/ \E u \in VUsers : virtqueue_send(u)
  \/ SendDone \/ SendTimeout
  \/ VTake
  \/ \E f \in vdev.flight : VAnswer(f)

VSpec == VInit /\ [][VNext]_qVars

-----------------------------------------------------------------------------
(* Until a command has timed out: virtqueue_send() returns 0 only when the  *)
(* answer to that very command is in the caller's buffer, and the device    *)
(* holds no buffer that a caller has taken back.                            *)
SendAnswered ==
  ~late => /\ \A n \in DOMAIN sends : sends[n].ret = "ok" => sends[n].answered
           /\ \A f \in vdev.flight : sends[f.resp].ret = "none"

(* Whatever timed out before: a send finds two free descriptors, so that    *)
(* the queue never runs dry.                                                *)
NeverFull == vlock = VFree => vq.busy = {}

\* virtqueue_send() returns with its own answer and gives back what it took.
CommandsServed == SendAnswered /\ NeverFull
=============================================================================
