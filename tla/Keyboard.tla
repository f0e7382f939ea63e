------------------------------ MODULE Keyboard ------------------------------
(***************************************************************************)
(* The keyboard driver (drivers/keyboard.c): the device (external) fills   *)
(* event buffers, keyboard_poll() takes each completed event, queues its   *)
(* buffer again and turns the event into characters of a ring buffer, and  *)
(* keyboard_getchar() polls until it can pop one.                          *)
(***************************************************************************)
EXTENDS Integers, Sequences, FiniteSets

CONSTANTS KUsers,       \* tasks that read the keyboard
          KBufs,        \* INPUT_EVENT_BUFS and the size of the queue
          KIdxMod,      \* 2^16, the range of the ring indices
          KRing,        \* INPUT_CHAR_BUF_SIZE
          MaxKeys,      \* bound: events of the device
          PollAlone     \* one task at a time is in keyboard_getchar()

ASSUME KeyboardAssumption ==
  /\ KBufs \in Nat \ {0} /\ KRing \in Nat \ {0} /\ MaxKeys \in Nat /\ PollAlone \in BOOLEAN
  /\ KIdxMod \in Nat /\ KIdxMod > KBufs /\ KIdxMod % KBufs = 0

EvBufs == 0..KBufs - 1

\* Events: a letter, the modifiers and an arrow key, pressed (1) or released (0), and one that is no key.
Events == ({"letter", "shift", "ctrl", "arrow"} \X {0, 1}) \cup {<<"syn", 0>>}
NoEvent == <<"syn", 0>>

VARIABLES
  kq,       \* rings, their indices, last_used_idx and free_desc_bit_map
  ev_bufs,  \* the event buffers
  kb,       \* shift, ctrl, buf, head and tail of the device structure
  kdev,     \* next avail entry the device takes
  kcall,    \* where each task stands in keyboard_getchar()
  typed,    \* history: the events the device delivered
  got,      \* history: the characters popped
  full      \* history: a character was dropped because the ring was full

kVars == <<kq, ev_bufs, kb, kdev, kcall, typed, got, full>>

KOut == [pc |-> "out", ev |-> NoEvent]

\* every event buffer is submitted by virtio_keyboard_init()
KInit ==
  /\ kq = [avail |-> [i \in EvBufs |-> i], aidx |-> KBufs, used |-> [i \in EvBufs |-> 0], uidx |-> 0,
           last |-> 0, busy |-> EvBufs]
  /\ ev_bufs = [b \in EvBufs |-> NoEvent]
  /\ kb = [shift |-> FALSE, ctrl |-> FALSE, buf |-> [i \in 0..KRing - 1 |-> "0"], head |-> 0, tail |-> 0]
  /\ kdev = 0
  /\ kcall = [u \in KUsers |-> KOut]
  /\ typed = <<>> /\ got = <<>> /\ full = FALSE

-----------------------------------------------------------------------------
buf_full(k) == (k.tail + 1) % KRing = k.head
buf_empty(k) == k.head = k.tail
PutAt(k, c) == [k EXCEPT !.buf[k.tail] = c, !.tail = (@ + 1) % KRing]

buf_push(k, c) == IF buf_full(k) THEN k ELSE PutAt(k, c)

\* buf_push_n() of three characters: what the ring cannot hold is cut off.
buf_push_n(k, s) == buf_push(buf_push(buf_push(k, s[1]), s[2]), s[3])

\* What a pressed key sends: an escape sequence, or one character of a key map.
Arrow == <<"esc", "[", "A">>
Letter(k) == IF k.shift THEN "Q" ELSE IF k.ctrl THEN "^q" ELSE "q"

handle_key(k, e) ==
  CASE e[1] = "shift" -> [k EXCEPT !.shift = (e[2] = 1)]
    [] e[1] = "ctrl" -> [k EXCEPT !.ctrl = (e[2] = 1)]
    [] e = <<"letter", 1>> -> buf_push(k, Letter(k))
    [] e = <<"arrow", 1>> -> buf_push_n(k, Arrow)
    [] OTHER -> k

\* How many characters an event sends.
SentBy(e) == IF e = <<"letter", 1>> THEN 1 ELSE IF e = <<"arrow", 1>> THEN 3 ELSE 0

RingCount(k) == (k.tail + KRing - k.head) % KRing

-----------------------------------------------------------------------------
(* submit_event_locked(): nothing is queued while the bit is still set.     *)
submit_event_lockedUnpublished(q, b) == [q EXCEPT !.busy = @ \cup {b}, !.avail[q.aidx % KBufs] = b]

submit_event_locked(q, b) ==
  IF b \in q.busy THEN q
  ELSE [q EXCEPT !.busy = @ \cup {b}, !.avail[q.aidx % KBufs] = b, !.aidx = (@ + 1) % KIdxMod]

keyboard_getchar(u) ==
  /\ kcall[u].pc = "out"
  /\ PollAlone => \A w \in KUsers : kcall[w].pc = "out"
  /\ kcall' = [kcall EXCEPT ![u].pc = "poll"]
  /\ UNCHANGED <<kq, ev_bufs, kb, kdev, typed, got, full>>

\* the loop condition of keyboard_poll(), read without the lock
Compare(u) ==
  /\ kcall[u].pc = "poll"
  /\ kcall' = [kcall EXCEPT ![u].pc = IF kq.uidx # kq.last THEN "take" ELSE "pop"]
  /\ UNCHANGED <<kq, ev_bufs, kb, kdev, typed, got, full>>

TakeEventAgain(u) ==
  /\ kcall[u].pc = "take"
  /\ LET b == kq.used[kq.last % KBufs]
     IN /\ kq' = submit_event_locked([kq EXCEPT !.busy = @ \ {b}], b)
        /\ kcall' = [kcall EXCEPT ![u] = [pc |-> "handle", ev |-> ev_bufs[b]]]
  /\ UNCHANGED <<ev_bufs, kb, kdev, typed, got, full>>

\* the locked part of keyboard_poll()
TakeEvent(u) ==
  /\ kcall[u].pc = "take"
  /\ LET b == kq.used[kq.last % KBufs]
     IN /\ kq' = submit_event_locked([kq EXCEPT !.busy = @ \ {b}, !.last = (@ + 1) % KIdxMod], b)
        /\ kcall' = [kcall EXCEPT ![u] = [pc |-> "handle", ev |-> ev_bufs[b]]]
  /\ UNCHANGED <<ev_bufs, kb, kdev, typed, got, full>>

Handle(u) ==
  /\ kcall[u].pc = "handle"
  /\ kb' = handle_key(kb, kcall[u].ev)
  /\ full' = (full \/ RingCount(kb) + SentBy(kcall[u].ev) > KRing - 1)
  /\ kcall' = [kcall EXCEPT ![u] = [pc |-> "poll", ev |-> NoEvent]]
  /\ UNCHANGED <<kq, ev_bufs, kdev, typed, got>>

\* buf_pop(); with nothing to pop, wfi() and around again
Pop(u) ==
  /\ kcall[u].pc = "pop"
  /\ IF buf_empty(kb)
     THEN kcall' = [kcall EXCEPT ![u].pc = "poll"] /\ UNCHANGED <<kb, got>>
     ELSE /\ got' = Append(got, kb.buf[kb.head])
          /\ kb' = [kb EXCEPT !.head = (@ + 1) % KRing]
          /\ kcall' = [kcall EXCEPT ![u] = KOut]
  /\ UNCHANGED <<kq, ev_bufs, kdev, typed, full>>

\* the device (external) fills the next queued buffer; with none queued the event waits
KeyEvent(e) ==
  /\ Len(typed) < MaxKeys /\ kdev # kq.aidx
  /\ LET b == kq.avail[kdev % KBufs]
     IN /\ ev_bufs' = [ev_bufs EXCEPT ![b] = e]
        /\ kq' = [kq EXCEPT !.used[kq.uidx % KBufs] = b, !.uidx = (@ + 1) % KIdxMod]
  /\ kdev' = (kdev + 1) % KIdxMod
  /\ typed' = Append(typed, e)
  /\ UNCHANGED <<kb, kcall, got, full>>

Reader(u) == Compare(u) \/ TakeEvent(u) \/ Handle(u) \/ Pop(u)

KNext ==
  \/ \E u \in KUsers : keyboard_getchar(u) \/ Compare(u) \/ TakeEvent(u) \/ Handle(u) \/ Pop(u)
  \/ \E e \in Events : KeyEvent(e)

KSpec == KInit /\ [][KNext]_kVars

\* A task in keyboard_getchar() keeps running: the loop never sleeps for good.
KFair == \A u \in KUsers : WF_kVars(Reader(u))

-----------------------------------------------------------------------------
\* What the first n events mean, with no queue and no ring in between.
Effect(s, e) ==
  CASE e[1] = "shift" -> [s EXCEPT !.shift = (e[2] = 1)]
    [] e[1] = "ctrl" -> [s EXCEPT !.ctrl = (e[2] = 1)]
    [] e = <<"letter", 1>> -> [s EXCEPT !.out = Append(@, Letter(s))]
    [] e = <<"arrow", 1>> -> [s EXCEPT !.out = @ \o Arrow]
    [] OTHER -> s
Meaning(evs, n) ==
  LET st[i \in 0..n] == IF i = 0 THEN [shift |-> FALSE, ctrl |-> FALSE, out |-> <<>>]
                        ELSE Effect(st[i - 1], evs[i])
  IN st[n]

\* The events not yet taken, and the ones a task is about to handle.
Untaken == (kq.uidx + KIdxMod - kq.last) % KIdxMod
Handling == Cardinality({u \in KUsers : kcall[u].pc = "handle"})
Waiting == [i \in 1..RingCount(kb) |-> kb.buf[(kb.head + i - 1) % KRing]]

(* As long as no character was dropped: what the readers got and what the   *)
(* ring still holds is exactly what the events taken so far mean, each      *)
(* event once and in order.                                                 *)
KeysInOrder == ~full => got \o Waiting = Meaning(typed, Len(typed) - Untaken - Handling).out

(* Every event buffer is queued for the device or holds an event nobody     *)
(* has taken, exactly one of the two, and the events in the buffers are the *)
(* latest ones typed, in order: none is overwritten before it is taken.     *)
BuffersCirculate ==
  LET queued == {kq.avail[(kdev + i) % KBufs] : i \in 0..((kq.aidx + KIdxMod - kdev) % KIdxMod) - 1}
      waiting == [i \in 1..Untaken |-> kq.used[(kq.last + i - 1) % KBufs]]
  IN /\ queued \cap {waiting[i] : i \in 1..Untaken} = {}
     /\ Cardinality(queued) + Untaken = KBufs
     /\ \A i \in 1..Untaken : ev_bufs[waiting[i]] = typed[Len(typed) - Untaken + i]

(* A reader whose character has been typed returns: once events are waiting *)
(* or characters are in the ring the loop does not spin for ever.           *)
ReaderReturns ==
  \A u \in KUsers : (kcall[u].pc # "out" /\ ~buf_empty(kb)) ~> (kcall[u].pc = "out")

\* What is typed arrives, once and in order, and the buffers for it go round.
KeysDelivered == KeysInOrder /\ BuffersCirculate
=============================================================================
