----------------------------- MODULE Sleeplock ------------------------------
(***************************************************************************)
(* The sleep lock of kernel/sleeplock.c: a flag and an owner behind an     *)
(* inner spinlock, and a queue of sleeping tasks.  The sleeper queues      *)
(* itself and becomes SLEEP under both slk->spinlock and its own ts->lk,   *)
(* and keeps ts->lk until the scheduler has its context; the one that      *)
(* releases takes the sleeper from the queue under both locks too.  The    *)
(* same tasks sleep in waitpid(), where wake_wait_parent() of an ending    *)
(* child wakes them: a task queued here must be left alone by it.          *)
(*                                                                         *)
(* The scheduler is that of Proc with its unlocked look at the table left  *)
(* out; a lock of a task is held by the hart that executes (or switches)   *)
(* some task, and that task stands for the hart.                           *)
(*                                                                         *)
(* The callers of Spec hold no spinlock when they ask, as the lock order   *)
(* in sleeplock.h wants it.  fd_get(), fd_alloc(), exit_fs() and kfork()   *)
(* do hold one; module FileTable has them, on the same steps.              *)
(***************************************************************************)
EXTENDS Naturals, Sequences, FiniteSets

CONSTANTS Tasks,    \* the tasks that use the lock
          None,     \* no holder
          NHARTS    \* how many tasks are on a hart at once

ASSUME NoneAssumption == None \notin Tasks
ASSUME NHARTSAssumption == NHARTS \in Nat \ {0}

VARIABLES
  \* struct task_struct
  state, sleep_chan,
  lk,                       \* ts->lk: the task whose hart holds it, or None
  ctx,                      \* where the context of a task is
  pc,                       \* the next step of the task's kernel code
  \* struct sleeplock
  spinlock, locked, holder, wait_queue

taskVars == <<state, sleep_chan, ctx, pc>>
slkVars  == <<locked, holder, wait_queue>>
vars == <<taskVars, lk, spinlock, slkVars>>

SLEEP_CHAN_CHILD == 1

\* "on": the task executes; "out": it is in sched() and holds ts->lk; "off":
\* the context is stored; "in": switched to, ts->lk not yet released.
Contexts == {"on", "out", "off", "in"}

\* "acq": about to take slk->spinlock; "test": has it; "asleep": in sched()
\* from acquire_sleep(); "holding": returned from it; "rel": releasing, has
\* slk->spinlock; "wake1", "wakeall": in wakeup(), wakeup_all(); "child": in
\* sched() from waitpid().
Points == {"idle", "acq", "test", "asleep", "holding", "rel", "wake1",
           "wakeall", "done", "child"}

Init ==
  /\ state = [t \in Tasks |-> "RUNNABLE"]
  /\ sleep_chan = [t \in Tasks |-> 0]
  /\ lk = [t \in Tasks |-> None]
  /\ ctx = [t \in Tasks |-> "off"]
  /\ pc = [t \in Tasks |-> "idle"]
  /\ spinlock = None
  /\ locked = FALSE
  /\ holder = None
  /\ wait_queue = <<>>

Free(t) == lk[t] = None
Goto(t, p) == pc' = [pc EXCEPT ![t] = p]
Executes(t, p) == ctx[t] = "on" /\ pc[t] = p

-----------------------------------------------------------------------------
(* The scheduler                                                            *)

SwitchIn(t) ==
  /\ state[t] = "RUNNABLE" /\ Free(t)
  /\ Cardinality({u \in Tasks : ctx[u] # "off"}) < NHARTS
  /\ state' = [state EXCEPT ![t] = "RUNNING"]
  /\ lk' = [lk EXCEPT ![t] = t]
  /\ ctx' = [ctx EXCEPT ![t] = "in"]
  /\ UNCHANGED <<sleep_chan, pc, spinlock, slkVars>>

SwitchOut(t) ==
  /\ ctx[t] = "out"
  /\ lk' = [lk EXCEPT ![t] = None]
  /\ ctx' = [ctx EXCEPT ![t] = "off"]
  /\ UNCHANGED <<state, sleep_chan, pc, spinlock, slkVars>>

\* The call of sched() returns and its caller releases ts->lk.
Resume(t) ==
  /\ ctx[t] = "in"
  /\ lk' = [lk EXCEPT ![t] = None]
  /\ ctx' = [ctx EXCEPT ![t] = "on"]
  /\ Goto(t, CASE pc[t] = "asleep" -> "acq"
               [] pc[t] = "child" -> "idle"
               [] OTHER -> pc[t])
  /\ sleep_chan' = IF pc[t] = "child" THEN [sleep_chan EXCEPT ![t] = 0] ELSE sleep_chan
  /\ UNCHANGED <<state, spinlock, slkVars>>

\* yield(), from a timer interrupt: no spinlock is held.
Yield(t) ==
  /\ ctx[t] = "on" /\ spinlock # t /\ Free(t)
  /\ state[t] = "RUNNING"
  /\ lk' = [lk EXCEPT ![t] = t]
  /\ state' = [state EXCEPT ![t] = "RUNNABLE"]
  /\ ctx' = [ctx EXCEPT ![t] = "out"]
  /\ UNCHANGED <<sleep_chan, pc, spinlock, slkVars>>

-----------------------------------------------------------------------------
(* acquire_sleep()                                                          *)

Ask(t) ==
  /\ Executes(t, "idle")
  /\ Goto(t, "acq")
  /\ UNCHANGED <<state, sleep_chan, ctx, lk, spinlock, slkVars>>

\* What else the caller holds is its own business: the callers in fs/vfs.c
\* and kernel/proc.c that come with the spinlock of a task are in FileTable.
AcqSpin(t) ==
  /\ Executes(t, "acq") /\ spinlock = None
  /\ spinlock' = t
  /\ Goto(t, "test")
  /\ UNCHANGED <<state, sleep_chan, ctx, lk, slkVars>>

\* Mutant: a task that was woken does not test the lock again.
AcqGetAlways(t) ==
  /\ Executes(t, "test")
  /\ locked' = TRUE
  /\ holder' = t
  /\ spinlock' = None
  /\ Goto(t, "holding")
  /\ UNCHANGED <<state, sleep_chan, ctx, lk, wait_queue>>

\* The lock is free, also for a task that overtakes a woken one.
AcqGet(t) ==
  /\ Executes(t, "test") /\ ~locked
  /\ locked' = TRUE
  /\ holder' = t
  /\ spinlock' = None
  /\ Goto(t, "holding")
  /\ UNCHANGED <<state, sleep_chan, ctx, lk, wait_queue>>

\* ts->lk is kept until the scheduler has the context.
AcqSleepLk(t) == [lk EXCEPT ![t] = t]

\* The lock is taken: SLEEP, queue, sched().
AcqSleep(t) ==
  /\ Executes(t, "test") /\ locked /\ Free(t)
  /\ lk' = AcqSleepLk(t)
  /\ state' = [state EXCEPT ![t] = "SLEEP"]
  /\ wait_queue' = Append(wait_queue, t)
  /\ spinlock' = None
  /\ ctx' = [ctx EXCEPT ![t] = "out"]
  /\ Goto(t, "asleep")
  /\ UNCHANGED <<sleep_chan, locked, holder>>

-----------------------------------------------------------------------------
(* release_sleep() and release_sleep_all()                                  *)

RelSpin(t) ==
  /\ Executes(t, "holding") /\ spinlock = None
  /\ spinlock' = t
  /\ Goto(t, "rel")
  /\ UNCHANGED <<state, sleep_chan, ctx, lk, slkVars>>

\* Mutant: nobody is woken.
RelDropSilent(t, p) ==
  /\ Executes(t, "rel") /\ holder = t /\ p \in Points
  /\ holder' = None
  /\ locked' = FALSE
  /\ Goto(t, "done")
  /\ UNCHANGED <<state, sleep_chan, ctx, lk, spinlock, wait_queue>>

\* Mutant: the owner is not cleared.
RelDropOwnerKept(t, p) ==
  /\ Executes(t, "rel") /\ holder = t
  /\ locked' = FALSE
  /\ Goto(t, p)
  /\ UNCHANGED <<state, sleep_chan, ctx, lk, spinlock, holder, wait_queue>>

\* The owner test, then the lock is free; p says which wake-up follows.
RelDrop(t, p) ==
  /\ Executes(t, "rel") /\ holder = t
  /\ holder' = None
  /\ locked' = FALSE
  /\ Goto(t, p)
  /\ UNCHANGED <<state, sleep_chan, ctx, lk, spinlock, wait_queue>>

\* The queue after the first node has been taken out.
AfterWake(q) == Tail(q)

\* wakeup() takes one sleeper from the queue, wakeup_all() all of them.
RelWake(t) ==
  /\ Executes(t, "wake1") \/ Executes(t, "wakeall")
  /\ wait_queue # <<>> /\ Free(Head(wait_queue))
  /\ state' = [state EXCEPT ![Head(wait_queue)] = "RUNNABLE"]
  /\ wait_queue' = AfterWake(wait_queue)
  /\ Goto(t, IF pc[t] = "wake1" THEN "done" ELSE "wakeall")
  /\ UNCHANGED <<sleep_chan, ctx, lk, spinlock, locked, holder>>

RelEmpty(t) ==
  /\ Executes(t, "wake1") \/ Executes(t, "wakeall")
  /\ wait_queue = <<>>
  /\ Goto(t, "done")
  /\ UNCHANGED <<state, sleep_chan, ctx, lk, spinlock, slkVars>>

RelDone(t) ==
  /\ Executes(t, "done")
  /\ spinlock' = None
  /\ Goto(t, "idle")
  /\ UNCHANGED <<state, sleep_chan, ctx, lk, slkVars>>

-----------------------------------------------------------------------------
(* waitpid() and wake_wait_parent() of Proc, for the same tasks             *)

WaitChild(t) ==
  /\ Executes(t, "idle") /\ Free(t)
  /\ lk' = [lk EXCEPT ![t] = t]
  /\ sleep_chan' = [sleep_chan EXCEPT ![t] = SLEEP_CHAN_CHILD]
  /\ state' = [state EXCEPT ![t] = "SLEEP"]
  /\ ctx' = [ctx EXCEPT ![t] = "out"]
  /\ Goto(t, "child")
  /\ UNCHANGED <<spinlock, slkVars>>

\* Mutant: every sleeper is woken, whatever it sleeps for.
WokenByChildAny(p) == state[p] = "SLEEP"

\* The sleepers that the end of a child wakes.
WokenByChild(p) == state[p] = "SLEEP" /\ sleep_chan[p] = SLEEP_CHAN_CHILD

\* Some child of p ends.
WakeWaitParent(p) ==
  /\ Free(p)
  /\ WokenByChild(p)
  /\ state' = [state EXCEPT ![p] = "RUNNABLE"]
  /\ UNCHANGED <<sleep_chan, ctx, pc, lk, spinlock, slkVars>>

-----------------------------------------------------------------------------
Switch(t) == SwitchIn(t) \/ SwitchOut(t) \/ Resume(t)

\* The steps a task inside acquire_sleep() or release_sleep() takes.
Kernel(t) ==
  \/ AcqSpin(t) \/ AcqGet(t) \/ AcqSleep(t)
  \/ RelSpin(t) \/ RelDrop(t, "wake1") \/ RelDrop(t, "wakeall")
  \/ RelWake(t) \/ RelEmpty(t) \/ RelDone(t)

Next == \E t \in Tasks :
          Switch(t) \/ Yield(t) \/ Ask(t) \/ Kernel(t) \/ WaitChild(t) \/ WakeWaitParent(t)

Spec == Init /\ [][Next]_vars

(* Fairness, as in Proc: a task that is RUNNABLE gets a hart, the kernel    *)
(* code of a task makes progress, which includes that an owner releases;   *)
(* a hart is taken from a task in time.                                    *)
Fairness ==
  \A t \in Tasks : /\ SF_vars(Switch(t))
                   /\ SF_vars(Kernel(t))
                   /\ SF_vars(Yield(t))

FairSpec == Spec /\ Fairness
-----------------------------------------------------------------------------
(* Properties                                                               *)

TypeOK ==
  /\ state \in [Tasks -> {"RUNNABLE", "RUNNING", "SLEEP"}]
  /\ sleep_chan \in [Tasks -> {0, SLEEP_CHAN_CHILD}]
  /\ lk \in [Tasks -> Tasks \cup {None}]
  /\ ctx \in [Tasks -> Contexts]
  /\ pc \in [Tasks -> Points]
  /\ spinlock \in Tasks \cup {None}
  /\ locked \in BOOLEAN
  /\ holder \in Tasks \cup {None}
  /\ wait_queue \in Seq(Tasks)

Queued(t) == \E i \in 1..Len(wait_queue) : wait_queue[i] = t

\* The queue holds exactly the tasks that sleep in acquire_sleep(), each
\* once: a node that is linked twice, or belongs to a task that runs again,
\* would be unlinked from a list it has left.
QueueIsSleepers ==
  /\ \A t \in Tasks : Queued(t) <=> pc[t] = "asleep" /\ state[t] = "SLEEP"
  /\ \A i, j \in 1..Len(wait_queue) : wait_queue[i] = wait_queue[j] => i = j

\* A task that a scheduler may take is off every hart with its context
\* stored.  wakeup() sets RUNNABLE whatever the state was: were the task
\* awake again already, or still on its way into sched(), two harts would
\* execute it.
NoneRunsTwice ==
  \A t \in Tasks : state[t] = "RUNNABLE" /\ Free(t) => ctx[t] = "off"

\* The panics of the two operations never fire: the owner does not ask
\* again and only the owner releases.
OwnerTests ==
  \A t \in Tasks : /\ pc[t] \in {"acq", "test"} => holder # t
                   /\ pc[t] \in {"holding", "rel"} => holder = t

\* No stranded sleeper: when the lock is free and tasks are queued for it,
\* one that was woken is on its way to the lock, or the wake-up itself is.
NoneStranded ==
  ~locked /\ wait_queue # <<>> =>
    \E t \in Tasks : \/ pc[t] \in {"acq", "test", "wake1", "wakeall"}
                     \/ pc[t] = "asleep" /\ state[t] # "SLEEP"

\* The task whose hart holds the spinlock that t needs next, if any.
WaitsFor(t) ==
  CASE Executes(t, "acq") \/ Executes(t, "holding") -> spinlock
    [] Executes(t, "test") /\ locked -> lk[t]
    [] (Executes(t, "wake1") \/ Executes(t, "wakeall")) /\ wait_queue # <<>>
         -> lk[Head(wait_queue)]
    [] OTHER -> None

\* One owner at a time, and the lock is granted whenever it can be.
Mutex == INSTANCE SleepMutex WITH
  owner <- holder,
  phase <- [t \in Tasks |->
              CASE pc[t] \in {"acq", "test", "asleep"} -> "asks"
                [] pc[t] \in {"holding", "rel"} -> "owns"
                [] OTHER -> "out"]

ImplementsMutex == Mutex!MSpec

\* Every sleeper is taken from the queue in time (it may have to queue
\* again, behind a task that overtook it).
SleepersWoken == \A t \in Tasks : Queued(t) ~> ~Queued(t)

\* The sleepers of acquire_sleep() are in the queue, on no hart, and not alone
\* with a free lock, however release_sleep() and wake_wait_parent() meet them.
SleepersSafe == QueueIsSleepers /\ NoneRunsTwice /\ NoneStranded
=============================================================================
