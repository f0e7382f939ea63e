---------------------------- MODULE SleeplockInv ----------------------------
(***************************************************************************)
(* The inductive invariant of Sleeplock, from which SleeplockProofs        *)
(* derives its safety properties for any set of tasks.                     *)
(***************************************************************************)
EXTENDS Sleeplock

\* Where the context of a task is follows its state and its lock.
ContextInv ==
  \A t \in Tasks :
    /\ ctx[t] = "on" => state[t] = "RUNNING" /\ lk[t] = None /\ pc[t] \notin {"asleep", "child"}
    /\ ctx[t] = "in" => state[t] = "RUNNING" /\ lk[t] = t
    /\ ctx[t] = "out" => state[t] # "RUNNING" /\ lk[t] = t
    /\ ctx[t] = "off" => state[t] # "RUNNING" /\ lk[t] = None
    /\ state[t] = "SLEEP" => pc[t] \in {"asleep", "child"}
    /\ pc[t] = "child" <=> sleep_chan[t] = SLEEP_CHAN_CHILD

\* Who is in a critical section of slk->spinlock executes and holds it.
SpinInv ==
  \A t \in Tasks :
    /\ spinlock = t <=> pc[t] \in {"test", "rel", "wake1", "wakeall", "done"}
    /\ spinlock = t => ctx[t] = "on"

\* The owner, the flag and the code between acquire and release agree.
OwnerInv ==
  /\ locked <=> holder # None
  /\ \A t \in Tasks : holder = t <=> pc[t] \in {"holding", "rel"}

\* The inductive invariant of Sleeplock.
IInv ==
  TypeOK /\ ContextInv /\ SpinInv /\ OwnerInv /\ QueueIsSleepers /\ NoneStranded
=============================================================================
