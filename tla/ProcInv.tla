------------------------------ MODULE ProcInv -------------------------------
(***************************************************************************)
(* The inductive invariants of Proc, from which ProcProofs derives its     *)
(* safety properties for any number of slots and harts.                    *)
(***************************************************************************)
EXTENDS Proc

Alive == {"RUNNABLE", "RUNNING", "SLEEP"}

\* Task t calls sched() from c in the state that fits the call.
StopsIn(t, c, s) == call[t] = c /\ state[t] = s

\* A hart that spins for a task in scheduler() executes none.
WantInv == \A h \in Harts : want[h] # NULL => ts[h] = NULL

\* What is true of the task a hart executes, in its own code, before and
\* after swtch().
OnHartInv ==
  \A h \in Harts, t \in Slots : ts[h] = t =>
    /\ call[t] = "none" /\ pc[t] # "exit_wake" =>
         state[t] = "RUNNING" /\ lk[t] = NoHart /\ ~saved[t]
    /\ call[t] = "none" /\ pc[t] = "exit_wake" =>
         state[t] = "ZOMBIE" /\ lk[t] = h /\ ~saved[t]
    /\ call[t] # "none" => lk[t] = h /\ pc[t] # "fork_copy"
    /\ call[t] # "none" /\ saved[t] => state[t] = "RUNNING" /\ call[t] # "kexit"
    /\ call[t] # "none" /\ ~saved[t] =>
         \/ StopsIn(t, "yield", "RUNNABLE")
         \/ StopsIn(t, "waitpid", "SLEEP")
         \/ StopsIn(t, "kexit", "ZOMBIE")

\* What is true of a task that no hart executes.
ParkedInv ==
  \A t \in Slots :
    /\ state[t] = "RUNNING" => \E h \in Harts : ts[h] = t
    /\ state[t] \in {"INITLIZED", "USED"} => \A h \in Harts : ts[h] # t
    /\ state[t] \in {"RUNNABLE", "SLEEP", "ZOMBIE"} /\ lk[t] = NoHart =>
         /\ saved[t]
         /\ \A h \in Harts : ts[h] # t
         /\ state[t] = "RUNNABLE" => call[t] \in {"first_ret", "yield", "waitpid"}
         /\ state[t] = "SLEEP" => call[t] = "waitpid"
         /\ state[t] = "ZOMBIE" => call[t] = "kexit"
    /\ state[t] = "USED" => saved[t] /\ call[t] = "first_ret"

\* The program point of a task fits its state.
PointInv ==
  \A t \in Slots :
    /\ state[t] = "INITLIZED" => pc[t] \in {"user", "exit_wake"}
    /\ state[t] = "USED" => pc[t] = "user"
    /\ pc[t] = "exit_wake" => state[t] \in {"ZOMBIE", "INITLIZED"}
    /\ pc[t] = "fork_copy" => state[t] = "RUNNING" /\ call[t] = "none"
    /\ call[t] = "waitpid" => pc[t] = "wait_scan" /\ cur[t] \notin Slots
    /\ call[t] = "kexit" => pc[t] = "exit_wake"

\* A lock is held by the hart that executes the task, or by the hart whose
\* kfork() is filling the slot; one kfork() at a time fills a slot.
LockInv ==
  /\ \A x \in Slots, h \in Harts : lk[x] = h =>
       \/ ts[h] = x
       \/ /\ ts[h] \in Slots /\ pc[ts[h]] = "fork_copy" /\ cur[ts[h]] = x
          /\ call[ts[h]] = "none" /\ state[x] = "USED"
  /\ \A h \in Harts, u \in Slots :
       ts[h] = u /\ pc[u] = "fork_copy" => lk[cur[u]] = h
  /\ \A u \in Slots : pc[u] \in {"fork_copy", "fork_free"} =>
       cur[u] \in Slots /\ state[cur[u]] = "USED"
  /\ \A u, v \in Slots :
       ( /\ pc[u] \in {"fork_copy", "fork_free"} /\ pc[v] \in {"fork_copy", "fork_free"}
         /\ cur[u] = cur[v] ) => u = v

\* How harts, locks, saved contexts and states of tasks fit together.
SchedInv == OneHart /\ WantInv /\ OnHartInv /\ ParkedInv /\ PointInv /\ LockInv

-----------------------------------------------------------------------------
\* init is there for ever and has pid 1.
InitaskInv ==
  /\ pid[initask] = 1 /\ state[initask] \in Alive
  /\ pc[initask] \notin {"exit_begin", "exit_orphans", "exit_wake"}
  /\ pid_counter >= 2
  /\ \A t \in Slots \ {initask} : pid[t] # 1

\* A father is a living task, a living task or zombie has a father.
ParentInv ==
  \A c \in Slots :
    /\ parent[c] # NULL => state[parent[c]] \in Alive
                           /\ state[c] \in Alive \cup {"ZOMBIE"}
    /\ state[c] \in Alive \cup {"ZOMBIE"} /\ c # initask => parent[c] # NULL

\* kexit() has given away the children its scan has passed.
OrphanInv ==
  \A c \in Slots :
    parent[c] # NULL /\ pc[parent[c]] = "exit_orphans" => cur[parent[c]] <= c

\* kfork() has the pid of the slot it fills, and only the father can reap
\* the child it is about to return.
ForkRetInv ==
  \A t \in Slots : pc[t] \in {"fork_copy", "fork_ret"} =>
    /\ cur[t] \in Slots /\ pid[cur[t]] = arg[t]
    /\ pc[t] = "fork_ret" => parent[cur[t]] = t

\* A task in a system call, other than at the end of kexit(), is alive.
CallInv ==
  \A t \in Slots : pc[t] \notin {"user", "exit_wake"} => state[t] \in Alive

\* A sleeper waits for a child, and was not told of one since it looked.
SleepInv ==
  \A p \in Slots : state[p] = "SLEEP" =>
    /\ ~child_exit_pending[p]
    /\ sleep_chan[p] = SLEEP_CHAN_CHILD
    /\ call[p] = "waitpid"

\* A zombie that a scan of waitpid() has passed has set, or is about to
\* set, child_exit_pending.
PassedInv ==
  \A p, c \in Slots :
    pc[p] = "wait_scan" /\ c < cur[p] /\ Matches(p, c) /\ state[c] = "ZOMBIE" =>
      \/ child_exit_pending[p]
      \/ pc[c] = "exit_wake" /\ call[c] = "none"
      \/ p = initask /\ \E q \in Slots : pc[q] = "exit_orphans" /\ flag[q]

\* How fathers, children and their wake-ups fit together.
FamilyInv ==
  InitaskInv /\ ParentInv /\ OrphanInv /\ ForkRetInv /\ CallInv /\ SleepInv /\ PassedInv

-----------------------------------------------------------------------------
\* The pages of a slot follow from its state and the progress of kexit().
MemInv ==
  \A t \in Slots :
    /\ state[t] = "INITLIZED" => mem[t] = {}
    /\ state[t] # "INITLIZED" /\ pc[t] \in {"exit_orphans", "exit_wake"} =>
         mem[t] = {"utf"}
    /\ state[t] # "INITLIZED" /\ pc[t] \notin {"exit_orphans", "exit_wake"} =>
         mem[t] = {"utf", "pg"}

\* A free slot, a new task and a task before kexit() are not marked dead;
\* init may be, and only init gets into the loop for dead tasks.
DeadInv ==
  \A t \in Slots \ {initask} :
    /\ dead[t] => state[t] = "ZOMBIE" \/ pc[t] \in {"exit_begin", "exit_orphans"}
    /\ pc[t] # "dead_spin"

\* A pid is used once.
PidInv ==
  \A t \in Slots :
    /\ pid[t] < pid_counter
    /\ state[t] = "INITLIZED" => pid[t] = 0

\* The scan of a task other than init has counted the children it passed:
\* only its own kfork() gives it another child.
ScanInv ==
  \A t, c \in Slots :
    t # initask /\ pc[t] = "wait_scan" /\ c < cur[t] /\ Matches(t, c) => flag[t]

\* What a slot owns, and what is known of its life.
LifeInv == MemInv /\ DeadInv /\ PidInv /\ ScanInv

-----------------------------------------------------------------------------
\* The inductive invariant of Proc: every step of every operation keeps it,
\* and each safety property follows from it.
IInv == TypeOK /\ SchedInv /\ FamilyInv /\ LifeInv
=============================================================================
