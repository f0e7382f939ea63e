-------------------------------- MODULE Proc --------------------------------
(***************************************************************************)
(* The process layer of the kernel (kernel/proc.c): the task table, the    *)
(* per-task spinlock ts->lk, the scheduler loop that every hart runs, the  *)
(* switch of contexts in sched()/swtch(), and the operations that create,  *)
(* wait for and end a task: kfork, waitpid, kexit, yield, to_kill.         *)
(*                                                                         *)
(* Granularity.  A critical section that takes one lock, reads and writes  *)
(* only what that lock protects and releases it is one step.  A lock that  *)
(* is held across steps (over swtch(), over the copying in kfork, around   *)
(* the wake-up of the parent in kexit) is in the variable lk, whose value  *)
(* is the hart that took it, as lk->holder is a struct cpu *.              *)
(*                                                                         *)
(* A task that is on no hart is a saved context: call[t] says which call   *)
(* of sched() (or first_ret) its context returns to, and saved[t] that     *)
(* swtch() has stored it.                                                  *)
(***************************************************************************)
EXTENDS Integers, FiniteSets

CONSTANTS NTASKS,    \* slots of tasks[]
          Harts,     \* the harts (struct cpu) that run scheduler()
          NoHart,    \* lk->holder == 0
          MaxPid,    \* bound: pid_counter stops here
          MemFails,  \* whether a page allocation may fail
          WaitArgs   \* the first argument of waitpid(): -1 or a pid

ASSUME NTASKSAssumption == NTASKS \in Nat \ {0}
ASSUME NoHartAssumption == NoHart \notin Harts
ASSUME MaxPidAssumption == MaxPid \in Nat \ {0}
ASSUME MemFailsAssumption == MemFails \in BOOLEAN
ASSUME WaitArgsAssumption == WaitArgs \subseteq Int

Slots == 1..NTASKS
initask == 1          \* the slot init_user() gets
NULL == 0
ANY == -1             \* waitpid(-1, ...)
SLEEP_CHAN_CHILD == 1

States == {"INITLIZED", "USED", "RUNNABLE", "RUNNING", "SLEEP", "ZOMBIE"}

\* The program counter of a task: in user mode, or at the next lock that
\* the system call it is in has to take.
Points == {"user", "fork_scan", "fork_copy", "fork_free", "fork_ret",
           "wait_scan", "exit_begin", "exit_orphans", "exit_wake",
           "dead_spin"}

\* Who calls sched(): where the saved context of a task continues.
Calls == {"none", "first_ret", "yield", "waitpid", "kexit"}

VARIABLES
  \* struct task_struct
  state, pid, parent, child_exit_pending, sleep_chan, dead,
  mem,         \* which of the pages utf and pg the slot owns
  lk,          \* ts->lk: the hart that holds it, or NoHart
  pid_counter,
  \* struct cpu and the loop of scheduler()
  ts,          \* cpu->ts: the slot whose context the hart executes, or NULL
  want,        \* the slot whose lock scheduler() is spinning for, or NULL
  \* the kernel stack of a task
  pc, call, saved,
  cur,         \* the index of a scan over tasks[]; in kfork the new slot
  arg,         \* waitpid: the pid waited for; kfork: the pid it allocated
  flag         \* waitpid: child_count > 0; kexit: orphan_zombie

taskVars  == <<state, pid, parent, child_exit_pending, sleep_chan, dead, mem>>
hartVars  == <<ts, want>>
stackVars == <<pc, call, saved, cur, arg, flag>>
vars == <<taskVars, lk, pid_counter, hartVars, stackVars>>

-----------------------------------------------------------------------------
(* Boot: init_tasks() clears the table, init_user() puts init in slot 1     *)
(* (pid 1) and makes it RUNNABLE; every hart enters scheduler().            *)

Init ==
  /\ state = [t \in Slots |-> IF t = initask THEN "RUNNABLE" ELSE "INITLIZED"]
  /\ pid = [t \in Slots |-> IF t = initask THEN 1 ELSE 0]
  /\ parent = [t \in Slots |-> NULL]
  /\ child_exit_pending = [t \in Slots |-> FALSE]
  /\ sleep_chan = [t \in Slots |-> 0]
  /\ dead = [t \in Slots |-> FALSE]
  /\ mem = [t \in Slots |-> IF t = initask THEN {"utf", "pg"} ELSE {}]
  /\ lk = [t \in Slots |-> NoHart]
  /\ pid_counter = 2
  /\ ts = [h \in Harts |-> NULL]
  /\ want = [h \in Harts |-> NULL]
  /\ pc = [t \in Slots |-> "user"]
  /\ call = [t \in Slots |-> IF t = initask THEN "first_ret" ELSE "none"]
  /\ saved = [t \in Slots |-> t = initask]
  /\ cur = [t \in Slots |-> 1]
  /\ arg = [t \in Slots |-> 0]
  /\ flag = [t \in Slots |-> FALSE]

-----------------------------------------------------------------------------
(* Helpers                                                                 *)

\* Task t executes its own kernel or user code on hart h.
Running(h, t) == ts[h] = t /\ call[t] = "none"

\* acquire() returns only when the exchange found the lock free.
Free(t) == lk[t] = NoHart

Goto(t, p) == pc' = [pc EXCEPT ![t] = p]

\* Start of a loop over tasks[].
ScanFrom(t) == /\ cur' = [cur EXCEPT ![t] = 1]
               /\ flag' = [flag EXCEPT ![t] = FALSE]

\* Back to user mode: the locals of the system call are gone.
Return(t) == /\ pc' = [pc EXCEPT ![t] = "user"]
             /\ arg' = [arg EXCEPT ![t] = 0]
             /\ ScanFrom(t)

\* child->parent == ts && (pid == -1 || child->pid == pid)
Matches(t, c) == parent[c] = t /\ (arg[t] = ANY \/ pid[c] = arg[t])

\* wake_wait_parent(p), between acquire(&p->lk) and release(&p->lk).
WakeWaitParent(p) ==
  /\ child_exit_pending' = [child_exit_pending EXCEPT ![p] = TRUE]
  /\ state' = IF state[p] = "SLEEP" /\ sleep_chan[p] = SLEEP_CHAN_CHILD
              THEN [state EXCEPT ![p] = "RUNNABLE"] ELSE state

-----------------------------------------------------------------------------
(* scheduler(): the unlocked test, the lock, the second test, swtch().      *)
(* The order in which the loop meets the slots is left open.                *)

SchedSee(h, t) ==
  /\ ts[h] = NULL /\ want[h] = NULL
  /\ state[t] = "RUNNABLE"
  /\ want' = [want EXCEPT ![h] = t]
  /\ UNCHANGED <<taskVars, lk, pid_counter, ts, stackVars>>

\* Mutants: no second test; the second test looks for the wrong state.
StillRunnableUntested(t) == state[t] # "INITLIZED"
StillRunnableWrong(t) == state[t] = "RUNNING"

\* The second test, under the lock.
StillRunnable(t) == state[t] = "RUNNABLE"

SchedTake(h, t) ==
  /\ want[h] = t /\ Free(t)
  /\ StillRunnable(t)
  /\ lk' = [lk EXCEPT ![t] = h]
  /\ state' = [state EXCEPT ![t] = "RUNNING"]
  /\ ts' = [ts EXCEPT ![h] = t]
  /\ want' = [want EXCEPT ![h] = NULL]
  /\ UNCHANGED <<pid, parent, child_exit_pending, sleep_chan, dead, mem,
                 pid_counter, stackVars>>

SchedSkip(h, t) ==
  /\ want[h] = t /\ Free(t)
  /\ ~StillRunnable(t)
  /\ want' = [want EXCEPT ![h] = NULL]
  /\ UNCHANGED <<taskVars, lk, pid_counter, ts, stackVars>>

\* sched(): swtch() stores the context of the task; back in scheduler(),
\* cpu->ts = 0 and the lock of the task is released.
Sched(h, t) ==
  /\ ts[h] = t /\ call[t] # "none" /\ ~saved[t]
  /\ saved' = [saved EXCEPT ![t] = TRUE]
  /\ ts' = [ts EXCEPT ![h] = NULL]
  /\ lk' = [lk EXCEPT ![t] = NoHart]
  /\ UNCHANGED <<taskVars, pid_counter, want, pc, call, cur, arg, flag>>

\* The context of t returns from swtch() on hart h and releases the lock
\* that the scheduler took; waitpid() clears sleep_chan and scans again.
Resume(h, t) ==
  /\ ts[h] = t /\ saved[t]
  /\ call[t] \in {"first_ret", "yield", "waitpid"}
  /\ saved' = [saved EXCEPT ![t] = FALSE]
  /\ call' = [call EXCEPT ![t] = "none"]
  /\ lk' = [lk EXCEPT ![t] = NoHart]
  /\ IF call[t] = "waitpid"
     THEN /\ sleep_chan' = [sleep_chan EXCEPT ![t] = 0]
          /\ ScanFrom(t)
     ELSE UNCHANGED <<sleep_chan, cur, flag>>
  /\ UNCHANGED <<state, pid, parent, child_exit_pending, dead, mem,
                 pid_counter, ts, want, pc, arg>>

-----------------------------------------------------------------------------
(* yield(), from a timer interrupt in user mode or in a system call.        *)

\* Interrupts are on: the task holds no spinlock and is not in the loop of
\* user_trap_hanlder() for dead tasks.
Preemptible(t) == pc[t] \notin {"fork_copy", "exit_wake", "dead_spin"}

\* Mutant: yield() lets go of the lock before sched().
YieldLkEarly(h, t) == [lk EXCEPT ![t] = NoHart]

\* yield() keeps ts->lk from before the change of state until the
\* scheduler has the context.
YieldLk(h, t) == [lk EXCEPT ![t] = h]

Yield(h, t) ==
  /\ Running(h, t) /\ Preemptible(t) /\ Free(t)
  /\ state[t] = "RUNNING"
  /\ lk' = YieldLk(h, t)
  /\ state' = [state EXCEPT ![t] = "RUNNABLE"]
  /\ call' = [call EXCEPT ![t] = "yield"]
  /\ UNCHANGED <<pid, parent, child_exit_pending, sleep_chan, dead, mem,
                 pid_counter, hartVars, pc, saved, cur, arg, flag>>

-----------------------------------------------------------------------------
(* kfork() and alloc_task()                                                 *)

Fork(h, t) ==
  /\ Running(h, t) /\ pc[t] = "user" /\ ~dead[t]
  /\ pid_counter <= MaxPid
  /\ Goto(t, "fork_scan") /\ ScanFrom(t)
  /\ UNCHANGED <<taskVars, lk, pid_counter, hartVars, call, saved, arg>>

\* alloc_task(): the slot under the cursor is in use.
ForkNext(h, t) ==
  /\ Running(h, t) /\ pc[t] = "fork_scan"
  /\ cur[t] \in Slots /\ Free(cur[t])
  /\ state[cur[t]] # "INITLIZED"
  /\ cur' = [cur EXCEPT ![t] = cur[t] + 1]
  /\ UNCHANGED <<taskVars, lk, pid_counter, hartVars, pc, call, saved, arg, flag>>

\* alloc_task(): no slot is free, kfork() returns -1.
ForkFull(h, t) ==
  /\ Running(h, t) /\ pc[t] = "fork_scan"
  /\ cur[t] \notin Slots
  /\ Return(t)
  /\ UNCHANGED <<taskVars, lk, pid_counter, hartVars, call, saved>>

\* alloc_task() takes the slot and returns with its lock held.
ForkAlloc(h, t, c) ==
  /\ Running(h, t) /\ pc[t] = "fork_scan"
  /\ c = cur[t] /\ Free(c) /\ state[c] = "INITLIZED"
  /\ pid_counter <= MaxPid
  /\ pid' = [pid EXCEPT ![c] = pid_counter]
  /\ pid_counter' = pid_counter + 1
  /\ state' = [state EXCEPT ![c] = "USED"]
  /\ mem' = [mem EXCEPT ![c] = {"utf", "pg"}]
  /\ child_exit_pending' = [child_exit_pending EXCEPT ![c] = FALSE]
  /\ sleep_chan' = [sleep_chan EXCEPT ![c] = 0]
  /\ lk' = [lk EXCEPT ![c] = h]
  /\ call' = [call EXCEPT ![c] = "first_ret"]
  /\ saved' = [saved EXCEPT ![c] = TRUE]
  /\ pc' = [pc EXCEPT ![t] = "fork_copy", ![c] = "user"]
  /\ arg' = [arg EXCEPT ![t] = pid_counter]
  /\ UNCHANGED <<parent, dead, hartVars, cur, flag>>

\* free_task()
FreeTask(c) ==
  /\ mem' = [mem EXCEPT ![c] = {}]
  /\ pid' = [pid EXCEPT ![c] = 0]
  /\ parent' = [parent EXCEPT ![c] = NULL]
  /\ dead' = [dead EXCEPT ![c] = FALSE]
  /\ state' = [state EXCEPT ![c] = "INITLIZED"]
  /\ UNCHANGED <<child_exit_pending, sleep_chan>>

\* alloc_task(): no page for the trapframe or the page table.  The pid is
\* lost, free_task() clears the slot before the lock is released.
ForkAllocFail(h, t, c) ==
  /\ MemFails
  /\ Running(h, t) /\ pc[t] = "fork_scan"
  /\ c = cur[t] /\ Free(c) /\ state[c] = "INITLIZED"
  /\ pid_counter <= MaxPid
  /\ pid_counter' = pid_counter + 1
  /\ FreeTask(c) /\ Return(t)
  /\ UNCHANGED <<lk, hartVars, call, saved>>

\* Copying an area of the father failed: the lock is released first, then
\* free_task() runs without it.
ForkCopyFail(h, t, c) ==
  /\ MemFails
  /\ Running(h, t) /\ pc[t] = "fork_copy" /\ c = cur[t]
  /\ lk' = [lk EXCEPT ![c] = NoHart]
  /\ Goto(t, "fork_free")
  /\ UNCHANGED <<taskVars, pid_counter, hartVars, call, saved, cur, arg, flag>>

ForkFree(h, t, c) ==
  /\ Running(h, t) /\ pc[t] = "fork_free" /\ c = cur[t]
  /\ FreeTask(c) /\ Return(t)
  /\ UNCHANGED <<lk, pid_counter, hartVars, call, saved>>

ForkCommit(h, t, c) ==
  /\ Running(h, t) /\ pc[t] = "fork_copy" /\ c = cur[t]
  /\ parent' = [parent EXCEPT ![c] = t]
  /\ state' = [state EXCEPT ![c] = "RUNNABLE"]
  /\ lk' = [lk EXCEPT ![c] = NoHart]
  /\ Goto(t, "fork_ret")
  /\ UNCHANGED <<pid, child_exit_pending, sleep_chan, dead, mem,
                 pid_counter, hartVars, call, saved, cur, arg, flag>>

\* return new_ts->pid, without the lock.
ForkRet(h, t) ==
  /\ Running(h, t) /\ pc[t] = "fork_ret"
  /\ Return(t)
  /\ UNCHANGED <<taskVars, lk, pid_counter, hartVars, call, saved>>

-----------------------------------------------------------------------------
(* waitpid()                                                                *)

Wait(h, t, a) ==
  /\ Running(h, t) /\ pc[t] = "user" /\ ~dead[t]
  /\ arg' = [arg EXCEPT ![t] = a]
  /\ Goto(t, "wait_scan") /\ ScanFrom(t)
  /\ UNCHANGED <<taskVars, lk, pid_counter, hartVars, call, saved>>

\* child_count > 0 after the visit of slot c.
Counted(t, c) == flag[t] \/ Matches(t, c)

\* The slot under the cursor is not a zombie to reap.
WaitNext(h, t, c) ==
  /\ Running(h, t) /\ pc[t] = "wait_scan"
  /\ c = cur[t] /\ Free(c)
  /\ ~(Matches(t, c) /\ state[c] = "ZOMBIE")
  /\ flag' = [flag EXCEPT ![t] = Counted(t, c)]
  /\ cur' = [cur EXCEPT ![t] = c + 1]
  /\ UNCHANGED <<taskVars, lk, pid_counter, hartVars, pc, call, saved, arg>>

\* Mutants: dead is not cleared; the trapframe page is not freed.
DeadAfterReapKept(c) == dead
\* dead after waitpid() has cleaned the slot.
DeadAfterReap(c) == [dead EXCEPT ![c] = FALSE]

\* waitpid() frees the trapframe page; kexit() has freed the rest.
PagesAfterReap(c) == [mem EXCEPT ![c] = @ \ {"utf"}]

\* A zombie is reaped under its lock; waitpid() returns its pid.
WaitReap(h, t, c) ==
  /\ Running(h, t) /\ pc[t] = "wait_scan"
  /\ c = cur[t] /\ Free(c)
  /\ Matches(t, c) /\ state[c] = "ZOMBIE"
  /\ mem' = PagesAfterReap(c)
  /\ pid' = [pid EXCEPT ![c] = 0]
  /\ parent' = [parent EXCEPT ![c] = NULL]
  /\ dead' = DeadAfterReap(c)
  /\ state' = [state EXCEPT ![c] = "INITLIZED"]
  /\ Return(t)
  /\ UNCHANGED <<child_exit_pending, sleep_chan, lk, pid_counter, hartVars,
                 call, saved>>

\* The whole table scanned, no child: waitpid() returns -1.
WaitNone(h, t) ==
  /\ Running(h, t) /\ pc[t] = "wait_scan"
  /\ cur[t] \notin Slots /\ ~flag[t]
  /\ Return(t)
  /\ UNCHANGED <<taskVars, lk, pid_counter, hartVars, call, saved>>

\* A child has ended since the flag was last cleared: scan again.
WaitPending(h, t) ==
  /\ Running(h, t) /\ pc[t] = "wait_scan"
  /\ cur[t] \notin Slots /\ flag[t] /\ Free(t)
  /\ child_exit_pending[t]
  /\ child_exit_pending' = [child_exit_pending EXCEPT ![t] = FALSE]
  /\ ScanFrom(t)
  /\ UNCHANGED <<state, pid, parent, sleep_chan, dead, mem, lk, pid_counter,
                 hartVars, pc, call, saved, arg>>

\* Mutant: waitpid() sleeps without looking at child_exit_pending.
MaySleepAlways(t) == flag[t]

\* The test waitpid() makes under its own lock before it sleeps.
MaySleep(t) == ~child_exit_pending[t]

WaitSleep(h, t) ==
  /\ Running(h, t) /\ pc[t] = "wait_scan"
  /\ cur[t] \notin Slots /\ flag[t] /\ Free(t)
  /\ MaySleep(t)
  /\ sleep_chan' = [sleep_chan EXCEPT ![t] = SLEEP_CHAN_CHILD]
  /\ state' = [state EXCEPT ![t] = "SLEEP"]
  /\ lk' = [lk EXCEPT ![t] = h]
  /\ call' = [call EXCEPT ![t] = "waitpid"]
  /\ UNCHANGED <<pid, parent, child_exit_pending, dead, mem, pid_counter,
                 hartVars, pc, saved, cur, arg, flag>>

-----------------------------------------------------------------------------
(* kexit() and to_kill()                                                    *)

\* kexit() returns at once for pid 1: the call does nothing.
Exit(h, t) ==
  /\ Running(h, t) /\ pc[t] = "user" /\ ~dead[t] /\ pid[t] # 1
  /\ Goto(t, "exit_begin")
  /\ UNCHANGED <<taskVars, lk, pid_counter, hartVars, call, saved, cur, arg, flag>>

\* An exception in user mode: to_kill(ts), then kexit(-1), which returns for
\* pid 1: init goes back to user mode, marked dead.
Fault(h, t) ==
  /\ Running(h, t) /\ pc[t] = "user" /\ Free(t)
  /\ dead' = [dead EXCEPT ![t] = TRUE]
  /\ Goto(t, IF pid[t] = 1 THEN "user" ELSE "exit_begin")
  /\ UNCHANGED <<state, pid, parent, child_exit_pending, sleep_chan, mem, lk,
                 pid_counter, hartVars, call, saved, cur, arg, flag>>

\* A system call of a task that is marked dead never leaves the loop at the
\* head of user_trap_hanlder(), with interrupts off.
DeadSpin(h, t) ==
  /\ Running(h, t)
  /\ (pc[t] = "user" /\ dead[t]) \/ pc[t] = "dead_spin"
  /\ Goto(t, "dead_spin")
  /\ UNCHANGED <<taskVars, lk, pid_counter, hartVars, call, saved, cur, arg, flag>>

\* Mutant: ts->lk is kept while the children are visited.
ExitBeginLkHeld(h, t) == [lk EXCEPT ![t] = h]

\* ts->lk is released again before the children are visited.
ExitBeginLk(h, t) == [lk EXCEPT ![t] = NoHart]

\* First critical section: files, exit code, user memory.
ExitBegin(h, t) ==
  /\ Running(h, t) /\ pc[t] = "exit_begin" /\ Free(t)
  /\ mem' = [mem EXCEPT ![t] = @ \ {"pg"}]
  /\ lk' = ExitBeginLk(h, t)
  /\ Goto(t, "exit_orphans") /\ ScanFrom(t)
  /\ UNCHANGED <<state, pid, parent, child_exit_pending, sleep_chan, dead,
                 pid_counter, hartVars, call, saved, arg>>

\* Mutants: init is not told of a zombie it inherits; a zombie is not handed
\* over.
OrphanZombieUntold(t, c) == flag[t]
AdoptedLiving(t, c) == IF parent[c] = t /\ state[c] # "ZOMBIE"
                       THEN [parent EXCEPT ![c] = initask] ELSE parent

\* orphan_zombie after the visit of slot c.
OrphanZombie(t, c) == flag[t] \/ (parent[c] = t /\ state[c] = "ZOMBIE")

\* c->parent = initask for a child.
Adopted(t, c) == IF parent[c] = t THEN [parent EXCEPT ![c] = initask] ELSE parent

ExitOrphan(h, t, c) ==
  /\ Running(h, t) /\ pc[t] = "exit_orphans"
  /\ c = cur[t] /\ Free(c)
  /\ parent' = Adopted(t, c)
  /\ flag' = [flag EXCEPT ![t] = OrphanZombie(t, c)]
  /\ cur' = [cur EXCEPT ![t] = c + 1]
  /\ UNCHANGED <<state, pid, child_exit_pending, sleep_chan, dead, mem, lk,
                 pid_counter, hartVars, pc, call, saved, arg>>

ExitWakeInit(h, t) ==
  /\ Running(h, t) /\ pc[t] = "exit_orphans"
  /\ cur[t] \notin Slots /\ flag[t] /\ Free(initask)
  /\ WakeWaitParent(initask)
  /\ flag' = [flag EXCEPT ![t] = FALSE]
  /\ UNCHANGED <<pid, parent, sleep_chan, dead, mem, lk, pid_counter,
                 hartVars, pc, call, saved, cur, arg>>

\* The lock under which a task becomes a zombie is kept until the
\* scheduler has switched away from it.
ZombieLk(h, t) == [lk EXCEPT ![t] = h]

ExitZombie(h, t) ==
  /\ Running(h, t) /\ pc[t] = "exit_orphans"
  /\ cur[t] \notin Slots /\ ~flag[t] /\ Free(t)
  /\ lk' = ZombieLk(h, t)
  /\ state' = [state EXCEPT ![t] = "ZOMBIE"]
  /\ dead' = [dead EXCEPT ![t] = TRUE]
  /\ Goto(t, "exit_wake") /\ ScanFrom(t)
  /\ UNCHANGED <<pid, parent, child_exit_pending, sleep_chan, mem,
                 pid_counter, hartVars, call, saved, arg>>

\* wake_wait_parent(ts->parent) with ts->lk held, then sched().
ExitWake(h, t, p) ==
  /\ Running(h, t) /\ pc[t] = "exit_wake"
  /\ p = parent[t] /\ Free(p)
  /\ WakeWaitParent(p)
  /\ call' = [call EXCEPT ![t] = "kexit"]
  /\ UNCHANGED <<pid, parent, sleep_chan, dead, mem, lk, pid_counter,
                 hartVars, pc, saved, cur, arg, flag>>

-----------------------------------------------------------------------------
Scheduler(h, t) ==
  SchedSee(h, t) \/ SchedTake(h, t) \/ SchedSkip(h, t) \/ Sched(h, t) \/ Resume(h, t)

\* The system calls a user program may make, when it likes.
User(h, t) ==
  \/ Fork(h, t)
  \/ \E a \in WaitArgs : Wait(h, t, a)
  \/ Exit(h, t)
  \/ Fault(h, t)
  \/ DeadSpin(h, t)

ForkStep(h, t) ==
  \/ ForkNext(h, t) \/ ForkFull(h, t) \/ ForkRet(h, t)
  \/ \E c \in Slots : \/ ForkAlloc(h, t, c) \/ ForkAllocFail(h, t, c)
                      \/ ForkCopyFail(h, t, c) \/ ForkFree(h, t, c)
                      \/ ForkCommit(h, t, c)

WaitStep(h, t) ==
  \/ WaitNone(h, t) \/ WaitPending(h, t) \/ WaitSleep(h, t)
  \/ \E c \in Slots : WaitNext(h, t, c) \/ WaitReap(h, t, c)

ExitStep(h, t) ==
  \/ ExitBegin(h, t) \/ ExitWakeInit(h, t) \/ ExitZombie(h, t)
  \/ \E c \in Slots : ExitOrphan(h, t, c) \/ ExitWake(h, t, c)

\* What a task inside a system call does next.
Kernel(h, t) == ForkStep(h, t) \/ WaitStep(h, t) \/ ExitStep(h, t)

Next == \E h \in Harts, t \in Slots :
          Scheduler(h, t) \/ Yield(h, t) \/ User(h, t) \/ Kernel(h, t)

Spec == Init /\ [][Next]_vars

(* Fairness.  The loop of scheduler() is circular, so a slot that stays     *)
(* RUNNABLE is met again whenever a hart is back in it; the timer is armed  *)
(* before every return from its trap, so a running task is preempted again  *)
(* and again, and between two ticks the kernel code of a task makes         *)
(* progress.  A spinning acquire() wins the exchange in the end.  What a    *)
(* user program does (User) is under no fairness.                           *)
Fairness ==
  /\ \A t \in Slots :
       /\ SF_vars(\E h \in Harts : SchedSee(h, t))
       /\ SF_vars(\E h \in Harts : Kernel(h, t))
  /\ \A h \in Harts :
       /\ SF_vars(\E t \in Slots : SchedTake(h, t) \/ SchedSkip(h, t))
       /\ WF_vars(\E t \in Slots : Sched(h, t) \/ Resume(h, t))
       /\ SF_vars(\E t \in Slots : Yield(h, t))

FairSpec == Spec /\ Fairness

-----------------------------------------------------------------------------
(* Properties                                                               *)

TypeOK ==
  /\ state \in [Slots -> States]
  /\ pid \in [Slots -> Nat]
  /\ parent \in [Slots -> Slots \cup {NULL}]
  /\ child_exit_pending \in [Slots -> BOOLEAN]
  /\ sleep_chan \in [Slots -> {0, SLEEP_CHAN_CHILD}]
  /\ dead \in [Slots -> BOOLEAN]
  /\ mem \in [Slots -> SUBSET {"utf", "pg"}]
  /\ lk \in [Slots -> Harts \cup {NoHart}]
  /\ pid_counter \in Nat
  /\ ts \in [Harts -> Slots \cup {NULL}]
  /\ want \in [Harts -> Slots \cup {NULL}]
  /\ pc \in [Slots -> Points]
  /\ call \in [Slots -> Calls]
  /\ saved \in [Slots -> BOOLEAN]
  /\ cur \in [Slots -> 1..(NTASKS + 1)]
  /\ arg \in [Slots -> Int]
  /\ flag \in [Slots -> BOOLEAN]

\* No task is executed by two harts: the lock handed over through swtch()
\* keeps a second scheduler() away until the context is stored.
OneHart ==
  \A h, g \in Harts : ts[h] = ts[g] /\ ts[h] # NULL => h = g

\* Whoever gets the lock of a task that is not RUNNING finds it stopped: no
\* hart is on its kernel stack and its context is stored.  This is what the
\* comments in yield() and at "5." in kexit() rely on, for the scheduler
\* that resumes a task and for the parent that frees its trapframe.
StoppedWhenUnlocked ==
  \A t \in Slots : Free(t) /\ state[t] # "RUNNING" =>
    /\ \A h \in Harts : ts[h] # t
    /\ state[t] \in {"RUNNABLE", "SLEEP", "ZOMBIE"} => saved[t]

\* The four panics of sched() never fire: the task that calls it is not
\* RUNNING and its hart holds exactly one spinlock, the task's own.  Nor does
\* the one of release(): a lock that was handed through swtch(), or taken
\* in alloc_task() for kfork(), is released by the hart that holds it.
SchedAsserts ==
  \A h \in Harts, t \in Slots : ts[h] = t =>
    /\ call[t] # "none" /\ ~saved[t] =>
         state[t] # "RUNNING" /\ {x \in Slots : lk[x] = h} = {t}
    /\ call[t] # "none" => lk[t] = h
    /\ call[t] = "none" /\ pc[t] = "fork_copy" => lk[cur[t]] = h

\* A hart never executes a task whose trapframe page is gone, user code has
\* a page table, and a slot goes back to INITLIZED only with nothing left
\* in it (alloc_task() would overwrite, and leak, what is left).
PagesMatchLife ==
  /\ \A t \in Slots : state[t] \in {"RUNNABLE", "RUNNING", "SLEEP"} => "utf" \in mem[t]
  /\ \A h \in Harts, t \in Slots : Running(h, t) /\ pc[t] = "user" => "pg" \in mem[t]
  /\ \A t \in Slots : state[t] = "INITLIZED" => mem[t] = {}

\* The parent that wake_wait_parent() and waitpid() deal with is a task that
\* is still there: kexit() gives its children away before it can be reaped,
\* so no pointer to a recycled slot stays in ts->parent.
ParentAlive ==
  \A c \in Slots :
    /\ parent[c] # NULL => state[parent[c]] \in {"RUNNABLE", "RUNNING", "SLEEP"}
    /\ state[c] \in {"RUNNABLE", "RUNNING", "SLEEP", "ZOMBIE"} /\ c # initask
         => parent[c] # NULL

\* No lost wake-up: when a task sleeps in waitpid() although a child it
\* waits for is a zombie, the one that is to wake it is still on its way:
\* the child itself, or the father that hands the zombie over to init.
NoLostWakeup ==
  \A p, c \in Slots :
    state[p] = "SLEEP" /\ Matches(p, c) /\ state[c] = "ZOMBIE" =>
      \/ pc[c] = "exit_wake" /\ call[c] = "none"
      \/ p = initask /\ \E q \in Slots : pc[q] = "exit_orphans" /\ flag[q]

\* kfork() reads new_ts->pid after it has released the lock.  The child may
\* have run and ended by then, yet the value is the pid that was allocated.
ForkReturnsChild ==
  \A t \in Slots : pc[t] = "fork_ret" => pid[cur[t]] = arg[t]

\* waitpid() answers -1 to a task other than init only if it has no child
\* of that pid: a scan that takes one lock at a time misses none.
NoChildIsRight ==
  \A t \in Slots :
    pc[t] = "wait_scan" /\ cur[t] \notin Slots /\ ~flag[t] /\ t # initask
      => \A c \in Slots : ~Matches(t, c)

\* A task other than init that has not begun to exit is not marked dead, so
\* only init can end in the loop for dead tasks of user_trap_hanlder(), which
\* keeps its hart for ever: alloc_task() does not clear the mark, so every
\* operation that frees a slot has to.  (A fault of init does mark it, and
\* kexit() lets it go on.)
NotDeadBeforeExit ==
  \A t \in Slots \ {initask} :
    /\ state[t] \in {"USED", "RUNNABLE", "RUNNING"} /\ dead[t]
         => pc[t] \in {"exit_begin", "exit_orphans"}
    /\ pc[t] # "dead_spin"

\* The slot whose lock the task takes next.
Needs(t) ==
  CASE pc[t] \in {"fork_scan", "wait_scan", "exit_orphans"} /\ cur[t] \in Slots -> cur[t]
    [] pc[t] = "exit_wake" -> parent[t]
    [] pc[t] = "exit_orphans" /\ flag[t] -> initask
    [] OTHER -> t

\* Hart h spins for a lock that hart g holds.
Spins(h, g) == \E t \in Slots :
  Running(h, t) /\ pc[t] # "fork_copy" /\ Needs(t) # NULL /\ lk[Needs(t)] = g

\* No cycle of harts spinning for each other's task locks, and no hart that
\* spins for a lock of its own (the panic "acquire: reacquire who?").
NoSpinCycle ==
  \A H \in (SUBSET Harts) \ {{}} : \E h \in H : \A g \in H : ~Spins(h, g)

\* A zombie stays one until it is reaped; only then does the slot get a
\* new life, from INITLIZED, and with a pid no task had before.
LifeCycle ==
  [][\A t \in Slots :
       /\ state[t] = "ZOMBIE" => state'[t] \in {"ZOMBIE", "INITLIZED"}
       /\ state[t] = "INITLIZED" => state'[t] \in {"INITLIZED", "USED"}
       /\ pid'[t] \notin {0, pid[t]} => \A c \in Slots : pid[c] < pid'[t]]_vars

\* A task in waitpid() one of whose children has ended returns from it.
WaiterReturns ==
  \A p \in Slots :
    pc[p] = "wait_scan" /\ (\E c \in Slots : Matches(p, c) /\ state[c] = "ZOMBIE")
      ~> pc[p] = "user"

\* A RUNNABLE task gets a hart.
RunnableRuns ==
  \A t \in Slots : state[t] = "RUNNABLE" ~> state[t] = "RUNNING"

\* A hart and the task it executes belong together through every hand-over of a
\* lock in yield(), sched(), scheduler() and kexit().
HartSafe == OneHart /\ StoppedWhenUnlocked /\ SchedAsserts

\* What a slot of tasks[] owns and is marked with fits the life it is in, through
\* alloc_task(), a failed kfork(), kexit() and the reaping in waitpid().
SlotSafe == PagesMatchLife /\ NotDeadBeforeExit

\* Father and child agree on each other while they fork, exit, are adopted and
\* reaped on different harts.
FamilySafe == ParentAlive /\ NoChildIsRight /\ ForkReturnsChild
=============================================================================
