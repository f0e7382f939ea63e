------------------------------ MODULE UserLand ------------------------------
(***************************************************************************)
(* The process layer with the two programs that are always there on top of *)
(* it: init (user/init.c) forks a shell and waits for exactly that pid;    *)
(* the shell (user/lsh.c) forks a command and waits for exactly that pid.  *)
(* A command is any program.  The loop of scheduler() is here with its     *)
(* index, so that what a RUNNABLE task gets follows from the order of the  *)
(* loop and not from an assumption about it.                               *)
(***************************************************************************)
EXTENDS Proc

VARIABLES
  prog,   \* the program in a slot: "init", "lsh" or "cmd"
  child,  \* init and lsh: the pid fork() returned, 0 before the call
  slot    \* scheduler(): the slot of tasks[] its loop is at, on each hart

progVars == <<prog, child>>
userVars == <<prog, child, slot>>

UInit ==
  /\ Init
  /\ prog = [t \in Slots |-> IF t = initask THEN "init" ELSE "cmd"]
  /\ child = [t \in Slots |-> 0]
  /\ slot = [h \in Harts |-> 1]

\* ts++ in the loop of scheduler(), and the while around it.
NextSlot(t) == (t % NTASKS) + 1

\* Mutant: the loop starts over after every switch.
SlotAfterSwitchFirst(t) == 1

\* Back from swtch() the loop goes on with the next slot.
SlotAfterSwitch(t) == NextSlot(t)

Advance(h) == slot' = [slot EXCEPT ![h] = NextSlot(@)]

\* The slot the loop is at is not RUNNABLE.
SchedPass(h) ==
  /\ ts[h] = NULL /\ want[h] = NULL
  /\ state[slot[h]] # "RUNNABLE"
  /\ Advance(h) /\ UNCHANGED <<vars, progVars>>

\* The loop meets a RUNNABLE slot.
LoopSee(h) == SchedSee(h, slot[h]) /\ UNCHANGED userVars

\* The lock of that slot is won; when the task is gone the loop goes on.
LoopTake(h) ==
  /\ \/ SchedTake(h, slot[h]) /\ UNCHANGED slot
     \/ SchedSkip(h, slot[h]) /\ Advance(h)
  /\ UNCHANGED progVars

\* swtch() to and from the task; the loop goes on when it is back.
LoopSwitch(h) ==
  /\ \/ Resume(h, slot[h]) /\ UNCHANGED slot
     \/ Sched(h, slot[h]) /\ slot' = [slot EXCEPT ![h] = SlotAfterSwitch(@)]
  /\ UNCHANGED progVars

\* The program the child of a program runs: init execs lsh, lsh a command.
Execs(p) == IF p = "init" THEN "lsh" ELSE "cmd"

\* main() of init.c, and lsh_launch(): fork, then waitpid(pid, ...).
ForkAndWait(h, t) ==
  /\ prog[t] \in {"init", "lsh"}
  /\ \/ child[t] = 0 /\ Fork(h, t) /\ UNCHANGED child
     \/ /\ child[t] # 0 /\ Wait(h, t, child[t])
        /\ child' = [child EXCEPT ![t] = 0]
  /\ UNCHANGED <<prog, slot>>

\* lsh leaves at the prompt: the builtin exit, or the end of its input.
LshExit(h, t) ==
  /\ prog[t] = "lsh" /\ child[t] = 0 /\ Exit(h, t)
  /\ UNCHANGED userVars

Command(h, t) == prog[t] = "cmd" /\ User(h, t) /\ UNCHANGED userVars

\* The kernel's steps; a new slot gets its program, and the father the pid.
UKernel(h, t) ==
  /\ Kernel(h, t)
  /\ prog' = IF pc[t] = "fork_copy" /\ pc'[t] = "fork_ret"
             THEN [prog EXCEPT ![cur[t]] = Execs(prog[t])] ELSE prog
  /\ child' = IF pc[t] = "fork_copy" /\ pc'[t] = "fork_ret"
              THEN [child EXCEPT ![cur[t]] = 0]
              ELSE IF pc[t] = "fork_ret" /\ prog[t] # "cmd"
              THEN [child EXCEPT ![t] = pid[cur[t]]] ELSE child
  /\ UNCHANGED slot

ULoop(h) == SchedPass(h) \/ LoopSee(h) \/ LoopTake(h) \/ LoopSwitch(h)

UNext == \E h \in Harts :
  \/ ULoop(h)
  \/ \E t \in Slots : \/ Yield(h, t) /\ UNCHANGED userVars
                      \/ ForkAndWait(h, t) \/ LshExit(h, t) \/ Command(h, t)
                      \/ UKernel(h, t)

uvars == <<vars, userVars>>

\* Every hart goes on with its loop, the timer preempts a running task again
\* and again, the kernel code of a task makes progress while it has a hart,
\* and init and lsh go on to waitpid() after fork().  Nothing is assumed of
\* which task a hart takes.
UFairness ==
  /\ \A t \in Slots : SF_uvars(\E h \in Harts : UKernel(h, t) \/ ForkAndWait(h, t))
  /\ \A h \in Harts :
       /\ WF_uvars(SchedPass(h) \/ LoopSee(h) \/ LoopSwitch(h))
       /\ SF_uvars(LoopTake(h))
       /\ SF_uvars(\E t \in Slots : Yield(h, t) /\ UNCHANGED userVars)

USpec == UInit /\ [][UNext]_uvars /\ UFairness

\* The system some time after boot: init sleeps in waitpid(2), the shell
\* (pid 2) in waitpid(3), and the command (pid 3) is about to run.  Init
\* reaches this state; starting here leaves the way to it out of a run.
Sleeping == {1, 2}

Booted ==
  /\ NTASKS >= 3
  /\ state = [t \in Slots |-> IF t \in Sleeping THEN "SLEEP"
                              ELSE IF t = 3 THEN "RUNNABLE" ELSE "INITLIZED"]
  /\ pid = [t \in Slots |-> IF t <= 3 THEN t ELSE 0]
  /\ parent = [t \in Slots |-> IF t \in {2, 3} THEN t - 1 ELSE NULL]
  /\ child_exit_pending = [t \in Slots |-> FALSE]
  /\ sleep_chan = [t \in Slots |-> IF t \in Sleeping THEN SLEEP_CHAN_CHILD ELSE 0]
  /\ dead = [t \in Slots |-> FALSE]
  /\ mem = [t \in Slots |-> IF t <= 3 THEN {"utf", "pg"} ELSE {}]
  /\ lk = [t \in Slots |-> NoHart]
  /\ pid_counter = 4
  /\ ts = [h \in Harts |-> NULL]
  /\ want = [h \in Harts |-> NULL]
  /\ pc = [t \in Slots |-> IF t \in Sleeping THEN "wait_scan" ELSE "user"]
  /\ call = [t \in Slots |-> IF t \in Sleeping THEN "waitpid"
                             ELSE IF t = 3 THEN "first_ret" ELSE "none"]
  /\ saved = [t \in Slots |-> t <= 3]
  /\ cur = [t \in Slots |-> IF t \in Sleeping THEN NTASKS + 1 ELSE 1]
  /\ arg = [t \in Slots |-> IF t \in Sleeping THEN t + 1 ELSE 0]
  /\ flag = [t \in Slots |-> t \in Sleeping]
  /\ prog = [t \in Slots |-> IF t = 1 THEN "init" ELSE IF t = 2 THEN "lsh" ELSE "cmd"]
  /\ child = [t \in Slots |-> 0]
  /\ slot = [h \in Harts |-> 1]

BootedSpec == Booted /\ [][UNext]_uvars /\ UFairness

-----------------------------------------------------------------------------
\* A shell that has ended is reaped: init waits for the pid it forked.
ShellReaped ==
  []<>(\A t \in Slots : ~(state[t] = "ZOMBIE" /\ prog[t] = "lsh"))

\* kexit() hands an orphan that is a zombie over to init so that init reaps
\* it (kernel/proc.c, at orphan_zombie): it is not so that from some time on
\* init has zombie children for ever.
OrphanReaped ==
  []<>(\A t \in Slots : ~(state[t] = "ZOMBIE" /\ parent[t] = initask))
=============================================================================
