----------------------------- MODULE ProcProofs -----------------------------
(***************************************************************************)
(* Proofs, for any number of slots and harts, of the safety properties of  *)
(* Proc; and, for any tree, buffer and path, of those of UserPath, which   *)
(* keeps the text of a process's working directory.                        *)
(***************************************************************************)
EXTENDS ProcInv, UserPath, NatLemmas, TLAPS, SequenceTheorems

-----------------------------------------------------------------------------
(* Typing                                                                   *)

\* The slot of init is one of the table.
LEMMA InitaskSlot == initask \in Slots /\ NULL \notin Slots
  BY NTASKSAssumption DEF initask, Slots, NULL

\* A cursor starts at, and moves to, a value within its range.
LEMMA CursorRange == /\ 1 \in 1..(NTASKS + 1)
                     /\ \A c \in Slots : c + 1 \in 1..(NTASKS + 1)
  BY NTASKSAssumption DEF Slots

\* Every operation of kernel/proc.c keeps the fields of the task table, the
\* harts and the kernel stacks in their ranges.
LEMMA TypeInit == Init => TypeOK
  BY InitaskSlot, NTASKSAssumption
  DEF Init, TypeOK, States, Calls, Points, Slots, NULL

\* Every step keeps every variable in its type.
LEMMA TypeNext == TypeOK /\ [Next]_vars => TypeOK'
<1> SUFFICES ASSUME TypeOK, [Next]_vars PROVE TypeOK'
  OBVIOUS
<1> USE InitaskSlot, CursorRange DEF TypeOK
<1>1. CASE UNCHANGED vars
  BY <1>1 DEF vars, taskVars, hartVars, stackVars
<1>2. ASSUME NEW h \in Harts, NEW t \in Slots, Scheduler(h, t) PROVE TypeOK'
  <2>1. CASE SchedSee(h, t)
    BY <2>1 DEF SchedSee, taskVars, stackVars
  <2>2. CASE SchedTake(h, t)
    BY <2>2 DEF SchedTake, taskVars, stackVars, States
  <2>3. CASE SchedSkip(h, t)
    BY <2>3 DEF SchedSkip, taskVars, stackVars
  <2>4. CASE Sched(h, t)
    BY <2>4 DEF Sched, taskVars
  <2>5. CASE Resume(h, t)
    BY <2>5 DEF Resume, ScanFrom, Calls, SLEEP_CHAN_CHILD
  <2> QED BY <1>2, <2>1, <2>2, <2>3, <2>4, <2>5 DEF Scheduler
<1>3. ASSUME NEW h \in Harts, NEW t \in Slots, Yield(h, t) PROVE TypeOK'
  BY <1>3 DEF Yield, YieldLk, hartVars, States, Calls
<1>4. ASSUME NEW h \in Harts, NEW t \in Slots, User(h, t) PROVE TypeOK'
  <2>1. CASE Fork(h, t)
    BY <2>1 DEF Fork, Goto, ScanFrom, taskVars, hartVars, Points
  <2>2. ASSUME NEW a \in WaitArgs, Wait(h, t, a) PROVE TypeOK'
    BY <2>2, WaitArgsAssumption
    DEF Wait, Goto, ScanFrom, taskVars, hartVars, Points
  <2>3. CASE Exit(h, t)
    BY <2>3 DEF Exit, Goto, taskVars, hartVars, Points
  <2>4. CASE Fault(h, t)
    BY <2>4 DEF Fault, Goto, hartVars, Points
  <2>5. CASE DeadSpin(h, t)
    BY <2>5 DEF DeadSpin, Goto, taskVars, hartVars, Points
  <2> QED BY <1>4, <2>1, <2>2, <2>3, <2>4, <2>5 DEF User
<1>5. ASSUME NEW h \in Harts, NEW t \in Slots, ForkStep(h, t) PROVE TypeOK'
  <2>1. CASE ForkNext(h, t)
    BY <2>1 DEF ForkNext, taskVars, hartVars
  <2>2. CASE ForkFull(h, t)
    BY <2>2 DEF ForkFull, Return, ScanFrom, taskVars, hartVars, Points
  <2>3. CASE ForkRet(h, t)
    BY <2>3 DEF ForkRet, Return, ScanFrom, taskVars, hartVars, Points
  <2>4. ASSUME NEW c \in Slots, ForkAlloc(h, t, c) PROVE TypeOK'
    BY <2>4 DEF ForkAlloc, hartVars, Points, States, Calls
  <2>5. ASSUME NEW c \in Slots, ForkAllocFail(h, t, c) PROVE TypeOK'
    BY <2>5
    DEF ForkAllocFail, FreeTask, Return, ScanFrom, hartVars, Points, States
  <2>6. ASSUME NEW c \in Slots, ForkCopyFail(h, t, c) PROVE TypeOK'
    BY <2>6 DEF ForkCopyFail, Goto, taskVars, hartVars, Points
  <2>7. ASSUME NEW c \in Slots, ForkFree(h, t, c) PROVE TypeOK'
    BY <2>7
    DEF ForkFree, FreeTask, Return, ScanFrom, hartVars, Points, States
  <2>8. ASSUME NEW c \in Slots, ForkCommit(h, t, c) PROVE TypeOK'
    BY <2>8 DEF ForkCommit, Goto, hartVars, Points, States
  <2> QED BY <1>5, <2>1, <2>2, <2>3, <2>4, <2>5, <2>6, <2>7, <2>8 DEF ForkStep
<1>6. ASSUME NEW h \in Harts, NEW t \in Slots, WaitStep(h, t) PROVE TypeOK'
  <2>1. CASE WaitNone(h, t)
    BY <2>1 DEF WaitNone, Return, ScanFrom, taskVars, hartVars, Points
  <2>2. CASE WaitPending(h, t)
    BY <2>2 DEF WaitPending, ScanFrom, hartVars
  <2>3. CASE WaitSleep(h, t)
    BY <2>3 DEF WaitSleep, hartVars, States, Calls, SLEEP_CHAN_CHILD
  <2>4. ASSUME NEW c \in Slots, WaitNext(h, t, c) PROVE TypeOK'
    <3>1. Counted(t, c) \in BOOLEAN
      BY DEF Counted, Matches
    <3> QED BY <2>4, <3>1 DEF WaitNext, taskVars, hartVars
  <2>5. ASSUME NEW c \in Slots, WaitReap(h, t, c) PROVE TypeOK'
    BY <2>5
    DEF WaitReap, PagesAfterReap, DeadAfterReap, Return, ScanFrom, hartVars, Points, States
  <2> QED BY <1>6, <2>1, <2>2, <2>3, <2>4, <2>5 DEF WaitStep
<1>7. ASSUME NEW h \in Harts, NEW t \in Slots, ExitStep(h, t) PROVE TypeOK'
  <2>1. CASE ExitBegin(h, t)
    BY <2>1 DEF ExitBegin, ExitBeginLk, Goto, ScanFrom, hartVars, Points
  <2>2. CASE ExitWakeInit(h, t)
    BY <2>2 DEF ExitWakeInit, WakeWaitParent, hartVars, States
  <2>3. CASE ExitZombie(h, t)
    BY <2>3 DEF ExitZombie, ZombieLk, Goto, ScanFrom, hartVars, Points, States
  <2>4. ASSUME NEW c \in Slots, ExitOrphan(h, t, c) PROVE TypeOK'
    <3>1. OrphanZombie(t, c) \in BOOLEAN
      BY DEF OrphanZombie
    <3>2. Adopted(t, c) \in [Slots -> Slots \cup {NULL}]
      BY DEF Adopted
    <3> QED BY <2>4, <3>1, <3>2 DEF ExitOrphan, hartVars
  <2>5. ASSUME NEW c \in Slots, ExitWake(h, t, c) PROVE TypeOK'
    BY <2>5 DEF ExitWake, WakeWaitParent, hartVars, States, Calls
  <2> QED BY <1>7, <2>1, <2>2, <2>3, <2>4, <2>5 DEF ExitStep
<1> QED
  BY <1>1, <1>2, <1>3, <1>4, <1>5, <1>6, <1>7 DEF Next, Kernel

\* The task table is well typed in every reachable state: states, parents, pids and the harts' records.
THEOREM Typing == Spec => []TypeOK
  BY TypeInit, TypeNext, PTL DEF Spec

-----------------------------------------------------------------------------
(* Harts, locks and saved contexts                                          *)

\* Slots are numbered from 1 to NTASKS.
LEMMA SlotInt ==
  /\ NTASKS \in Int
  /\ \A c \in Slots : c \in Int /\ c >= 1 /\ c <= NTASKS
  /\ \A c \in Int : c >= 1 /\ c <= NTASKS => c \in Slots
  BY NTASKSAssumption DEF Slots

\* A scan that has passed the slots below c has, one slot later, passed c too.
LEMMA SlotStep == \A x, c \in Slots : x < c + 1 => x < c \/ x = c
  BY NTASKSAssumption DEF Slots

\* A task that is resumed in waitpid() starts its scan again; nothing else
\* of the kernel stacks changes.
ResumeEffect(t) ==
  /\ state[t] = "RUNNING"
  /\ \/ cur'[t] = cur[t] /\ flag'[t] = flag[t]
     \/ pc[t] = "wait_scan" /\ cur'[t] = 1
  /\ \A x \in Slots \ {t} : cur'[x] = cur[x] /\ flag'[x] = flag[x] /\ call'[x] = call[x]
  /\ \A x \in Slots : ~(x < 1)

\* What swtch() to a task changes of the other tasks: nothing.
LEMMA ResumeLemma ==
  ASSUME TypeOK, SchedInv, NEW h \in Harts, NEW t \in Slots, Resume(h, t)
  PROVE  ResumeEffect(t)
<1>1. state[t] = "RUNNING" /\ (call[t] = "waitpid" => pc[t] = "wait_scan")
  BY DEF SchedInv, OnHartInv, PointInv, Resume
<1>2. CASE call[t] = "waitpid"
  BY <1>1, <1>2, SlotInt DEF TypeOK, Resume, ScanFrom, ResumeEffect
<1>3. CASE call[t] # "waitpid"
  BY <1>1, <1>3, SlotInt DEF TypeOK, Resume, ResumeEffect
<1> QED BY <1>2, <1>3

\* The loop of scheduler() starts on every hart with an idle table but for
\* init, and every operation keeps harts, locks, saved contexts and states
\* together.
LEMMA SchedInit == Init => SchedInv
<1> SUFFICES ASSUME Init PROVE SchedInv
  OBVIOUS
<1>1. OneHart /\ WantInv /\ OnHartInv
  BY InitaskSlot DEF Init, OneHart, WantInv, OnHartInv
<1>2. ParkedInv
  BY InitaskSlot DEF Init, ParkedInv
<1>3. PointInv
  BY InitaskSlot DEF Init, PointInv
<1>4. LockInv
  BY InitaskSlot, NoHartAssumption DEF Init, LockInv
<1> QED BY <1>1, <1>2, <1>3, <1>4 DEF SchedInv

\* Each step keeps the agreement between harts, locks and states.
LEMMA SchedNext == TypeOK /\ SchedInv /\ [Next]_vars => SchedInv'
<1> SUFFICES ASSUME TypeOK, SchedInv, [Next]_vars PROVE SchedInv'
  OBVIOUS
<1> USE InitaskSlot, NoHartAssumption
    DEF TypeOK, SchedInv, OneHart, WantInv, OnHartInv, ParkedInv, PointInv,
    LockInv, Running, Free, StopsIn
<1>1. CASE UNCHANGED vars
  BY <1>1 DEF vars, taskVars, hartVars, stackVars
<1>2. ASSUME NEW h \in Harts, NEW t \in Slots, Scheduler(h, t) PROVE SchedInv'
  <2>1. CASE SchedSee(h, t)
    BY <2>1 DEF SchedSee, taskVars, stackVars
  <2>2. CASE SchedTake(h, t)
    BY <2>2 DEF SchedTake, StillRunnable, stackVars
  <2>3. CASE SchedSkip(h, t)
    BY <2>3 DEF SchedSkip, taskVars, stackVars
  <2>4. CASE Sched(h, t)
    BY <2>4 DEF Sched, taskVars
  <2>5. CASE Resume(h, t)
    <3>1. OneHart' /\ WantInv' /\ OnHartInv'
      BY <2>5 DEF Resume, ScanFrom
    <3>2. ParkedInv'
      BY <2>5 DEF Resume
    <3>3. PointInv'
      BY <2>5 DEF Resume, ScanFrom
    <3>4. /\ UNCHANGED <<ts, pc, state>> /\ lk' = [lk EXCEPT ![t] = NoHart]
          /\ \A u \in Slots : pc[u] \in {"fork_copy", "fork_free"} => cur'[u] = cur[u]
          /\ ts[h] = t /\ lk[t] = h /\ state[t] = "RUNNING"
      BY <2>5 DEF Resume, ScanFrom
    <3>5. \A u \in Slots : call'[u] = "none" \/ call'[u] = call[u]
      BY <2>5 DEF Resume
    <3>6. LockInv'
      BY <3>4, <3>5 DEF LockInv
    <3> QED BY <3>1, <3>2, <3>3, <3>6 DEF SchedInv
  <2> QED
    BY <1>2, <2>1, <2>2, <2>3, <2>4, <2>5 DEF Scheduler
<1>3. ASSUME NEW h \in Harts, NEW t \in Slots, Yield(h, t) PROVE SchedInv'
  BY <1>3 DEF Yield, YieldLk, Preemptible, hartVars
<1>4. ASSUME NEW h \in Harts, NEW t \in Slots, User(h, t) PROVE SchedInv'
  <2>1. CASE Fork(h, t)
    BY <2>1 DEF Fork, Goto, ScanFrom, taskVars, hartVars
  <2>2. ASSUME NEW a \in WaitArgs, Wait(h, t, a) PROVE SchedInv'
    BY <2>2 DEF Wait, Goto, ScanFrom, taskVars, hartVars
  <2>3. CASE Exit(h, t)
    BY <2>3 DEF Exit, Goto, taskVars, hartVars
  <2>4. CASE Fault(h, t)
    BY <2>4 DEF Fault, Goto, hartVars
  <2>5. CASE DeadSpin(h, t)
    BY <2>5 DEF DeadSpin, Goto, taskVars, hartVars
  <2> QED
    BY <1>4, <2>1, <2>2, <2>3, <2>4, <2>5 DEF User
<1>5. ASSUME NEW h \in Harts, NEW t \in Slots, ForkStep(h, t) PROVE SchedInv'
  <2>1. CASE ForkNext(h, t)
    BY <2>1 DEF ForkNext, taskVars, hartVars
  <2>2. CASE ForkFull(h, t)
    BY <2>2 DEF ForkFull, Return, ScanFrom, taskVars, hartVars
  <2>3. CASE ForkRet(h, t)
    BY <2>3 DEF ForkRet, Return, ScanFrom, taskVars, hartVars
  <2>4. ASSUME NEW c \in Slots, ForkAlloc(h, t, c) PROVE SchedInv'
    BY <2>4 DEF ForkAlloc, hartVars
  <2>5. ASSUME NEW c \in Slots, ForkAllocFail(h, t, c) PROVE SchedInv'
    BY <2>5 DEF ForkAllocFail, FreeTask, Return, ScanFrom, hartVars
  <2>6. ASSUME NEW c \in Slots, ForkCopyFail(h, t, c) PROVE SchedInv'
    BY <2>6 DEF ForkCopyFail, Goto, taskVars, hartVars
  <2>7. ASSUME NEW c \in Slots, ForkFree(h, t, c) PROVE SchedInv'
    BY <2>7 DEF ForkFree, FreeTask, Return, ScanFrom, hartVars
  <2>8. ASSUME NEW c \in Slots, ForkCommit(h, t, c) PROVE SchedInv'
    BY <2>8 DEF ForkCommit, Goto, hartVars
  <2> QED
    BY <1>5, <2>1, <2>2, <2>3, <2>4, <2>5, <2>6, <2>7, <2>8 DEF ForkStep
<1>6. ASSUME NEW h \in Harts, NEW t \in Slots, WaitStep(h, t) PROVE SchedInv'
  <2>1. CASE WaitNone(h, t)
    BY <2>1 DEF WaitNone, Return, ScanFrom, taskVars, hartVars
  <2>2. CASE WaitPending(h, t)
    BY <2>2 DEF WaitPending, ScanFrom, hartVars
  <2>3. CASE WaitSleep(h, t)
    BY <2>3 DEF WaitSleep, MaySleep, hartVars
  <2>4. ASSUME NEW c \in Slots, WaitNext(h, t, c) PROVE SchedInv'
    BY <2>4 DEF WaitNext, taskVars, hartVars
  <2>5. ASSUME NEW c \in Slots, WaitReap(h, t, c) PROVE SchedInv'
    BY <2>5 DEF WaitReap, Return, ScanFrom, hartVars
  <2> QED
    BY <1>6, <2>1, <2>2, <2>3, <2>4, <2>5 DEF WaitStep
<1>7. ASSUME NEW h \in Harts, NEW t \in Slots, ExitStep(h, t) PROVE SchedInv'
  <2>1. CASE ExitBegin(h, t)
    BY <2>1 DEF ExitBegin, ExitBeginLk, Goto, ScanFrom, hartVars
  <2>2. CASE ExitWakeInit(h, t)
    BY <2>2 DEF ExitWakeInit, WakeWaitParent, hartVars
  <2>3. CASE ExitZombie(h, t)
    BY <2>3 DEF ExitZombie, ZombieLk, Goto, ScanFrom, hartVars
  <2>4. ASSUME NEW c \in Slots, ExitOrphan(h, t, c) PROVE SchedInv'
    BY <2>4 DEF ExitOrphan, hartVars
  <2>5. ASSUME NEW c \in Slots, ExitWake(h, t, c) PROVE SchedInv'
    BY <2>5 DEF ExitWake, WakeWaitParent, hartVars
  <2> QED
    BY <1>7, <2>1, <2>2, <2>3, <2>4, <2>5 DEF ExitStep
<1> QED
  BY <1>1, <1>2, <1>3, <1>4, <1>5, <1>6, <1>7 DEF Next, Kernel

-----------------------------------------------------------------------------
(* Fathers, children and wake-ups                                           *)

\* init starts alone; kfork(), waitpid() and kexit() keep the family tree
\* and the wake-ups that are under way consistent.
LEMMA FamilyInit == Init => FamilyInv
  BY InitaskSlot, NTASKSAssumption
  DEF Init, FamilyInv, InitaskInv, ParentInv, OrphanInv, ForkRetInv, CallInv,
  SleepInv, PassedInv, Alive, Matches, NULL, initask

\* Each step keeps parents, sleepers and scans in agreement.
LEMMA FamilyNext == TypeOK /\ SchedInv /\ FamilyInv /\ [Next]_vars => FamilyInv'
<1> SUFFICES ASSUME TypeOK, SchedInv, FamilyInv, [Next]_vars PROVE FamilyInv'
  OBVIOUS
<1> USE InitaskSlot, SlotInt, NoHartAssumption
    DEF TypeOK, SchedInv, FamilyInv, OneHart, WantInv, OnHartInv, ParkedInv,
    PointInv, LockInv, InitaskInv, ParentInv, OrphanInv, ForkRetInv, CallInv,
    SleepInv, PassedInv, Running, Free, StopsIn, Alive, Matches, Adopted,
    OrphanZombie
<1>1. CASE UNCHANGED vars
  BY <1>1 DEF vars, taskVars, hartVars, stackVars
<1>2. ASSUME NEW h \in Harts, NEW t \in Slots, Scheduler(h, t) PROVE FamilyInv'
  <2>1. CASE SchedSee(h, t)
    BY <2>1 DEF SchedSee, taskVars, stackVars
  <2>2. CASE SchedTake(h, t)
    BY <2>2 DEF SchedTake, StillRunnable, stackVars
  <2>3. CASE SchedSkip(h, t)
    BY <2>3 DEF SchedSkip, taskVars, stackVars
  <2>4. CASE Sched(h, t)
    BY <2>4 DEF Sched, taskVars
  <2>5. CASE Resume(h, t)
    <3>1. ResumeEffect(t)
      BY <2>5, ResumeLemma
    <3>2. PassedInv
      OBVIOUS
    <3>a. InitaskInv'
      BY <2>5, <3>1, <3>2 DEF Resume, ScanFrom
    <3>b. ParentInv'
      BY <2>5, <3>1, <3>2 DEF Resume, ScanFrom
    <3>c. OrphanInv'
      BY <2>5, <3>1, <3>2 DEF Resume, ScanFrom
    <3>d. ForkRetInv'
      BY <2>5, <3>1, <3>2 DEF Resume, ScanFrom
    <3>e. CallInv'
      BY <2>5, <3>1, <3>2 DEF Resume, ScanFrom
    <3>f. SleepInv'
      BY <2>5, <3>1, <3>2 DEF Resume, ScanFrom
    <3>g. PassedInv'
      <4> HIDE
      DEF SchedInv, FamilyInv, OneHart, WantInv, OnHartInv, ParkedInv,
      PointInv, LockInv, InitaskInv, ParentInv, OrphanInv, ForkRetInv, CallInv,
      SleepInv, TypeOK, Running, Free, StopsIn, Alive, Adopted, OrphanZombie
      <4> QED BY <2>5, <3>1, <3>2 DEF Resume, ResumeEffect
    <3> QED BY <3>a, <3>b, <3>c, <3>d, <3>e, <3>f, <3>g
  <2> QED
    BY <1>2, <2>1, <2>2, <2>3, <2>4, <2>5 DEF Scheduler
<1>3. ASSUME NEW h \in Harts, NEW t \in Slots, Yield(h, t) PROVE FamilyInv'
  BY <1>3 DEF Yield, YieldLk, Preemptible, hartVars
<1>4. ASSUME NEW h \in Harts, NEW t \in Slots, User(h, t) PROVE FamilyInv'
  <2>1. CASE Fork(h, t)
    BY <2>1 DEF Fork, Goto, ScanFrom, taskVars, hartVars
  <2>2. ASSUME NEW a \in WaitArgs, Wait(h, t, a) PROVE FamilyInv'
    BY <2>2 DEF Wait, Goto, ScanFrom, taskVars, hartVars
  <2>3. CASE Exit(h, t)
    BY <2>3 DEF Exit, Goto, taskVars, hartVars
  <2>4. CASE Fault(h, t)
    BY <2>4 DEF Fault, Goto, hartVars
  <2>5. CASE DeadSpin(h, t)
    BY <2>5 DEF DeadSpin, Goto, taskVars, hartVars
  <2> QED
    BY <1>4, <2>1, <2>2, <2>3, <2>4, <2>5 DEF User
<1>5. ASSUME NEW h \in Harts, NEW t \in Slots, ForkStep(h, t) PROVE FamilyInv'
  <2>1. CASE ForkNext(h, t)
    BY <2>1 DEF ForkNext, taskVars, hartVars
  <2>2. CASE ForkFull(h, t)
    BY <2>2 DEF ForkFull, Return, ScanFrom, taskVars, hartVars
  <2>3. CASE ForkRet(h, t)
    BY <2>3 DEF ForkRet, Return, ScanFrom, taskVars, hartVars
  <2>4. ASSUME NEW c \in Slots, ForkAlloc(h, t, c) PROVE FamilyInv'
    <3>1. c # t /\ \A x \in Slots : parent[x] # c
      BY <2>4 DEF ForkAlloc
    <3>2. pc'[t] = "fork_copy" /\ \A x \in Slots \ {t, c} : pc'[x] = pc[x]
      BY <2>4, <3>1 DEF ForkAlloc
    <3>3. OrphanInv /\ parent \in [Slots -> Slots \cup {NULL}]
      OBVIOUS
    <3>a. InitaskInv'
      BY <2>4, <3>1, <3>2, <3>3 DEF ForkAlloc, hartVars
    <3>b. ParentInv'
      BY <2>4, <3>1, <3>2, <3>3 DEF ForkAlloc, hartVars
    <3>c. OrphanInv'
      <4> HIDE
      DEF SchedInv, FamilyInv, OneHart, WantInv, OnHartInv, ParkedInv,
      PointInv, LockInv, InitaskInv, ParentInv, ForkRetInv, CallInv, SleepInv,
      PassedInv, TypeOK, Running, Free, StopsIn, Alive, Adopted, Matches,
      OrphanZombie
      <4> QED BY <2>4, <3>1, <3>2, <3>3 DEF ForkAlloc
    <3>d. ForkRetInv'
      BY <2>4, <3>1, <3>2, <3>3 DEF ForkAlloc, hartVars
    <3>e. CallInv'
      BY <2>4, <3>1, <3>2, <3>3 DEF ForkAlloc, hartVars
    <3>f. SleepInv'
      BY <2>4, <3>1, <3>2, <3>3 DEF ForkAlloc, hartVars
    <3>g. PassedInv'
      BY <2>4, <3>1, <3>2, <3>3 DEF ForkAlloc, hartVars
    <3> QED BY <3>a, <3>b, <3>c, <3>d, <3>e, <3>f, <3>g
  <2>5. ASSUME NEW c \in Slots, ForkAllocFail(h, t, c) PROVE FamilyInv'
    BY <2>5 DEF ForkAllocFail, FreeTask, Return, ScanFrom, hartVars
  <2>6. ASSUME NEW c \in Slots, ForkCopyFail(h, t, c) PROVE FamilyInv'
    BY <2>6 DEF ForkCopyFail, Goto, taskVars, hartVars
  <2>7. ASSUME NEW c \in Slots, ForkFree(h, t, c) PROVE FamilyInv'
    BY <2>7 DEF ForkFree, FreeTask, Return, ScanFrom, hartVars
  <2>8. ASSUME NEW c \in Slots, ForkCommit(h, t, c) PROVE FamilyInv'
    BY <2>8 DEF ForkCommit, Goto, hartVars
  <2> QED
    BY <1>5, <2>1, <2>2, <2>3, <2>4, <2>5, <2>6, <2>7, <2>8 DEF ForkStep
<1>6. ASSUME NEW h \in Harts, NEW t \in Slots, WaitStep(h, t) PROVE FamilyInv'
  <2>1. CASE WaitNone(h, t)
    BY <2>1 DEF WaitNone, Return, ScanFrom, taskVars, hartVars
  <2>2. CASE WaitPending(h, t)
    BY <2>2 DEF WaitPending, ScanFrom, hartVars
  <2>3. CASE WaitSleep(h, t)
    BY <2>3 DEF WaitSleep, MaySleep, hartVars
  <2>4. ASSUME NEW c \in Slots, WaitNext(h, t, c) PROVE FamilyInv'
    BY <2>4 DEF WaitNext, taskVars, hartVars
  <2>5. ASSUME NEW c \in Slots, WaitReap(h, t, c) PROVE FamilyInv'
    BY <2>5 DEF WaitReap, Return, ScanFrom, hartVars
  <2> QED
    BY <1>6, <2>1, <2>2, <2>3, <2>4, <2>5 DEF WaitStep
<1>7. ASSUME NEW h \in Harts, NEW t \in Slots, ExitStep(h, t) PROVE FamilyInv'
  <2>1. CASE ExitBegin(h, t)
    BY <2>1 DEF ExitBegin, ExitBeginLk, Goto, ScanFrom, hartVars
  <2>2. CASE ExitWakeInit(h, t)
    BY <2>2 DEF ExitWakeInit, WakeWaitParent, hartVars
  <2>3. CASE ExitZombie(h, t)
    BY <2>3 DEF ExitZombie, ZombieLk, Goto, ScanFrom, hartVars
  <2>4. ASSUME NEW c \in Slots, ExitOrphan(h, t, c) PROVE FamilyInv'
    BY <2>4 DEF ExitOrphan, hartVars
  <2>5. ASSUME NEW c \in Slots, ExitWake(h, t, c) PROVE FamilyInv'
    BY <2>5 DEF ExitWake, WakeWaitParent, hartVars
  <2> QED
    BY <1>7, <2>1, <2>2, <2>3, <2>4, <2>5 DEF ExitStep
<1> QED
  BY <1>1, <1>2, <1>3, <1>4, <1>5, <1>6, <1>7 DEF Next, Kernel

-----------------------------------------------------------------------------
(* The lives of a slot                                                      *)

\* The free slots start empty, and what a slot owns follows its life.
LEMMA LifeInit == Init => LifeInv
  BY InitaskSlot, NTASKSAssumption
  DEF Init, LifeInv, MemInv, DeadInv, PidInv, ScanInv, Matches

\* Each step keeps a task's memory, pid and the progress of a scan in agreement with its life.
LEMMA LifeNext == TypeOK /\ SchedInv /\ FamilyInv /\ LifeInv /\ [Next]_vars => LifeInv'
<1> SUFFICES ASSUME TypeOK, SchedInv, FamilyInv, LifeInv, [Next]_vars PROVE LifeInv'
  OBVIOUS
<1> USE InitaskSlot, SlotInt, NoHartAssumption
    DEF TypeOK, SchedInv, FamilyInv, LifeInv, OneHart, WantInv, OnHartInv,
    ParkedInv, PointInv, LockInv, InitaskInv, ParentInv, OrphanInv, ForkRetInv,
    CallInv, SleepInv, PassedInv, MemInv, DeadInv, PidInv, ScanInv, Running,
    Free, StopsIn, Alive, Matches, Adopted, Counted, PagesAfterReap,
    DeadAfterReap
<1>1. CASE UNCHANGED vars
  BY <1>1 DEF vars, taskVars, hartVars, stackVars
<1>2. ASSUME NEW h \in Harts, NEW t \in Slots, Scheduler(h, t) PROVE LifeInv'
  <2>1. CASE SchedSee(h, t)
    BY <2>1 DEF SchedSee, taskVars, stackVars
  <2>2. CASE SchedTake(h, t)
    BY <2>2 DEF SchedTake, StillRunnable, stackVars
  <2>3. CASE SchedSkip(h, t)
    BY <2>3 DEF SchedSkip, taskVars, stackVars
  <2>4. CASE Sched(h, t)
    BY <2>4 DEF Sched, taskVars
  <2>5. CASE Resume(h, t)
    <3>1. ResumeEffect(t)
      BY <2>5, ResumeLemma
    <3>2. ScanInv
      OBVIOUS
    <3>a. MemInv'
      BY <2>5, <3>1, <3>2 DEF Resume, ScanFrom
    <3>b. DeadInv'
      BY <2>5, <3>1, <3>2 DEF Resume, ScanFrom
    <3>c. PidInv'
      BY <2>5, <3>1, <3>2 DEF Resume, ScanFrom
    <3>d. ScanInv'
      <4> HIDE
      DEF SchedInv, FamilyInv, LifeInv, OneHart, WantInv, OnHartInv, ParkedInv,
      PointInv, LockInv, InitaskInv, ParentInv, OrphanInv, ForkRetInv, CallInv,
      SleepInv, PassedInv, MemInv, DeadInv, PidInv, TypeOK, Running, Free,
      StopsIn, Alive, Adopted, Counted, PagesAfterReap, DeadAfterReap
      <4> QED BY <2>5, <3>1, <3>2 DEF Resume, ResumeEffect
    <3> QED BY <3>a, <3>b, <3>c, <3>d
  <2> QED
    BY <1>2, <2>1, <2>2, <2>3, <2>4, <2>5 DEF Scheduler
<1>3. ASSUME NEW h \in Harts, NEW t \in Slots, Yield(h, t) PROVE LifeInv'
  BY <1>3 DEF Yield, YieldLk, Preemptible, hartVars
<1>4. ASSUME NEW h \in Harts, NEW t \in Slots, User(h, t) PROVE LifeInv'
  <2>1. CASE Fork(h, t)
    BY <2>1 DEF Fork, Goto, ScanFrom, taskVars, hartVars
  <2>2. ASSUME NEW a \in WaitArgs, Wait(h, t, a) PROVE LifeInv'
    BY <2>2 DEF Wait, Goto, ScanFrom, taskVars, hartVars
  <2>3. CASE Exit(h, t)
    BY <2>3 DEF Exit, Goto, taskVars, hartVars
  <2>4. CASE Fault(h, t)
    BY <2>4 DEF Fault, Goto, hartVars
  <2>5. CASE DeadSpin(h, t)
    BY <2>5 DEF DeadSpin, Goto, taskVars, hartVars
  <2> QED
    BY <1>4, <2>1, <2>2, <2>3, <2>4, <2>5 DEF User
<1>5. ASSUME NEW h \in Harts, NEW t \in Slots, ForkStep(h, t) PROVE LifeInv'
  <2>1. CASE ForkNext(h, t)
    BY <2>1 DEF ForkNext, taskVars, hartVars
  <2>2. CASE ForkFull(h, t)
    BY <2>2 DEF ForkFull, Return, ScanFrom, taskVars, hartVars
  <2>3. CASE ForkRet(h, t)
    BY <2>3 DEF ForkRet, Return, ScanFrom, taskVars, hartVars
  <2>4. ASSUME NEW c \in Slots, ForkAlloc(h, t, c) PROVE LifeInv'
    <3>a. MemInv'
      BY <2>4 DEF ForkAlloc, hartVars
    <3>b. DeadInv'
      BY <2>4 DEF ForkAlloc, hartVars
    <3>c. PidInv'
      BY <2>4 DEF ForkAlloc, hartVars
    <3>d. ScanInv'
      BY <2>4 DEF ForkAlloc, hartVars
    <3> QED BY <3>a, <3>b, <3>c, <3>d
  <2>5. ASSUME NEW c \in Slots, ForkAllocFail(h, t, c) PROVE LifeInv'
    <3>a. MemInv'
      BY <2>5 DEF ForkAllocFail, FreeTask, Return, ScanFrom, hartVars
    <3>b. DeadInv'
      BY <2>5 DEF ForkAllocFail, FreeTask, Return, ScanFrom, hartVars
    <3>c. PidInv'
      BY <2>5 DEF ForkAllocFail, FreeTask, Return, ScanFrom, hartVars
    <3>d. ScanInv'
      BY <2>5 DEF ForkAllocFail, FreeTask, Return, ScanFrom, hartVars
    <3> QED BY <3>a, <3>b, <3>c, <3>d
  <2>6. ASSUME NEW c \in Slots, ForkCopyFail(h, t, c) PROVE LifeInv'
    BY <2>6 DEF ForkCopyFail, Goto, taskVars, hartVars
  <2>7. ASSUME NEW c \in Slots, ForkFree(h, t, c) PROVE LifeInv'
    <3>a. MemInv'
      BY <2>7 DEF ForkFree, FreeTask, Return, ScanFrom, hartVars
    <3>b. DeadInv'
      BY <2>7 DEF ForkFree, FreeTask, Return, ScanFrom, hartVars
    <3>c. PidInv'
      BY <2>7 DEF ForkFree, FreeTask, Return, ScanFrom, hartVars
    <3>d. ScanInv'
      BY <2>7 DEF ForkFree, FreeTask, Return, ScanFrom, hartVars
    <3> QED BY <3>a, <3>b, <3>c, <3>d
  <2>8. ASSUME NEW c \in Slots, ForkCommit(h, t, c) PROVE LifeInv'
    BY <2>8 DEF ForkCommit, Goto, hartVars
  <2> QED
    BY <1>5, <2>1, <2>2, <2>3, <2>4, <2>5, <2>6, <2>7, <2>8 DEF ForkStep
<1>6. ASSUME NEW h \in Harts, NEW t \in Slots, WaitStep(h, t) PROVE LifeInv'
  <2>1. CASE WaitNone(h, t)
    BY <2>1 DEF WaitNone, Return, ScanFrom, taskVars, hartVars
  <2>2. CASE WaitPending(h, t)
    BY <2>2 DEF WaitPending, ScanFrom, hartVars
  <2>3. CASE WaitSleep(h, t)
    BY <2>3 DEF WaitSleep, MaySleep, hartVars
  <2>4. ASSUME NEW c \in Slots, WaitNext(h, t, c) PROVE LifeInv'
    <3>1. cur'[t] = c + 1 /\ flag'[t] = Counted(t, c)
      BY <2>4 DEF WaitNext
    <3>2. \A x \in Slots \ {t} : cur'[x] = cur[x] /\ flag'[x] = flag[x]
      BY <2>4 DEF WaitNext
    <3>3. ScanInv
      OBVIOUS
    <3>a. MemInv'
      BY <2>4, <3>1, <3>2, <3>3 DEF WaitNext, taskVars, hartVars
    <3>b. DeadInv'
      BY <2>4, <3>1, <3>2, <3>3 DEF WaitNext, taskVars, hartVars
    <3>c. PidInv'
      BY <2>4, <3>1, <3>2, <3>3 DEF WaitNext, taskVars, hartVars
    <3>d. ScanInv'
      <4> SUFFICES ASSUME NEW x \in Slots, NEW y \in Slots,
                          x # initask, pc'[x] = "wait_scan", y < cur'[x], Matches(x, y)'
                   PROVE  flag'[x]
        OBVIOUS
      <4> HIDE
      DEF SchedInv, FamilyInv, LifeInv, OneHart, WantInv, OnHartInv, ParkedInv,
      PointInv, LockInv, InitaskInv, ParentInv, OrphanInv, ForkRetInv, CallInv,
      SleepInv, PassedInv, MemInv, DeadInv, PidInv, TypeOK, Running, Free,
      StopsIn, Alive, Adopted, Counted, PagesAfterReap, DeadAfterReap
      <4>1. Matches(x, y) /\ pc[x] = "wait_scan"
        BY <2>4 DEF WaitNext, taskVars
      <4>2. CASE x # t
        BY <4>1, <4>2, <3>2, <3>3
      <4>3. CASE x = t
        BY <4>1, <4>3, <3>1, <3>3, SlotStep, <2>4 DEF Counted, WaitNext
      <4> QED BY <4>2, <4>3
    <3> QED BY <3>a, <3>b, <3>c, <3>d
  <2>5. ASSUME NEW c \in Slots, WaitReap(h, t, c) PROVE LifeInv'
    <3>a. MemInv'
      BY <2>5 DEF WaitReap, Return, ScanFrom, hartVars
    <3>b. DeadInv'
      BY <2>5 DEF WaitReap, Return, ScanFrom, hartVars
    <3>c. PidInv'
      BY <2>5 DEF WaitReap, Return, ScanFrom, hartVars
    <3>d. ScanInv'
      BY <2>5 DEF WaitReap, Return, ScanFrom, hartVars
    <3> QED BY <3>a, <3>b, <3>c, <3>d
  <2> QED
    BY <1>6, <2>1, <2>2, <2>3, <2>4, <2>5 DEF WaitStep
<1>7. ASSUME NEW h \in Harts, NEW t \in Slots, ExitStep(h, t) PROVE LifeInv'
  <2>1. CASE ExitBegin(h, t)
    <3>a. MemInv'
      BY <2>1 DEF ExitBegin, ExitBeginLk, Goto, ScanFrom, hartVars
    <3>b. DeadInv'
      BY <2>1 DEF ExitBegin, ExitBeginLk, Goto, ScanFrom, hartVars
    <3>c. PidInv'
      BY <2>1 DEF ExitBegin, ExitBeginLk, Goto, ScanFrom, hartVars
    <3>d. ScanInv'
      BY <2>1 DEF ExitBegin, ExitBeginLk, Goto, ScanFrom, hartVars
    <3> QED BY <3>a, <3>b, <3>c, <3>d
  <2>2. CASE ExitWakeInit(h, t)
    BY <2>2 DEF ExitWakeInit, WakeWaitParent, hartVars
  <2>3. CASE ExitZombie(h, t)
    BY <2>3 DEF ExitZombie, ZombieLk, Goto, ScanFrom, hartVars
  <2>4. ASSUME NEW c \in Slots, ExitOrphan(h, t, c) PROVE LifeInv'
    BY <2>4 DEF ExitOrphan, hartVars
  <2>5. ASSUME NEW c \in Slots, ExitWake(h, t, c) PROVE LifeInv'
    BY <2>5 DEF ExitWake, WakeWaitParent, hartVars
  <2> QED
    BY <1>7, <2>1, <2>2, <2>3, <2>4, <2>5 DEF ExitStep
<1> QED
  BY <1>1, <1>2, <1>3, <1>4, <1>5, <1>6, <1>7 DEF Next, Kernel

-----------------------------------------------------------------------------
(* The theorems                                                             *)

\* What holds at boot and is kept by every operation of the process layer,
\* for any number of slots, harts and pids.
THEOREM Inductive == Spec => []IInv
<1>1. Init => IInv
  BY TypeInit, SchedInit, FamilyInit, LifeInit DEF IInv
<1>2. IInv /\ [Next]_vars => IInv'
  BY TypeNext, SchedNext, FamilyNext, LifeNext DEF IInv
<1> QED BY <1>1, <1>2, PTL DEF Spec

\* Two harts never execute one task, although its lock changes hands in the
\* middle of swtch().
THEOREM OneHartHolds == Spec => []OneHart
<1>1. IInv => OneHart
  BY DEF IInv, SchedInv
<1> QED BY <1>1, Inductive, PTL

\* The holder of the lock of a task that does not run finds it off every
\* hart with its context stored, as the comments in yield() and kexit() say.
THEOREM StoppedHolds == Spec => []StoppedWhenUnlocked
<1>1. IInv => StoppedWhenUnlocked
  BY DEF IInv, TypeOK, States, SchedInv, OnHartInv, ParkedInv, PointInv, Free, StoppedWhenUnlocked
<1> QED BY <1>1, Inductive, PTL

\* The panics of sched() and of release() are unreachable.
THEOREM SchedAssertsHold == Spec => []SchedAsserts
<1>1. IInv => SchedAsserts
  <2> SUFFICES ASSUME IInv, NEW h \in Harts, NEW t \in Slots, ts[h] = t
               PROVE  /\ call[t] # "none" /\ ~saved[t] =>
                           state[t] # "RUNNING" /\ {x \in Slots : lk[x] = h} = {t}
                      /\ call[t] # "none" => lk[t] = h
                      /\ call[t] = "none" /\ pc[t] = "fork_copy" => lk[cur[t]] = h
    BY DEF SchedAsserts
  <2>1. call[t] # "none" => lk[t] = h /\ pc[t] # "fork_copy"
    BY DEF IInv, SchedInv, OnHartInv
  <2>2. call[t] # "none" /\ ~saved[t] => state[t] # "RUNNING"
    BY DEF IInv, SchedInv, OnHartInv, StopsIn
  <2>3. \A x \in Slots : lk[x] = h => x = t \/ pc[t] = "fork_copy"
    BY DEF IInv, SchedInv, LockInv
  <2>4. pc[t] = "fork_copy" => lk[cur[t]] = h
    BY DEF IInv, SchedInv, LockInv
  <2> QED BY <2>1, <2>2, <2>3, <2>4
<1> QED BY <1>1, Inductive, PTL

\* A task that may run has its trapframe, user code its page table, and a
\* free slot nothing.
THEOREM PagesHold == Spec => []PagesMatchLife
<1>1. IInv => PagesMatchLife
  <2> SUFFICES ASSUME IInv PROVE PagesMatchLife
    OBVIOUS
  <2>1. ASSUME NEW h \in Harts, NEW t \in Slots, Running(h, t), pc[t] = "user"
        PROVE  state[t] = "RUNNING"
    BY <2>1 DEF IInv, SchedInv, OnHartInv, Running
  <2> QED BY <2>1 DEF IInv, LifeInv, MemInv, PagesMatchLife
<1> QED BY <1>1, Inductive, PTL

\* A parent pointer leads to a living task, also while father and child
\* exit on different harts.
THEOREM ParentHolds == Spec => []ParentAlive
<1>1. IInv => ParentAlive
  BY DEF IInv, FamilyInv, ParentInv, Alive, ParentAlive
<1> QED BY <1>1, Inductive, PTL

\* No interleaving of waitpid(), kexit() of a child and kexit() of its
\* father loses the wake-up of a sleeping waitpid().
THEOREM NoLostWakeupHolds == Spec => []NoLostWakeup
<1>1. IInv => NoLostWakeup
  <2> SUFFICES ASSUME IInv, NEW p \in Slots, NEW c \in Slots,
                      state[p] = "SLEEP", Matches(p, c), state[c] = "ZOMBIE"
               PROVE  \/ pc[c] = "exit_wake" /\ call[c] = "none"
                      \/ p = initask /\ \E q \in Slots : pc[q] = "exit_orphans" /\ flag[q]
    BY DEF NoLostWakeup
  <2>1. ~child_exit_pending[p] /\ call[p] = "waitpid"
    BY DEF IInv, FamilyInv, SleepInv
  <2>2. pc[p] = "wait_scan" /\ cur[p] \notin Slots
    BY <2>1 DEF IInv, SchedInv, PointInv
  <2>3. c < cur[p]
    BY <2>2, NTASKSAssumption DEF IInv, TypeOK, Slots
  <2> QED BY <2>1, <2>2, <2>3 DEF IInv, FamilyInv, PassedInv
<1> QED BY <1>1, Inductive, PTL

\* kfork() returns the pid of its child although it reads it unlocked.
THEOREM ForkReturnsHolds == Spec => []ForkReturnsChild
<1>1. IInv => ForkReturnsChild
  BY DEF IInv, FamilyInv, ForkRetInv, ForkReturnsChild
<1> QED BY <1>1, Inductive, PTL

\* waitpid() of a task other than init does not overlook a child.
THEOREM NoChildHolds == Spec => []NoChildIsRight
<1>1. IInv => NoChildIsRight
  <2> SUFFICES ASSUME IInv, NEW t \in Slots, NEW c \in Slots, pc[t] = "wait_scan",
                      cur[t] \notin Slots, ~flag[t], t # initask
               PROVE  ~Matches(t, c)
    BY DEF NoChildIsRight
  <2>1. c < cur[t]
    BY NTASKSAssumption DEF IInv, TypeOK, Slots
  <2> QED BY <2>1 DEF IInv, LifeInv, ScanInv
<1> QED BY <1>1, Inductive, PTL

\* No task other than init goes on marked dead or is caught in the loop of
\* user_trap_hanlder(): in particular no recycled slot starts a life marked.
THEOREM NotDeadHolds == Spec => []NotDeadBeforeExit
<1>1. IInv => NotDeadBeforeExit
  BY DEF IInv, LifeInv, DeadInv, NotDeadBeforeExit
<1> QED BY <1>1, Inductive, PTL

\* A hart that spins holds no lock but that of its own task, at the end of
\* kexit().  Who spins for that lock is two steps away from a hart that does
\* not spin: the father whose lock is wanted is alive, so its hart is on
\* its way through sched() or swtch().  So no set of harts is stuck.
LEMMA SpinChain ==
  ASSUME IInv, NEW h \in Harts, NEW g \in Harts, NEW e \in Harts, NEW f \in Harts,
         Spins(h, g), Spins(g, e)
  PROVE  ~Spins(e, f)
<1>1. PICK u \in Slots : Running(g, u) /\ pc[u] # "fork_copy" /\ Needs(u) # NULL
                         /\ lk[Needs(u)] = e
  BY DEF Spins
<1>2. PICK t \in Slots : Running(h, t) /\ pc[t] # "fork_copy" /\ Needs(t) # NULL
                         /\ lk[Needs(t)] = g
  BY DEF Spins
<1>3. Needs(t) \in Slots /\ Needs(u) \in Slots
  BY <1>1, <1>2, InitaskSlot DEF IInv, TypeOK, Needs
<1>4. Needs(t) = u
  BY <1>1, <1>2, <1>3 DEF IInv, SchedInv, LockInv, Running
<1>5. pc[u] = "exit_wake"
  BY <1>1, <1>2, <1>4, NoHartAssumption DEF IInv, SchedInv, OnHartInv, Running
<1>6. Needs(u) = parent[u]
  BY <1>5 DEF Needs
<1>7. state[parent[u]] \in Alive
  BY <1>1, <1>3, <1>6 DEF IInv, FamilyInv, ParentInv
<1>8. ts[e] = parent[u]
  BY <1>1, <1>3, <1>6, <1>7 DEF IInv, SchedInv, LockInv, Alive
<1>9. call[parent[u]] # "none"
  BY <1>1, <1>3, <1>6, <1>7, <1>8, NoHartAssumption
  DEF IInv, SchedInv, OnHartInv, Alive
<1> QED BY <1>3, <1>6, <1>8, <1>9 DEF Spins, Running

\* The locks of tasks cannot deadlock any set of harts, nor one by itself.
THEOREM NoSpinCycleHolds == Spec => []NoSpinCycle
<1>1. IInv => NoSpinCycle
  <2> SUFFICES ASSUME IInv, NEW H \in (SUBSET Harts) \ {{}},
                      \A h \in H : \E g \in H : Spins(h, g)
               PROVE  FALSE
    BY DEF NoSpinCycle
  <2>1. PICK h \in H : TRUE
    OBVIOUS
  <2>2. PICK g \in H : Spins(h, g)
    OBVIOUS
  <2>3. PICK e \in H : Spins(g, e)
    OBVIOUS
  <2>4. PICK f \in H : Spins(e, f)
    OBVIOUS
  <2> QED BY <2>2, <2>3, <2>4, SpinChain
<1> QED BY <1>1, Inductive, PTL

\* A zombie only leaves the table by being reaped, a free slot only enters
\* it through alloc_task(), and a new pid is greater than any in use.
THEOREM LifeCycleHolds == Spec => LifeCycle
<1> DEFINE Step ==
      \A t \in Slots :
        /\ state[t] = "ZOMBIE" => state'[t] \in {"ZOMBIE", "INITLIZED"}
        /\ state[t] = "INITLIZED" => state'[t] \in {"INITLIZED", "USED"}
        /\ pid'[t] \notin {0, pid[t]} => \A c \in Slots : pid[c] < pid'[t]
<1>1. ASSUME IInv, [Next]_vars PROVE [Step]_vars
  <2> SUFFICES ASSUME Next PROVE Step
    BY <1>1
  <2> USE <1>1 DEF IInv, TypeOK
  <2>1. ASSUME NEW h \in Harts, NEW t \in Slots, Scheduler(h, t) \/ Yield(h, t) \/ User(h, t)
        PROVE  Step
    BY <2>1 DEF Scheduler, SchedSee, SchedTake, StillRunnable, SchedSkip, Sched, Resume,
       Yield, User, Fork, Wait, Exit, Fault, DeadSpin, taskVars
  <2>2. ASSUME NEW h \in Harts, NEW t \in Slots, ForkStep(h, t) PROVE Step
    <3>1. ASSUME NEW c \in Slots, ForkAlloc(h, t, c) PROVE Step
      BY <3>1 DEF ForkAlloc, LifeInv, PidInv
    <3>2. ASSUME NEW c \in Slots, ForkAllocFail(h, t, c) PROVE Step
      BY <3>2 DEF ForkAllocFail, FreeTask
    <3>3. ASSUME NEW c \in Slots, ForkFree(h, t, c) \/ ForkCommit(h, t, c) PROVE Step
      <4>1. state[c] = "USED"
        BY <3>3 DEF ForkFree, ForkCommit, SchedInv, LockInv
      <4> QED BY <3>3, <4>1 DEF ForkFree, ForkCommit, FreeTask
    <3> QED
      BY <2>2, <3>1, <3>2, <3>3
      DEF ForkStep, ForkNext, ForkFull, ForkRet, ForkCopyFail, taskVars
  <2>3. ASSUME NEW h \in Harts, NEW t \in Slots, WaitStep(h, t) PROVE Step
    <3>1. ASSUME NEW c \in Slots, WaitReap(h, t, c) PROVE Step
      BY <3>1 DEF WaitReap
    <3>2. CASE WaitSleep(h, t)
      BY <3>2 DEF WaitSleep, Running, SchedInv, OnHartInv
    <3> QED BY <2>3, <3>1, <3>2 DEF WaitStep, WaitNone, WaitPending, WaitNext, taskVars
  <2>4. ASSUME NEW h \in Harts, NEW t \in Slots, ExitStep(h, t) PROVE Step
    <3>1. CASE ExitZombie(h, t)
      BY <3>1 DEF ExitZombie, Running, SchedInv, OnHartInv
    <3>2. CASE ExitWakeInit(h, t)
      BY <3>2 DEF ExitWakeInit, WakeWaitParent
    <3>3. ASSUME NEW c \in Slots, ExitWake(h, t, c) PROVE Step
      BY <3>3 DEF ExitWake, WakeWaitParent
    <3> QED BY <2>4, <3>1, <3>2, <3>3 DEF ExitStep, ExitBegin, ExitOrphan
  <2> QED BY <2>1, <2>2, <2>3, <2>4 DEF Next, Kernel
<1> QED BY <1>1, Inductive, PTL DEF Spec, LifeCycle

\* The three properties of harts and tasks together: what the hand-over of
\* ts->lk through swtch() has to guarantee.
THEOREM HartSafeHolds == Spec => []HartSafe
<1>1. OneHart /\ StoppedWhenUnlocked /\ SchedAsserts => HartSafe
  BY DEF HartSafe
<1> QED BY <1>1, OneHartHolds, StoppedHolds, SchedAssertsHold, PTL

\* What a slot owns and is marked with fits its life.
THEOREM SlotSafeHolds == Spec => []SlotSafe
<1>1. PagesMatchLife /\ NotDeadBeforeExit => SlotSafe
  BY DEF SlotSafe
<1> QED BY <1>1, PagesHold, NotDeadHolds, PTL

\* Fathers and children agree on each other: kexit(), waitpid() and kfork()
\* meet no stale pointer and overlook no child.
THEOREM FamilySafeHolds == Spec => []FamilySafe
<1>1. ParentAlive /\ NoChildIsRight /\ ForkReturnsChild => FamilySafe
  BY DEF FamilySafe
<1> QED BY <1>1, ParentHolds, NoChildHolds, ForkReturnsHolds, PTL

(***************************************************************************)
(* UserPath: the text of a path and the place it leads to                  *)
(***************************************************************************)
Names == DOMAIN NameLen
Paths == Seq(Names) \cup {NoPath}
Start(u, c) == IF u.abs THEN <<>> ELSE c

\* The constants.
LEMMA PathConstants ==
  /\ "." \notin Names /\ ".." \notin Names /\ "toolong" \notin Names /\ (\A s \in Names : NameLen[s] \in Nat \ {0})
  /\ PathBuf \in Nat /\ CwdBuf \in Nat /\ 1 < CwdBuf /\ CwdBuf <= PathBuf /\ PDirs \subseteq Seq(Names)
  /\ MaxSegs \in Nat /\ Segs = Names \cup {".", ".."}
<1>1. {".", "..", "toolong"} \cap DOMAIN NameLen = {}
  BY UserPathAssumption
<1>2. "." \notin Names /\ ".." \notin Names /\ "toolong" \notin Names
  BY <1>1 DEF Names
<1>3. PathBuf \in Nat /\ CwdBuf \in Nat /\ 1 < CwdBuf /\ CwdBuf <= PathBuf /\ MaxSegs \in Nat
  BY UserPathAssumption
<1>4. \A s \in Names : NameLen[s] \in Nat \ {0}
  BY UserPathAssumption DEF Names
<1>5. PDirs \subseteq Seq(Names)
  <2>1. Tree \subseteq Seq(Names)
    BY UserPathAssumption DEF Names
  <2> DEFINE none == <<>>
  <2>2. none \in Seq(Names) /\ PDirs = Tree \cup {none}
    BY DEF PDirs
  <2> HIDE DEF none
  <2> QED BY <2>1, <2>2
<1> QED BY <1>2, <1>3, <1>4, <1>5 DEF Segs, Names

\* No path of names is the mark of one that is too long.
LEMMA NotNoPath == ASSUME NEW p \in Seq(Names) PROVE p # NoPath
<1> SUFFICES ASSUME p = NoPath PROVE FALSE
  OBVIOUS
<1>1. Len(p) = 1 /\ p[1] = "toolong" /\ 1 \in 1..1
  BY DEF NoPath
<1>2. p[1] \in Names
  BY <1>1
<1> QED BY <1>1, <1>2, PathConstants

\* The parent of a path that is not the root has all of its names but the last.
LEMMA ParentIs ==
  ASSUME NEW p \in Seq(Names)
  PROVE  /\ Parent(p) \in Seq(Names) /\ (p = <<>> => Parent(p) = p)
         /\ p # <<>> => Len(Parent(p)) = Len(p) - 1 /\ \A i \in 1..Len(p) - 1 : Parent(p)[i] = p[i]
<1>1. CASE p = <<>>
  BY <1>1 DEF Parent
<1>2. CASE p # <<>>
  <2> DEFINE m == Len(p)
             q == m - 1
             y == SubSeq(p, 1, q)
  <2>1. m \in Nat /\ m > 0 /\ q \in Int /\ q >= 0 /\ q = m - 1 /\ (\A i \in 1..q : p[i] \in Names)
    BY <1>2
  <2> HIDE DEF q
  <2>2. /\ y \in Seq(Names) /\ Len(y) = (IF 1 <= q THEN q - 1 + 1 ELSE 0)
        /\ \A i \in 1..q - 1 + 1 : y[i] = p[1 + i - 1]
    BY <2>1, 1 \in Int, SubSeqProperties
  <2> HIDE DEF y
  <2>3. Len(y) = q
    BY <2>1, <2>2
  <2>4. ASSUME NEW i \in 1..q PROVE y[i] = p[i]
    <3>1. 1 + i - 1 = i /\ i \in 1..q - 1 + 1
      BY <2>1
    <3> QED BY <2>2, <3>1
  <2>5. Parent(p) = y
    BY <1>2 DEF Parent, y, q
  <2> QED BY <1>2, <2>2, <2>3, <2>4, <2>5 DEF q
<1> QED BY <1>1, <1>2

\* The length of a text, counted along it.
Counts(f, p) == f[0] = 0 /\ \A i \in 1..Len(p) : f[i] = f[i - 1] + 1 + NameLen[p[i]]

\* The length of a text, as the loop counts it.
LEMMA TextLenIs ==
  ASSUME NEW p \in Seq(Names)
  PROVE  \E f \in [0..Len(p) -> Nat] : Counts(f, p) /\ TextLen(p) = IF p = <<>> THEN 1 ELSE f[Len(p)]
<1> DEFINE n == Len(p)
           F == [i \in 1..n |-> [x \in Nat |-> x + 1 + NameLen[p[i]]]]
           Body(g) == [i \in 0..n |-> IF i = 0 THEN 0 ELSE g[i - 1] + 1 + NameLen[p[i]]]
           st == CHOOSE g : g = Body(g)
<1>1. n \in Nat /\ \A i \in 1..n : NameLen[p[i]] \in Nat
  <2>1. \A i \in 1..n : p[i] \in Names
    OBVIOUS
  <2> QED BY <2>1, PathConstants
<1>2. F \in [1..n -> [Nat -> Nat]]
  BY <1>1
<1>3. PICK f \in [0..n -> Nat] : IsLoop(f, n, 0, F)
  <2> HIDE DEF F, n
  <2> QED BY <1>1, <1>2, 0 \in Nat, LoopExists
<1>4. f[0] = 0 /\ \A i \in 1..n : f[i] = f[i - 1] + 1 + NameLen[p[i]]
  <2>1. ASSUME NEW i \in 1..n PROVE f[i] = f[i - 1] + 1 + NameLen[p[i]]
    <3>1. i - 1 \in 0..n /\ f[i - 1] \in Nat
      BY <1>1
    <3>2. f[i] = F[i][f[i - 1]]
      BY <1>3 DEF IsLoop
    <3> QED BY <3>1, <3>2
  <2> QED BY <1>3, <2>1 DEF IsLoop
<1>5. f = Body(f)
  <2>1. ASSUME NEW i \in 0..n PROVE f[i] = Body(f)[i]
    BY <1>4
  <2> QED BY <2>1
<1>6. st = Body(st)
  BY <1>5
<1>7. \A i \in 0..n : st[i] = f[i]
  <2> HIDE DEF st
  <2>1. st[0] = 0 /\ \A i \in 1..n : st[i] = st[i - 1] + 1 + NameLen[p[i]]
    <3>1. ASSUME NEW i \in 1..n PROVE i \in 0..n /\ i # 0
      BY <1>1
    <3>2. 0 \in 0..n
      BY <1>1
    <3>3. \A i \in 0..n : st[i] = IF i = 0 THEN 0 ELSE st[i - 1] + 1 + NameLen[p[i]]
      BY <1>6
    <3> HIDE DEF n
    <3> QED BY <3>1, <3>2, <3>3
  <2>2. Alike(st, f, n)
    BY <1>4, <2>1 DEF Alike
  <2> QED BY <1>1, <2>2, LoopsAgree
<1>8. TextLen(p) = IF p = <<>> THEN 1 ELSE st[n]
  BY DEF TextLen
<1>9. st[n] = f[n]
  <2>1. n \in 0..n
    BY <1>1
  <2> HIDE DEF st, n
  <2> QED BY <1>7, <2>1
<1> HIDE DEF st
<1> QED BY <1>4, <1>8, <1>9 DEF Counts

\* Going up never makes the text longer.
LEMMA ParentShorter ==
  ASSUME NEW p \in Seq(Names)
  PROVE  TextLen(p) \in Nat /\ TextLen(Parent(p)) \in Nat /\ TextLen(Parent(p)) <= TextLen(p)
<1> DEFINE q == Parent(p)
           n == Len(p)
<1>0. n \in Nat /\ q \in Seq(Names)
  BY ParentIs
<1>1. PICK f \in [0..n -> Nat] : Counts(f, p) /\ TextLen(p) = IF p = <<>> THEN 1 ELSE f[n]
  BY TextLenIs
<1>2. PICK g \in [0..Len(q) -> Nat] : Counts(g, q) /\ TextLen(q) = IF q = <<>> THEN 1 ELSE g[Len(q)]
  BY <1>0, TextLenIs
<1>3. CASE p = <<>>
  <2>1. q = p
    BY <1>3, ParentIs
  <2> HIDE DEF q
  <2> QED BY <1>1, <1>3, <2>1
<1>4. CASE p # <<>>
  <2>1. n > 0 /\ Len(q) = n - 1 /\ \A i \in 1..n - 1 : q[i] = p[i]
    BY <1>4, ParentIs
  <2> HIDE DEF q
  <2>2. n \in 1..n /\ n - 1 \in 0..n /\ n - 1 \in Nat
    BY <1>0, <2>1
  <2>3. Alike(g, f, n - 1)
    <3>1. \A i \in 1..n - 1 : i \in 1..n
      BY <1>0
    <3> HIDE DEF n
    <3> QED BY <1>1, <1>2, <2>1, <3>1 DEF Alike, Counts, n
  <2>4. g[n - 1] = f[n - 1]
    <3>1. \A i \in 0..n - 1 : g[i] = f[i]
      BY <2>2, <2>3, LoopsAgree
    <3> QED BY <2>2, <3>1
  <2>5. f[n] = f[n - 1] + 1 + NameLen[p[n]] /\ f[n] \in Nat /\ f[n - 1] \in Nat
    BY <1>1, <2>2 DEF Counts
  <2>6. NameLen[p[n]] \in Nat \ {0}
    <3>1. p[n] \in Names
      BY <2>2
    <3> QED BY <3>1, PathConstants
  <2>7. TextLen(p) = f[n]
    BY <1>1, <1>4
  <2>8. TextLen(q) = 1 \/ TextLen(q) = f[n - 1]
    BY <1>2, <2>1, <2>4
  <2> HIDE DEF n
  <2>9. f[n] >= 1 /\ f[n - 1] <= f[n]
    BY <2>5, <2>6
  <2> QED BY <2>5, <2>7, <2>8, <2>9 DEF q
<1> QED BY <1>3, <1>4

-----------------------------------------------------------------------------
\* One component more, of the text and of the walk.
LEMMA SegmentIs ==
  ASSUME NEW p \in Seq(Names), NEW s \in Segs
  PROVE  /\ Segment(NoPath, s) = NoPath /\ Enter(NoPath, s) = NoPath
         /\ s = "." => Segment(p, s) = p /\ Enter(p, s) = p
         /\ s = ".." => Segment(p, s) = Parent(p) /\ Enter(p, s) = Parent(p)
         /\ s \in Names => /\ Append(p, s) \in Seq(Names)
                           /\ Segment(p, s) = IF TextLen(Append(p, s)) < PathBuf THEN Append(p, s) ELSE NoPath
                           /\ Enter(p, s) = IF Append(p, s) \in PDirs THEN Append(p, s) ELSE NoPath
         /\ s = "." \/ s = ".." \/ s \in Names
<1>1. p # NoPath
  BY NotNoPath
<1>2. Segment(NoPath, s) = NoPath /\ Enter(NoPath, s) = NoPath
  BY DEF Segment, Enter
<1>3. s = "." \/ s = ".." \/ s \in Names
  BY PathConstants
<1>4. ASSUME s = "." PROVE Segment(p, s) = p /\ Enter(p, s) = p
  BY <1>1, <1>4 DEF Segment, Enter
<1>5. ASSUME s = ".." PROVE Segment(p, s) = Parent(p) /\ Enter(p, s) = Parent(p)
  BY <1>1, <1>5 DEF Segment, Enter
<1>6. ASSUME s \in Names
      PROVE  /\ Append(p, s) \in Seq(Names)
             /\ Segment(p, s) = IF TextLen(Append(p, s)) < PathBuf THEN Append(p, s) ELSE NoPath
             /\ Enter(p, s) = IF Append(p, s) \in PDirs THEN Append(p, s) ELSE NoPath
  <2>1. s # "." /\ s # ".."
    BY <1>6, PathConstants
  <2>2. Append(p, s) \in Seq(Names)
    BY <1>6
  <2> QED BY <1>1, <2>1, <2>2 DEF Segment, Enter
<1> QED BY <1>2, <1>3, <1>4, <1>5, <1>6

\* A path of names whose text fits, or none.
Fits(p) == p # NoPath => p \in Seq(Names) /\ TextLen(p) < PathBuf

\* One segment leaves a text that fits, or no text.
LEMMA SegmentFits ==
  ASSUME NEW p \in Paths, NEW s \in Segs
  PROVE  Segment(p, s) \in Paths /\ Enter(p, s) \in Paths /\ (Fits(p) => Fits(Segment(p, s)))
<1>1. CASE p = NoPath
  <2>1. Segment(p, s) = NoPath /\ Enter(p, s) = NoPath
    BY <1>1 DEF Segment, Enter
  <2> QED BY <2>1 DEF Paths, Fits
<1>2. CASE p \in Seq(Names)
  <2>1. p # NoPath
    BY <1>2, NotNoPath
  <2>2. CASE s = "."
    BY <1>2, <2>2, SegmentIs DEF Paths
  <2>3. CASE s = ".."
    <3>1. Segment(p, s) = Parent(p) /\ Enter(p, s) = Parent(p) /\ Parent(p) \in Seq(Names)
      BY <1>2, <2>3, SegmentIs, ParentIs
    <3>2. TextLen(p) \in Nat /\ TextLen(Parent(p)) \in Nat /\ TextLen(Parent(p)) <= TextLen(p) /\ PathBuf \in Nat
      BY <1>2, ParentShorter, PathConstants
    <3>3. Fits(p) => Fits(Parent(p))
      BY <2>1, <3>1, <3>2 DEF Fits
    <3> QED BY <3>1, <3>3 DEF Paths
  <2>4. CASE s \in Names
    <3>1. /\ Append(p, s) \in Seq(Names)
          /\ Segment(p, s) = IF TextLen(Append(p, s)) < PathBuf THEN Append(p, s) ELSE NoPath
          /\ Enter(p, s) = IF Append(p, s) \in PDirs THEN Append(p, s) ELSE NoPath
      BY <1>2, <2>4, SegmentIs
    <3> QED BY <3>1 DEF Paths, Fits
  <2>5. s = "." \/ s = ".." \/ s \in Names
    BY PathConstants
  <2> QED BY <2>2, <2>3, <2>4, <2>5
<1> QED BY <1>1, <1>2 DEF Paths

\* The loop of do_build_user_path(), and the walk, component by component.
Given == [abs : BOOLEAN, segs : Seq(Segs)]
Builds(f, a, segs) == f[0] = a /\ \A i \in 1..Len(segs) : f[i] = Segment(f[i - 1], segs[i])
Walks(f, a, segs) == f[0] = a /\ \A i \in 1..Len(segs) : f[i] = Enter(f[i - 1], segs[i])

\* do_build_user_path() is a loop over the segments: its states, from the first to the last.
LEMMA BuildRun ==
  ASSUME NEW u \in Given, NEW c, Start(u, c) \in Paths
  PROVE  \E f \in [0..Len(u.segs) -> Paths] : Builds(f, Start(u, c), u.segs) /\ do_build_user_path(u, c) = f[Len(u.segs)]
<1> DEFINE segs == u.segs
           n == Len(segs)
           a == Start(u, c)
           F == [i \in 1..n |-> [x \in Paths |-> Segment(x, segs[i])]]
           Body(g) == [i \in 0..n |-> IF i = 0 THEN a ELSE Segment(g[i - 1], segs[i])]
           st == CHOOSE g : g = Body(g)
<1>1. n \in Nat /\ (\A i \in 1..n : segs[i] \in Segs) /\ n \in 0..n
  BY DEF Given
<1>8. do_build_user_path(u, c) = st[n]
  BY DEF do_build_user_path, Start
<1> HIDE DEF segs, a
<1>2. F \in [1..n -> [Paths -> Paths]]
  BY <1>1, SegmentFits
<1>3. PICK f \in [0..n -> Paths] : IsLoop(f, n, a, F)
  <2> HIDE DEF F, n
  <2> QED BY <1>1, <1>2, LoopExists DEF a
<1>4. f[0] = a /\ \A i \in 1..n : f[i] = Segment(f[i - 1], segs[i])
  <2>1. ASSUME NEW i \in 1..n PROVE f[i] = Segment(f[i - 1], segs[i])
    <3>1. i - 1 \in 0..n /\ f[i - 1] \in Paths
      BY <1>1
    <3>2. f[i] = F[i][f[i - 1]]
      BY <1>3 DEF IsLoop
    <3> QED BY <3>1, <3>2
  <2> QED BY <1>3, <2>1 DEF IsLoop
<1>5. f = Body(f)
  <2>1. ASSUME NEW i \in 0..n PROVE f[i] = Body(f)[i]
    BY <1>4
  <2> QED BY <2>1
<1>6. st = Body(st)
  BY <1>5
<1>7. \A i \in 0..n : st[i] = f[i]
  <2> HIDE DEF st
  <2>1. st[0] = a /\ \A i \in 1..n : st[i] = Segment(st[i - 1], segs[i])
    BY <1>6
  <2>2. Alike(st, f, n)
    BY <1>4, <2>1 DEF Alike
  <2> QED BY <1>1, <2>2, LoopsAgree
<1>9. do_build_user_path(u, c) = f[n]
  <2> HIDE DEF st
  <2> QED BY <1>1, <1>7, <1>8
<1> HIDE DEF st, F
<1> QED BY <1>4, <1>9 DEF Builds, a, segs

\* So is the walk of the tree.
LEMMA WalkRun ==
  ASSUME NEW a \in Paths, NEW segs \in Seq(Segs)
  PROVE  \E f \in [0..Len(segs) -> Paths] : Walks(f, a, segs) /\ WalkTo(a, segs) = f[Len(segs)]
<1> DEFINE n == Len(segs)
           F == [i \in 1..n |-> [x \in Paths |-> Enter(x, segs[i])]]
           Body(g) == [i \in 0..n |-> IF i = 0 THEN a ELSE Enter(g[i - 1], segs[i])]
           st == CHOOSE g : g = Body(g)
<1>1. n \in Nat /\ (\A i \in 1..n : segs[i] \in Segs) /\ n \in 0..n
  OBVIOUS
<1>8. WalkTo(a, segs) = st[n]
  BY DEF WalkTo
<1>2. F \in [1..n -> [Paths -> Paths]]
  BY <1>1, SegmentFits
<1>3. PICK f \in [0..n -> Paths] : IsLoop(f, n, a, F)
  <2> HIDE DEF F, n
  <2> QED BY <1>1, <1>2, LoopExists
<1>4. f[0] = a /\ \A i \in 1..n : f[i] = Enter(f[i - 1], segs[i])
  <2>1. ASSUME NEW i \in 1..n PROVE f[i] = Enter(f[i - 1], segs[i])
    <3>1. i - 1 \in 0..n /\ f[i - 1] \in Paths
      BY <1>1
    <3>2. f[i] = F[i][f[i - 1]]
      BY <1>3 DEF IsLoop
    <3> QED BY <3>1, <3>2
  <2> QED BY <1>3, <2>1 DEF IsLoop
<1>5. f = Body(f)
  <2>1. ASSUME NEW i \in 0..n PROVE f[i] = Body(f)[i]
    BY <1>4
  <2> QED BY <2>1
<1>6. st = Body(st)
  BY <1>5
<1>7. \A i \in 0..n : st[i] = f[i]
  <2> HIDE DEF st
  <2>1. st[0] = a /\ \A i \in 1..n : st[i] = Enter(st[i - 1], segs[i])
    BY <1>6
  <2>2. Alike(st, f, n)
    BY <1>4, <2>1 DEF Alike
  <2> QED BY <1>1, <2>2, LoopsAgree
<1>9. WalkTo(a, segs) = f[n]
  <2> HIDE DEF st
  <2> QED BY <1>1, <1>7, <1>8
<1> HIDE DEF st, F
<1> QED BY <1>4, <1>9 DEF Walks

-----------------------------------------------------------------------------
\* Where the walk gets, the text gets too unless it became too long.
LEMMA SamePlace ==
  ASSUME NEW segs \in Seq(Segs), NEW a \in Paths, NEW f \in [0..Len(segs) -> Paths], NEW g \in [0..Len(segs) -> Paths],
         Builds(f, a, segs), Walks(g, a, segs), g[Len(segs)] # NoPath
  PROVE  f[Len(segs)] \in {g[Len(segs)], NoPath}
<1> DEFINE n == Len(segs)
           S == {i \in 0..n : g[i] # NoPath => f[i] \in {g[i], NoPath}}
<1>1. n \in Nat /\ n \in 0..n /\ 0 \in 0..n /\ \A i \in 1..n : i \in 0..n /\ i - 1 \in 0..n /\ segs[i] \in Segs
  OBVIOUS
<1>2. 0 \in S
  BY <1>1 DEF Builds, Walks
<1>3. ASSUME NEW i \in 1..n, i - 1 \in S PROVE i \in S
  <2> DEFINE p == f[i - 1]
             d == g[i - 1]
             s == segs[i]
  <2>1. p \in Paths /\ d \in Paths /\ s \in Segs /\ (d # NoPath => p \in {d, NoPath})
    BY <1>1, <1>3
  <2>2. f[i] = Segment(p, s) /\ g[i] = Enter(d, s)
    BY DEF Builds, Walks
  <2> HIDE DEF p, d, s
  <2> SUFFICES ASSUME g[i] # NoPath PROVE f[i] \in {g[i], NoPath}
    BY <1>1
  <2>3. d \in Seq(Names)
    <3>1. CASE d = NoPath
      <4>1. Enter(d, s) = NoPath
        BY <3>1 DEF Enter
      <4> QED BY <2>2, <4>1
    <3> QED BY <2>1, <3>1 DEF Paths
  <2>4. d # NoPath
    BY <2>3, NotNoPath
  <2>5. CASE p = NoPath
    <3>1. Segment(p, s) = NoPath
      BY <2>5 DEF Segment
    <3> QED BY <2>2, <3>1
  <2>6. CASE p = d
    <3>1. CASE s = "." \/ s = ".."
      BY <2>1, <2>2, <2>3, <2>6, <3>1, SegmentIs
    <3>2. CASE s \in Names
      <4>1. /\ Segment(d, s) = IF TextLen(Append(d, s)) < PathBuf THEN Append(d, s) ELSE NoPath
            /\ Enter(d, s) = IF Append(d, s) \in PDirs THEN Append(d, s) ELSE NoPath
        BY <2>1, <2>3, <3>2, SegmentIs
      <4> QED BY <2>2, <2>6, <4>1
    <3> QED BY <2>1, <3>1, <3>2, PathConstants
  <2> QED BY <2>1, <2>4, <2>5, <2>6
<1> HIDE DEF S
<1>4. \A i \in 0..n : i \in S
  <2>1. \A i \in 1..n : i - 1 \in S => i \in S
    BY <1>3
  <2> HIDE DEF n
  <2> QED BY <1>1, <1>2, <2>1, UpTo
<1> QED BY <1>1, <1>4 DEF S

\* The text fits at every component.
LEMMA BuildFits ==
  ASSUME NEW segs \in Seq(Segs), NEW a \in Paths, NEW f \in [0..Len(segs) -> Paths], Builds(f, a, segs), Fits(a)
  PROVE  Fits(f[Len(segs)])
<1> DEFINE n == Len(segs)
           S == {i \in 0..n : Fits(f[i])}
<1>1. n \in Nat /\ n \in 0..n /\ 0 \in 0..n /\ \A i \in 1..n : i \in 0..n /\ i - 1 \in 0..n /\ segs[i] \in Segs
  OBVIOUS
<1>2. 0 \in S
  BY <1>1 DEF Builds
<1>3. ASSUME NEW i \in 1..n, i - 1 \in S PROVE i \in S
  <2>1. f[i - 1] \in Paths /\ segs[i] \in Segs /\ Fits(f[i - 1]) /\ f[i] = Segment(f[i - 1], segs[i])
    BY <1>1, <1>3 DEF Builds
  <2>2. Fits(f[i])
    BY <2>1, SegmentFits
  <2> QED BY <1>1, <2>2
<1> HIDE DEF S
<1>4. \A i \in 0..n : i \in S
  <2>1. \A i \in 1..n : i - 1 \in S => i \in S
    BY <1>3
  <2> HIDE DEF n
  <2> QED BY <1>1, <1>2, <2>1, UpTo
<1> QED BY <1>1, <1>4 DEF S

\* The components from k + 1 on, and the first k.
LEMMA Pieces ==
  ASSUME NEW segs \in Seq(Segs), NEW k \in 0..Len(segs)
  PROVE  /\ SubSeq(segs, 1, k) \in Seq(Segs) /\ Len(SubSeq(segs, 1, k)) = k
         /\ \A i \in 1..k : SubSeq(segs, 1, k)[i] = segs[i]
         /\ SubSeq(segs, k + 1, Len(segs)) \in Seq(Segs) /\ Len(SubSeq(segs, k + 1, Len(segs))) = Len(segs) - k
         /\ \A i \in 1..Len(segs) - k : SubSeq(segs, k + 1, Len(segs))[i] = segs[k + i]
<1> DEFINE n == Len(segs)
           x == SubSeq(segs, 1, k)
           j == k + 1
           y == SubSeq(segs, j, n)
<1>1. n \in Nat /\ n \in Int /\ k \in Int /\ k >= 0 /\ k <= n /\ j = k + 1 /\ j \in Int /\ \A i \in 1..n : segs[i] \in Segs
  OBVIOUS
<1> HIDE DEF n, j
<1>2. (\A i \in 1..k : segs[i] \in Segs) /\ (\A i \in j..n : segs[i] \in Segs)
  BY <1>1
<1>3. x \in Seq(Segs) /\ Len(x) = (IF 1 <= k THEN k - 1 + 1 ELSE 0) /\ \A i \in 1..k - 1 + 1 : x[i] = segs[1 + i - 1]
  BY <1>1, <1>2, 1 \in Int, SubSeqProperties
<1>4. y \in Seq(Segs) /\ Len(y) = (IF j <= n THEN n - j + 1 ELSE 0) /\ \A i \in 1..n - j + 1 : y[i] = segs[j + i - 1]
  BY <1>1, <1>2, SubSeqProperties
<1> HIDE DEF x, y
<1>5. Len(x) = k /\ Len(y) = n - k
  BY <1>1, <1>3, <1>4
<1>6. ASSUME NEW i \in 1..k PROVE x[i] = segs[i]
  <2>1. 1 + i - 1 = i /\ i \in 1..k - 1 + 1
    BY <1>1
  <2> QED BY <1>3, <2>1
<1>7. ASSUME NEW i \in 1..n - k PROVE y[i] = segs[k + i]
  <2>1. j + i - 1 = k + i /\ i \in 1..n - j + 1
    BY <1>1
  <2> QED BY <1>4, <2>1
<1> QED BY <1>3, <1>4, <1>5, <1>6, <1>7 DEF x, y, n, j

\* Going on from the k-th component is going on.
LEMMA BuildTwice ==
  ASSUME NEW segs \in Seq(Segs), NEW k \in 0..Len(segs), NEW a, NEW f, NEW g, NEW h, Builds(f, a, segs),
         Builds(g, a, SubSeq(segs, 1, k)), Builds(h, f[k], SubSeq(segs, k + 1, Len(segs)))
  PROVE  g[k] = f[k] /\ h[Len(segs) - k] = f[Len(segs)]
<1> DEFINE n == Len(segs)
           x == SubSeq(segs, 1, k)
           y == SubSeq(segs, k + 1, n)
           e == [i \in 0..n - k |-> f[k + i]]
           m == n - k
<1>0. n \in Nat /\ k \in Nat /\ m \in Nat /\ m = n - k /\ k \in 0..k /\ m \in 0..m
  OBVIOUS
<1>1. Len(x) = k /\ (\A i \in 1..k : x[i] = segs[i]) /\ Len(y) = m /\ (\A i \in 1..m : y[i] = segs[k + i])
  BY Pieces
<1>2. Builds(f, a, segs) /\ Builds(g, a, x) /\ Builds(h, f[k], y)
  OBVIOUS
<1> HIDE DEF x, y
<1>3. Alike(g, f, k)
  <2>1. ASSUME NEW i \in 1..k PROVE i \in 1..n
    BY <1>0
  <2> QED BY <1>1, <1>2, <2>1 DEF Builds, Alike
<1>4. g[k] = f[k]
  <2>1. \A i \in 0..k : g[i] = f[i]
    BY <1>0, <1>3, LoopsAgree
  <2> QED BY <1>0, <2>1
<1>5. Alike(h, e, m)
  <2>1. e[0] = f[k] /\ h[0] = f[k]
    <3>1. 0 \in 0..m /\ k + 0 = k
      BY <1>0
    <3> QED BY <1>2, <3>1 DEF Builds
  <2>2. ASSUME NEW i \in 1..m, h[i - 1] = e[i - 1] PROVE h[i] = e[i]
    <3>1. i \in 0..m /\ i - 1 \in 0..m /\ k + i \in 1..n /\ k + (i - 1) = (k + i) - 1
      BY <1>0
    <3>2. h[i] = Segment(h[i - 1], y[i]) /\ y[i] = segs[k + i]
      BY <1>1, <1>2 DEF Builds
    <3>3. e[i] = f[k + i] /\ e[i - 1] = f[(k + i) - 1]
      BY <3>1
    <3>4. f[k + i] = Segment(f[(k + i) - 1], segs[k + i])
      BY <1>2, <3>1 DEF Builds
    <3> HIDE DEF e
    <3> QED BY <2>2, <3>2, <3>3, <3>4
  <2> HIDE DEF e, m
  <2> QED BY <2>1, <2>2 DEF Alike
<1>6. h[m] = e[m]
  <2> HIDE DEF e, m
  <2>1. \A i \in 0..m : h[i] = e[i]
    BY <1>0, <1>5, LoopsAgree
  <2> QED BY <1>0, <2>1
<1>7. e[m] = f[n]
  <2>1. k + m = n
    BY <1>0
  <2>2. e[m] = f[k + m]
    BY <1>0
  <2> QED BY <2>1, <2>2
<1> QED BY <1>4, <1>6, <1>7

-----------------------------------------------------------------------------
\* The inductive invariant.
PInv == cwd_path \in PDirs /\ TextLen(cwd_path) < CwdBuf /\ upath \in Given

\* The invariant says it all: what is claimed of a path holds of every path.
LEMMA InvResolves == ASSUME PInv PROVE PathsResolve
<1> DEFINE a == Start(upath, cwd_path)
           segs == upath.segs
           n == Len(segs)
           p == do_build_user_path(upath, cwd_path)
<1>1. cwd_path \in Seq(Names) /\ upath \in Given /\ segs \in Seq(Segs) /\ n \in Nat /\ upath.abs \in BOOLEAN
  BY PathConstants DEF PInv, Given
<1>2. a \in Seq(Names) /\ a \in Paths
  <2> DEFINE none == <<>>
  <2>1. none \in Seq(Names) /\ a = IF upath.abs THEN none ELSE cwd_path
    BY DEF Start
  <2> HIDE DEF none
  <2> QED BY <1>1, <2>1 DEF Paths
<1>3. Fits(a)
  <2>1. TextLen(<<>>) = 1
    BY DEF TextLen
  <2>2. TextLen(a) = 1 \/ TextLen(a) = TextLen(cwd_path)
    BY <2>1 DEF Start
  <2>3. TextLen(a) \in Nat /\ TextLen(cwd_path) \in Nat
    BY <1>1, <1>2, ParentShorter
  <2>4. TextLen(a) < PathBuf
    BY <2>2, <2>3, PathConstants DEF PInv
  <2> QED BY <1>2, <2>4 DEF Fits
<1>4. PICK f \in [0..n -> Paths] : Builds(f, a, segs) /\ p = f[n]
  BY <1>1, <1>2, BuildRun
<1> HIDE DEF a, p
<1>5. TextIsPlace
  <2>1. PICK g \in [0..n -> Paths] : Walks(g, a, segs) /\ WalkTo(a, segs) = g[n]
    BY <1>1, <1>2, WalkRun
  <2>2. g[n] # NoPath => f[n] \in {g[n], NoPath}
    <3> HIDE DEF segs
    <3> QED BY <1>1, <1>2, <1>4, <2>1, SamePlace
  <2>3. WalkTo(a, segs) # NoPath => p \in {WalkTo(a, segs), NoPath}
    BY <1>4, <2>1, <2>2
  <2> QED BY <2>3 DEF TextIsPlace, PInv, a, p, Start
<1>6. PathsCompose
  <2> SUFFICES ASSUME p # NoPath
               PROVE  /\ TextLen(p) < PathBuf /\ \A i \in DOMAIN p : p[i] \notin {".", ".."}
                      /\ \A k \in 0..n :
                           do_build_user_path([abs |-> FALSE, segs |-> SubSeq(segs, k + 1, n)],
                             do_build_user_path([upath EXCEPT !.segs = SubSeq(segs, 1, k)], cwd_path)) = p
    BY <1>1 DEF PathsCompose, p, Given
  <2>1. Fits(p)
    <3> HIDE DEF segs
    <3> QED BY <1>1, <1>2, <1>3, <1>4, BuildFits
  <2>2. p \in Seq(Names) /\ TextLen(p) < PathBuf
    BY <2>1 DEF Fits
  <2>3. \A i \in DOMAIN p : p[i] \notin {".", ".."}
    <3>1. \A i \in DOMAIN p : p[i] \in Names
      BY <2>2
    <3> QED BY <3>1, PathConstants
  <2>4. ASSUME NEW k \in 0..n
        PROVE  do_build_user_path([abs |-> FALSE, segs |-> SubSeq(segs, k + 1, n)],
                 do_build_user_path([upath EXCEPT !.segs = SubSeq(segs, 1, k)], cwd_path)) = p
    <3> DEFINE x == SubSeq(segs, 1, k)
               y == SubSeq(segs, k + 1, n)
               u1 == [upath EXCEPT !.segs = x]
               u2 == [abs |-> FALSE, segs |-> y]
               c == do_build_user_path(u1, cwd_path)
    <3>1. x \in Seq(Segs) /\ Len(x) = k /\ y \in Seq(Segs) /\ Len(y) = n - k
      BY <1>1, Pieces
    <3> HIDE DEF x, y
    <3>2. u1 \in Given /\ u2 \in Given /\ u1.segs = x /\ u2.segs = y /\ u1.abs = upath.abs /\ u2.abs = FALSE
      BY <1>1, <3>1 DEF Given
    <3>3. Start(u1, cwd_path) = a
      BY <3>2 DEF Start, a
    <3> HIDE DEF u1, u2
    <3>4. PICK g \in [0..k -> Paths] : Builds(g, a, x) /\ c = g[k]
      BY <1>2, <3>1, <3>2, <3>3, BuildRun
    <3> HIDE DEF c
    <3>5. c \in Paths /\ Start(u2, c) = c
      BY <1>1, <3>2, <3>4 DEF Start
    <3>6. PICK h \in [0..n - k -> Paths] : Builds(h, c, y) /\ do_build_user_path(u2, c) = h[n - k]
      BY <3>1, <3>2, <3>5, BuildRun
    <3>7. g[k] = f[k]
      <4>1. Alike(g, f, k)
        <5>1. \A i \in 1..k : x[i] = segs[i] /\ i \in 1..n
          BY <1>1, Pieces DEF x
        <5> QED BY <1>4, <3>1, <3>4, <5>1 DEF Alike, Builds
      <4>2. k \in Nat /\ k \in 0..k
        BY <1>1
      <4>3. \A i \in 0..k : g[i] = f[i]
        BY <4>1, <4>2, LoopsAgree
      <4> QED BY <4>2, <4>3
    <3>8. Builds(h, f[k], y)
      BY <3>4, <3>6, <3>7
    <3>9. h[n - k] = f[n]
      <4>1. segs \in Seq(Segs) /\ k \in 0..Len(segs) /\ n = Len(segs)
        BY <1>1
      <4>2. Builds(f, a, segs)
        BY <1>4
      <4>3. Builds(g, a, SubSeq(segs, 1, k))
        BY <3>4 DEF x
      <4>4. Builds(h, f[k], SubSeq(segs, k + 1, Len(segs)))
        BY <3>8 DEF y
      <4> HIDE DEF n, segs, a
      <4>5. h[Len(segs) - k] = f[Len(segs)]
        BY <4>1, <4>2, <4>3, <4>4, BuildTwice
      <4> QED BY <4>1, <4>5
    <3> QED BY <1>4, <3>6, <3>9 DEF c, u1, u2, x, y
  <2> QED BY <2>2, <2>3, <2>4
<1> QED BY <1>5, <1>6 DEF PathsResolve

\* The text made of a path names the place it leads to, or the path is refused, for every tree, buffer and path of
\* any length; and it is the same whether the path is walked at once or in two parts.
THEOREM PathsResolveHolds == PSpec => []PathsResolve
<1>1. PInit => PInv
  <2> SUFFICES ASSUME PInit PROVE PInv
    OBVIOUS
  <2> DEFINE none == <<>>
  <2>1. cwd_path = none /\ upath = [abs |-> TRUE, segs |-> none] /\ TextLen(none) = 1 /\ none \in PDirs
    BY DEF PInit, TextLen, PDirs
  <2>2. none \in Seq(Segs)
    OBVIOUS
  <2> HIDE DEF none
  <2> QED BY <2>1, <2>2, PathConstants DEF PInv, Given
<1>2. PInv /\ [PNext]_pVars => PInv'
  <2> SUFFICES ASSUME PInv, [PNext]_pVars PROVE PInv'
    OBVIOUS
  <2>1. CASE set_cwd_path
    BY <2>1 DEF set_cwd_path, CwdFits, PInv
  <2>2. ASSUME NEW u \in UserPaths, Give(u) PROVE PInv'
    <3>1. u \in Given
      <4>1. ASSUME NEW n \in 0..MaxSegs, NEW q \in [1..n -> Segs] PROVE q \in Seq(Segs)
        <5>1. n \in Nat
          BY PathConstants
        <5> QED BY <5>1, IsASeq
      <4> QED BY <4>1 DEF UserPaths, Given
    <3> QED BY <2>2, <3>1 DEF Give, PInv
  <2>3. CASE UNCHANGED pVars
    BY <2>3 DEF pVars, PInv
  <2> QED BY <2>1, <2>2, <2>3 DEF PNext
<1>3. PInv => PathsResolve
  BY InvResolves
<1> QED BY <1>1, <1>2, <1>3, PTL DEF PSpec
=============================================================================
