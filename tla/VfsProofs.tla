----------------------------- MODULE VfsProofs ------------------------------
(***************************************************************************)
(* Proofs about the sleep lock (module Sleeplock), the open files it       *)
(* protects (module FileTable) and the inode cache below them (module      *)
(* Vfs): the reference counts, and the names.                              *)
(*                                                                         *)
(* For any set of tasks and any number of harts, the sleep lock of         *)
(* kernel/sleeplock.c implements SleepMutex and keeps its queue; that is   *)
(* the first part.  The second is the count of a struct file.              *)
(*                                                                         *)
(* refcount counts references that are nowhere in the state: an entry of   *)
(* ofile is one, a system call between fd_get() and file_put() has one, and *)
(* the child that kfork() builds has one for each entry copied so far.  The *)
(* references of a task (Refs) say how many those are at every point of every *)
(* operation; a task is Before the change of the count, or past it, while it *)
(* is in file_get() or file_put().  RefSet numbers them, and CountInv says *)
(* that refcount is their number.  FreeInv relates the count to the one    *)
(* file_put() that found it at zero, which alone may free the object.      *)
(*                                                                         *)
(* The lemmas go by what a step does: a step of the sleep lock moves no    *)
(* reference (LockMove), a step between two critical sections only renames *)
(* one (FileMove, EndMove), kfork() moves them to the child, and only Count, *)
(* the critical section of file_get() and file_put(), adds or drops one.   *)
(*                                                                         *)
(* An inode is pointed to by the cache, by the inodes below it that are    *)
(* cached, by the super blocks, and by the callers: an open file, a working *)
(* directory, and the one or two inodes a call has in hand.  RefInv says   *)
(* that the count of every inode is the number of these pointers, and the  *)
(* rest of InodeInv is what keeps it so: PcInv, where a call has a second  *)
(* inode in hand; NewInv, that an inode a call has made is known to nobody *)
(* else until it is linked; RootInv, that the roots are those of the mounted *)
(* disks.                                                                  *)
(*                                                                         *)
(* The counts of ALL inodes are compared, 0 for one that is not in the heap. *)
(* So a step is right if it moves as many references as pointers (Moved,   *)
(* Settle), and an inode that goes away has none left.  DiskInv needs      *)
(* Quiet: an umount looks at descriptors and working directories only, and *)
(* a walk on its disk would stay there.                                    *)
(*                                                                         *)
(* NameInv is about names: the cache holds the entries of the disks, each  *)
(* disk inode once, and with an inode the directories above it.  A walk    *)
(* that fills the cache reads the disk and inserts in two steps, so        *)
(* CallsKnow carries from one to the other what it has read.               *)
(***************************************************************************)
EXTENDS Vfs, FileTable, SleeplockInv, Integers, TLAPS, FiniteSetTheorems

(***************************************************************************)
(* The sleep lock                                                          *)
(***************************************************************************)

\* The indices of a queue, after Append and after Tail.
LEMMA QueueFacts ==
  ASSUME NEW q \in Seq(Tasks)
  PROVE  /\ Len(q) \in Nat
         /\ \A t \in Tasks : /\ Append(q, t) \in Seq(Tasks)
                             /\ Len(Append(q, t)) = Len(q) + 1
                             /\ Append(q, t)[Len(q) + 1] = t
                             /\ \A i \in 1..Len(q) : Append(q, t)[i] = q[i]
         /\ q # <<>> => /\ Head(q) \in Tasks /\ Head(q) = q[1] /\ Len(q) >= 1
                        /\ Tail(q) \in Seq(Tasks)
                        /\ Len(Tail(q)) = Len(q) - 1
                        /\ \A i \in 1..(Len(q) - 1) : Tail(q)[i] = q[i + 1]
  OBVIOUS

\* Every variable of the sleep lock starts in its type,
LEMMA TypeInit == Init => TypeOK
<1> SUFFICES ASSUME Init PROVE TypeOK
  OBVIOUS
<1>1. wait_queue \in Seq(Tasks)
  BY DEF Init
<1> QED BY <1>1 DEF Init, TypeOK, Contexts, Points, SLEEP_CHAN_CHILD

\* and every step keeps it there.
LEMMA TypeNext == TypeOK /\ [Next]_vars => TypeOK'
<1> SUFFICES ASSUME TypeOK, [Next]_vars PROVE TypeOK'
  OBVIOUS
<1> USE DEF TypeOK, Contexts, Points, Goto, slkVars
<1>1. CASE UNCHANGED vars
  BY <1>1 DEF vars, taskVars
<1>2. ASSUME NEW t \in Tasks, Switch(t) \/ Yield(t) PROVE TypeOK'
  <2>1. CASE SwitchIn(t)
    BY <2>1 DEF SwitchIn
  <2>2. CASE SwitchOut(t)
    BY <2>2 DEF SwitchOut
  <2>3. CASE Resume(t)
    BY <2>3 DEF Resume, SLEEP_CHAN_CHILD
  <2>4. CASE Yield(t)
    BY <2>4 DEF Yield
  <2> QED BY <1>2, <2>1, <2>2, <2>3, <2>4 DEF Switch
<1>3. ASSUME NEW t \in Tasks, Ask(t) \/ WaitChild(t) \/ WakeWaitParent(t) PROVE TypeOK'
  <2>1. CASE Ask(t)
    BY <2>1 DEF Ask
  <2>2. CASE WaitChild(t)
    BY <2>2 DEF WaitChild, SLEEP_CHAN_CHILD
  <2>3. CASE WakeWaitParent(t)
    BY <2>3 DEF WakeWaitParent
  <2> QED BY <1>3, <2>1, <2>2, <2>3
<1>4. ASSUME NEW t \in Tasks, Kernel(t) PROVE TypeOK'
  <2>1. CASE AcqSpin(t) \/ AcqGet(t)
    BY <2>1 DEF AcqSpin, AcqGet
  <2>2. CASE AcqSleep(t)
    BY <2>2, QueueFacts DEF AcqSleep, AcqSleepLk
  <2>3. CASE RelSpin(t) \/ RelDrop(t, "wake1") \/ RelDrop(t, "wakeall")
    BY <2>3 DEF RelSpin, RelDrop
  <2>4. CASE RelWake(t)
    BY <2>4, QueueFacts DEF RelWake, AfterWake
  <2>5. CASE RelEmpty(t) \/ RelDone(t)
    BY <2>5 DEF RelEmpty, RelDone
  <2> QED BY <1>4, <2>1, <2>2, <2>3, <2>4, <2>5 DEF Kernel
<1> QED BY <1>1, <1>2, <1>3, <1>4 DEF Next

\* Each step keeps who runs, who spins and who owns the lock in agreement.
LEMMA LockNext ==
  ASSUME TypeOK, ContextInv, SpinInv, OwnerInv, QueueIsSleepers, [Next]_vars
  PROVE  (ContextInv /\ SpinInv /\ OwnerInv)'
<1> USE NoneAssumption DEF TypeOK, Executes, Goto, Free, slkVars, ContextInv, SpinInv, OwnerInv, SLEEP_CHAN_CHILD
<1>1. CASE UNCHANGED vars
  BY <1>1 DEF vars, taskVars
<1>2. ASSUME NEW t \in Tasks, SwitchIn(t) PROVE (ContextInv /\ SpinInv /\ OwnerInv)'
  BY <1>2 DEF SwitchIn
<1>3. ASSUME NEW t \in Tasks, SwitchOut(t) PROVE (ContextInv /\ SpinInv /\ OwnerInv)'
  BY <1>3 DEF SwitchOut
<1>4. ASSUME NEW t \in Tasks, Resume(t) PROVE (ContextInv /\ SpinInv /\ OwnerInv)'
  BY <1>4 DEF Resume
<1>5. ASSUME NEW t \in Tasks, Yield(t) PROVE (ContextInv /\ SpinInv /\ OwnerInv)'
  BY <1>5 DEF Yield
<1>6. ASSUME NEW t \in Tasks, Ask(t) PROVE (ContextInv /\ SpinInv /\ OwnerInv)'
  BY <1>6 DEF Ask
<1>7. ASSUME NEW t \in Tasks, AcqSpin(t) PROVE (ContextInv /\ SpinInv /\ OwnerInv)'
  BY <1>7 DEF AcqSpin
<1>8. ASSUME NEW t \in Tasks, AcqGet(t) PROVE (ContextInv /\ SpinInv /\ OwnerInv)'
  BY <1>8 DEF AcqGet
<1>9. ASSUME NEW t \in Tasks, AcqSleep(t) PROVE (ContextInv /\ SpinInv /\ OwnerInv)'
  BY <1>9 DEF AcqSleep, AcqSleepLk
<1>10. ASSUME NEW t \in Tasks, RelSpin(t) PROVE (ContextInv /\ SpinInv /\ OwnerInv)'
  BY <1>10 DEF RelSpin
<1>11. ASSUME NEW t \in Tasks, NEW p, RelDrop(t, p), p \in {"wake1", "wakeall"} PROVE (ContextInv /\ SpinInv /\ OwnerInv)'
  BY <1>11 DEF RelDrop
<1>12. ASSUME NEW t \in Tasks, RelWake(t) PROVE (ContextInv /\ SpinInv /\ OwnerInv)'
  <2>1. pc[Head(wait_queue)] = "asleep" /\ state[Head(wait_queue)] = "SLEEP" /\ Head(wait_queue) \in Tasks
    BY <1>12, QueueFacts DEF RelWake, QueueIsSleepers, Queued
  <2> QED BY <1>12, <2>1 DEF RelWake, AfterWake
<1>13. ASSUME NEW t \in Tasks, RelEmpty(t) PROVE (ContextInv /\ SpinInv /\ OwnerInv)'
  BY <1>13 DEF RelEmpty
<1>14. ASSUME NEW t \in Tasks, RelDone(t) PROVE (ContextInv /\ SpinInv /\ OwnerInv)'
  BY <1>14 DEF RelDone
<1>15. ASSUME NEW t \in Tasks, WaitChild(t) PROVE (ContextInv /\ SpinInv /\ OwnerInv)'
  BY <1>15 DEF WaitChild
<1>16. ASSUME NEW t \in Tasks, WakeWaitParent(t) PROVE (ContextInv /\ SpinInv /\ OwnerInv)'
  BY <1>16 DEF WakeWaitParent, WokenByChild
<1> QED
  BY <1>1, <1>2, <1>3, <1>4, <1>5, <1>6, <1>7, <1>8, <1>9, <1>10,
     <1>11, <1>12, <1>13, <1>14, <1>15, <1>16 DEF Next, Switch, Kernel

\* Each step keeps the queue the list of the sleepers, and leaves nobody asleep on a free lock.
LEMMA QueueNext ==
  ASSUME TypeOK, ContextInv, SpinInv, OwnerInv, QueueIsSleepers, NoneStranded, [Next]_vars
  PROVE  (QueueIsSleepers /\ NoneStranded)'
<1> USE NoneAssumption DEF TypeOK, Executes, Goto, Free, slkVars, ContextInv, SpinInv, OwnerInv, QueueIsSleepers, Queued, NoneStranded
<1>1. CASE UNCHANGED vars
  BY <1>1 DEF vars, taskVars
<1>2. ASSUME NEW t \in Tasks, SwitchIn(t) PROVE (QueueIsSleepers /\ NoneStranded)'
  BY <1>2 DEF SwitchIn
<1>3. ASSUME NEW t \in Tasks, SwitchOut(t) PROVE (QueueIsSleepers /\ NoneStranded)'
  BY <1>3 DEF SwitchOut
<1>4. ASSUME NEW t \in Tasks, Resume(t) PROVE (QueueIsSleepers /\ NoneStranded)'
  BY <1>4 DEF Resume
<1>5. ASSUME NEW t \in Tasks, Yield(t) PROVE (QueueIsSleepers /\ NoneStranded)'
  BY <1>5 DEF Yield
<1>6. ASSUME NEW t \in Tasks, Ask(t) PROVE (QueueIsSleepers /\ NoneStranded)'
  BY <1>6 DEF Ask
<1>7. ASSUME NEW t \in Tasks, AcqSpin(t) PROVE (QueueIsSleepers /\ NoneStranded)'
  BY <1>7 DEF AcqSpin
<1>8. ASSUME NEW t \in Tasks, AcqGet(t) PROVE (QueueIsSleepers /\ NoneStranded)'
  BY <1>8 DEF AcqGet
<1>9. ASSUME NEW t \in Tasks, AcqSleep(t) PROVE (QueueIsSleepers /\ NoneStranded)'
  BY <1>9 DEF AcqSleep, AcqSleepLk
<1>10. ASSUME NEW t \in Tasks, RelSpin(t) PROVE (QueueIsSleepers /\ NoneStranded)'
  BY <1>10 DEF RelSpin
<1>11. ASSUME NEW t \in Tasks, NEW p, RelDrop(t, p), p \in {"wake1", "wakeall"} PROVE (QueueIsSleepers /\ NoneStranded)'
  BY <1>11 DEF RelDrop
<1>12. ASSUME NEW t \in Tasks, RelWake(t) PROVE (QueueIsSleepers /\ NoneStranded)'
  <2> DEFINE q == wait_queue
             x == Head(q)
  <2>1. q # <<>> /\ wait_queue' = Tail(q) /\ state' = [state EXCEPT ![x] = "RUNNABLE"]
        /\ x \in Tasks /\ x # t
    <3>1. q # <<>> /\ wait_queue' = Tail(q) /\ state' = [state EXCEPT ![x] = "RUNNABLE"]
      BY <1>12 DEF RelWake, AfterWake
    <3>2. x \in Tasks /\ Len(q) \in Nat /\ Len(q) >= 1 /\ x = q[1]
      BY <3>1, QueueFacts
    <3>3. pc[x] = "asleep"
      BY <3>2
    <3>4. x # t
      BY <1>12, <3>3 DEF RelWake
    <3> QED BY <3>1, <3>2, <3>4
  <2>2. /\ Len(q) \in Nat /\ Len(q) >= 1 /\ x = q[1]
        /\ Len(Tail(q)) = Len(q) - 1
        /\ \A i \in 1..(Len(q) - 1) : Tail(q)[i] = q[i + 1]
    BY <2>1, QueueFacts
  <2>3. pc[x] = "asleep" /\ pc'[x] = "asleep" /\ state'[x] = "RUNNABLE"
    BY <1>12, <2>1, <2>2 DEF RelWake
  <2>4. NoneStranded'
    BY <2>1, <2>3 DEF NoneStranded
  <2>5. \A u \in Tasks : Queued(u)' <=> Queued(u) /\ u # x
    <3>1. ASSUME NEW u \in Tasks, NEW i \in 1..Len(wait_queue'), wait_queue'[i] = u
          PROVE  Queued(u) /\ u # x
      BY <2>1, <2>2, <3>1
    <3>2. ASSUME NEW u \in Tasks, NEW i \in 1..Len(q), q[i] = u, u # x
          PROVE  i - 1 \in 1..Len(wait_queue') /\ wait_queue'[i - 1] = u
      BY <2>1, <2>2, <3>2
    <3> QED BY <3>1, <3>2
  <2>6. \A u \in Tasks \ {x} :
          state'[u] = state[u] /\ (pc'[u] = "asleep" <=> pc[u] = "asleep")
    BY <1>12, <2>1 DEF RelWake
  <2>7. \A i, j \in 1..Len(wait_queue') : wait_queue'[i] = wait_queue'[j] => i = j
    BY <2>1, <2>2
  <2>8. \A u \in Tasks : Queued(u)' <=> pc'[u] = "asleep" /\ state'[u] = "SLEEP"
    <3>1. \A u \in Tasks : Queued(u) <=> pc[u] = "asleep" /\ state[u] = "SLEEP"
      OBVIOUS
    <3> HIDE DEF Queued, QueueIsSleepers, ContextInv, SpinInv, OwnerInv, NoneStranded
    <3> SUFFICES ASSUME NEW u \in Tasks
                 PROVE  Queued(u)' <=> pc'[u] = "asleep" /\ state'[u] = "SLEEP"
      OBVIOUS
    <3>2. CASE u = x
      BY <2>3, <2>5, <3>2
    <3>3. CASE u # x
      <4>1. state'[u] = state[u] /\ (pc'[u] = "asleep" <=> pc[u] = "asleep")
        BY <2>6, <3>3
      <4>2. Queued(u)' <=> Queued(u)
        BY <2>5, <3>3
      <4> QED BY <3>1, <4>1, <4>2
    <3> QED BY <3>2, <3>3
  <2> QED BY <2>4, <2>7, <2>8
<1>13. ASSUME NEW t \in Tasks, RelEmpty(t) PROVE (QueueIsSleepers /\ NoneStranded)'
  BY <1>13 DEF RelEmpty
<1>14. ASSUME NEW t \in Tasks, RelDone(t) PROVE (QueueIsSleepers /\ NoneStranded)'
  BY <1>14 DEF RelDone
<1>15. ASSUME NEW t \in Tasks, WaitChild(t) PROVE (QueueIsSleepers /\ NoneStranded)'
  BY <1>15 DEF WaitChild
<1>16. ASSUME NEW t \in Tasks, WakeWaitParent(t) PROVE (QueueIsSleepers /\ NoneStranded)'
  BY <1>16 DEF WakeWaitParent, WokenByChild
<1> QED
  BY <1>1, <1>2, <1>3, <1>4, <1>5, <1>6, <1>7, <1>8, <1>9, <1>10,
     <1>11, <1>12, <1>13, <1>14, <1>15, <1>16 DEF Next, Switch, Kernel

-----------------------------------------------------------------------------
(* The theorems                                                             *)

\* The inductive invariant holds at boot and is kept by every step.
THEOREM Inductive == Spec => []IInv
<1>1. Init => IInv
  <2> SUFFICES ASSUME Init PROVE IInv
    OBVIOUS
  <2>1. TypeOK
    BY TypeInit
  <2>2. ContextInv /\ SpinInv /\ OwnerInv
    BY NoneAssumption DEF Init, ContextInv, SpinInv, OwnerInv, SLEEP_CHAN_CHILD
  <2>3. QueueIsSleepers /\ NoneStranded
    BY DEF Init, QueueIsSleepers, Queued, NoneStranded
  <2> QED BY <2>1, <2>2, <2>3 DEF IInv
<1>2. IInv /\ [Next]_vars => IInv'
  BY TypeNext, LockNext, QueueNext DEF IInv
<1> QED BY <1>1, <1>2, PTL DEF Spec

\* The wait queue of a sleep lock is exactly the set of tasks that sleep in
\* acquire_sleep(), whatever children of theirs end meanwhile.
THEOREM QueueHolds == Spec => []QueueIsSleepers
<1>1. IInv => QueueIsSleepers
  BY DEF IInv
<1> QED BY <1>1, Inductive, PTL

\* release_sleep() never leaves the lock free and the sleepers alone.
THEOREM NoneStrandedHolds == Spec => []NoneStranded
<1>1. IInv => NoneStranded
  BY DEF IInv
<1> QED BY <1>1, Inductive, PTL

\* A task that a scheduler may take has left its hart.
THEOREM NoneRunsTwiceHolds == Spec => []NoneRunsTwice
<1>1. IInv => NoneRunsTwice
  BY NoneAssumption DEF IInv, TypeOK, Contexts, ContextInv, Free, NoneRunsTwice
<1> QED BY <1>1, Inductive, PTL

\* The panics "Already a Owner" and "Not a Owner" are unreachable for a
\* caller that pairs its calls.
THEOREM OwnerTestsHold == Spec => []OwnerTests
<1>1. IInv => OwnerTests
  BY DEF IInv, OwnerInv, OwnerTests
<1> QED BY <1>1, Inductive, PTL

\* The sleep lock implements the mutual exclusion of SleepMutex: each step
\* of the code is a step of the mutex or changes nothing of it.
THEOREM MutexHolds == Spec => Mutex!MSafe
<1>1. Init => Mutex!MInit
  BY DEF Init, Mutex!MInit
<1>2. ASSUME IInv, [Next]_vars PROVE [Mutex!MNext]_(Mutex!mvars)
  <2> USE <1>2 DEF IInv, TypeOK, Points, Executes, Goto, slkVars
  <2>1. CASE UNCHANGED vars
    BY <2>1 DEF vars, taskVars, Mutex!mvars
  <2>2. ASSUME NEW t \in Tasks, Ask(t) PROVE Mutex!Ask(t)
    BY <2>2 DEF Ask, Mutex!Ask
  <2>3. ASSUME NEW t \in Tasks, AcqGet(t) PROVE Mutex!Grant(t)
    BY <2>3 DEF AcqGet, OwnerInv, Mutex!Grant
  <2>4. ASSUME NEW t \in Tasks, NEW p \in {"wake1", "wakeall"}, RelDrop(t, p)
        PROVE  Mutex!Drop(t)
    BY <2>4 DEF RelDrop, OwnerInv, Mutex!Drop
  <2>5. ASSUME NEW t \in Tasks, SwitchIn(t) \/ SwitchOut(t) \/ Yield(t) \/ WakeWaitParent(t)
        PROVE  UNCHANGED Mutex!mvars
    BY <2>5 DEF SwitchIn, SwitchOut, Yield, WakeWaitParent, Mutex!mvars
  <2>6. ASSUME NEW t \in Tasks, Resume(t) \/ AcqSpin(t) \/ AcqSleep(t) \/ WaitChild(t)
        PROVE  UNCHANGED Mutex!mvars
    BY <2>6 DEF Resume, AcqSpin, AcqSleep, WaitChild, Mutex!mvars
  <2>7. ASSUME NEW t \in Tasks, RelSpin(t) \/ RelWake(t) \/ RelEmpty(t) \/ RelDone(t)
        PROVE  UNCHANGED Mutex!mvars
    BY <2>7 DEF RelSpin, RelWake, RelEmpty, RelDone, Mutex!mvars
  <2> HIDE DEF IInv
  <2> QED
    BY <1>2, <2>1, <2>2, <2>3, <2>4, <2>5, <2>6, <2>7
    DEF Next, Switch, Kernel, Mutex!MNext
<1> QED BY <1>1, <1>2, Inductive, PTL DEF Spec, Mutex!MSafe

\* The sleepers of a lock are queued, off every hart, and not forgotten.
THEOREM SleepersSafeHolds == Spec => []SleepersSafe
<1>1. QueueIsSleepers /\ NoneRunsTwice /\ NoneStranded => SleepersSafe
  BY DEF SleepersSafe
<1> QED BY <1>1, QueueHolds, NoneRunsTwiceHolds, NoneStrandedHolds, PTL

(***************************************************************************)
(* Open files                                                              *)
(***************************************************************************)

\* The points of a critical section of file->slk up to the change of the count,
\* and behind it.
BeforePoints == {"acq", "test", "asleep", "holding"}
AfterPoints == {"rel", "wake1", "done"}
Before(t) == pc[t] \in BeforePoints

\* The operations of a task.
FOps == {"none", "got", "used"} \cup Getters \cup Putters

\* The types of the variables the proof is about.
FTypeOK ==
  /\ state \in [Tasks -> {"INITLIZED", "USED", "RUNNABLE", "RUNNING", "SLEEP", "ZOMBIE"}]
  /\ lk \in [Tasks -> Tasks \cup {None}]
  /\ ctx \in [Tasks -> Contexts]
  /\ pc \in [Tasks -> {"idle"} \cup BeforePoints \cup AfterPoints]
  /\ spinlock \in Tasks \cup {None}
  /\ ofile \in [Tasks -> 0..MaxFd]
  /\ op \in [Tasks -> FOps]
  /\ left \in [Tasks -> Nat]
  /\ refcount \in Nat /\ last \in Tasks \cup {None} /\ freed \in BOOLEAN

\* slk->spinlock is held at these points.
SpinHeld == \A t \in Tasks : pc[t] \in {"test"} \cup AfterPoints => spinlock = t

\* Where a task can be in each operation, and which descriptors it has there.
OpPoints ==
  \A t \in Tasks :
    /\ op[t] \in {"none", "got"} => pc[t] = "idle"
    /\ op[t] \in {"fd_get", "fd_alloc"} /\ Before(t) => ofile[t] > 0
    /\ op[t] = "kfork" => left[t] <= ofile[t] /\ (Before(t) => left[t] < ofile[t])
    /\ ctx[t] = "on" /\ lk[t] = t => op[t] \in {"fd_get", "fd_alloc", "exit_fs"}

\* A slot that runs no task yet.
Unborn(t) == ctx[t] = "off" /\ ofile[t] = 0 /\ op[t] = "none" /\ pc[t] = "idle"

\* kfork() of t is building task u, whose lock it holds.
Parent(u, t) == lk[u] = t /\ u # t

\* A task that is being built does nothing; its parent builds no other one.
Forks ==
  /\ \A u \in Tasks : state[u] = "INITLIZED" => Unborn(u)
  /\ \A u, t \in Tasks : Parent(u, t) => Unborn(u) /\ op[t] = "kfork"
  /\ \A u, v, t \in Tasks : Parent(u, t) /\ Parent(v, t) => u = v
  /\ \A t \in Tasks : op[t] = "kfork" => \E u \in Tasks : Parent(u, t)

\* Besides its descriptors, t holds a reference: taken by fd_get() and not given
\* back, or of an entry that is cleared and not yet put.
Extra(t) ==
  \/ op[t] \in {"got", "used"}
  \/ op[t] \in {"fd_get", "fd_alloc"} /\ ~Before(t)
  \/ op[t] \in Putters /\ Before(t)

\* The references of a task that is born, ...
Own(t) == ofile[t] + (IF Extra(t) THEN 1 ELSE 0)

\* ... and those kfork() of t has made for the child so far.
Copied(t) == ofile[t] - left[t] - (IF Before(t) THEN 1 ELSE 0)

\* The references of task t, and the set of all of them.
Refs(t) == IF lk[t] \in Tasks \ {t} THEN Copied(lk[t]) ELSE Own(t)
RefSet == {r \in Tasks \X Nat : 1 <= r[2] /\ r[2] <= Refs(r[1])}

\* file->refcount is the number of references.
CountInv == IsFiniteSet(RefSet) /\ refcount = Cardinality(RefSet)

\* The count is zero exactly when the object is freed or about to be, by the one
\* task that dropped the last reference, and nobody else is at file->slk then.
FreeInv ==
  /\ refcount = 0 <=> freed \/ last # None
  /\ ~(freed /\ last # None)
  /\ last # None => op[last] \in Putters /\ ~Before(last)
  /\ refcount = 0 => \A t \in Tasks : pc[t] # "idle" => t = last

\* The inductive invariant of open files.
FInv == FTypeOK /\ SpinHeld /\ OpPoints /\ Forks /\ CountInv /\ FreeInv

\* A step that moves no reference leaves the count right.
LEMMA SameRefs ==
  ASSUME CountInv, \A v \in Tasks : Refs(v)' = Refs(v), refcount' = refcount
  PROVE  CountInv'
<1>1. RefSet' = RefSet
  BY DEF RefSet
<1> QED BY <1>1 DEF CountInv

\* A task that runs is not being built, and has its own references.
LEMMA Running ==
  ASSUME FTypeOK, Forks, NEW t \in Tasks, ctx[t] # "off" \/ pc[t] # "idle" \/ op[t] # "none"
  PROVE  lk[t] \in {t, None} /\ state[t] # "INITLIZED" /\ Refs(t) = Own(t)
<1>1. ~Unborn(t)
  BY DEF Unborn
<1>2. lk[t] \notin Tasks \ {t}
  BY <1>1 DEF Forks, Parent
<1> QED BY <1>1, <1>2 DEF FTypeOK, Forks, Refs

\* How many references a task has.
LEMMA OwnFacts ==
  ASSUME FTypeOK, NEW t \in Tasks
  PROVE  /\ Own(t) \in Nat /\ Own(t) >= ofile[t] /\ ofile[t] \in Nat
         /\ Extra(t) => Own(t) = ofile[t] + 1
         /\ ~Extra(t) => Own(t) = ofile[t]
  BY MaxFdAssumption DEF FTypeOK, Own

\* The count is not zero as long as some task has a reference.
LEMMA RefsPositive ==
  ASSUME CountInv, FTypeOK, NEW t \in Tasks, 1 <= Refs(t)
  PROVE  refcount > 0
<1>1. <<t, 1>> \in RefSet
  BY DEF RefSet
<1>2. RefSet # {}
  BY <1>1
<1>3. Cardinality(RefSet) # 0 /\ Cardinality(RefSet) \in Nat
  BY <1>2, FS_EmptySet, FS_CardinalityType DEF CountInv
<1> QED BY <1>3 DEF CountInv

\* A task on its way to change the count has a reference, so the object lives.
LEMMA BeforeLive ==
  ASSUME FInv, NEW t \in Tasks, Before(t)
  PROVE  refcount > 0 /\ Own(t) >= 1 /\ Refs(t) = Own(t)
<1>1. pc[t] # "idle"
  BY DEF Before, BeforePoints
<1>2. Refs(t) = Own(t)
  BY <1>1, Running DEF FInv
<1>3. op[t] \in {"used", "fd_get", "fd_alloc", "kfork"} \cup Putters
  BY <1>1 DEF FInv, FTypeOK, FOps, OpPoints, Getters
<1>4. Own(t) >= 1
  <2>1. CASE op[t] = "used" \/ op[t] \in Putters
    <3>1. Extra(t)
      BY <2>1 DEF Extra
    <3> QED BY <3>1, OwnFacts DEF FInv
  <2>2. CASE op[t] \in {"fd_get", "fd_alloc"}
    <3>1. ofile[t] > 0
      BY <2>2 DEF FInv, OpPoints
    <3> QED BY <3>1, OwnFacts DEF FInv
  <2>3. CASE op[t] = "kfork"
    <3>1. left[t] < ofile[t] /\ left[t] \in Nat
      BY <2>3 DEF FInv, OpPoints, FTypeOK
    <3> QED BY <3>1, OwnFacts DEF FInv
  <2> QED BY <1>3, <2>1, <2>2, <2>3
<1> QED BY <1>2, <1>4, RefsPositive DEF FInv

\* A step of the sleep lock moves no reference.
LEMMA LockMove ==
  ASSUME FInv, NEW t \in Tasks, UNCHANGED fileVars, FTypeOK', SpinHeld',
         lk[t] \in {t, None}, lk'[t] \in {t, None}, state[t] # "INITLIZED",
         \A v \in Tasks \ {t} : pc'[v] = pc[v] /\ lk'[v] = lk[v] /\ ctx'[v] = ctx[v],
         \A v \in Tasks : state'[v] = "INITLIZED" => state[v] = "INITLIZED",
         Before(t)' <=> Before(t),
         pc'[t] = pc[t] \/ (pc[t] # "idle" /\ op[t] \notin {"none", "got"}),
         ctx'[t] = "on" /\ lk'[t] = t => op[t] \in {"fd_get", "fd_alloc", "exit_fs"}
  PROVE  FInv'
<1>1. /\ ofile' = ofile /\ op' = op /\ left' = left /\ refcount' = refcount
      /\ last' = last /\ freed' = freed
  BY DEF fileVars
<1>2. \A v \in Tasks : Before(v)' <=> Before(v)
  BY DEF Before
<1>3. \A v \in Tasks : lk'[v] \in Tasks \ {v} <=> lk[v] \in Tasks \ {v}
  BY NoneAssumption
<1>4. \A v \in Tasks : lk[v] \in Tasks \ {v} => lk'[v] = lk[v] /\ v # t
  BY NoneAssumption
<1>5. \A v \in Tasks : (Own(v)' = Own(v)) /\ (Copied(v)' = Copied(v))
  BY <1>1, <1>2 DEF Own, Copied, Extra
<1>6. \A v \in Tasks : Refs(v)' = Refs(v)
  BY <1>3, <1>4, <1>5 DEF Refs
<1>7. CountInv'
  BY <1>1, <1>6, SameRefs DEF FInv
<1>8. OpPoints'
  BY <1>1, <1>2 DEF FInv, OpPoints
<1>9. \A v \in Tasks \ {t} : Unborn(v)' <=> Unborn(v)
  BY <1>1 DEF Unborn
<1>10. \A u, v \in Tasks : Parent(u, v)' <=> Parent(u, v)
  BY <1>3, <1>4 DEF Parent
<1>11. \A u, v \in Tasks : Parent(u, v) => u # t
  BY NoneAssumption DEF Parent
<1>12. Forks'
  BY <1>1, <1>9, <1>10, <1>11 DEF FInv, Forks
<1>13. FreeInv'
  <2>1. \A v \in Tasks : pc'[v] # "idle" => pc[v] # "idle"
    OBVIOUS
  <2> QED BY <1>1, <1>2, <2>1 DEF FInv, FreeInv, FTypeOK
<1> QED BY <1>7, <1>8, <1>12, <1>13 DEF FInv

\* The steps of the sleep lock and of the scheduler preserve FInv.
LEMMA LockStepInv ==
  ASSUME FInv, NEW t \in Tasks, LockStep(t)
  PROVE  FInv'
<1>0. UNCHANGED fileVars
  BY DEF LockStep
<1>a. /\ ofile' = ofile /\ op' = op /\ left' = left /\ refcount' = refcount
      /\ last' = last /\ freed' = freed
  BY <1>0 DEF fileVars
<1>t. FTypeOK /\ SpinHeld /\ Forks /\ OpPoints
  BY DEF FInv
<1> USE DEF Goto, Executes, Free
<1>1. CASE SwitchIn(t)
  <2>1. state[t] = "RUNNABLE" /\ lk[t] = None /\ lk' = [lk EXCEPT ![t] = t] /\ ctx' = [ctx EXCEPT ![t] = "in"]
        /\ state' = [state EXCEPT ![t] = "RUNNING"] /\ UNCHANGED <<pc, spinlock>>
    BY <1>1 DEF SwitchIn
  <2>2. FTypeOK' /\ SpinHeld'
    BY <1>a, <1>t, <2>1 DEF FTypeOK, SpinHeld, Contexts
  <2>3. /\ lk'[t] = t /\ ctx'[t] = "in"
        /\ \A v \in Tasks \ {t} : pc'[v] = pc[v] /\ lk'[v] = lk[v] /\ ctx'[v] = ctx[v]
        /\ \A v \in Tasks : state'[v] = "INITLIZED" => state[v] = "INITLIZED"
    BY <1>t, <2>1 DEF FTypeOK
  <2>4. Before(t)' <=> Before(t)
    BY <2>1 DEF Before
  <2> QED BY <1>0, <2>1, <2>2, <2>3, <2>4, LockMove
<1>2. CASE SwitchOut(t)
  <2>1. ctx[t] = "out" /\ lk' = [lk EXCEPT ![t] = None] /\ ctx' = [ctx EXCEPT ![t] = "off"]
        /\ UNCHANGED <<state, pc, spinlock>>
    BY <1>2 DEF SwitchOut
  <2>2. FTypeOK' /\ SpinHeld'
    BY <1>a, <1>t, <2>1 DEF FTypeOK, SpinHeld, Contexts
  <2>3. /\ lk'[t] = None /\ ctx'[t] = "off"
        /\ \A v \in Tasks \ {t} : pc'[v] = pc[v] /\ lk'[v] = lk[v] /\ ctx'[v] = ctx[v]
    BY <1>t, <2>1 DEF FTypeOK
  <2>4. Before(t)' <=> Before(t)
    BY <2>1 DEF Before
  <2>5. lk[t] \in {t, None} /\ state[t] # "INITLIZED"
    BY <1>t, <2>1, Running
  <2> QED BY <1>0, <2>1, <2>2, <2>3, <2>4, <2>5, LockMove
<1>3. CASE Resume(t)
  <2>1. ctx[t] = "in" /\ lk' = [lk EXCEPT ![t] = None] /\ ctx' = [ctx EXCEPT ![t] = "on"]
        /\ UNCHANGED <<state, spinlock>>
    BY <1>3 DEF Resume
  <2>2. pc' = [pc EXCEPT ![t] = IF pc[t] = "asleep" THEN "acq" ELSE pc[t]]
    <3>1. pc[t] # "child"
      BY <1>t DEF FTypeOK, BeforePoints, AfterPoints
    <3> QED BY <1>3, <3>1 DEF Resume
  <2>3. FTypeOK'
    BY <1>a, <1>t, <2>1, <2>2 DEF FTypeOK, Contexts, BeforePoints, AfterPoints
  <2>4. SpinHeld'
    BY <1>t, <2>1, <2>2 DEF FTypeOK, SpinHeld, AfterPoints
  <2>5. /\ lk'[t] = None /\ ctx'[t] = "on" /\ pc'[t] = (IF pc[t] = "asleep" THEN "acq" ELSE pc[t])
        /\ \A v \in Tasks \ {t} : pc'[v] = pc[v] /\ lk'[v] = lk[v] /\ ctx'[v] = ctx[v]
    BY <1>t, <2>1, <2>2 DEF FTypeOK
  <2>6. Before(t)' <=> Before(t)
    BY <2>5 DEF Before, BeforePoints
  <2>7. lk[t] \in {t, None} /\ state[t] # "INITLIZED"
    BY <1>t, <2>1, Running
  <2>8. pc'[t] = pc[t] \/ (pc[t] # "idle" /\ op[t] \notin {"none", "got"})
    BY <1>t, <2>5 DEF OpPoints
  <2>9. t # None
    BY NoneAssumption
  <2> QED BY <1>0, <2>1, <2>3, <2>4, <2>5, <2>6, <2>7, <2>8, <2>9, LockMove
<1>4. CASE Yield(t)
  <2>1. ctx[t] = "on" /\ lk[t] = None /\ lk' = [lk EXCEPT ![t] = t] /\ ctx' = [ctx EXCEPT ![t] = "out"]
        /\ state' = [state EXCEPT ![t] = "RUNNABLE"] /\ UNCHANGED <<pc, spinlock>>
    BY <1>4 DEF Yield
  <2>2. FTypeOK' /\ SpinHeld'
    BY <1>a, <1>t, <2>1 DEF FTypeOK, SpinHeld, Contexts
  <2>3. /\ lk'[t] = t /\ ctx'[t] = "out"
        /\ \A v \in Tasks \ {t} : pc'[v] = pc[v] /\ lk'[v] = lk[v] /\ ctx'[v] = ctx[v]
        /\ \A v \in Tasks : state'[v] = "INITLIZED" => state[v] = "INITLIZED"
    BY <1>t, <2>1 DEF FTypeOK
  <2>4. Before(t)' <=> Before(t)
    BY <2>1 DEF Before
  <2>5. lk[t] \in {t, None} /\ state[t] # "INITLIZED"
    BY <1>t, <2>1, Running
  <2> QED BY <1>0, <2>1, <2>2, <2>3, <2>4, <2>5, LockMove
<1>5. CASE AcqSleep(t)
  <2>1. ctx[t] = "on" /\ pc[t] = "test" /\ lk[t] = None /\ lk' = [lk EXCEPT ![t] = t]
        /\ ctx' = [ctx EXCEPT ![t] = "out"]
        /\ state' = [state EXCEPT ![t] = "SLEEP"] /\ pc' = [pc EXCEPT ![t] = "asleep"] /\ spinlock' = None
    BY <1>5 DEF AcqSleep, AcqSleepLk
  <2>2. FTypeOK'
    BY <1>a, <1>t, <2>1 DEF FTypeOK, Contexts, BeforePoints, AfterPoints
  <2>3. /\ lk'[t] = t /\ ctx'[t] = "out" /\ pc'[t] = "asleep"
        /\ \A v \in Tasks \ {t} : pc'[v] = pc[v] /\ lk'[v] = lk[v] /\ ctx'[v] = ctx[v]
        /\ \A v \in Tasks : state'[v] = "INITLIZED" => state[v] = "INITLIZED"
    BY <1>t, <2>1 DEF FTypeOK
  <2>4. SpinHeld'
    BY <1>t, <2>1, <2>3 DEF SpinHeld, AfterPoints
  <2>5. Before(t)' <=> Before(t)
    BY <2>1, <2>3 DEF Before, BeforePoints
  <2>6. lk[t] \in {t, None} /\ state[t] # "INITLIZED"
    BY <1>t, <2>1, Running
  <2>7. pc'[t] = pc[t] \/ (pc[t] # "idle" /\ op[t] \notin {"none", "got"})
    BY <1>t, <2>1 DEF OpPoints
  <2> QED BY <1>0, <2>2, <2>3, <2>4, <2>5, <2>6, <2>7, LockMove
<1>6. CASE RelWake(t) \/ RelDrop(t, "wake1") \/ RelEmpty(t) \/ RelDone(t) \/ AcqSpin(t) \/ AcqGet(t)
  <2>1. ctx[t] = "on" /\ UNCHANGED <<lk, ctx>>
    BY <1>6 DEF RelWake, RelDrop, RelEmpty, RelDone, AcqSpin, AcqGet
  <2>2. PICK p \in BeforePoints \cup AfterPoints \cup {"idle"} :
           /\ pc' = [pc EXCEPT ![t] = p] /\ pc[t] # "idle"
           /\ p \in BeforePoints <=> pc[t] \in BeforePoints
           /\ \/ p \in {"test"} \cup AfterPoints /\ spinlock' = t /\ spinlock \in {t, None}
              \/ p \notin {"test"} \cup AfterPoints /\ spinlock = t /\ spinlock' = None
    <3>1. pc[t] \in {"test"} \cup AfterPoints => spinlock = t
      BY <1>t DEF SpinHeld
    <3>2. CASE RelWake(t)
      <4>1. pc[t] = "wake1"
        BY <1>t, <3>2 DEF RelWake, FTypeOK, BeforePoints, AfterPoints
      <4>2. pc' = [pc EXCEPT ![t] = "done"] /\ spinlock' = spinlock
        BY <3>2, <4>1 DEF RelWake
      <4> QED BY <3>1, <4>1, <4>2 DEF BeforePoints, AfterPoints
    <3>3. CASE RelDrop(t, "wake1")
      BY <3>1, <3>3 DEF RelDrop, BeforePoints, AfterPoints
    <3>4. CASE RelEmpty(t)
      <4>1. pc[t] = "wake1"
        BY <1>t, <3>4 DEF RelEmpty, FTypeOK, BeforePoints, AfterPoints
      <4> QED BY <3>1, <3>4, <4>1 DEF RelEmpty, BeforePoints, AfterPoints
    <3>5. CASE RelDone(t)
      BY <3>1, <3>5 DEF RelDone, BeforePoints, AfterPoints
    <3>6. CASE AcqSpin(t)
      BY <3>1, <3>6 DEF AcqSpin, BeforePoints, AfterPoints
    <3>7. CASE AcqGet(t)
      BY <3>1, <3>7 DEF AcqGet, BeforePoints, AfterPoints
    <3> QED BY <1>6, <3>2, <3>3, <3>4, <3>5, <3>6, <3>7
  <2>3. state' \in [Tasks -> {"INITLIZED", "USED", "RUNNABLE", "RUNNING", "SLEEP", "ZOMBIE"}]
        /\ \A v \in Tasks : state'[v] = "INITLIZED" => state[v] = "INITLIZED"
    <3>1. CASE RelWake(t)
      <4> DEFINE x == Head(wait_queue)
      <4>1. state' = [state EXCEPT ![x] = "RUNNABLE"]
        BY <3>1 DEF RelWake
      <4> HIDE DEF x
      <4> QED BY <1>t, <4>1 DEF FTypeOK
    <3>2. CASE UNCHANGED state
      BY <1>t, <3>2 DEF FTypeOK
    <3> QED BY <1>6, <3>1, <3>2 DEF RelDrop, RelEmpty, RelDone, AcqSpin, AcqGet
  <2>4. FTypeOK'
    BY <1>a, <1>t, <2>1, <2>2, <2>3 DEF FTypeOK
  <2>5. pc'[t] = p /\ \A v \in Tasks \ {t} : pc'[v] = pc[v] /\ lk'[v] = lk[v] /\ ctx'[v] = ctx[v]
    BY <1>t, <2>1, <2>2 DEF FTypeOK
  <2>6. SpinHeld'
    BY <1>t, <2>2, <2>5, NoneAssumption DEF SpinHeld
  <2>7. Before(t)' <=> Before(t)
    BY <2>2, <2>5 DEF Before
  <2>8. lk[t] \in {t, None} /\ state[t] # "INITLIZED" /\ lk'[t] = lk[t]
    BY <1>t, <2>1, Running
  <2>9. pc[t] # "idle" /\ op[t] \notin {"none", "got"}
    BY <1>t, <2>2 DEF OpPoints
  <2>10. ctx'[t] = "on" /\ lk'[t] = t => op[t] \in {"fd_get", "fd_alloc", "exit_fs"}
    BY <1>t, <2>1 DEF OpPoints
  <2> QED BY <1>0, <2>3, <2>4, <2>5, <2>6, <2>7, <2>8, <2>9, <2>10, LockMove
<1> QED BY <1>1, <1>2, <1>3, <1>4, <1>5, <1>6 DEF LockStep, Switch

\* A step between two critical sections of file->slk in which task t keeps the
\* number of its references.
LEMMA FileMove ==
  ASSUME FInv, NEW t \in Tasks, ctx[t] = "on", pc[t] = "idle", op[t] # "kfork",
         op[t] \notin Putters \/ last # t,
         NEW o \in FOps \ {"kfork"}, NEW p \in {"idle", "acq"}, NEW k \in {t, None}, NEW n \in 0..MaxFd,
         pc' = [pc EXCEPT ![t] = p], op' = [op EXCEPT ![t] = o], lk' = [lk EXCEPT ![t] = k],
         ofile' = [ofile EXCEPT ![t] = n],
         UNCHANGED <<state, ctx, spinlock, left, refcount, last, freed>>,
         Own(t)' = Own(t), p = "acq" => Own(t) >= 1,
         o \in {"none", "got"} => p = "idle",
         o \in {"fd_get", "fd_alloc"} /\ p = "acq" => n > 0,
         k = t => o \in {"fd_get", "fd_alloc", "exit_fs"}
  PROVE  FInv'
<1>0. FTypeOK /\ Forks /\ OpPoints /\ SpinHeld /\ CountInv /\ FreeInv
  BY DEF FInv
<1>1. FTypeOK'
  BY <1>0 DEF FTypeOK, BeforePoints
<1>2. /\ pc'[t] = p /\ op'[t] = o /\ lk'[t] = k /\ ofile'[t] = n
      /\ \A v \in Tasks \ {t} : pc'[v] = pc[v] /\ op'[v] = op[v] /\ lk'[v] = lk[v] /\ ofile'[v] = ofile[v]
  BY <1>0 DEF FTypeOK
<1>3. lk[t] \in {t, None} /\ state[t] # "INITLIZED" /\ Refs(t) = Own(t)
  BY <1>0, Running
<1>4. \A v \in Tasks \ {t} : (Before(v)' <=> Before(v)) /\ Own(v)' = Own(v) /\ Copied(v)' = Copied(v)
  BY <1>2 DEF Before, Own, Extra, Copied
<1>5. \A u, v \in Tasks : (Parent(u, v)' <=> Parent(u, v)) /\ (Parent(u, v) => u # t /\ v # t)
  <2>1. \A u, v \in Tasks : Parent(u, v) => u # t /\ v # t
    BY <1>0, <1>3, NoneAssumption DEF Parent, Forks
  <2>2. \A v \in Tasks : ~Parent(t, v)'
    BY <1>2, NoneAssumption DEF Parent
  <2>3. \A u \in Tasks \ {t}, v \in Tasks : Parent(u, v)' <=> Parent(u, v)
    BY <1>2 DEF Parent
  <2> QED BY <2>1, <2>2, <2>3
<1>6. \A v \in Tasks : Refs(v)' = Refs(v)
  <2> SUFFICES ASSUME NEW v \in Tasks PROVE Refs(v)' = Refs(v)
    OBVIOUS
  <2>1. CASE v = t
    <3>1. Refs(t)' = Own(t)'
      BY <1>2, NoneAssumption DEF Refs
    <3> QED BY <2>1, <3>1, <1>3
  <2>2. CASE v # t
    <3>1. lk'[v] = lk[v] /\ Own(v)' = Own(v)
      BY <1>2, <1>4, <2>2
    <3>2. lk[v] \in Tasks \ {v} => lk[v] # t
      BY <1>5 DEF Parent
    <3>3. CASE lk[v] \in Tasks \ {v}
      <4>1. PICK x \in Tasks \ {t} : lk[v] = x /\ lk'[v] = x
        BY <3>1, <3>2, <3>3
      <4>2. Copied(x)' = Copied(x)
        BY <1>4
      <4> QED BY <3>3, <4>1, <4>2 DEF Refs
    <3>4. CASE lk[v] \notin Tasks \ {v}
      BY <3>1, <3>4 DEF Refs
    <3> QED BY <3>3, <3>4
  <2> QED BY <2>1, <2>2
<1>7. CountInv'
  BY <1>0, <1>6, SameRefs
<1>8. SpinHeld'
  BY <1>0, <1>2 DEF SpinHeld, AfterPoints
<1>9. OpPoints'
  <2>1. (/\ op[t] \in {"none", "got"} => pc[t] = "idle"
         /\ op[t] \in {"fd_get", "fd_alloc"} /\ Before(t) => ofile[t] > 0
         /\ op[t] = "kfork" => left[t] <= ofile[t] /\ (Before(t) => left[t] < ofile[t])
         /\ ctx[t] = "on" /\ lk[t] = t => op[t] \in {"fd_get", "fd_alloc", "exit_fs"})'
    BY <1>2 DEF Before, BeforePoints
  <2>2. ASSUME NEW v \in Tasks \ {t}
        PROVE (/\ op[v] \in {"none", "got"} => pc[v] = "idle"
               /\ op[v] \in {"fd_get", "fd_alloc"} /\ Before(v) => ofile[v] > 0
               /\ op[v] = "kfork" => left[v] <= ofile[v] /\ (Before(v) => left[v] < ofile[v])
               /\ ctx[v] = "on" /\ lk[v] = v => op[v] \in {"fd_get", "fd_alloc", "exit_fs"})'
    BY <1>0, <1>2, <1>4 DEF OpPoints
  <2> QED BY <2>1, <2>2 DEF OpPoints
<1>10. \A v \in Tasks \ {t} : Unborn(v)' <=> Unborn(v)
  BY <1>2 DEF Unborn
<1>11. \A v \in Tasks : op'[v] = "kfork" <=> op[v] = "kfork"
  BY <1>2
<1>12. Forks'
  BY <1>0, <1>3, <1>5, <1>10, <1>11 DEF Forks
<1>13. p = "acq" => refcount > 0
  BY <1>0, <1>3, RefsPositive
<1>14. last # t
  BY <1>0, NoneAssumption DEF FreeInv
<1>15. FreeInv'
  <2>1. last # None => op'[last] = op[last] /\ (Before(last)' <=> Before(last))
    BY <1>0, <1>2, <1>4, <1>14 DEF FTypeOK
  <2>2. refcount = 0 => \A v \in Tasks : pc'[v] # "idle" => v = last
    BY <1>0, <1>2, <1>13 DEF FreeInv
  <2> QED BY <1>0, <2>1, <2>2 DEF FreeInv
<1> QED BY <1>1, <1>7, <1>8, <1>9, <1>12, <1>15 DEF FInv

\* fd_get(), fd_alloc(), fd_close(), reading and writing, and the start of
\* file_put() and exit_fs().
LEMMA FileMoves ==
  ASSUME FInv, NEW t \in Tasks,
         FdGet(t) \/ FdRet(t) \/ VfsIo(t) \/ FdAlloc(t) \/ FilePut(t) \/ FdClose(t) \/ ExitFs(t)
  PROVE  FInv'
<1>0. FTypeOK /\ Forks /\ OpPoints
  BY DEF FInv
<1>1. ctx[t] = "on" /\ pc[t] = "idle" /\ ~Before(t)
  BY DEF FdGet, FdRet, VfsIo, FdAlloc, FilePut, FdClose, ExitFs, Ask, In, Executes, Before, BeforePoints
<1>2. lk[t] \in {t, None}
  BY <1>0, <1>1, Running
<1>3. ofile[t] \in 0..MaxFd /\ ofile[t] \in Nat /\ MaxFd \in Nat /\ ofile = [ofile EXCEPT ![t] = ofile[t]]
      /\ lk = [lk EXCEPT ![t] = lk[t]] /\ pc = [pc EXCEPT ![t] = pc[t]]
  BY <1>0, MaxFdAssumption DEF FTypeOK
<1>4. ctx[t] = "on" /\ lk[t] = t => op[t] \in {"fd_get", "fd_alloc", "exit_fs"}
  BY <1>0 DEF OpPoints
<1> DEFINE OwnOf(o, p, n) == n + (IF \/ o \in {"got", "used"} \/ (o \in {"fd_get", "fd_alloc"} /\ p # "acq")
                                     \/ (o \in Putters /\ p = "acq") THEN 1 ELSE 0)
<1>5. \A o \in FOps, n \in 0..MaxFd :
        op' = [op EXCEPT ![t] = o] /\ ofile' = [ofile EXCEPT ![t] = n]
          => /\ pc' = [pc EXCEPT ![t] = "acq"] => Own(t)' = OwnOf(o, "acq", n)
             /\ pc' = [pc EXCEPT ![t] = "idle"] => Own(t)' = OwnOf(o, "idle", n)
  BY <1>0 DEF FTypeOK, Own, Extra, Before, BeforePoints
<1>6. Own(t) = OwnOf(op[t], "idle", ofile[t])
  BY <1>1 DEF Own, Extra
<1> USE DEF In, Executes, SetOp, Goto, Sleeping, Free
<1>7. CASE FdGet(t)
  <2>1. /\ op[t] = "none" /\ ofile[t] > 0 /\ op' = [op EXCEPT ![t] = "fd_get"] /\ pc' = [pc EXCEPT ![t] = "acq"]
        /\ lk' = [lk EXCEPT ![t] = t] /\ ofile' = [ofile EXCEPT ![t] = ofile[t]]
        /\ UNCHANGED <<state, ctx, spinlock, left, refcount, last, freed>>
    BY <1>3, <1>7 DEF FdGet
  <2>2. "fd_get" \in FOps \ {"kfork"} /\ op[t] \notin Putters \cup {"kfork"}
    BY <2>1 DEF FOps, Getters, Putters
  <2>3. Own(t)' = Own(t) /\ Own(t) >= 1
    <3>1. Own(t)' = OwnOf("fd_get", "acq", ofile[t])
      BY <1>3, <1>5, <2>1, <2>2
    <3>2. OwnOf("fd_get", "acq", ofile[t]) = Own(t) /\ Own(t) >= 1
      BY <1>3, <1>6, <2>1, <2>2 DEF Putters
    <3> QED BY <3>1, <3>2
  <2> QED BY <1>1, <1>3, <2>1, <2>2, <2>3, FileMove
<1>8. CASE FdRet(t)
  <2>1. PICK o \in {"got", "used"} : /\ op' = [op EXCEPT ![t] = o] /\ op[t] \in {"fd_get", "fd_alloc"}
    BY <1>8 DEF FdRet
  <2>2. /\ pc' = [pc EXCEPT ![t] = "idle"]
        /\ lk' = [lk EXCEPT ![t] = None] /\ ofile' = [ofile EXCEPT ![t] = ofile[t]]
        /\ UNCHANGED <<state, ctx, spinlock, left, refcount, last, freed>>
    BY <1>1, <1>3, <1>8 DEF FdRet
  <2>3. o \in FOps \ {"kfork"} /\ op[t] \notin Putters \cup {"kfork"}
    BY <2>1 DEF FOps, Getters, Putters
  <2>4. Own(t)' = Own(t)
    BY <1>3, <1>5, <1>6, <2>1, <2>2, <2>3 DEF Putters
  <2>5. None # t
    BY NoneAssumption
  <2> QED BY <1>1, <1>3, <2>1, <2>2, <2>3, <2>4, <2>5, FileMove
<1>9. CASE VfsIo(t) \/ FilePut(t)
  <2>1. PICK o \in {"used", "file_put"} : op' = [op EXCEPT ![t] = o]
    BY <1>9 DEF VfsIo, FilePut
  <2>2. /\ op[t] \in {"got", "used"} /\ pc' = [pc EXCEPT ![t] = "acq"]
        /\ lk' = [lk EXCEPT ![t] = lk[t]] /\ ofile' = [ofile EXCEPT ![t] = ofile[t]]
        /\ UNCHANGED <<state, ctx, spinlock, left, refcount, last, freed>>
    BY <1>3, <1>9 DEF VfsIo, FilePut, Ask
  <2>3. o \in FOps \ {"kfork"} /\ op[t] \notin Putters \cup {"kfork"}
    BY <2>1, <2>2 DEF FOps, Getters, Putters
  <2>4. Own(t)' = Own(t) /\ Own(t) >= 1
    <3>1. Own(t)' = OwnOf(o, "acq", ofile[t])
      BY <1>3, <1>5, <2>1, <2>2, <2>3
    <3>2. OwnOf(o, "acq", ofile[t]) = Own(t) /\ Own(t) >= 1
      BY <1>3, <1>6, <2>1, <2>2, <2>3 DEF Putters
    <3> QED BY <3>1, <3>2
  <2>5. lk[t] # t
    BY <1>1, <1>4, <2>2
  <2> QED BY <1>1, <1>2, <1>3, <2>1, <2>2, <2>3, <2>4, <2>5, FileMove
<1>10. CASE FdAlloc(t)
  <2>1. /\ op[t] = "got" /\ ofile[t] < MaxFd /\ op' = [op EXCEPT ![t] = "fd_alloc"]
        /\ pc' = [pc EXCEPT ![t] = "acq"]
        /\ lk' = [lk EXCEPT ![t] = t] /\ ofile' = [ofile EXCEPT ![t] = ofile[t] + 1]
        /\ UNCHANGED <<state, ctx, spinlock, left, refcount, last, freed>>
    BY <1>3, <1>10 DEF FdAlloc
  <2>2. "fd_alloc" \in FOps \ {"kfork"} /\ op[t] \notin Putters \cup {"kfork"}
        /\ ofile[t] + 1 \in 0..MaxFd /\ ofile[t] + 1 > 0
    BY <1>3, <2>1 DEF FOps, Getters, Putters
  <2>3. Own(t)' = Own(t) /\ Own(t) >= 1
    <3>1. Own(t)' = OwnOf("fd_alloc", "acq", ofile[t] + 1)
      BY <1>3, <1>5, <2>1, <2>2
    <3>2. OwnOf("fd_alloc", "acq", ofile[t] + 1) = Own(t) /\ Own(t) >= 1
      BY <1>3, <1>6, <2>1, <2>2 DEF Putters
    <3> QED BY <3>1, <3>2
  <2> QED BY <1>1, <1>3, <2>1, <2>2, <2>3, FileMove
<1>11. CASE FdClose(t)
  <2>1. /\ op[t] = "none" /\ ofile[t] > 0 /\ op' = [op EXCEPT ![t] = "file_put"]
        /\ pc' = [pc EXCEPT ![t] = "acq"]
        /\ lk' = [lk EXCEPT ![t] = lk[t]] /\ ofile' = [ofile EXCEPT ![t] = ofile[t] - 1]
        /\ UNCHANGED <<state, ctx, spinlock, left, refcount, last, freed>>
    BY <1>3, <1>11 DEF FdClose, Ask
  <2>2. "file_put" \in FOps \ {"kfork"} /\ op[t] \notin Putters \cup {"kfork"} /\ ofile[t] - 1 \in 0..MaxFd
    BY <1>3, <2>1 DEF FOps, Getters, Putters
  <2>3. Own(t)' = Own(t) /\ Own(t) >= 1
    <3>1. Own(t)' = OwnOf("file_put", "acq", ofile[t] - 1)
      BY <1>3, <1>5, <2>1, <2>2
    <3>2. OwnOf("file_put", "acq", ofile[t] - 1) = Own(t) /\ Own(t) >= 1
      BY <1>3, <1>6, <2>1, <2>2 DEF Putters
    <3> QED BY <3>1, <3>2
  <2>4. lk[t] # t
    BY <1>1, <1>4, <2>1
  <2> QED BY <1>1, <1>2, <1>3, <2>1, <2>2, <2>3, <2>4, FileMove
<1>12. CASE ExitFs(t)
  <2>1. /\ op[t] = "none" /\ op' = [op EXCEPT ![t] = "exit_fs"] /\ pc' = [pc EXCEPT ![t] = "idle"]
        /\ lk' = [lk EXCEPT ![t] = t] /\ ofile' = [ofile EXCEPT ![t] = ofile[t]]
        /\ UNCHANGED <<state, ctx, spinlock, left, refcount, last, freed>>
    BY <1>1, <1>3, <1>12 DEF ExitFs
  <2>2. "exit_fs" \in FOps \ {"kfork"} /\ op[t] \notin Putters \cup {"kfork"}
    BY <2>1 DEF FOps, Getters, Putters
  <2>3. Own(t)' = Own(t)
    BY <1>3, <1>5, <1>6, <2>1, <2>2 DEF Putters
  <2> QED BY <1>1, <1>3, <2>1, <2>2, <2>3, FileMove
<1> QED BY <1>7, <1>8, <1>9, <1>10, <1>11, <1>12

\* exit_fs() clears the next entry and calls file_put().
LEMMA ExitPutStep ==
  ASSUME FInv, NEW t \in Tasks, ExitPut(t)
  PROVE  FInv'
<1>0. FTypeOK /\ Forks /\ OpPoints /\ CountInv /\ FreeInv
  BY DEF FInv
<1>1. /\ ctx[t] = "on" /\ pc[t] = "idle" /\ op[t] = "exit_fs" /\ ofile[t] > 0 /\ Destroy(t)
      /\ ofile' = [ofile EXCEPT ![t] = ofile[t] - 1] /\ pc' = [pc EXCEPT ![t] = "acq"]
      /\ UNCHANGED <<state, ctx, spinlock, lk, op, left, refcount>>
  BY DEF ExitPut, In, Executes, Goto, Sleeping
<1>2. Refs(t) = Own(t) /\ lk[t] \in {t, None}
  BY <1>0, <1>1, Running
<1>3. ofile[t] \in Nat /\ ofile[t] - 1 \in 0..MaxFd /\ MaxFd \in Nat
  BY <1>0, <1>1, MaxFdAssumption DEF FTypeOK
<1>4. Own(t) = ofile[t]
  BY <1>0, <1>1, <1>3, OwnFacts DEF Extra, Before, BeforePoints, Putters
<1>5. refcount > 0
  BY <1>0, <1>1, <1>2, <1>3, <1>4, RefsPositive
<1>6. last = None /\ last # t
  BY <1>0, <1>5, NoneAssumption DEF FreeInv, FTypeOK
<1>7. UNCHANGED <<last, freed>>
  BY <1>0, <1>1, <1>6 DEF Destroy, FTypeOK
<1>8. Own(t)' = Own(t)
  <2>1. Extra(t)'
    BY <1>0, <1>1 DEF Extra, Before, BeforePoints, Putters, FTypeOK
  <2>2. ofile'[t] = ofile[t] - 1
    BY <1>0, <1>1 DEF FTypeOK
  <2> QED BY <1>3, <1>4, <2>1, <2>2 DEF Own
<1>9. op' = [op EXCEPT ![t] = "exit_fs"] /\ lk' = [lk EXCEPT ![t] = lk[t]] /\ "exit_fs" \in FOps \ {"kfork"}
  BY <1>0, <1>1 DEF FTypeOK, FOps, Putters
<1>10. Own(t) >= 1 /\ op[t] # "kfork" /\ UNCHANGED <<state, ctx, spinlock, left, refcount, last, freed>>
  BY <1>1, <1>3, <1>4, <1>7
<1> QED BY <1>1, <1>2, <1>3, <1>6, <1>8, <1>9, <1>10, FileMove

\* file_put() returns, after it has freed the object if it was the last.
LEMMA EndMove ==
  ASSUME FInv, NEW t \in Tasks, ctx[t] = "on", pc[t] = "idle", op[t] \in Putters,
      op[t] = "exit_fs" => ofile[t] = 0,
         op' = [op EXCEPT ![t] = "none"], lk' = [lk EXCEPT ![t] = None], Destroy(t), FTypeOK',
         UNCHANGED <<pc, ofile, left, refcount, spinlock>>,
         \A v \in Tasks : state'[v] = "INITLIZED" => state[v] = "INITLIZED",
         \A v \in Tasks \ {t} : ctx'[v] = ctx[v]
  PROVE  FInv'
<1>0. FTypeOK /\ Forks /\ OpPoints /\ SpinHeld /\ CountInv /\ FreeInv
  BY DEF FInv
<1>2. /\ op'[t] = "none" /\ lk'[t] = None
      /\ \A v \in Tasks \ {t} : op'[v] = op[v] /\ lk'[v] = lk[v]
  BY <1>0 DEF FTypeOK
<1>3. lk[t] \in {t, None} /\ state[t] # "INITLIZED" /\ Refs(t) = Own(t)
  BY <1>0, Running
<1>4. \A v \in Tasks : (Before(v)' <=> Before(v)) /\ (v # t => Own(v)' = Own(v)) /\ Copied(v)' = Copied(v)
  BY <1>2 DEF Before, Own, Extra, Copied
<1>5. Own(t)' = Own(t)
  <2>1. ~Extra(t) /\ ~Extra(t)'
    BY <1>2 DEF Extra, Before, BeforePoints, Putters
  <2> QED BY <2>1 DEF Own
<1>6. op[t] # "kfork"
  BY DEF Putters
<1>7. \A u, v \in Tasks : (Parent(u, v)' <=> Parent(u, v)) /\ (Parent(u, v) => u # t /\ v # t)
  <2>1. \A u, v \in Tasks : Parent(u, v) => u # t /\ v # t
    BY <1>0, <1>3, <1>6, NoneAssumption DEF Parent, Forks
  <2>2. \A v \in Tasks : ~Parent(t, v)'
    BY <1>2, NoneAssumption DEF Parent
  <2>3. \A u \in Tasks \ {t}, v \in Tasks : Parent(u, v)' <=> Parent(u, v)
    BY <1>2 DEF Parent
  <2> QED BY <2>1, <2>2, <2>3
<1>8. \A v \in Tasks : Refs(v)' = Refs(v)
  <2> SUFFICES ASSUME NEW v \in Tasks PROVE Refs(v)' = Refs(v)
    OBVIOUS
  <2>1. CASE v = t
    <3>1. Refs(t)' = Own(t)'
      BY <1>2, NoneAssumption DEF Refs
    <3> QED BY <2>1, <3>1, <1>3, <1>5
  <2>2. CASE v # t /\ lk[v] \in Tasks \ {v}
    <3>1. PICK x \in Tasks : lk[v] = x /\ lk'[v] = x
      BY <1>2, <2>2
    <3>2. Copied(x)' = Copied(x)
      BY <1>4
    <3> QED BY <2>2, <3>1, <3>2 DEF Refs
  <2>3. CASE v # t /\ lk[v] \notin Tasks \ {v}
    BY <1>2, <1>4, <2>3 DEF Refs
  <2> QED BY <2>1, <2>2, <2>3
<1>9. CountInv'
  BY <1>0, <1>8, SameRefs
<1>10. SpinHeld'
  BY <1>0 DEF SpinHeld
<1>11. OpPoints'
  BY <1>0, <1>2, <1>4, NoneAssumption DEF OpPoints
<1>12. \A v \in Tasks \ {t} : Unborn(v)' <=> Unborn(v)
  BY <1>2 DEF Unborn
<1>13. \A v \in Tasks : op'[v] = "kfork" <=> op[v] = "kfork"
  BY <1>2, <1>6
<1>14. Forks'
  BY <1>0, <1>3, <1>7, <1>12, <1>13 DEF Forks
<1>15. FreeInv'
  <2>1. CASE last = t
    <3>1. last' = None /\ freed' /\ last # None
      BY <1>0, <2>1, NoneAssumption DEF Destroy, FTypeOK
    <3>2. refcount = 0
      BY <1>0, <3>1 DEF FreeInv
    <3>3. \A v \in Tasks : pc[v] = "idle"
      BY <1>0, <2>1, <3>2 DEF FreeInv
    <3> QED BY <3>1, <3>2, <3>3 DEF FreeInv
  <2>2. CASE last # t
    <3>1. UNCHANGED <<last, freed>>
      BY <1>0, <2>2 DEF Destroy, FTypeOK
    <3>2. last # None => op'[last] = op[last] /\ (Before(last)' <=> Before(last))
      BY <1>0, <1>2, <1>4, <2>2, <3>1 DEF FTypeOK
    <3> QED BY <1>0, <3>1, <3>2 DEF FreeInv
  <2> QED BY <2>1, <2>2
<1> QED BY <1>9, <1>10, <1>11, <1>14, <1>15 DEF FInv

\* The types after file_put() has looked at destroy.
LEMMA DestroyType ==
  ASSUME FTypeOK, NEW t \in Tasks, Destroy(t)
  PROVE  last' \in Tasks \cup {None} /\ freed' \in BOOLEAN
  BY DEF Destroy, FTypeOK

\* file_put() of a system call returns, ...
LEMMA PutRetStep ==
  ASSUME FInv, NEW t \in Tasks, PutRet(t)
  PROVE  FInv'
<1>0. FTypeOK /\ OpPoints /\ Forks
  BY DEF FInv
<1>1. /\ ctx[t] = "on" /\ pc[t] = "idle" /\ op[t] = "file_put" /\ Destroy(t) /\ op' = [op EXCEPT ![t] = "none"]
      /\ UNCHANGED <<state, ctx, lk, pc, spinlock, ofile, left, refcount>>
  BY DEF PutRet, In, Executes, SetOp, vars, taskVars
<1>2. lk[t] = None
  BY <1>0, <1>1, Running DEF OpPoints
<1>3. lk' = [lk EXCEPT ![t] = None]
  BY <1>0, <1>1, <1>2 DEF FTypeOK
<1>4. FTypeOK'
  BY <1>0, <1>1, DestroyType DEF FTypeOK, FOps
<1>5. op[t] \in Putters /\ op[t] # "exit_fs"
  BY <1>1 DEF Putters
<1> QED BY <1>1, <1>3, <1>4, <1>5, EndMove

\* ... and the last one of exit_fs().
LEMMA ExitRetStep ==
  ASSUME FInv, NEW t \in Tasks, ExitRet(t)
  PROVE  FInv'
<1>0. FTypeOK /\ OpPoints /\ Forks
  BY DEF FInv
<1>1. /\ ctx[t] = "on" /\ pc[t] = "idle" /\ op[t] = "exit_fs" /\ ofile[t] = 0 /\ Destroy(t)
      /\ op' = [op EXCEPT ![t] = "none"]
      /\ lk' = [lk EXCEPT ![t] = None] /\ state' = [state EXCEPT ![t] = "ZOMBIE"]
         /\ ctx' = [ctx EXCEPT ![t] = "off"]
      /\ UNCHANGED <<pc, spinlock, ofile, left, refcount>>
  BY DEF ExitRet, In, Executes, SetOp
<1>2. FTypeOK'
  BY <1>0, <1>1, DestroyType DEF FTypeOK, FOps, Contexts
<1>3. op[t] \in Putters /\ (\A v \in Tasks : state'[v] = "INITLIZED" => state[v] = "INITLIZED")
      /\ \A v \in Tasks \ {t} : ctx'[v] = ctx[v]
  BY <1>0, <1>1 DEF Putters, FTypeOK
<1> QED BY <1>1, <1>2, <1>3, EndMove

\* kfork() takes a slot: no reference yet.
LEMMA KForkStep ==
  ASSUME FInv, NEW t \in Tasks, NEW u \in Tasks, KFork(t, u)
  PROVE  FInv'
<1>0. FTypeOK /\ Forks /\ OpPoints /\ SpinHeld /\ CountInv /\ FreeInv
  BY DEF FInv
<1>1. /\ ctx[t] = "on" /\ pc[t] = "idle" /\ op[t] = "none" /\ state[u] = "INITLIZED" /\ lk[u] = None
      /\ state' = [state EXCEPT ![u] = "USED"] /\ lk' = [lk EXCEPT ![u] = t]
      /\ op' = [op EXCEPT ![t] = "kfork"] /\ left' = [left EXCEPT ![t] = ofile[t]]
      /\ UNCHANGED <<ctx, pc, spinlock, ofile, refcount, last, freed>>
  BY DEF KFork, In, Executes, SetOp, Free
<1>2. Unborn(u) /\ u # t
  BY <1>0, <1>1 DEF Forks, Unborn
<1>3. /\ op'[t] = "kfork" /\ lk'[u] = t /\ left'[t] = ofile[t] /\ state'[u] = "USED" /\ ofile[t] \in Nat
      /\ \A v \in Tasks \ {t} : op'[v] = op[v] /\ left'[v] = left[v]
      /\ \A v \in Tasks \ {u} : lk'[v] = lk[v] /\ state'[v] = state[v]
  BY <1>0, <1>1, MaxFdAssumption DEF FTypeOK
<1>4. FTypeOK'
  BY <1>0, <1>1, <1>3 DEF FTypeOK, FOps, Getters
<1>5. lk[t] \in {t, None} /\ lk[t] # t /\ Refs(t) = Own(t)
  BY <1>0, <1>1, Running DEF OpPoints
<1>6. \A v \in Tasks : ~Parent(v, t)
  BY <1>0, <1>1 DEF Forks
<1>7. \A v, w \in Tasks : Parent(v, w)' <=> Parent(v, w) \/ (v = u /\ w = t)
  BY <1>1, <1>2, <1>3, NoneAssumption DEF Parent
<1>8. \A v \in Tasks : Unborn(v) => v # t /\ Unborn(v)'
  BY <1>1, <1>3 DEF Unborn
<1>9. Forks'
  <2>1. \A v \in Tasks : state'[v] = "INITLIZED" => Unborn(v)'
    BY <1>0, <1>3, <1>8 DEF Forks
  <2>2. \A v, w \in Tasks : Parent(v, w)' => Unborn(v)' /\ op'[w] = "kfork"
    BY <1>0, <1>2, <1>3, <1>7, <1>8 DEF Forks
  <2>3. \A v, w, x \in Tasks : Parent(v, x)' /\ Parent(w, x)' => v = w
    BY <1>0, <1>6, <1>7 DEF Forks
  <2>4. \A w \in Tasks : op'[w] = "kfork" => \E v \in Tasks : Parent(v, w)'
    BY <1>0, <1>3, <1>7 DEF Forks
  <2> QED BY <2>1, <2>2, <2>3, <2>4 DEF Forks
<1>10. SpinHeld'
  BY <1>0, <1>1 DEF SpinHeld
<1>11. \A v \in Tasks : Before(v)' <=> Before(v)
  BY <1>1 DEF Before
<1>12. OpPoints'
  <2>1. ~Before(t)
    BY <1>1 DEF Before, BeforePoints
  <2>2. \A v \in Tasks : lk'[v] = v => lk[v] = v
    BY <1>2, <1>3
  <2>3. left'[t] <= ofile'[t]
    BY <1>1, <1>3
  <2> QED BY <1>0, <1>1, <1>3, <1>5, <1>11, <2>1, <2>2, <2>3 DEF OpPoints
<1>13. \A v \in Tasks : Refs(v)' = Refs(v)
  <2>1. \A v \in Tasks : Own(v)' = Own(v)
    BY <1>1, <1>3, <1>11 DEF Own, Extra, Putters
  <2>2. Copied(t)' = 0
    BY <1>1, <1>3 DEF Copied, Before, BeforePoints
  <2>3. \A v \in Tasks \ {t} : Copied(v)' = Copied(v)
    BY <1>1, <1>3, <1>11 DEF Copied
  <2>4. Own(u) = 0
    BY <1>2 DEF Own, Extra, Unborn, Putters
  <2>5. Refs(u)' = Refs(u)
    <3>1. Refs(u) = Own(u)
      BY <1>1, NoneAssumption DEF Refs
    <3>2. Refs(u)' = Copied(t)'
      BY <1>2, <1>3 DEF Refs
    <3> QED BY <2>2, <2>4, <3>1, <3>2
  <2>6. ASSUME NEW v \in Tasks \ {u} PROVE Refs(v)' = Refs(v)
    <3>1. lk'[v] = lk[v]
      BY <1>3
    <3>2. CASE lk[v] \in Tasks \ {v}
      <4>1. PICK x \in Tasks \ {t} : lk[v] = x /\ lk'[v] = x
        BY <1>6, <3>1, <3>2 DEF Parent
      <4>2. Copied(x)' = Copied(x)
        BY <2>3
      <4> QED BY <3>2, <4>1, <4>2 DEF Refs
    <3>3. CASE lk[v] \notin Tasks \ {v}
      BY <2>1, <3>1, <3>3 DEF Refs
    <3> QED BY <3>2, <3>3
  <2> QED BY <2>5, <2>6
<1>14. CountInv'
  BY <1>0, <1>1, <1>13, SameRefs
<1>15. FreeInv'
  <2>1. last # None => last # t
    BY <1>0, <1>1 DEF FreeInv, Putters
  <2>2. last # None => op'[last] = op[last] /\ (Before(last)' <=> Before(last))
    BY <1>0, <1>1, <1>3, <1>11, <2>1 DEF FTypeOK
  <2> QED BY <1>0, <1>1, <2>2 DEF FreeInv
<1> QED BY <1>4, <1>9, <1>10, <1>12, <1>14, <1>15 DEF FInv

\* The task that kfork() of t builds.
LEMMA Child ==
  ASSUME FInv, NEW t \in Tasks, op[t] = "kfork", ctx[t] = "on"
  PROVE  /\ lk[t] = None /\ Refs(t) = Own(t) /\ Own(t) = ofile[t]
         /\ \E u \in Tasks \ {t} : Parent(u, t) /\ Refs(u) = Copied(t) /\ Unborn(u)
                                   /\ \A v \in Tasks \ {u} : lk[v] # t
<1>0. FTypeOK /\ Forks /\ OpPoints
  BY DEF FInv
<1>1. lk[t] = None /\ Refs(t) = Own(t)
  BY <1>0, Running DEF OpPoints
<1>2. Own(t) = ofile[t]
  BY <1>0, OwnFacts DEF Extra, Putters
<1>3. PICK u \in Tasks : Parent(u, t)
  BY <1>0 DEF Forks
<1>4. u # t /\ lk[u] = t /\ Refs(u) = Copied(t)
  BY <1>3 DEF Parent, Refs
<1>5. Unborn(u)
  BY <1>0, <1>3 DEF Forks
<1>6. \A v \in Tasks \ {u} : lk[v] # t
  BY <1>0, <1>1, <1>3, NoneAssumption DEF Forks, Parent
<1> QED BY <1>1, <1>2, <1>3, <1>4, <1>5, <1>6

\* kfork() calls file_get() for the next entry.
LEMMA KForkGetStep ==
  ASSUME FInv, NEW t \in Tasks, KForkGet(t)
  PROVE  FInv'
<1>0. FTypeOK /\ Forks /\ OpPoints /\ SpinHeld /\ CountInv /\ FreeInv
  BY DEF FInv
<1>1. /\ ctx[t] = "on" /\ pc[t] = "idle" /\ op[t] = "kfork" /\ left[t] > 0
      /\ left' = [left EXCEPT ![t] = left[t] - 1] /\ pc' = [pc EXCEPT ![t] = "acq"]
      /\ UNCHANGED <<state, ctx, spinlock, lk, ofile, op, refcount, last, freed>>
  BY DEF KForkGet, In, Executes, Goto, Sleeping
<1>2. left[t] \in Nat /\ left[t] - 1 \in Nat /\ ofile[t] \in Nat /\ left[t] <= ofile[t]
  BY <1>0, <1>1, MaxFdAssumption DEF FTypeOK, OpPoints
<1>3. /\ pc'[t] = "acq" /\ left'[t] = left[t] - 1 /\ \A v \in Tasks \ {t} : pc'[v] = pc[v] /\ left'[v] = left[v]
  BY <1>0, <1>1 DEF FTypeOK
<1>4. FTypeOK'
  BY <1>0, <1>1, <1>2 DEF FTypeOK, BeforePoints
<1>5. Before(t)' /\ ~Before(t) /\ \A v \in Tasks \ {t} : Before(v)' <=> Before(v)
  BY <1>1, <1>3 DEF Before, BeforePoints
<1>6. \A v \in Tasks : Own(v)' = Own(v) /\ Copied(v)' = Copied(v)
  <2>1. Copied(t)' = Copied(t)
    BY <1>1, <1>2, <1>3, <1>5 DEF Copied
  <2>2. Own(t)' = Own(t)
    BY <1>1 DEF Own, Extra, Putters
  <2> QED BY <1>1, <1>3, <1>5, <2>1, <2>2 DEF Own, Extra, Copied
<1>7. \A v \in Tasks : Refs(v)' = Refs(v)
  <2> SUFFICES ASSUME NEW v \in Tasks PROVE Refs(v)' = Refs(v)
    OBVIOUS
  <2>1. CASE lk[v] \in Tasks \ {v}
    <3>1. PICK x \in Tasks : lk[v] = x /\ lk'[v] = x
      BY <1>1, <2>1
    <3>2. Copied(x)' = Copied(x)
      BY <1>6
    <3> QED BY <2>1, <3>1, <3>2 DEF Refs
  <2>2. CASE lk[v] \notin Tasks \ {v}
    BY <1>1, <1>6, <2>2 DEF Refs
  <2> QED BY <2>1, <2>2
<1>8. CountInv'
  BY <1>0, <1>1, <1>7, SameRefs
<1>9. SpinHeld'
  BY <1>0, <1>1, <1>3 DEF SpinHeld, AfterPoints
<1>10. OpPoints'
  BY <1>0, <1>1, <1>2, <1>3, <1>5 DEF OpPoints
<1>11. \A v \in Tasks : Unborn(v) => Unborn(v)'
  BY <1>1, <1>3 DEF Unborn
<1>12. Forks'
  BY <1>0, <1>1, <1>11 DEF Forks, Parent
<1>13. refcount > 0
  <2>1. Refs(t) = Own(t) /\ Own(t) = ofile[t]
    BY <1>1, Child
  <2> QED BY <1>0, <1>1, <1>2, <2>1, RefsPositive
<1>14. FreeInv'
  BY <1>0, <1>1, <1>13 DEF FreeInv, FTypeOK
<1> QED BY <1>4, <1>8, <1>9, <1>10, <1>12, <1>14 DEF FInv

\* kfork() is over: what was copied for the child is now its own.
LEMMA KForkRetStep ==
  ASSUME FInv, NEW t \in Tasks, NEW u \in Tasks, KForkRet(t, u)
  PROVE  FInv'
<1>0. FTypeOK /\ Forks /\ OpPoints /\ SpinHeld /\ CountInv /\ FreeInv
  BY DEF FInv
<1>1. /\ ctx[t] = "on" /\ pc[t] = "idle" /\ op[t] = "kfork" /\ left[t] = 0 /\ lk[u] = t
      /\ state' = [state EXCEPT ![u] = "RUNNABLE"] /\ lk' = [lk EXCEPT ![u] = None]
      /\ op' = [op EXCEPT ![t] = "none"] /\ ofile' = [ofile EXCEPT ![u] = ofile[t]]
      /\ UNCHANGED <<ctx, pc, spinlock, left, refcount, last, freed>>
  BY DEF KForkRet, In, Executes, SetOp
<1>2. /\ lk[t] = None /\ u # t /\ Refs(u) = Copied(t) /\ Unborn(u) /\ Refs(t) = Own(t) /\ Own(t) = ofile[t]
      /\ \A v \in Tasks \ {u} : lk[v] # t
  <2>1. PICK w \in Tasks \ {t} : Refs(w) = Copied(t) /\ Unborn(w) /\ \A v \in Tasks \ {w} : lk[v] # t
    BY <1>1, Child
  <2>2. w = u
    BY <1>1, <2>1
  <2> QED BY <1>1, <2>1, <2>2, Child
<1>3. /\ op'[t] = "none" /\ lk'[u] = None /\ ofile'[u] = ofile[t] /\ state'[u] = "RUNNABLE" /\ ofile[t] \in Nat
      /\ \A v \in Tasks \ {t} : op'[v] = op[v]
      /\ \A v \in Tasks \ {u} : lk'[v] = lk[v] /\ state'[v] = state[v] /\ ofile'[v] = ofile[v]
  BY <1>0, <1>1, MaxFdAssumption DEF FTypeOK
<1>4. FTypeOK'
  BY <1>0, <1>1, <1>3 DEF FTypeOK, FOps
<1>5. \A v \in Tasks : Before(v)' <=> Before(v)
  BY <1>1 DEF Before
<1>6. ~Before(t) /\ ~Before(u) /\ pc[u] = "idle" /\ op[u] = "none" /\ ctx[u] = "off"
  BY <1>1, <1>2 DEF Before, BeforePoints, Unborn
<1>7. \A v \in Tasks : Refs(v)' = Refs(v)
  <2>1. Refs(u)' = ofile[t]
    <3>1. Refs(u)' = Own(u)'
      BY <1>3, NoneAssumption DEF Refs
    <3>2. Own(u)' = ofile[t]
      BY <1>2, <1>3, <1>5, <1>6 DEF Own, Extra, Putters
    <3> QED BY <3>1, <3>2
  <2>2. Copied(t) = ofile[t]
    BY <1>1, <1>3, <1>6 DEF Copied
  <2>3. ASSUME NEW v \in Tasks \ {u} PROVE Refs(v)' = Refs(v)
    <3>1. lk'[v] = lk[v] /\ lk[v] # t
      BY <1>2, <1>3
    <3>2. CASE lk[v] \in Tasks \ {v}
      <4>1. PICK x \in Tasks \ {t} : lk[v] = x /\ lk'[v] = x
        BY <3>1, <3>2
      <4>2. x # u
        <5>1. Parent(v, x)
          BY <3>2, <4>1 DEF Parent
        <5> QED BY <1>0, <1>6, <5>1 DEF Forks
      <4>3. Copied(x)' = Copied(x)
        BY <1>1, <1>3, <1>5, <4>2 DEF Copied
      <4> QED BY <3>2, <4>1, <4>3 DEF Refs
    <3>3. CASE lk[v] \notin Tasks \ {v}
      <4>1. Own(v)' = Own(v)
        BY <1>1, <1>3, <1>5 DEF Own, Extra, Putters
      <4> QED BY <3>1, <3>3, <4>1 DEF Refs
    <3> QED BY <3>2, <3>3
  <2> QED BY <1>2, <2>1, <2>2, <2>3
<1>8. CountInv'
  BY <1>0, <1>1, <1>7, SameRefs
<1>9. SpinHeld'
  BY <1>0, <1>1 DEF SpinHeld
<1>10. OpPoints'
  BY <1>0, <1>1, <1>2, <1>3, <1>5, <1>6, NoneAssumption DEF OpPoints
<1>11. \A v, w \in Tasks : Parent(v, w)' <=> Parent(v, w) /\ v # u
  BY <1>3, NoneAssumption DEF Parent
<1>12. \A v \in Tasks \ {u} : Unborn(v) => Unborn(v)'
  BY <1>1, <1>3 DEF Unborn
<1>13. Forks'
  <2>1. \A v \in Tasks : state'[v] = "INITLIZED" => Unborn(v)'
    BY <1>0, <1>3, <1>12 DEF Forks
  <2>2. \A v, w \in Tasks : Parent(v, w)' => Unborn(v)' /\ op'[w] = "kfork"
    <3> SUFFICES ASSUME NEW v \in Tasks, NEW w \in Tasks, Parent(v, w)' PROVE Unborn(v)' /\ op'[w] = "kfork"
      OBVIOUS
    <3>1. Parent(v, w) /\ v # u
      BY <1>11
    <3>2. w # t
      BY <1>2, <3>1 DEF Parent
    <3> QED BY <1>0, <1>3, <1>12, <3>1, <3>2 DEF Forks
  <2>3. \A v, w, x \in Tasks : Parent(v, x)' /\ Parent(w, x)' => v = w
    BY <1>0, <1>11 DEF Forks
  <2>4. \A w \in Tasks : op'[w] = "kfork" => \E v \in Tasks : Parent(v, w)'
    <3> SUFFICES ASSUME NEW w \in Tasks, op'[w] = "kfork" PROVE \E v \in Tasks : Parent(v, w)'
      OBVIOUS
    <3>1. w # t /\ op[w] = "kfork"
      BY <1>3
    <3>2. PICK v \in Tasks : Parent(v, w)
      BY <1>0, <3>1 DEF Forks
    <3>3. v # u
      BY <1>1, <3>1, <3>2 DEF Parent
    <3> QED BY <1>11, <3>2, <3>3
  <2> QED BY <2>1, <2>2, <2>3, <2>4 DEF Forks
<1>14. FreeInv'
  <2>1. last # None => last # t
    BY <1>0, <1>1 DEF FreeInv, Putters
  <2>2. last # None => op'[last] = op[last] /\ (Before(last)' <=> Before(last))
    BY <1>0, <1>1, <1>3, <1>5, <2>1 DEF FTypeOK
  <2> QED BY <1>0, <1>1, <2>2 DEF FreeInv
<1> QED BY <1>4, <1>8, <1>9, <1>10, <1>13, <1>14 DEF FInv

\* One task has one more reference: so has the set of them, ...
LEMMA OneMore ==
  ASSUME CountInv, NEW t \in Tasks, Refs(t) \in Nat, Refs(t)' = Refs(t) + 1,
         \A v \in Tasks \ {t} : Refs(v)' = Refs(v)
  PROVE  IsFiniteSet(RefSet') /\ Cardinality(RefSet') = Cardinality(RefSet) + 1 /\ Cardinality(RefSet) \in Nat
<1> DEFINE e == <<t, Refs(t) + 1>>
<1>1. RefSet' = RefSet \cup {e} /\ e \notin RefSet
  <2>1. ASSUME NEW r \in Tasks \X Nat PROVE r \in RefSet' <=> r \in RefSet \/ r = e
    <3>1. r \in RefSet' <=> 1 <= r[2] /\ r[2] <= Refs(r[1])'
      BY DEF RefSet
    <3>2. r \in RefSet <=> 1 <= r[2] /\ r[2] <= Refs(r[1])
      BY DEF RefSet
    <3>3. r[1] \in Tasks /\ r[2] \in Nat /\ r = <<r[1], r[2]>>
      OBVIOUS
    <3>4. CASE r[1] = t
      <4>1. r = e <=> r[2] = Refs(t) + 1
        BY <3>3, <3>4
      <4>2. Refs(r[1])' = Refs(t) + 1 /\ Refs(r[1]) = Refs(t)
        BY <3>4
      <4> QED BY <3>1, <3>2, <3>3, <4>1, <4>2
    <3>5. CASE r[1] # t
      <4>1. Refs(r[1])' = Refs(r[1]) /\ r # e
        BY <3>3, <3>5
      <4> QED BY <3>1, <3>2, <4>1
    <3> QED BY <3>4, <3>5
  <2>2. RefSet \subseteq Tasks \X Nat /\ RefSet' \subseteq Tasks \X Nat /\ e \in Tasks \X Nat
    BY DEF RefSet
  <2>3. e \notin RefSet
    BY DEF RefSet
  <2> HIDE DEF e
  <2> QED BY <2>1, <2>2, <2>3
<1> HIDE DEF e
<1> QED BY <1>1, FS_AddElement, FS_CardinalityType DEF CountInv

\* ... or one less.
LEMMA OneLess ==
  ASSUME CountInv, NEW t \in Tasks, Refs(t) \in Nat, Refs(t) >= 1, Refs(t)' = Refs(t) - 1,
         \A v \in Tasks \ {t} : Refs(v)' = Refs(v)
  PROVE  IsFiniteSet(RefSet') /\ Cardinality(RefSet') = Cardinality(RefSet) - 1 /\ Cardinality(RefSet) \in Nat
<1> DEFINE e == <<t, Refs(t)>>
<1>1. RefSet' = RefSet \ {e} /\ e \in RefSet
  <2>1. ASSUME NEW r \in Tasks \X Nat PROVE r \in RefSet' <=> r \in RefSet /\ r # e
    <3>1. r \in RefSet' <=> 1 <= r[2] /\ r[2] <= Refs(r[1])'
      BY DEF RefSet
    <3>2. r \in RefSet <=> 1 <= r[2] /\ r[2] <= Refs(r[1])
      BY DEF RefSet
    <3>3. r[1] \in Tasks /\ r[2] \in Nat /\ r = <<r[1], r[2]>>
      OBVIOUS
    <3>4. CASE r[1] = t
      <4>1. r = e <=> r[2] = Refs(t)
        BY <3>3, <3>4
      <4>2. Refs(r[1])' = Refs(t) - 1 /\ Refs(r[1]) = Refs(t)
        BY <3>4
      <4> QED BY <3>1, <3>2, <3>3, <4>1, <4>2
    <3>5. CASE r[1] # t
      <4>1. Refs(r[1])' = Refs(r[1]) /\ r # e
        BY <3>3, <3>5
      <4> QED BY <3>1, <3>2, <4>1
    <3> QED BY <3>4, <3>5
  <2>2. RefSet \subseteq Tasks \X Nat /\ RefSet' \subseteq Tasks \X Nat
    BY DEF RefSet
  <2>3. e \in RefSet
    BY DEF RefSet
  <2> HIDE DEF e
  <2> QED BY <2>1, <2>2, <2>3
<1> HIDE DEF e
<1> QED BY <1>1, FS_RemoveElement, FS_CardinalityType DEF CountInv

\* Two tasks with references: there are at least two.
LEMMA TwoRefs ==
  ASSUME CountInv, NEW t \in Tasks, NEW v \in Tasks, t # v, 1 <= Refs(t), 1 <= Refs(v)
  PROVE  refcount >= 2
<1>1. <<t, 1>> \in RefSet /\ <<v, 1>> \in RefSet /\ <<t, 1>> # <<v, 1>>
  BY DEF RefSet
<1> DEFINE R == RefSet \ {<<t, 1>>}
<1>2. IsFiniteSet(R) /\ Cardinality(R) = Cardinality(RefSet) - 1 /\ Cardinality(RefSet) \in Nat
  BY <1>1, FS_RemoveElement, FS_CardinalityType DEF CountInv
<1>3. R # {}
  BY <1>1
<1>4. Cardinality(R) # 0 /\ Cardinality(R) \in Nat
  BY <1>2, <1>3, FS_EmptySet, FS_CardinalityType
<1> QED BY <1>2, <1>4 DEF CountInv

\* file_get() and file_put() change the count under file->slk, and the reference of
\* the task comes or goes in the same step.  The last file_put() sees refcount 1,
\* so that no other task has a reference or is at the lock.
LEMMA CountStep ==
  ASSUME FInv, NEW t \in Tasks, Count(t)
  PROVE  FInv'
<1>0. FTypeOK /\ Forks /\ OpPoints /\ SpinHeld /\ CountInv /\ FreeInv
  BY DEF FInv
<1>1. /\ ctx[t] = "on" /\ pc[t] = "holding" /\ spinlock = None /\ spinlock' = t
      /\ pc' = [pc EXCEPT ![t] = "rel"]
      /\ refcount' = (CASE Added(t) -> refcount + 1
                       [] op[t] \in Putters /\ refcount > 0 -> refcount - 1
                       [] OTHER -> refcount)
      /\ last' = IF IsLast(t) THEN t ELSE last
      /\ UNCHANGED <<state, ctx, lk, ofile, op, left, freed>>
  BY DEF Count, RelSpin, Executes, Goto
<1>2. Before(t) /\ ~Before(t)' /\ pc'[t] = "rel" /\ \A v \in Tasks \ {t} : pc'[v] = pc[v]
      /\ (Before(v)' <=> Before(v))
  BY <1>0, <1>1 DEF Before, BeforePoints, FTypeOK
<1>3. refcount > 0 /\ Own(t) >= 1 /\ Refs(t) = Own(t) /\ refcount \in Nat
  BY <1>0, <1>2, BeforeLive DEF FTypeOK
<1>4. last = None /\ ~freed
  BY <1>0, <1>3 DEF FreeInv, FTypeOK
<1>5. op[t] \in {"used"} \cup Getters \cup Putters
  BY <1>0, <1>1 DEF FTypeOK, FOps, OpPoints
<1>6. lk[t] \in {t, None}
  BY <1>0, <1>1, Running
<1>7. \A v \in Tasks \ {t} : Own(v)' = Own(v) /\ Copied(v)' = Copied(v)
  BY <1>1, <1>2 DEF Own, Extra, Copied
<1>8. ASSUME NEW v \in Tasks \ {t}, op[t] # "kfork" PROVE Refs(v)' = Refs(v)
  <2>1. CASE lk[v] \in Tasks \ {v}
    <3>1. PICK x \in Tasks : lk[v] = x /\ lk'[v] = x
      BY <1>1, <2>1
    <3>2. x # t
      BY <1>0, <1>8, <2>1, <3>1 DEF Forks, Parent
    <3>3. Copied(x)' = Copied(x)
      BY <1>7, <3>2
    <3> QED BY <2>1, <3>1, <3>3 DEF Refs
  <2>2. CASE lk[v] \notin Tasks \ {v}
    BY <1>1, <1>7, <2>2 DEF Refs
  <2> QED BY <2>1, <2>2
<1>9. Refs(t)' = Own(t)'
  BY <1>1, <1>6, NoneAssumption DEF Refs
<1>10. Own(t) \in Nat /\ ofile[t] \in Nat
  BY <1>0, OwnFacts
<1>11. /\ IsFiniteSet(RefSet') /\ refcount' = Cardinality(RefSet') /\ refcount' \in Nat
       /\ op[t] \notin Putters => refcount' > 0 /\ ~IsLast(t)
       /\ op[t] \in Putters => refcount' = refcount - 1
  <2>1. CASE op[t] = "used"
    <3>1. Own(t)' = Own(t)
      BY <1>1, <2>1 DEF Own, Extra
    <3>2. \A v \in Tasks : Refs(v)' = Refs(v)
      BY <1>3, <1>8, <1>9, <2>1, <3>1
    <3>3. refcount' = refcount /\ ~IsLast(t) /\ op[t] \notin Putters
      BY <1>1, <2>1 DEF Added, IsLast, Getters, Putters
    <3>4. CountInv'
      BY <1>0, <3>2, <3>3, SameRefs
    <3> QED BY <1>3, <3>3, <3>4 DEF CountInv
  <2>2. CASE op[t] \in {"fd_get", "fd_alloc"}
    <3>1. Own(t)' = Own(t) + 1
      BY <1>1, <1>2, <1>10, <2>2 DEF Own, Extra, Putters
    <3>2. refcount' = refcount + 1 /\ ~IsLast(t) /\ op[t] \notin Putters
      BY <1>1, <2>2 DEF Added, IsLast, Getters, Putters
    <3>3. op[t] # "kfork"
      BY <2>2
    <3>4. IsFiniteSet(RefSet') /\ Cardinality(RefSet') = Cardinality(RefSet) + 1
      BY <1>0, <1>3, <1>8, <1>9, <1>10, <3>1, <3>3, OneMore
    <3> QED BY <1>0, <1>3, <3>2, <3>4 DEF CountInv
  <2>3. CASE op[t] = "kfork"
    <3>1. PICK u \in Tasks \ {t} : Parent(u, t) /\ Refs(u) = Copied(t) /\ \A v \in Tasks \ {u} : lk[v] # t
      BY <1>1, <2>3, Child
    <3>2. left[t] \in Nat /\ left[t] < ofile[t]
      BY <1>0, <1>2, <2>3 DEF OpPoints, FTypeOK
    <3>3. Copied(t) \in Nat /\ Copied(t)' = Copied(t) + 1
      BY <1>1, <1>2, <1>10, <3>2 DEF Copied
    <3>4. Refs(u)' = Copied(t)'
      BY <1>1, <3>1 DEF Refs, Parent
    <3>5. ASSUME NEW v \in Tasks \ {u} PROVE Refs(v)' = Refs(v)
      <4>1. CASE v = t
        <5>1. Own(t)' = Own(t)
          BY <1>1, <2>3 DEF Own, Extra, Putters
        <5> QED BY <1>3, <1>9, <4>1, <5>1
      <4>2. CASE v # t /\ lk[v] \in Tasks \ {v}
        <5>1. PICK x \in Tasks \ {t} : lk[v] = x /\ lk'[v] = x
          BY <1>1, <3>1, <4>2
        <5>2. Copied(x)' = Copied(x)
          BY <1>7
        <5> QED BY <4>2, <5>1, <5>2 DEF Refs
      <4>3. CASE v # t /\ lk[v] \notin Tasks \ {v}
        BY <1>1, <1>7, <4>3 DEF Refs
      <4> QED BY <4>1, <4>2, <4>3
    <3>6. refcount' = refcount + 1 /\ ~IsLast(t) /\ op[t] \notin Putters
      BY <1>1, <2>3 DEF Added, IsLast, Getters, Putters
    <3>7. Refs(u) \in Nat /\ Refs(u)' = Refs(u) + 1
      BY <3>1, <3>3, <3>4
    <3>8. IsFiniteSet(RefSet') /\ Cardinality(RefSet') = Cardinality(RefSet) + 1
      BY <1>0, <3>5, <3>7, OneMore
    <3> QED BY <1>0, <1>3, <3>6, <3>8 DEF CountInv
  <2>4. CASE op[t] \in Putters
    <3>1. Own(t)' = Own(t) - 1
      BY <1>1, <1>2, <1>10, <2>4 DEF Own, Extra, Putters
    <3>2. refcount' = refcount - 1 /\ op[t] # "kfork"
      BY <1>1, <1>3, <2>4 DEF Added, Getters, Putters
    <3>3. IsFiniteSet(RefSet') /\ Cardinality(RefSet') = Cardinality(RefSet) - 1
      BY <1>0, <1>3, <1>8, <1>9, <1>10, <3>1, <3>2, OneLess
    <3> QED BY <1>0, <1>3, <2>4, <3>2, <3>3 DEF CountInv
  <2> QED BY <1>5, <2>1, <2>2, <2>3, <2>4 DEF Getters
<1>12. CountInv'
  BY <1>11 DEF CountInv
<1>13. FTypeOK'
  BY <1>0, <1>1, <1>11 DEF FTypeOK, AfterPoints
<1>14. SpinHeld'
  BY <1>0, <1>1, <1>2, NoneAssumption DEF SpinHeld
<1>15. OpPoints'
  BY <1>0, <1>1, <1>2, <1>5 DEF OpPoints, Getters, Putters
<1>16. Forks'
  <2>1. \A v \in Tasks : Unborn(v) => Unborn(v)'
    BY <1>1, <1>2 DEF Unborn
  <2> QED BY <1>0, <1>1, <2>1 DEF Forks, Parent
<1>17. FreeInv'
  <2>1. CASE refcount' > 0
    <3>1. ~IsLast(t)
      <4>1. refcount' = refcount - 1 => refcount > 1
        BY <1>3, <2>1
      <4> QED BY <1>3, <1>11, <4>1 DEF IsLast
    <3> QED BY <1>1, <1>4, <2>1, <3>1, <1>11 DEF FreeInv
  <2>2. CASE refcount' = 0
    <3>1. op[t] \in Putters /\ refcount = 1
      BY <1>3, <1>11, <2>2
    <3>2. last' = t /\ t # None
      BY <1>1, <3>1, NoneAssumption DEF IsLast
    <3>3. ASSUME NEW v \in Tasks, pc'[v] # "idle", v # t PROVE FALSE
      <4>1. pc[v] # "idle" /\ spinlock # v
        BY <1>1, <1>2, <3>3, NoneAssumption
      <4>2. Before(v)
        BY <1>0, <4>1 DEF FTypeOK, SpinHeld, Before, BeforePoints, AfterPoints
      <4>3. Own(v) >= 1 /\ Refs(v) = Own(v)
        BY <4>2, BeforeLive
      <4> QED BY <1>0, <1>3, <3>1, <3>3, <4>3, TwoRefs
    <3>4. op'[t] \in Putters /\ ~Before(t)' /\ ~freed'
      BY <1>1, <1>2, <1>4, <3>1
    <3> QED BY <2>2, <3>2, <3>3, <3>4 DEF FreeInv
  <2>3. refcount' > 0 \/ refcount' = 0
    BY <1>11
  <2> QED BY <2>1, <2>2, <2>3
<1> QED BY <1>12, <1>13, <1>14, <1>15, <1>16, <1>17 DEF FInv

\* A panic, or no step, changes nothing the invariant is about.
LEMMA PanicStep ==
  ASSUME FInv, NEW t \in Tasks, Panic(t) \/ UNCHANGED fvars
  PROVE  FInv'
<1>1. UNCHANGED <<vars, ofile, op, left, refcount, last, freed>>
  BY DEF Panic, fvars, fileVars
<1>2. UNCHANGED <<state, lk, ctx, pc, spinlock, ofile, op, left, refcount, last, freed>>
  BY <1>1 DEF vars, taskVars
<1>3. FTypeOK' /\ SpinHeld' /\ OpPoints' /\ Forks'
  BY <1>2 DEF FInv, FTypeOK, SpinHeld, OpPoints, Forks, Before, Unborn, Parent
<1>4. \A v \in Tasks : Refs(v)' = Refs(v)
  BY <1>2 DEF Refs, Own, Copied, Extra, Before
<1>5. CountInv'
  BY <1>2, <1>4, SameRefs DEF FInv
<1>6. FreeInv'
  BY <1>2 DEF FInv, FreeInv, Before
<1> QED BY <1>3, <1>5, <1>6 DEF FInv

\* vfs_open() establishes the invariant.
LEMMA FileInit == FInit => FInv
<1> SUFFICES ASSUME FInit PROVE FInv
  OBVIOUS
<1>0. First \in Tasks /\ MaxFd \in Nat /\ MaxFd >= 1
  BY FirstAssumption, MaxFdAssumption
<1>1. FTypeOK
  <2>1. ofile \in [Tasks -> 0..MaxFd] /\ op \in [Tasks -> FOps] /\ left \in [Tasks -> Nat]
    BY <1>0 DEF FInit, FOps
  <2>2. refcount \in Nat /\ last \in Tasks \cup {None} /\ freed \in BOOLEAN
    BY DEF FInit
  <2> QED BY <2>1, <2>2 DEF FInit, FTypeOK, Contexts
<1>2. \A t \in Tasks : ~Before(t) /\ lk[t] = None /\ op[t] = "none" /\ pc[t] = "idle"
  BY DEF FInit, Before, BeforePoints
<1>3. SpinHeld /\ OpPoints
  BY <1>2, NoneAssumption DEF SpinHeld, OpPoints, AfterPoints
<1>4. Forks
  BY <1>2, NoneAssumption DEF Forks, Parent, Unborn, FInit
<1>5. \A t \in Tasks : Refs(t) = IF t = First THEN 1 ELSE 0
  BY <1>2, NoneAssumption DEF Refs, Own, Extra, Putters, FInit
<1>6. RefSet = {<<First, 1>>}
  BY <1>0, <1>5 DEF RefSet
<1>7. CountInv
  BY <1>6, FS_Singleton DEF CountInv, FInit
<1>8. FreeInv
  BY <1>2 DEF FreeInv, FInit
<1> QED BY <1>1, <1>3, <1>4, <1>7, <1>8 DEF FInv

\* Every step preserves FInv.
LEMMA FileStepInv ==
  ASSUME FInv, [FNext]_fvars
  PROVE  FInv'
<1>1. CASE UNCHANGED fvars
  BY <1>1, FirstAssumption, PanicStep
<1>2. ASSUME NEW t \in Tasks, LockStep(t) PROVE FInv'
  BY <1>2, LockStepInv
<1>3. ASSUME NEW t \in Tasks, FileStep(t) PROVE FInv'
  BY <1>3, FileMoves, ExitPutStep, PutRetStep, ExitRetStep, KForkStep, KForkGetStep,
     KForkRetStep, CountStep, PanicStep DEF FileStep
<1> QED BY <1>1, <1>2, <1>3 DEF FNext

\* The invariant implies the property.
LEMMA FileInvSound == FInv => FileSound
<1> SUFFICES ASSUME FInv PROVE FileSound
  OBVIOUS
<1>0. FTypeOK /\ Forks /\ OpPoints /\ CountInv /\ FreeInv
  BY DEF FInv
<1>1. NoUseAfterFree
  <2> SUFFICES ASSUME freed, NEW t \in Tasks PROVE ~InUse(t)
    BY DEF NoUseAfterFree
  <2>1. refcount = 0 /\ last = None
    BY <1>0 DEF FreeInv
  <2>2. pc[t] = "idle" /\ ~Before(t)
    BY <1>0, <2>1, NoneAssumption DEF FreeInv, Before, BeforePoints
  <2>3. ~(1 <= Refs(t))
    BY <1>0, <2>1, RefsPositive
  <2>4. ofile[t] = 0
    <3>1. CASE lk[t] \in Tasks \ {t}
      BY <1>0, <3>1 DEF Forks, Parent, Unborn
    <3>2. CASE lk[t] \notin Tasks \ {t}
      BY <1>0, <2>3, <3>2, OwnFacts DEF Refs
    <3> QED BY <3>1, <3>2
  <2>5. op[t] \notin {"fd_get", "got", "used", "fd_alloc"}
    <3> SUFFICES ASSUME op[t] \in {"fd_get", "got", "used", "fd_alloc"} PROVE FALSE
      OBVIOUS
    <3>1. Extra(t) /\ Refs(t) = Own(t)
      BY <1>0, <2>2, Running DEF Extra
    <3> QED BY <1>0, <2>3, <3>1, OwnFacts
  <2> QED BY <2>2, <2>4, <2>5 DEF InUse
<1>2. CountExact
  <2> SUFFICES ASSUME \A t \in Tasks : op[t] = "none"
               PROVE  refcount = Cardinality(Descriptors) /\ (freed <=> refcount = 0)
    BY DEF CountExact
  <2>1. \A t \in Tasks : Refs(t) = ofile[t] /\ ofile[t] \in 0..MaxFd
    <3> SUFFICES ASSUME NEW t \in Tasks PROVE Refs(t) = ofile[t] /\ ofile[t] \in 0..MaxFd
      OBVIOUS
    <3>1. lk[t] \notin Tasks \ {t}
      BY <1>0 DEF Forks, Parent
    <3>2. ~Extra(t)
      BY DEF Extra, Putters
    <3> QED BY <1>0, <3>1, <3>2, OwnFacts DEF Refs, FTypeOK
  <2>2. RefSet = Descriptors
    BY <2>1, MaxFdAssumption DEF RefSet, Descriptors
  <2>3. last = None
    BY <1>0 DEF FreeInv, FTypeOK, Putters
  <2> QED BY <1>0, <2>2, <2>3 DEF CountInv, FreeInv
<1> QED BY <1>1, <1>2 DEF FileSound

\* For any number of tasks and descriptors: struct file is never freed while a
\* descriptor refers to it, a system call uses it or a task is at its lock, and when
\* no operation is under way refcount is the number of descriptors and the object is
\* freed exactly when there are none, whatever reads, dups, closes, forks and exits
\* run at the same time.
THEOREM FileSoundHolds == FSpec => []FileSound
<1> QED BY FileInit, FileStepInv, FileInvSound, PTL DEF FSpec

\* What file->slk knows of task t fits the point t is at.
FLockAt(t) ==
  /\ holder = t <=> pc[t] \in {"holding", "rel"}
  /\ spinlock = t => pc[t] \in {"test", "rel", "wake1", "done"}
  /\ ctx[t] \in {"on", "in"} => state[t] = "RUNNING"
  /\ pc[t] = "asleep" => ctx[t] # "on"
  /\ Queued(t) => pc[t] = "asleep" /\ state[t] = "SLEEP"

\* file->slk: owner, queue and spinlock fit the points of the tasks.
FLockInv ==
  /\ wait_queue \in Seq(Tasks) /\ holder \in Tasks \cup {None}
  /\ locked <=> holder # None
  /\ \A t \in Tasks : FLockAt(t)
  /\ \A i, j \in 1..Len(wait_queue) : wait_queue[i] = wait_queue[j] => i = j

\* A step that leaves the owner and the queue alone keeps the rest if what it
\* does to one task fits.
LEMMA FLockMove ==
  ASSUME FTypeOK, FLockInv, NEW t \in Tasks, NEW p, NEW c, NEW s,
         pc' = [pc EXCEPT ![t] = p], ctx' = [ctx EXCEPT ![t] = c],
         state' = [state EXCEPT ![t] = s], UNCHANGED slkVars,
         spinlock' \in {spinlock, t, None},
         FLockAt(t)'
  PROVE  FLockInv'
<1> USE DEF slkVars
<1>1. ASSUME NEW v \in Tasks, v # t PROVE FLockAt(v)'
  <2>1. pc'[v] = pc[v] /\ ctx'[v] = ctx[v] /\ state'[v] = state[v]
    BY <1>1 DEF FTypeOK
  <2>2. spinlock' = v => spinlock = v
    BY <1>1, NoneAssumption
  <2>3. Queued(v)' <=> Queued(v)
    BY DEF Queued
  <2> QED BY <2>1, <2>2, <2>3 DEF FLockInv, FLockAt
<1> QED BY <1>1 DEF FLockInv

\* A step of the sleep lock itself keeps it,
LEMMA FLockLockStep ==
  ASSUME FInv, FLockInv, NEW t \in Tasks, LockStep(t)
  PROVE  FLockInv'
<1> USE NoneAssumption DEF FInv, Executes, Goto
<1>a. FTypeOK /\ FLockAt(t)
  BY DEF FLockInv
<1>1. CASE SwitchIn(t) \/ SwitchOut(t) \/ Yield(t)
  <2>1. FLockAt(t)' /\ UNCHANGED slkVars /\ spinlock' = spinlock
    BY <1>a, <1>1 DEF SwitchIn, SwitchOut, Yield, FTypeOK, FLockAt, Queued, slkVars
  <2>2. pc' = [pc EXCEPT ![t] = pc[t]] /\ ctx' = [ctx EXCEPT ![t] = ctx'[t]]
        /\ state' = [state EXCEPT ![t] = state'[t]]
    BY <1>a, <1>1 DEF SwitchIn, SwitchOut, Yield, FTypeOK
  <2> QED BY <1>a, <2>1, <2>2, FLockMove
<1>2. CASE Resume(t)
  <2>1. FLockAt(t)' /\ UNCHANGED slkVars /\ spinlock' = spinlock
    BY <1>a, <1>2 DEF Resume, FTypeOK, FLockAt, Queued, slkVars, BeforePoints, AfterPoints
  <2>2. pc' = [pc EXCEPT ![t] = pc'[t]] /\ ctx' = [ctx EXCEPT ![t] = ctx'[t]]
        /\ state' = [state EXCEPT ![t] = state[t]]
    BY <1>a, <1>2 DEF Resume, FTypeOK
  <2> QED BY <1>a, <2>1, <2>2, FLockMove
<1>3. CASE AcqSpin(t) \/ RelEmpty(t) \/ RelDone(t)
  <2>1. FLockAt(t)' /\ UNCHANGED slkVars /\ spinlock' \in {spinlock, t, None}
    BY <1>a, <1>3 DEF AcqSpin, RelEmpty, RelDone, FTypeOK, FLockAt, Queued, slkVars
  <2>2. pc' = [pc EXCEPT ![t] = pc'[t]] /\ ctx' = [ctx EXCEPT ![t] = ctx[t]]
        /\ state' = [state EXCEPT ![t] = state[t]]
    BY <1>a, <1>3 DEF AcqSpin, RelEmpty, RelDone, FTypeOK
  <2> QED BY <1>a, <2>1, <2>2, FLockMove
<1>4. CASE AcqGet(t) \/ RelDrop(t, "wake1")
  <2>1. /\ wait_queue' = wait_queue /\ ctx' = ctx /\ state' = state
        /\ \/ pc' = [pc EXCEPT ![t] = "holding"] /\ pc[t] = "test" /\ ~locked
              /\ holder' = t /\ locked' = TRUE /\ spinlock' = None
           \/ pc' = [pc EXCEPT ![t] = "wake1"] /\ pc[t] = "rel" /\ holder = t
              /\ holder' = None /\ locked' = FALSE /\ spinlock' = spinlock
    BY <1>4 DEF AcqGet, RelDrop
  <2>2. ASSUME NEW v \in Tasks PROVE FLockAt(v)'
    <3>1. FLockAt(v) /\ (Queued(v)' <=> Queued(v))
      BY <2>1 DEF FLockInv, Queued
    <3>2. v # t => pc'[v] = pc[v]
      BY <1>a, <2>1 DEF FTypeOK
    <3>3. CASE v = t
      BY <1>a, <2>1, <3>1, <3>3 DEF FLockAt, FTypeOK
    <3>4. CASE v # t
      BY <1>a, <2>1, <3>1, <3>2, <3>4 DEF FLockAt, FLockInv
    <3> QED BY <3>3, <3>4
  <2> QED BY <2>1, <2>2 DEF FLockInv
<1>5. CASE AcqSleep(t)
  <2>1. ~Queued(t)
    BY <1>a, <1>5 DEF AcqSleep, FLockAt
  <2>2. /\ wait_queue' \in Seq(Tasks) /\ Len(wait_queue') = Len(wait_queue) + 1
        /\ Len(wait_queue) \in Nat
        /\ wait_queue'[Len(wait_queue) + 1] = t
        /\ \A i \in 1..Len(wait_queue) : wait_queue'[i] = wait_queue[i]
    BY <1>5, QueueFacts DEF AcqSleep, FLockInv
  <2>3. \A i, j \in 1..Len(wait_queue') : wait_queue'[i] = wait_queue'[j] => i = j
    BY <2>1, <2>2 DEF FLockInv, Queued
  <2>4. ASSUME NEW v \in Tasks PROVE FLockAt(v)'
    <3>1. FLockAt(v)
      BY DEF FLockInv
    <3>2. CASE v = t
      BY <1>a, <1>5, <3>2 DEF AcqSleep, FLockAt, FTypeOK
    <3>3. CASE v # t
      <4>1. Queued(v)' => Queued(v)
        BY <2>2, <3>3 DEF Queued
      <4> QED BY <1>a, <1>5, <3>1, <3>3, <4>1 DEF AcqSleep, FLockAt, FTypeOK
    <3> QED BY <3>2, <3>3
  <2> QED BY <1>5, <2>2, <2>3, <2>4 DEF AcqSleep, FLockInv
<1>6. CASE RelWake(t)
  <2> DEFINE h == Head(wait_queue)
  <2>1. wait_queue # <<>> /\ wait_queue' = Tail(wait_queue)
    BY <1>6 DEF RelWake, AfterWake
  <2>2. /\ h \in Tasks /\ h = wait_queue[1]
        /\ Len(wait_queue) \in Nat /\ Len(wait_queue) >= 1
        /\ wait_queue' \in Seq(Tasks) /\ Len(wait_queue') = Len(wait_queue) - 1
        /\ \A i \in 1..(Len(wait_queue) - 1) : wait_queue'[i] = wait_queue[i + 1]
    BY <2>1, QueueFacts DEF FLockInv
  <2>3. Queued(h) /\ pc[h] = "asleep" /\ ctx[h] # "on" /\ state[h] = "SLEEP"
    BY <2>2 DEF FLockInv, FLockAt, Queued
  <2>4. ~(\E i \in 1..Len(wait_queue') : wait_queue'[i] = h)
        /\ \A v \in Tasks : Queued(v)' => Queued(v)
    BY <2>2 DEF FLockInv, Queued
  <2>5. \A i, j \in 1..Len(wait_queue') : wait_queue'[i] = wait_queue'[j] => i = j
    BY <2>2 DEF FLockInv
  <2>6. /\ state' = [state EXCEPT ![h] = "RUNNABLE"] /\ ctx' = ctx
        /\ pc' = [pc EXCEPT ![t] = IF pc[t] = "wake1" THEN "done" ELSE "wakeall"]
        /\ UNCHANGED <<spinlock, locked, holder>> /\ pc[t] \in {"wake1", "wakeall"}
    BY <1>6 DEF RelWake
  <2> HIDE DEF h
  <2>7. pc[t] = "wake1" /\ ctx[h] \notin {"on", "in"}
    BY <1>a, <2>2, <2>3, <2>6 DEF FTypeOK, BeforePoints, AfterPoints, FLockInv, FLockAt
  <2>8. ASSUME NEW v \in Tasks PROVE FLockAt(v)'
    <3>1. FLockAt(v) /\ (Queued(v)' => Queued(v)) /\ (v = h => ~(Queued(v)'))
      BY <2>4 DEF FLockInv, Queued
    <3> QED BY <1>a, <2>2, <2>3, <2>6, <2>7, <3>1 DEF FTypeOK, FLockAt
  <2> QED BY <2>2, <2>5, <2>6, <2>8 DEF FLockInv
<1> QED BY <1>1, <1>2, <1>3, <1>4, <1>5, <1>6 DEF LockStep, Switch

\* and so does every step of an operation on files.
LEMMA FLockFileStep ==
  ASSUME FInv, FLockInv, NEW t \in Tasks, FileStep(t)
  PROVE  FLockInv'
<1> USE NoneAssumption DEF FInv, Executes, Goto, Sleeping, In
<1>a. FTypeOK /\ FLockAt(t)
  BY DEF FLockInv
<1>1. CASE \/ FdGet(t) \/ FdRet(t) \/ FdAlloc(t) \/ KForkGet(t) \/ ExitFs(t) \/ ExitPut(t)
           \/ VfsIo(t) \/ FilePut(t) \/ FdClose(t) \/ PutRet(t) \/ Panic(t) \/ Count(t)
  <2>1. \/ pc[t] = "idle" /\ ctx[t] = "on" /\ pc'[t] \in {"idle", "acq"} /\ spinlock' = spinlock
        \/ Panic(t)
        \/ pc[t] = "holding" /\ ctx[t] = "on" /\ pc'[t] = "rel" /\ spinlock' = t
    BY <1>a, <1>1 DEF FTypeOK, FdGet, FdRet, FdAlloc, KForkGet, ExitFs, ExitPut, VfsIo, FilePut,
       FdClose, PutRet, Count, RelSpin, Ask, vars, taskVars
  <2>2. /\ UNCHANGED slkVars
        /\ pc' = [pc EXCEPT ![t] = pc'[t]] /\ ctx' = [ctx EXCEPT ![t] = ctx[t]]
        /\ state' = [state EXCEPT ![t] = state[t]]
    BY <1>a, <1>1 DEF FTypeOK, FdGet, FdRet, FdAlloc, KForkGet, ExitFs, ExitPut, VfsIo, FilePut,
       FdClose, PutRet, Panic, Count, RelSpin, Ask, vars, taskVars, slkVars
  <2>3. ctx'[t] = ctx[t] /\ state'[t] = state[t] /\ (Queued(t)' <=> Queued(t))
    BY <1>a, <2>2 DEF FTypeOK, Queued, slkVars
  <2>4. Panic(t) => pc'[t] = pc[t] /\ spinlock' = spinlock
    BY DEF Panic, vars, taskVars
  <2>5. FLockAt(t)'
    BY <1>a, <2>1, <2>2, <2>3, <2>4 DEF FLockAt, slkVars
  <2> QED BY <1>a, <2>1, <2>2, <2>4, <2>5, FLockMove
<1>2. ASSUME NEW u \in Tasks, KFork(t, u) \/ KForkRet(t, u) PROVE FLockInv'
  <2>1. Unborn(u)
    BY <1>2 DEF KFork, KForkRet, Forks, Parent, OpPoints
  <2>2. FLockAt(u) /\ pc[u] = "idle" /\ ctx[u] = "off" /\ ~Queued(u)
    BY <2>1 DEF Unborn, FLockInv, FLockAt
  <2>3. /\ UNCHANGED slkVars /\ spinlock' = spinlock
        /\ pc' = [pc EXCEPT ![u] = pc[u]] /\ ctx' = [ctx EXCEPT ![u] = ctx[u]]
        /\ state' = [state EXCEPT ![u] = state'[u]]
    BY <1>a, <1>2 DEF FTypeOK, KFork, KForkRet, slkVars
  <2>4. FLockAt(u)'
    BY <1>a, <2>2, <2>3 DEF FLockAt, slkVars, FTypeOK, Queued
  <2> QED BY <1>a, <2>3, <2>4, FLockMove
<1>3. CASE ExitRet(t)
  <2>1. /\ UNCHANGED slkVars /\ spinlock' = spinlock /\ pc[t] = "idle"
        /\ pc' = [pc EXCEPT ![t] = pc[t]] /\ ctx' = [ctx EXCEPT ![t] = "off"]
        /\ state' = [state EXCEPT ![t] = "ZOMBIE"]
    BY <1>a, <1>3 DEF FTypeOK, ExitRet, slkVars
  <2>2. FLockAt(t)'
    BY <1>a, <2>1 DEF FLockAt, slkVars, FTypeOK, Queued
  <2> QED BY <1>a, <2>1, <2>2, FLockMove
<1> QED BY <1>1, <1>2, <1>3 DEF FileStep

\* A hart that holds slk->spinlock needs at most its own ts->lk, which is the
\* panic, or that of a sleeper, which a hart in sched() has.
LEMMA FLockSafe ==
  ASSUME FInv, FLockInv
  PROVE  LockSafe
<1>1. OwnerTests
  BY DEF FLockInv, FLockAt, OwnerTests
<1>2. ASSUME NEW S \in (SUBSET Tasks) \ {{}}, \A t \in S : WaitsFor(t) \in S
      PROVE  \E t \in S : OwnLkAgain(t)
  <2>1. ASSUME NEW t \in S PROVE spinlock \in S
    <3>1. CASE Executes(t, "acq") \/ Executes(t, "holding")
      BY <1>2, <3>1 DEF WaitsFor, Executes
    <3>2. CASE ~(Executes(t, "acq") \/ Executes(t, "holding"))
      <4>1. Executes(t, "test") \/ Executes(t, "wake1") \/ Executes(t, "wakeall")
        BY <1>2, <3>2, NoneAssumption DEF WaitsFor
      <4> QED BY <4>1 DEF FInv, FTypeOK, BeforePoints, SpinHeld, AfterPoints, Executes
    <3> QED BY <3>1, <3>2
  <2>2. PICK t \in S : t = spinlock
    BY <1>2, <2>1
  <2>3. t \in Tasks /\ pc[t] \in {"test", "rel", "wake1", "done"} /\ WaitsFor(t) \in Tasks
    BY <1>2, <2>2 DEF FLockInv, FLockAt
  <2>4. CASE Executes(t, "test") /\ locked
    <3>1. lk[t] = WaitsFor(t) /\ ctx[t] = "on"
      BY <2>4 DEF WaitsFor, Executes
    <3>2. lk[t] = t
      BY <2>3, <3>1, Running, NoneAssumption DEF FInv
    <3>3. op[t] \in UnderLk
      BY <2>3, <3>1, <3>2 DEF FInv, OpPoints, UnderLk
    <3> QED BY <2>4, <3>2, <3>3 DEF OwnLkAgain
  <2>5. CASE ~(Executes(t, "test") /\ locked)
    <3> DEFINE h == Head(wait_queue)
    <3>1. wait_queue # <<>> /\ WaitsFor(t) = lk[h]
      BY <2>3, <2>5, NoneAssumption DEF WaitsFor, Executes
    <3>2. h \in Tasks /\ Queued(h)
      BY <3>1, QueueFacts DEF FLockInv, Queued
    <3>3. pc[h] = "asleep" /\ ctx[h] # "on"
      BY <3>2 DEF FLockInv, FLockAt
    <3>4. lk[h] = h
      BY <2>3, <3>1, <3>2, <3>3, Running, NoneAssumption DEF FInv
    <3>5. h \in S /\ WaitsFor(h) = None
      BY <1>2, <3>1, <3>3, <3>4 DEF WaitsFor, Executes
    <3> QED BY <1>2, <3>5, NoneAssumption
  <2> QED BY <2>4, <2>5
<1> QED BY <1>1, <1>2 DEF LockSafe, NoSilentDeadlock

\* For any set of tasks, the callers with the lock of a task included: the owner
\* tests of acquire_sleep() and release_sleep() never panic for file->slk, and harts
\* that wait for each other are always found out by the panic of acquire().
THEOREM LockSafeHolds == FSpec => []LockSafe
<1>1. FInit => FLockInv
  BY NoneAssumption DEF FInit, FLockInv, FLockAt, Queued
<1>2. FInv /\ FLockInv /\ [FNext]_fvars => FLockInv'
  <2>1. ASSUME FLockInv, UNCHANGED fvars PROVE FLockInv'
    BY <2>1 DEF FLockInv, FLockAt, Queued, fvars, vars, taskVars, slkVars
  <2> QED BY <2>1, FLockLockStep, FLockFileStep DEF FNext
<1> QED BY <1>1, <1>2, FileInit, FileStepInv, FLockSafe, PTL DEF FSpec

(***************************************************************************)
(* The inode cache                                                         *)
(***************************************************************************)

\* Pointers to inodes, and the null pointer.
Ptrs == 0..MaxObj

\* struct inode, with at least one reference.
InodeRecs == [ino : Nat, sb : 1..2, ref : Nat \ {0}, parent : Ptrs, name : Names \cup {<<>>}]

\* A heap of inodes, each with a reference.
Heap(ob) == DOMAIN ob \subseteq Objs /\ ob \in [DOMAIN ob -> InodeRecs]

\* The local state of a call of the VFS.
CallOps == VfsOps \cup {"none", "make"}
CallPcs == {"idle", "walk", "fill", "insert", "fs", "link", "drop"}
CallRecs == [pc : CallPcs, op : CallOps, path : Seq(Names), rest : Seq(Names), cur : Ptrs, nxt : Ptrs]

\* The types of the variables the proof is about.
VfsTypeOK ==
  /\ dirents \subseteq Nat \X Names \X Nat
  /\ Heap(obj)
  /\ icache \subseteq Objs
  /\ root \in [1..2 -> Ptrs]
  /\ call \in [Callers -> CallRecs]
  /\ fd \in [Callers -> Ptrs]
  /\ cwd \in [Callers -> Ptrs]

\* Where a call has a second inode in hand, and what its path is.
PcOk(c) ==
  /\ c.pc = "idle" <=> c.cur = 0
  /\ c.pc \in {"idle", "walk", "fill"} => c.nxt = 0
  /\ c.pc = "fs" /\ c.op \in {"make", "mkdir"} => c.nxt = 0
  /\ c.pc \in {"fill", "insert"} => c.rest # <<>>
  /\ c.op \in ParentOps \cup {"make"} => c.path # <<>>

PcInv == \A t \in Callers : PcOk(call[t])

\* An inode that a call has made and not yet linked: nobody else knows it.
MadeBy(t) ==
  /\ call[t].nxt # 0 /\ call[t].nxt \notin icache
  /\ \A u \in Callers \ {t} : call[u].nxt # call[t].nxt
  /\ obj[call[t].nxt].parent = call[t].cur
  /\ obj[call[t].nxt].sb = obj[call[t].cur].sb

NewInv == \A t \in Callers : call[t].pc \in {"insert", "link"} => MadeBy(t)

\* The roots are those of the mounted disks.
RootInv == root[1] = 1 /\ (mounted = {} <=> root[2] = 0)

\* The pieces of the count of an inode.
One(a, b) == IF a = b THEN 1 ELSE 0
InSet(S, o) == IF o \in S THEN 1 ELSE 0
Cnt(f, o) == Cardinality({t \in Callers : f[t] = o})
Kids(par, S, o) == Cardinality({x \in S : par[x] = o})
Ref(ob, o) == IF o \in DOMAIN ob THEN ob[o].ref ELSE 0

\* The pointers of the calls, and the links of the inodes to their directories.
Curs == [t \in Callers |-> call[t].cur]
Nxts == [t \in Callers |-> call[t].nxt]
Parents(ob) == [x \in DOMAIN ob |-> ob[x].parent]

\* Holders(o), with the parent links of the cached inodes as a function: the
\* pointers of the cache and the super blocks, and those of the callers.
Pinned(par, ic, rt, o) == InSet(ic, o) + One(rt[1], o) + One(rt[2], o) + Kids(par, ic, o)
Cnts(f, w, cu, nx, o) == Cnt(f, o) + Cnt(w, o) + Cnt(cu, o) + Cnt(nx, o)
Held(par, ic, rt, f, w, cu, nx, o) == Pinned(par, ic, rt, o) + Cnts(f, w, cu, nx, o)

\* The pointers of caller t.
InHand(t, f, w, cu, nx, o) == One(f[t], o) + One(w[t], o) + One(cu[t], o) + One(nx[t], o)

\* The count of every inode, 0 for one that is not there, is its number of holders.
Exact(ob, par, ic, rt, f, w, cu, nx) ==
  \A o \in Objs : Ref(ob, o) = Held(par, ic, rt, f, w, cu, nx, o)

\* The counts are exact in the present state.
RefInv == Exact(obj, Parents(obj), icache, root, fd, cwd, Curs, Nxts)

\* The inductive invariant.
InodeInv == VfsTypeOK /\ PcInv /\ RootInv /\ RefInv /\ NewInv

\* While one disk is mounted all inodes are of that disk; a cached inode below
\* one of the second disk is of that disk too.
DiskInv ==
  /\ 1 \in DOMAIN obj /\ obj[1].sb = 1
  /\ root[2] = 0 => \A o \in DOMAIN obj : obj[o].sb = 1
  /\ \A o \in icache : obj[o].parent # 0 /\ obj[obj[o].parent].sb = 2 => obj[o].sb = 2

-----------------------------------------------------------------------------
(* Counting                                                                 *)

\* The callers that point to an inode are finitely many.
LEMMA CntNat ==
  ASSUME NEW f, NEW o
  PROVE  IsFiniteSet({t \in Callers : f[t] = o}) /\ Cnt(f, o) \in Nat
<1>1. {t \in Callers : f[t] = o} \subseteq Callers
  OBVIOUS
<1> QED BY <1>1, FS_Subset, FS_CardinalityType, VfsAssumption DEF Cnt

\* Somebody points to o exactly if its count is not 0.
LEMMA CntPositive ==
  ASSUME NEW f, NEW o
  PROVE  Cnt(f, o) >= 1 <=> \E t \in Callers : f[t] = o
<1> DEFINE S == {t \in Callers : f[t] = o}
<1>1. IsFiniteSet(S) /\ Cnt(f, o) \in Nat /\ Cnt(f, o) = Cardinality(S)
  BY CntNat DEF Cnt
<1>2. Cardinality(S) = 0 <=> S = {}
  BY <1>1, FS_EmptySet
<1>3. S = {} <=> ~\E t \in Callers : f[t] = o
  OBVIOUS
<1> QED BY <1>1, <1>2, <1>3

\* The pointers of the callers but t are the same.
SameBut(t, f, g) == \A u \in Callers \ {t} : g[u] = f[u]

\* One pointer moves: one holder less at its old place, one more at its new one.
LEMMA CntMove ==
  ASSUME NEW f, NEW g, NEW t \in Callers, NEW o, SameBut(t, f, g)
  PROVE  Cnt(g, o) = Cnt(f, o) - One(f[t], o) + One(g[t], o)
<1> DEFINE S == {u \in Callers : f[u] = o}
           R == {u \in Callers : g[u] = o}
           B == S \ {t}
<1>1. IsFiniteSet(S) /\ Cardinality(S) = Cnt(f, o) /\ Cnt(f, o) \in Nat
  BY CntNat DEF Cnt
<1>2. IsFiniteSet(B) /\ Cardinality(B) = IF t \in S THEN Cardinality(S) - 1 ELSE Cardinality(S)
  BY <1>1, FS_RemoveElement
<1>3. t \in S <=> f[t] = o
  OBVIOUS
<1>4. Cardinality(B) = Cnt(f, o) - One(f[t], o)
  BY <1>1, <1>2, <1>3 DEF One
<1>5. t \notin B
  OBVIOUS
<1>6. Cardinality(B \cup {t}) = Cardinality(B) + 1
  BY <1>2, <1>5, FS_AddElement
<1>7. CASE g[t] = o
  <2>1. R = B \cup {t}
    BY <1>7 DEF SameBut
  <2>2. Cardinality(R) = Cnt(f, o) - One(f[t], o) + 1
    BY <2>1, <1>6, <1>4
  <2> QED BY <2>2, <1>7 DEF One, Cnt
<1>8. CASE g[t] # o
  <2>1. R = B
    BY <1>8 DEF SameBut
  <2>2. Cnt(g, o) = Cnt(f, o) - One(f[t], o)
    BY <2>1, <1>4 DEF Cnt
  <2>3. One(g[t], o) = 0 /\ One(f[t], o) \in {0, 1}
    BY <1>8 DEF One
  <2> QED BY <2>2, <2>3, <1>1
<1> QED BY <1>7, <1>8

\* The cached inodes below an inode are finitely many.
LEMMA KidsNat ==
  ASSUME NEW S, S \subseteq Objs, NEW par, NEW o
  PROVE  IsFiniteSet({x \in S : par[x] = o}) /\ Kids(par, S, o) \in Nat
<1>1. IsFiniteSet(Objs)
  BY FS_Interval, VfsAssumption DEF Objs
<1>2. {x \in S : par[x] = o} \subseteq Objs
  OBVIOUS
<1> QED BY <1>1, <1>2, FS_Subset, FS_CardinalityType DEF Kids

\* An inode has a cached one below it exactly if their number is not 0.
LEMMA KidsPositive ==
  ASSUME NEW S, S \subseteq Objs, NEW par, NEW o
  PROVE  Kids(par, S, o) >= 1 <=> \E x \in S : par[x] = o
<1> DEFINE K == {x \in S : par[x] = o}
<1>1. IsFiniteSet(K) /\ Kids(par, S, o) \in Nat /\ Kids(par, S, o) = Cardinality(K)
  <2>1. IsFiniteSet(K) /\ Kids(par, S, o) \in Nat
    BY KidsNat, Zenon
  <2> QED BY <2>1 DEF Kids
<1>2. Cardinality(K) = 0 <=> K = {}
  BY <1>1, FS_EmptySet
<1>3. K = {} <=> ~\E x \in S : par[x] = o
  OBVIOUS
<1> QED BY <1>1, <1>2, <1>3

\* The same parent links in the cache, the same number of inodes below.
LEMMA KidsSame ==
  ASSUME NEW S, NEW par, NEW par2, NEW o, \A x \in S : par2[x] = par[x]
  PROVE  Kids(par2, S, o) = Kids(par, S, o)
<1>1. {x \in S : par2[x] = o} = {x \in S : par[x] = o}
  OBVIOUS
<1> QED BY <1>1 DEF Kids

\* A set of inodes leaves the cache.
LEMMA KidsRemove ==
  ASSUME NEW S, S \subseteq Objs, NEW V, V \subseteq S, NEW par, NEW o
  PROVE  Kids(par, S, o) = Kids(par, S \ V, o) + Kids(par, V, o)
<1> DEFINE A == {x \in S \ V : par[x] = o}
           B == {x \in V : par[x] = o}
<1>1. IsFiniteSet(A) /\ IsFiniteSet(B) /\ Cardinality(A) \in Nat /\ Cardinality(B) \in Nat
  <2>1. A \in SUBSET Objs /\ B \in SUBSET Objs
    OBVIOUS
  <2>2. IsFiniteSet(Objs)
    BY FS_Interval, VfsAssumption DEF Objs
  <2> QED BY <2>1, <2>2, FS_Subset, FS_CardinalityType
<1>2. {x \in S : par[x] = o} = A \cup B /\ A \cap B = {}
  OBVIOUS
<1>3. Cardinality(A \cup B) = Cardinality(A) + Cardinality(B) - Cardinality(A \cap B)
  BY <1>1, FS_Union
<1>4. Cardinality(A \cap B) = 0
  BY <1>2, FS_EmptySet
<1>5. Cardinality(A \cup B) = Cardinality(A) + Cardinality(B)
  BY <1>1, <1>3, <1>4
<1> QED BY <1>2, <1>5 DEF Kids

\* An inode enters the cache.
LEMMA KidsAdd ==
  ASSUME NEW S, S \subseteq Objs, NEW n \in Objs, n \notin S, NEW par, NEW o
  PROVE  Kids(par, S \cup {n}, o) = Kids(par, S, o) + One(par[n], o)
<1> DEFINE A == {x \in S : par[x] = o}
<1>1. IsFiniteSet(A) /\ Cardinality(A) \in Nat /\ Kids(par, S, o) = Cardinality(A)
  BY KidsNat DEF Kids
<1>2. CASE par[n] = o
  <2>1. {x \in S \cup {n} : par[x] = o} = A \cup {n} /\ n \notin A
    BY <1>2
  <2>2. Cardinality(A \cup {n}) = Cardinality(A) + 1
    BY <2>1, <1>1, FS_AddElement
  <2> QED BY <2>1, <2>2, <1>1, <1>2 DEF Kids, One
<1>3. CASE par[n] # o
  <2>1. {x \in S \cup {n} : par[x] = o} = A
    BY <1>3
  <2> QED BY <2>1, <1>1, <1>3 DEF Kids, One
<1> QED BY <1>2, <1>3
-----------------------------------------------------------------------------
(* The heap                                                                 *)

\* What of an inode never changes: all but the count.
SameInode(a, b) == a.ino = b.ino /\ a.sb = b.sb /\ a.parent = b.parent /\ a.name = b.name

\* ob2 has inodes of ob only.
Down(ob, ob2) ==
  /\ Heap(ob2) /\ DOMAIN ob2 \subseteq DOMAIN ob
  /\ \A x \in DOMAIN ob2 : SameInode(ob2[x], ob[x])

\* The count of an inode, there or not, is a number; it is 0 only for one that is
\* not there.
LEMMA RefNat ==
  ASSUME NEW ob, Heap(ob), NEW o
  PROVE  Ref(ob, o) \in Nat /\ (Ref(ob, o) >= 1 <=> o \in DOMAIN ob)
BY DEF Heap, InodeRecs, Ref

\* Two steps that add no inode add none.
LEMMA DownTrans ==
  ASSUME NEW a, NEW b, NEW c, Down(a, b), Down(b, c)
  PROVE  Down(a, c)
BY DEF Down, SameInode

\* inode_get() of an inode that is there, or of none.
LEMMA GetRef ==
  ASSUME NEW ob, Heap(ob), NEW p \in Ptrs, p # 0 => p \in DOMAIN ob
  PROVE  /\ Down(ob, inode_get(ob, p))
         /\ \A o \in Objs : Ref(inode_get(ob, p), o) = Ref(ob, o) + One(p, o)
<1> DEFINE ob2 == inode_get(ob, p)
<1>1. DOMAIN ob2 = DOMAIN ob
  BY DEF inode_get
<1>2. ASSUME NEW x \in DOMAIN ob
      PROVE  /\ ob[x] \in InodeRecs
             /\ ob2[x] \in InodeRecs
             /\ SameInode(ob2[x], ob[x])
             /\ ob2[x].ref = ob[x].ref + One(p, x)
  <2>1. ob[x] \in InodeRecs
    BY DEF Heap
  <2>2. CASE x = p
    <3>1. ob2[x] = [ob[x] EXCEPT !.ref = @ + 1]
      BY <2>2 DEF inode_get, Heap
    <3>2. [ob[x] EXCEPT !.ref = @ + 1] \in InodeRecs
      BY <2>1 DEF InodeRecs
    <3> QED BY <2>1, <2>2, <3>1, <3>2 DEF InodeRecs, One, SameInode
  <2>3. CASE x # p
    <3>1. ob2[x] = ob[x]
      BY <2>3 DEF inode_get, Heap
    <3> QED BY <2>1, <2>3, <3>1 DEF InodeRecs, One, SameInode
  <2> QED BY <2>2, <2>3
<1>3. Heap(ob2)
  <2>1. ob2 \in [DOMAIN ob2 -> InodeRecs]
    BY <1>1, <1>2 DEF inode_get, Heap
  <2> QED BY <2>1, <1>1 DEF Heap
<1>4. Down(ob, ob2)
  BY <1>1, <1>2, <1>3 DEF Down, SameInode
<1>5. ASSUME NEW o \in Objs PROVE Ref(ob2, o) = Ref(ob, o) + One(p, o)
  <2>1. CASE o \in DOMAIN ob
    BY <2>1, <1>1, <1>2 DEF Ref
  <2>2. CASE o \notin DOMAIN ob
    <3>1. p # o
      BY <2>2 DEF Objs
    <3> QED BY <2>2, <3>1, <1>1 DEF Ref, One
  <2> QED BY <2>1, <2>2
<1> QED BY <1>4, <1>5

\* inode_put() of several references that are there.
LEMMA PutAllRef ==
  ASSUME NEW ob, Heap(ob), NEW n \in [Objs -> Nat], \A o \in Objs : n[o] <= Ref(ob, o)
  PROVE  /\ Down(ob, PutAll(ob, n))
         /\ \A o \in Objs : Ref(PutAll(ob, n), o) = Ref(ob, o) - n[o]
<1> DEFINE ob2 == PutAll(ob, n)
<1>1. DOMAIN ob2 = {y \in DOMAIN ob : ob[y].ref > n[y]}
  BY DEF PutAll
<1>2. ASSUME NEW x \in DOMAIN ob2
      PROVE  /\ x \in DOMAIN ob /\ ob[x] \in InodeRecs
             /\ ob2[x] \in InodeRecs
             /\ SameInode(ob2[x], ob[x])
             /\ ob2[x].ref = ob[x].ref - n[x]
  <2>1. x \in DOMAIN ob /\ ob[x] \in InodeRecs /\ ob[x].ref > n[x] /\ n[x] \in Nat
    BY <1>1 DEF Heap
  <2>2. ob2[x] = [ob[x] EXCEPT !.ref = @ - n[x]]
    BY <1>1 DEF PutAll
  <2>3. ob[x].ref - n[x] \in Nat \ {0}
    BY <2>1 DEF InodeRecs
  <2>4. [ob[x] EXCEPT !.ref = @ - n[x]] \in InodeRecs
    BY <2>1, <2>3 DEF InodeRecs
  <2> QED BY <2>1, <2>2, <2>4 DEF InodeRecs, SameInode
<1>3. Heap(ob2)
  <2>1. ob2 \in [DOMAIN ob2 -> InodeRecs]
    BY <1>1, <1>2 DEF PutAll
  <2> QED BY <2>1, <1>1 DEF Heap
<1>4. Down(ob, ob2)
  BY <1>2, <1>3 DEF Down, SameInode
<1>5. ASSUME NEW o \in Objs PROVE Ref(ob2, o) = Ref(ob, o) - n[o]
  <2>1. CASE o \in DOMAIN ob2
    BY <2>1, <1>2 DEF Ref
  <2>2. CASE o \notin DOMAIN ob2 /\ o \in DOMAIN ob
    <3>1. ob[o].ref <= n[o] /\ ob[o].ref \in Nat /\ n[o] \in Nat
      BY <2>2, <1>1 DEF Heap, InodeRecs
    <3>2. n[o] <= ob[o].ref
      BY <2>2 DEF Ref
    <3>3. ob[o].ref = n[o]
      BY <3>1, <3>2
    <3> QED BY <2>2, <3>1, <3>3 DEF Ref
  <2>3. CASE o \notin DOMAIN ob
    <3>1. o \notin DOMAIN ob2 /\ n[o] = 0
      BY <2>3, <1>1 DEF Ref
    <3> QED BY <2>3, <3>1 DEF Ref
  <2> QED BY <2>1, <2>2, <2>3
<1> QED BY <1>4, <1>5

\* inode_put() of an inode that is there, or of none.
LEMMA PutRef ==
  ASSUME NEW ob, Heap(ob), NEW p \in Ptrs, p # 0 => p \in DOMAIN ob
  PROVE  /\ Down(ob, inode_put(ob, p))
         /\ \A o \in Objs : Ref(inode_put(ob, p), o) = Ref(ob, o) - One(p, o)
<1> DEFINE n == [x \in Objs |-> IF x = p THEN 1 ELSE 0]
<1>1. n \in [Objs -> Nat]
  OBVIOUS
<1>2. ASSUME NEW o \in Objs PROVE n[o] = One(p, o) /\ n[o] <= Ref(ob, o)
  <2>1. n[o] = One(p, o)
    BY DEF One
  <2>2. CASE o = p
    <3>1. o \in DOMAIN ob
      BY <2>2 DEF Objs
    <3> QED BY <2>1, <2>2, <3>1, RefNat DEF One
  <2>3. CASE o # p
    BY <2>1, <2>3, RefNat DEF One
  <2> QED BY <2>2, <2>3
<1>3. inode_put(ob, p) = PutAll(ob, n)
  BY DEF inode_put
<1> HIDE DEF n
<1>4. /\ Down(ob, PutAll(ob, n))
      /\ \A o \in Objs : Ref(PutAll(ob, n), o) = Ref(ob, o) - n[o]
  BY <1>1, <1>2, PutAllRef
<1> QED BY <1>2, <1>3, <1>4

\* inode_cache_remove() of cached inodes: their own reference, and the one to
\* their directory.
LEMMA RemoveRef ==
  ASSUME NEW ob, Heap(ob), NEW V, V \subseteq DOMAIN ob,
         \A o \in Objs : InSet(V, o) + Kids(Parents(ob), V, o) <= Ref(ob, o)
  PROVE  /\ Down(ob, inode_cache_remove(ob, V))
         /\ \A o \in Objs : Ref(inode_cache_remove(ob, V), o)
                              = Ref(ob, o) - (InSet(V, o) + Kids(Parents(ob), V, o))
<1> DEFINE n == [x \in Objs |-> (IF x \in V THEN 1 ELSE 0)
                                  + Cardinality({o \in V : ob[o].parent = x})]
<1>1. ASSUME NEW x \in Objs
      PROVE  n[x] = InSet(V, x) + Kids(Parents(ob), V, x) /\ n[x] \in Nat
  <2>1. {o \in V : ob[o].parent = x} = {o \in V : Parents(ob)[o] = x}
    BY DEF Parents
  <2>2. V \subseteq Objs
    BY DEF Heap
  <2>3. Kids(Parents(ob), V, x) \in Nat
    BY <2>2, KidsNat
  <2>4. Kids(Parents(ob), V, x) = Cardinality({o \in V : ob[o].parent = x})
    BY <2>1 DEF Kids
  <2> QED BY <2>3, <2>4 DEF InSet
<1>2. n \in [Objs -> Nat]
  BY <1>1
<1>3. inode_cache_remove(ob, V) = PutAll(ob, n)
  BY DEF inode_cache_remove
<1> HIDE DEF n
<1>4. \A o \in Objs : n[o] <= Ref(ob, o)
  BY <1>1
<1>5. /\ Down(ob, PutAll(ob, n))
      /\ \A o \in Objs : Ref(PutAll(ob, n), o) = Ref(ob, o) - n[o]
  BY <1>2, <1>4, PutAllRef
<1> QED BY <1>1, <1>3, <1>5

\* ob2 is ob with a new inode.
Grown(ob, o, in, ob2) ==
  /\ Heap(ob2) /\ DOMAIN ob2 = DOMAIN ob \cup {o}
  /\ ob2[o] = in
  /\ \A x \in DOMAIN ob : ob2[x] = ob[x]
  /\ \A x \in Objs : Ref(ob2, x) = Ref(ob, x) + (IF x = o THEN in.ref ELSE 0)

\* A new inode comes with its first reference and changes no other count.
LEMMA WithRef ==
  ASSUME NEW ob, Heap(ob), NEW o \in Objs \ DOMAIN ob, NEW in \in InodeRecs
  PROVE  Grown(ob, o, in, With(ob, o, in))
<1> DEFINE ob2 == With(ob, o, in)
<1>1. DOMAIN ob2 = DOMAIN ob \cup {o}
  BY DEF With
<1>2. ob2[o] = in /\ \A x \in DOMAIN ob : ob2[x] = ob[x]
  BY DEF With
<1>3. ob2 \in [DOMAIN ob2 -> InodeRecs]
  <2>1. \A x \in DOMAIN ob2 : ob2[x] \in InodeRecs
    BY <1>1, <1>2 DEF Heap
  <2> QED BY <2>1, <1>1 DEF With
<1>4. Heap(ob2)
  BY <1>1, <1>3 DEF Heap
<1>5. ASSUME NEW x \in Objs PROVE Ref(ob2, x) = Ref(ob, x) + (IF x = o THEN in.ref ELSE 0)
  <2>1. in.ref \in Nat /\ Ref(ob, x) \in Nat
    BY RefNat DEF InodeRecs
  <2>2. CASE x = o
    BY <2>1, <2>2, <1>1, <1>2 DEF Ref
  <2>3. CASE x # o
    BY <2>1, <2>3, <1>1, <1>2 DEF Ref
  <2> QED BY <2>2, <2>3
<1> HIDE DEF ob2
<1>6. Grown(ob, o, in, ob2)
  BY <1>1, <1>2, <1>4, <1>5 DEF Grown
<1> QED BY <1>6 DEF ob2

-----------------------------------------------------------------------------
(* Holders                                                                  *)

\* No pointer but that of a cached inode to its directory is considered here.
Live(ob, ic, rt, f, w, cu, nx) ==
  /\ ic \subseteq DOMAIN ob
  /\ \A m \in 1..2 : rt[m] # 0 => rt[m] \in DOMAIN ob
  /\ \A t \in Callers :
       /\ f[t] # 0 => f[t] \in DOMAIN ob
       /\ w[t] # 0 => w[t] \in DOMAIN ob
       /\ cu[t] # 0 => cu[t] \in DOMAIN ob
       /\ nx[t] # 0 => nx[t] \in DOMAIN ob

\* A pointer is to o or it is not.
LEMMA OneNat ==
  ASSUME NEW a, NEW b PROVE One(a, b) \in {0, 1} /\ (One(a, b) = 1 <=> a = b)
BY DEF One

\* A caller that points to o is among those counted.
LEMMA CntOne ==
  ASSUME NEW f, NEW o, NEW t \in Callers
  PROVE  Cnt(f, o) \in Nat /\ Cnt(f, o) >= One(f[t], o)
<1>1. Cnt(f, o) \in Nat
  BY CntNat
<1>2. f[t] = o => Cnt(f, o) >= 1
  BY CntPositive
<1> QED BY <1>1, <1>2 DEF One

\* The holders that one caller knows of, and the cache.
LEMMA Enough ==
  ASSUME NEW ob, NEW par, NEW ic, ic \subseteq Objs, NEW rt, NEW f, NEW w, NEW cu, NEW nx,
         Exact(ob, par, ic, rt, f, w, cu, nx), NEW o \in Objs, NEW t \in Callers
  PROVE  Ref(ob, o) >= InSet(ic, o) + One(rt[1], o) + One(rt[2], o) + Kids(par, ic, o)
                         + One(f[t], o) + One(w[t], o) + One(cu[t], o) + One(nx[t], o)
<1>1. Ref(ob, o) = Held(par, ic, rt, f, w, cu, nx, o)
  BY DEF Exact
<1>2. Kids(par, ic, o) \in Nat
  BY KidsNat
<1>3. InSet(ic, o) \in Nat
  BY DEF InSet
<1>4. /\ One(f[t], o) \in Nat /\ One(w[t], o) \in Nat /\ One(cu[t], o) \in Nat /\ One(nx[t], o) \in Nat
      /\ One(rt[1], o) \in Nat /\ One(rt[2], o) \in Nat
  BY OneNat
<1>5. /\ Cnt(f, o) \in Nat /\ Cnt(f, o) >= One(f[t], o)
      /\ Cnt(w, o) \in Nat /\ Cnt(w, o) >= One(w[t], o)
      /\ Cnt(cu, o) \in Nat /\ Cnt(cu, o) >= One(cu[t], o)
      /\ Cnt(nx, o) \in Nat /\ Cnt(nx, o) >= One(nx[t], o)
  BY CntOne
<1> QED BY <1>1, <1>2, <1>3, <1>4, <1>5 DEF Held, Pinned, Cnts

\* What has a holder is there.
LEMMA HeldLive ==
  ASSUME NEW ob, Heap(ob), NEW par, NEW ic, ic \subseteq Objs, NEW rt \in [1..2 -> Ptrs],
         NEW f \in [Callers -> Ptrs], NEW w \in [Callers -> Ptrs],
         NEW cu \in [Callers -> Ptrs], NEW nx \in [Callers -> Ptrs],
         Exact(ob, par, ic, rt, f, w, cu, nx)
  PROVE  /\ Live(ob, ic, rt, f, w, cu, nx)
         /\ \A x \in ic : par[x] \in Objs => par[x] \in DOMAIN ob
<1>1. ASSUME NEW o \in Objs
      PROVE  /\ Ref(ob, o) = InSet(ic, o) + One(rt[1], o) + One(rt[2], o) + Kids(par, ic, o)
                               + Cnt(f, o) + Cnt(w, o) + Cnt(cu, o) + Cnt(nx, o)
             /\ InSet(ic, o) \in Nat /\ One(rt[1], o) \in Nat /\ One(rt[2], o) \in Nat
             /\ Kids(par, ic, o) \in Nat /\ Cnt(f, o) \in Nat /\ Cnt(w, o) \in Nat
             /\ Cnt(cu, o) \in Nat /\ Cnt(nx, o) \in Nat
             /\ Ref(ob, o) >= 1 => o \in DOMAIN ob
  <2>1. Ref(ob, o) = Held(par, ic, rt, f, w, cu, nx, o)
    BY DEF Exact
  <2>2. Kids(par, ic, o) \in Nat
    BY KidsNat
  <2>3. Cnt(f, o) \in Nat /\ Cnt(w, o) \in Nat /\ Cnt(cu, o) \in Nat /\ Cnt(nx, o) \in Nat
    BY CntNat
  <2>4. InSet(ic, o) \in Nat /\ One(rt[1], o) \in Nat /\ One(rt[2], o) \in Nat
    BY DEF InSet, One
  <2>5. Ref(ob, o) >= 1 => o \in DOMAIN ob
    BY RefNat
  <2> QED BY <2>1, <2>2, <2>3, <2>4, <2>5 DEF Held, Pinned, Cnts
<1>2. ASSUME NEW o \in Objs,
             o \in ic \/ rt[1] = o \/ rt[2] = o \/ Kids(par, ic, o) >= 1
             \/ Cnt(f, o) >= 1 \/ Cnt(w, o) >= 1 \/ Cnt(cu, o) >= 1 \/ Cnt(nx, o) >= 1
      PROVE  o \in DOMAIN ob
  <2>1. \/ InSet(ic, o) >= 1 \/ One(rt[1], o) >= 1 \/ One(rt[2], o) >= 1 \/ Kids(par, ic, o) >= 1
        \/ Cnt(f, o) >= 1 \/ Cnt(w, o) >= 1 \/ Cnt(cu, o) >= 1 \/ Cnt(nx, o) >= 1
    BY <1>2 DEF InSet, One
  <2> QED BY <2>1, <1>1
<1>3. \A p \in Ptrs : p # 0 => p \in Objs
  BY VfsAssumption DEF Ptrs, Objs
<1>4. ic \subseteq DOMAIN ob
  BY <1>2
<1>5. ASSUME NEW m \in 1..2, rt[m] # 0 PROVE rt[m] \in DOMAIN ob
  <2>1. rt[m] \in Objs
    BY <1>3, <1>5
  <2>2. m = 1 \/ m = 2
    OBVIOUS
  <2> QED BY <1>2, <2>1, <2>2
<1>6. ASSUME NEW t \in Callers
      PROVE  /\ f[t] # 0 => f[t] \in DOMAIN ob
             /\ w[t] # 0 => w[t] \in DOMAIN ob
             /\ cu[t] # 0 => cu[t] \in DOMAIN ob
             /\ nx[t] # 0 => nx[t] \in DOMAIN ob
  <2>1. /\ Cnt(f, f[t]) >= 1 /\ Cnt(w, w[t]) >= 1 /\ Cnt(cu, cu[t]) >= 1 /\ Cnt(nx, nx[t]) >= 1
    BY CntPositive
  <2>2. f[t] \in Ptrs /\ w[t] \in Ptrs /\ cu[t] \in Ptrs /\ nx[t] \in Ptrs
    OBVIOUS
  <2> QED BY <1>2, <1>3, <2>1, <2>2
<1>7. ASSUME NEW x \in ic, par[x] \in Objs PROVE par[x] \in DOMAIN ob
  <2>1. Kids(par, ic, par[x]) >= 1
    BY KidsPositive
  <2> QED BY <1>2, <1>7, <2>1
<1> QED BY <1>4, <1>5, <1>6, <1>7 DEF Live

\* The parent links are those of the inodes that are there.
LEMMA Close ==
  ASSUME NEW ob, Heap(ob), NEW par, NEW ic, ic \subseteq Objs, NEW rt \in [1..2 -> Ptrs],
         NEW f \in [Callers -> Ptrs], NEW w \in [Callers -> Ptrs],
         NEW cu \in [Callers -> Ptrs], NEW nx \in [Callers -> Ptrs],
         Exact(ob, par, ic, rt, f, w, cu, nx),
         \A x \in ic \cap DOMAIN ob : ob[x].parent = par[x]
  PROVE  Exact(ob, Parents(ob), ic, rt, f, w, cu, nx)
<1>1. ic \subseteq DOMAIN ob
  BY HeldLive DEF Live
<1>2. \A x \in ic : Parents(ob)[x] = par[x]
  BY <1>1 DEF Parents
<1>3. \A o \in Objs : Kids(Parents(ob), ic, o) = Kids(par, ic, o)
  BY <1>2, KidsSame
<1> QED BY <1>3 DEF Exact, Held, Pinned

\* What a caller has in hand is a number of pointers.
LEMMA HandNat ==
  ASSUME NEW t \in Callers, NEW f, NEW w, NEW cu, NEW nx, NEW o
  PROVE  Cnts(f, w, cu, nx, o) \in Nat /\ InHand(t, f, w, cu, nx, o) \in Nat
<1>1. Cnt(f, o) \in Nat /\ Cnt(w, o) \in Nat /\ Cnt(cu, o) \in Nat /\ Cnt(nx, o) \in Nat
  BY CntNat
<1>2. One(f[t], o) \in Nat /\ One(w[t], o) \in Nat /\ One(cu[t], o) \in Nat /\ One(nx[t], o) \in Nat
  BY DEF One
<1> QED BY <1>1, <1>2 DEF Cnts, InHand

\* What the cache and the roots hold is a number of pointers.
LEMMA PinnedNat ==
  ASSUME NEW par, NEW ic, ic \subseteq Objs, NEW rt, NEW o
  PROVE  Pinned(par, ic, rt, o) \in Nat
<1>1. InSet(ic, o) \in Nat /\ One(rt[1], o) \in Nat /\ One(rt[2], o) \in Nat
  BY DEF InSet, One
<1>2. Kids(par, ic, o) \in Nat
  BY KidsNat
<1> QED BY <1>1, <1>2 DEF Pinned

\* A step of one caller changes the counts of its own four pointers.
LEMMA CallerMove ==
  ASSUME NEW t \in Callers, NEW o, NEW f, NEW w, NEW cu, NEW nx,
         SameBut(t, fd, f), SameBut(t, cwd, w), SameBut(t, Curs, cu), SameBut(t, Nxts, nx)
  PROVE  Cnts(f, w, cu, nx, o)
           = Cnts(fd, cwd, Curs, Nxts, o) - InHand(t, fd, cwd, Curs, Nxts, o) + InHand(t, f, w, cu, nx, o)
<1>1. Cnt(f, o) = Cnt(fd, o) - One(fd[t], o) + One(f[t], o)
  BY CntMove
<1>2. Cnt(w, o) = Cnt(cwd, o) - One(cwd[t], o) + One(w[t], o)
  BY CntMove
<1>3. Cnt(cu, o) = Cnt(Curs, o) - One(Curs[t], o) + One(cu[t], o)
  BY CntMove
<1>4. Cnt(nx, o) = Cnt(Nxts, o) - One(Nxts[t], o) + One(nx[t], o)
  BY CntMove
<1>5. Cnt(fd, o) \in Nat /\ Cnt(cwd, o) \in Nat /\ Cnt(Curs, o) \in Nat /\ Cnt(Nxts, o) \in Nat
  BY CntNat
<1>6. /\ One(fd[t], o) \in Nat /\ One(cwd[t], o) \in Nat /\ One(Curs[t], o) \in Nat /\ One(Nxts[t], o) \in Nat
      /\ One(f[t], o) \in Nat /\ One(w[t], o) \in Nat /\ One(cu[t], o) \in Nat /\ One(nx[t], o) \in Nat
  BY DEF One
<1> QED BY <1>1, <1>2, <1>3, <1>4, <1>5, <1>6 DEF Cnts, InHand

\* A step of t moves as many references as pointers.
Moved(t, ob, par, ic, rt, f, w, cu, nx) ==
  \A o \in Objs :
    Ref(ob, o) = Ref(obj, o) + (Pinned(par, ic, rt, o) - Pinned(par, icache, root, o))
                  + (InHand(t, f, w, cu, nx, o) - InHand(t, fd, cwd, Curs, Nxts, o))

\* Then the counts are exact again.
LEMMA Settle ==
  ASSUME VfsTypeOK, RefInv, NEW t \in Callers, NEW ob, Heap(ob),
         NEW par, NEW ic, ic \subseteq Objs, NEW rt \in [1..2 -> Ptrs],
         \A x \in icache : par[x] = obj[x].parent,
         \A x \in ic \cap DOMAIN ob : ob[x].parent = par[x],
         NEW f \in [Callers -> Ptrs], NEW w \in [Callers -> Ptrs],
         NEW cu \in [Callers -> Ptrs], NEW nx \in [Callers -> Ptrs],
         SameBut(t, fd, f), SameBut(t, cwd, w), SameBut(t, Curs, cu), SameBut(t, Nxts, nx),
         Moved(t, ob, par, ic, rt, f, w, cu, nx)
  PROVE  Exact(ob, Parents(ob), ic, rt, f, w, cu, nx)
<1>1. /\ Curs \in [Callers -> Ptrs] /\ Nxts \in [Callers -> Ptrs]
      /\ fd \in [Callers -> Ptrs] /\ cwd \in [Callers -> Ptrs]
      /\ root \in [1..2 -> Ptrs] /\ icache \subseteq Objs /\ Heap(obj)
  BY DEF Curs, Nxts, VfsTypeOK, CallRecs
<1>2. icache \subseteq DOMAIN obj
  BY <1>1, HeldLive DEF RefInv, Live
<1>3. ASSUME NEW o \in Objs
      PROVE  Ref(ob, o) = Held(par, ic, rt, f, w, cu, nx, o)
  <2>1. Ref(obj, o) = Pinned(par, icache, root, o) + Cnts(fd, cwd, Curs, Nxts, o)
    <3>1. Ref(obj, o) = Held(Parents(obj), icache, root, fd, cwd, Curs, Nxts, o)
      BY DEF RefInv, Exact
    <3>2. \A x \in icache : par[x] = Parents(obj)[x]
      BY <1>2 DEF Parents
    <3>3. Kids(par, icache, o) = Kids(Parents(obj), icache, o)
      BY <3>2, KidsSame
    <3> QED BY <3>1, <3>3 DEF Held, Pinned
  <2>2. Cnts(f, w, cu, nx, o)
          = Cnts(fd, cwd, Curs, Nxts, o) - InHand(t, fd, cwd, Curs, Nxts, o) + InHand(t, f, w, cu, nx, o)
    BY CallerMove
  <2>3. /\ Cnts(fd, cwd, Curs, Nxts, o) \in Nat /\ InHand(t, fd, cwd, Curs, Nxts, o) \in Nat
        /\ InHand(t, f, w, cu, nx, o) \in Nat
    BY HandNat
  <2>4. Pinned(par, icache, root, o) \in Nat /\ Pinned(par, ic, rt, o) \in Nat
    BY PinnedNat, <1>1
  <2>5. Ref(ob, o) = Ref(obj, o) + (Pinned(par, ic, rt, o) - Pinned(par, icache, root, o))
                  + (InHand(t, f, w, cu, nx, o) - InHand(t, fd, cwd, Curs, Nxts, o))
    BY DEF Moved
  <2> QED BY <2>1, <2>2, <2>3, <2>4, <2>5 DEF Held
<1>4. Exact(ob, par, ic, rt, f, w, cu, nx)
  BY <1>3 DEF Exact
<1> QED BY <1>1, <1>4, Close

\* A step of one caller that leaves the cache and the roots alone.
LEMMA Balance ==
  ASSUME VfsTypeOK, RefInv, NEW t \in Callers, NEW ob, Heap(ob), 
         \A x \in DOMAIN obj \cap DOMAIN ob : ob[x].parent = obj[x].parent,
         NEW f \in [Callers -> Ptrs], NEW w \in [Callers -> Ptrs],
         NEW cu \in [Callers -> Ptrs], NEW nx \in [Callers -> Ptrs],
         SameBut(t, fd, f), SameBut(t, cwd, w), SameBut(t, Curs, cu), SameBut(t, Nxts, nx),
         \A o \in Objs :
           Ref(ob, o) = Ref(obj, o) + One(f[t], o) - One(fd[t], o) + One(w[t], o) - One(cwd[t], o)
                         + One(cu[t], o) - One(Curs[t], o) + One(nx[t], o) - One(Nxts[t], o)
  PROVE  Exact(ob, Parents(ob), icache, root, f, w, cu, nx)
<1>1. /\ Curs \in [Callers -> Ptrs] /\ Nxts \in [Callers -> Ptrs]
      /\ fd \in [Callers -> Ptrs] /\ cwd \in [Callers -> Ptrs]
      /\ root \in [1..2 -> Ptrs] /\ icache \subseteq Objs /\ Heap(obj)
  BY DEF Curs, Nxts, VfsTypeOK, CallRecs
<1>2. icache \subseteq DOMAIN obj
  BY <1>1, HeldLive DEF RefInv, Live
<1>3. ASSUME NEW o \in Objs
      PROVE  Ref(ob, o) = Ref(obj, o)
               + (Pinned(Parents(obj), icache, root, o) - Pinned(Parents(obj), icache, root, o))
               + (InHand(t, f, w, cu, nx, o) - InHand(t, fd, cwd, Curs, Nxts, o))
  <2>1. Ref(ob, o) = Ref(obj, o) + One(f[t], o) - One(fd[t], o) + One(w[t], o) - One(cwd[t], o)
                         + One(cu[t], o) - One(Curs[t], o) + One(nx[t], o) - One(Nxts[t], o)
    OBVIOUS
  <2>2. /\ One(f[t], o) \in Nat /\ One(w[t], o) \in Nat /\ One(cu[t], o) \in Nat /\ One(nx[t], o) \in Nat
        /\ One(fd[t], o) \in Nat /\ One(cwd[t], o) \in Nat /\ One(Curs[t], o) \in Nat /\ One(Nxts[t], o) \in Nat
    BY DEF One
  <2>3. Pinned(Parents(obj), icache, root, o) \in Nat /\ Ref(obj, o) \in Nat
    BY <1>1, PinnedNat, RefNat
  <2> QED BY <2>1, <2>2, <2>3 DEF InHand
<1>4. /\ \A x \in icache : Parents(obj)[x] = obj[x].parent
      /\ \A x \in icache \cap DOMAIN ob : ob[x].parent = Parents(obj)[x]
  BY <1>2 DEF Parents
<1>5. Moved(t, ob, Parents(obj), icache, root, f, w, cu, nx)
  BY <1>3 DEF Moved
<1> QED BY <1>1, <1>4, <1>5, Settle

\* The same disk and the same directory, for the inodes of both heaps.
Old(ob, ob2) ==
  \A x \in DOMAIN ob \cap DOMAIN ob2 : SameInode(ob2[x], ob[x])

\* Every pointer of the cache, the roots and the callers leads to an inode that
\* is there, or to none.
LEMMA Pointers ==
  ASSUME VfsTypeOK, RefInv
  PROVE  /\ Curs \in [Callers -> Ptrs] /\ Nxts \in [Callers -> Ptrs]
         /\ icache \subseteq DOMAIN obj
         /\ \A m \in 1..2 : root[m] # 0 => root[m] \in DOMAIN obj
         /\ \A t \in Callers :
              /\ call[t].cur \in Ptrs /\ call[t].nxt \in Ptrs
              /\ Curs[t] = call[t].cur /\ Nxts[t] = call[t].nxt
              /\ fd[t] # 0 => fd[t] \in DOMAIN obj
              /\ cwd[t] # 0 => cwd[t] \in DOMAIN obj
              /\ call[t].cur # 0 => call[t].cur \in DOMAIN obj
              /\ call[t].nxt # 0 => call[t].nxt \in DOMAIN obj
         /\ \A x \in icache : obj[x].parent # 0 => obj[x].parent \in DOMAIN obj
<1>1. /\ Curs \in [Callers -> Ptrs] /\ Nxts \in [Callers -> Ptrs]
      /\ fd \in [Callers -> Ptrs] /\ cwd \in [Callers -> Ptrs]
      /\ root \in [1..2 -> Ptrs] /\ icache \subseteq Objs /\ Heap(obj)
  BY DEF Curs, Nxts, VfsTypeOK, CallRecs
<1>2. /\ Live(obj, icache, root, fd, cwd, Curs, Nxts)
      /\ \A x \in icache : Parents(obj)[x] \in Objs => Parents(obj)[x] \in DOMAIN obj
  BY <1>1, HeldLive DEF RefInv
<1>3. \A t \in Callers : /\ call[t].cur \in Ptrs /\ call[t].nxt \in Ptrs
                         /\ Curs[t] = call[t].cur /\ Nxts[t] = call[t].nxt
  BY DEF Curs, Nxts, VfsTypeOK, CallRecs
<1>4. \A x \in icache : obj[x].parent # 0 => obj[x].parent \in DOMAIN obj
  <2>1. \A x \in icache : Parents(obj)[x] = obj[x].parent /\ obj[x].parent \in Ptrs
    BY <1>1, <1>2 DEF Live, Parents, Heap, InodeRecs
  <2> QED BY <1>2, <2>1 DEF Ptrs, Objs
<1> QED BY <1>1, <1>2, <1>3, <1>4 DEF Live

\* The same for the next state.
LEMMA PointersNext ==
  ASSUME VfsTypeOK', RefInv'
  PROVE  /\ icache' \subseteq DOMAIN obj'
         /\ \A m \in 1..2 : root'[m] # 0 => root'[m] \in DOMAIN obj'
         /\ \A t \in Callers :
              /\ call'[t].cur # 0 => call'[t].cur \in DOMAIN obj'
              /\ call'[t].nxt # 0 => call'[t].nxt \in DOMAIN obj'
         /\ \A x \in icache' : obj'[x].parent # 0 => obj'[x].parent \in DOMAIN obj'
<1>1. /\ Curs' \in [Callers -> Ptrs] /\ Nxts' \in [Callers -> Ptrs]
      /\ fd' \in [Callers -> Ptrs] /\ cwd' \in [Callers -> Ptrs]
      /\ root' \in [1..2 -> Ptrs] /\ icache' \subseteq Objs /\ Heap(obj')
      /\ \A t \in Callers : Curs'[t] = call'[t].cur /\ Nxts'[t] = call'[t].nxt
  BY DEF Curs, Nxts, VfsTypeOK, CallRecs
<1>2. Exact(obj', Parents(obj'), icache', root', fd', cwd', Curs', Nxts')
  BY DEF RefInv
<1>3. /\ Live(obj', icache', root', fd', cwd', Curs', Nxts')
      /\ \A x \in icache' : Parents(obj')[x] \in Objs => Parents(obj')[x] \in DOMAIN obj'
  BY <1>1, <1>2, HeldLive
<1>4. \A x \in icache' : obj'[x].parent # 0 => obj'[x].parent \in DOMAIN obj'
  <2>1. \A x \in icache' : Parents(obj')[x] = obj'[x].parent /\ obj'[x].parent \in Ptrs
    BY <1>1, <1>3 DEF Live, Parents, Heap, InodeRecs
  <2> QED BY <1>3, <2>1 DEF Ptrs, Objs
<1> QED BY <1>1, <1>3, <1>4 DEF Live

\* An inode that a call has made stays its own while the call waits.
LEMMA MadeKept ==
  ASSUME InodeInv, VfsTypeOK', RefInv', Old(obj, obj'),
         NEW u \in Callers, call[u].pc \in {"insert", "link"}, call'[u] = call[u],
         call[u].nxt \notin icache', \A v \in Callers \ {u} : call'[v].nxt # call[u].nxt
  PROVE  MadeBy(u)'
<1>1. VfsTypeOK /\ RefInv /\ PcOk(call[u]) /\ MadeBy(u)
  BY DEF InodeInv, NewInv, PcInv
<1>2. call[u].cur # 0 /\ call[u].nxt # 0
  BY <1>1 DEF PcOk, MadeBy
<1>3. call[u].cur \in DOMAIN obj /\ call[u].nxt \in DOMAIN obj
  BY <1>1, <1>2, Pointers
<1>4. call[u].cur \in DOMAIN obj' /\ call[u].nxt \in DOMAIN obj'
  BY <1>2, PointersNext
<1>5. /\ obj'[call[u].nxt].parent = call[u].cur
      /\ obj'[call[u].nxt].sb = obj'[call[u].cur].sb
  BY <1>1, <1>3, <1>4 DEF Old, SameInode, MadeBy
<1> QED BY <1>2, <1>5 DEF MadeBy

\* The other calls take inodes of the cache, make new ones, and put their own
\* ones into the cache.
LEMMA NewKept ==
  ASSUME InodeInv, NEW t \in Callers, VfsTypeOK', RefInv', Old(obj, obj'),
         \A u \in Callers \ {t} : call'[u] = call[u],
         \A x \in icache' : \/ x \in icache
                            \/ call[t].pc \in {"insert", "link"} /\ x = call[t].nxt,
         \/ call'[t].nxt \in {0, call[t].nxt} \cup icache
         \/ call'[t].nxt \notin DOMAIN obj,
         call'[t].pc \in {"insert", "link"} => MadeBy(t)'
  PROVE  NewInv'
<1> SUFFICES ASSUME NEW u \in Callers, u # t, call'[u].pc \in {"insert", "link"}
             PROVE  MadeBy(u)'
  BY DEF NewInv
<1>1. call'[u] = call[u] /\ MadeBy(u)
  BY DEF InodeInv, NewInv
<1>2. call[u].nxt # 0 /\ call[u].nxt \in DOMAIN obj
  BY <1>1, Pointers DEF InodeInv, MadeBy
<1>3. call[u].nxt \notin icache'
  <2>1. call[u].nxt \notin icache
    BY <1>1 DEF MadeBy
  <2>2. call[t].nxt # call[u].nxt
    BY <1>1 DEF MadeBy
  <2> QED BY <2>1, <2>2
<1>4. ASSUME NEW v \in Callers \ {u} PROVE call'[v].nxt # call[u].nxt
  <2>1. call[v].nxt # call[u].nxt
    BY <1>1 DEF MadeBy
  <2>2. CASE v # t
    BY <2>1, <2>2
  <2>3. CASE v = t
    BY <2>1, <2>3, <1>1, <1>2 DEF MadeBy
  <2> QED BY <2>2, <2>3
<1> QED BY <1>1, <1>3, <1>4, MadeKept

\* A step of a caller that leaves the cache and the mounts alone and moves
\* references of its own.
LEMMA CallerStep ==
  ASSUME InodeInv, NEW t \in Callers, VfsTypeOK', Old(obj, obj'),
         UNCHANGED <<icache, root, mounted>>,
         \A u \in Callers \ {t} : call'[u] = call[u] /\ fd'[u] = fd[u] /\ cwd'[u] = cwd[u],
         PcOk(call'[t]),
         \/ call'[t].nxt \in {0, call[t].nxt} \cup icache
         \/ call'[t].nxt \notin DOMAIN obj,
         call'[t].pc \in {"insert", "link"} => MadeBy(t)',
         \A o \in Objs :
           Ref(obj', o) = Ref(obj, o)
             + One(fd'[t], o) - One(fd[t], o) + One(cwd'[t], o) - One(cwd[t], o)
             + One(call'[t].cur, o) - One(call[t].cur, o)
             + One(call'[t].nxt, o) - One(call[t].nxt, o)
  PROVE  InodeInv'
<1>1. VfsTypeOK /\ RefInv /\ PcInv /\ RootInv
  BY DEF InodeInv
<1>2. PcInv'
  <2>1. ASSUME NEW u \in Callers PROVE PcOk(call'[u])
    <3>1. CASE u = t
      BY <3>1
    <3>2. CASE u # t
      BY <3>2, <1>1 DEF PcInv
    <3> QED BY <3>1, <3>2
  <2> QED BY <2>1 DEF PcInv
<1>3. RootInv'
  BY <1>1 DEF RootInv
<1>4. RefInv'
  <2>1. /\ Curs' \in [Callers -> Ptrs] /\ Nxts' \in [Callers -> Ptrs]
        /\ fd' \in [Callers -> Ptrs] /\ cwd' \in [Callers -> Ptrs] /\ Heap(obj')
    BY DEF Curs, Nxts, VfsTypeOK, CallRecs
  <2>2. \A u \in Callers : /\ Curs[u] = call[u].cur /\ Nxts[u] = call[u].nxt
                           /\ Curs'[u] = call'[u].cur /\ Nxts'[u] = call'[u].nxt
    BY DEF Curs, Nxts
  <2>3. \A x \in DOMAIN obj \cap DOMAIN obj' : obj'[x].parent = obj[x].parent
    BY DEF Old, SameInode
  <2>4. SameBut(t, fd, fd') /\ SameBut(t, cwd, cwd') /\ SameBut(t, Curs, Curs') /\ SameBut(t, Nxts, Nxts')
    BY <2>2 DEF SameBut
  <2>5. \A o \in Objs :
           Ref(obj', o) = Ref(obj, o)
             + One(fd'[t], o) - One(fd[t], o) + One(cwd'[t], o) - One(cwd[t], o)
             + One(Curs'[t], o) - One(Curs[t], o)
             + One(Nxts'[t], o) - One(Nxts[t], o)
    BY <2>2
  <2>6. Exact(obj', Parents(obj'), icache, root, fd', cwd', Curs', Nxts')
    BY <1>1, <2>1, <2>3, <2>4, <2>5, Balance
  <2> QED BY <2>6 DEF RefInv
<1>5. NewInv'
  BY <1>4, NewKept
<1> QED BY <1>2, <1>3, <1>4, <1>5 DEF InodeInv

\* What the steps of the callers do to the disks of the inodes: a new inode is
\* of the disk of another one, a newly cached one of that of its directory.
Calm ==
  /\ Old(obj, obj') /\ root' = root
  /\ \A o \in DOMAIN obj' \ DOMAIN obj : \E p \in DOMAIN obj : obj'[o].sb = obj[p].sb
  /\ \A x \in icache' \ icache :
       x \in DOMAIN obj /\ obj[x].parent \in DOMAIN obj /\ obj[x].sb = obj[obj[x].parent].sb

\* A step that makes no inode and caches none is calm.
LEMMA DownCalm ==
  ASSUME Down(obj, obj'), root' = root, icache' \subseteq icache
  PROVE  Calm
BY DEF Down, Old, SameInode, Calm

-----------------------------------------------------------------------------
(* The ways a call goes on                                                  *)

\* ob is the heap after t has given back what it holds.
GivesBack(t, ob) ==
  /\ Down(obj, ob)
  /\ \A o \in Objs : Ref(ob, o) = Ref(obj, o) - One(call[t].cur, o) - One(call[t].nxt, o)

\* The holders of an inode that caller t knows of, and the cache, are among those
\* its count stands for.
LEMMA RefObj ==
  ASSUME VfsTypeOK, RefInv, NEW t \in Callers, NEW o \in Objs
  PROVE  /\ Ref(obj, o) \in Nat
         /\ Ref(obj, o) >= InSet(icache, o) + One(root[1], o) + One(root[2], o)
                            + Kids(Parents(obj), icache, o)
                            + One(fd[t], o) + One(cwd[t], o) + One(call[t].cur, o) + One(call[t].nxt, o)
         /\ Kids(Parents(obj), icache, o) \in Nat
<1>1. icache \subseteq Objs /\ Heap(obj)
  BY DEF VfsTypeOK
<1>2. Ref(obj, o) >= InSet(icache, o) + One(root[1], o) + One(root[2], o)
                            + Kids(Parents(obj), icache, o)
                            + One(fd[t], o) + One(cwd[t], o) + One(Curs[t], o) + One(Nxts[t], o)
  BY <1>1, Enough DEF RefInv
<1>3. Curs[t] = call[t].cur /\ Nxts[t] = call[t].nxt
  BY DEF Curs, Nxts
<1>4. Ref(obj, o) \in Nat /\ Kids(Parents(obj), icache, o) \in Nat
  BY <1>1, RefNat, KidsNat
<1> QED BY <1>2, <1>3, <1>4

\* inode_put() of the inode a call walks with gives back all it holds.
LEMMA GiveCur ==
  ASSUME VfsTypeOK, RefInv, NEW t \in Callers, call[t].nxt = 0
  PROVE  GivesBack(t, inode_put(obj, call[t].cur))
<1>1. Heap(obj) /\ call[t].cur \in Ptrs /\ (call[t].cur # 0 => call[t].cur \in DOMAIN obj)
  BY Pointers DEF VfsTypeOK
<1>2. /\ Down(obj, inode_put(obj, call[t].cur))
      /\ \A o \in Objs : Ref(inode_put(obj, call[t].cur), o) = Ref(obj, o) - One(call[t].cur, o)
  BY <1>1, PutRef
<1>3. ASSUME NEW o \in Objs
      PROVE  Ref(inode_put(obj, call[t].cur), o) = Ref(obj, o) - One(call[t].cur, o) - One(call[t].nxt, o)
  <2>1. One(call[t].nxt, o) = 0 /\ One(call[t].cur, o) \in {0, 1}
    BY DEF One, Objs
  <2>2. Ref(obj, o) \in Nat
    BY <1>1, RefNat
  <2> QED BY <1>2, <2>1, <2>2
<1> QED BY <1>2, <1>3 DEF GivesBack

\* inode_put() of both inodes a call has in hand gives back all it holds.
LEMMA GiveBoth ==
  ASSUME VfsTypeOK, RefInv, NEW t \in Callers
  PROVE  GivesBack(t, inode_put(inode_put(obj, call[t].nxt), call[t].cur))
<1> DEFINE a == inode_put(obj, call[t].nxt)
           b == inode_put(a, call[t].cur)
<1>1. /\ Heap(obj) /\ call[t].cur \in Ptrs /\ call[t].nxt \in Ptrs
      /\ call[t].nxt # 0 => call[t].nxt \in DOMAIN obj
  BY Pointers DEF VfsTypeOK
<1>2. Down(obj, a) /\ \A o \in Objs : Ref(a, o) = Ref(obj, o) - One(call[t].nxt, o)
  BY <1>1, PutRef
<1>3. Heap(a)
  BY <1>2 DEF Down, SameInode
<1>4. call[t].cur # 0 => call[t].cur \in DOMAIN a
  <2> SUFFICES ASSUME call[t].cur # 0 PROVE call[t].cur \in DOMAIN a
    OBVIOUS
  <2> DEFINE o == call[t].cur
  <2>1. o \in Objs
    BY <1>1 DEF Ptrs, Objs
  <2>2. Ref(obj, o) >= One(call[t].cur, o) + One(call[t].nxt, o)
    BY <2>1, RefObj DEF One, InSet
  <2>3. Ref(a, o) >= 1
    BY <2>1, <2>2, <1>2, RefObj DEF One
  <2> QED BY <2>3, <1>3, RefNat
<1> HIDE DEF a
<1>5. Down(a, b) /\ \A o \in Objs : Ref(b, o) = Ref(a, o) - One(call[t].cur, o)
  BY <1>1, <1>3, <1>4, PutRef
<1>6. Down(obj, b)
  BY <1>2, <1>5, DownTrans
<1>7. ASSUME NEW o \in Objs
      PROVE  Ref(b, o) = Ref(obj, o) - One(call[t].cur, o) - One(call[t].nxt, o)
  <2>1. /\ Ref(b, o) = Ref(a, o) - One(call[t].cur, o)
        /\ Ref(a, o) = Ref(obj, o) - One(call[t].nxt, o)
    BY <1>2, <1>5
  <2>2. Ref(obj, o) \in Nat /\ One(call[t].cur, o) \in {0, 1} /\ One(call[t].nxt, o) \in {0, 1}
    BY <1>1, RefNat, OneNat
  <2> QED BY <2>1, <2>2
<1> HIDE DEF b
<1>8. GivesBack(t, b)
  BY <1>6, <1>7 DEF GivesBack
<1> QED BY <1>8 DEF a, b

\* The call returns, all given back.
LEMMA Returned ==
  ASSUME InodeInv, NEW t \in Callers, GivesBack(t, obj'),
         call' = [call EXCEPT ![t] = NoCall],
         UNCHANGED <<dirents, icache, root, mounted, fd, cwd>>
  PROVE  InodeInv' /\ Calm
<1>1. VfsTypeOK /\ RefInv /\ PcInv
  BY DEF InodeInv
<1>2. Down(obj, obj') /\ Heap(obj')
  BY DEF GivesBack, Down, SameInode
<1>3. NoCall \in CallRecs
  BY VfsAssumption DEF NoCall, CallRecs, CallPcs, CallOps, Ptrs
<1>4. VfsTypeOK'
  BY <1>1, <1>2, <1>3 DEF VfsTypeOK
<1>5. call'[t] = NoCall /\ \A u \in Callers \ {t} : call'[u] = call[u]
  BY <1>1 DEF VfsTypeOK
<1>6. PcOk(call'[t]) /\ call'[t].nxt = 0 /\ call'[t].cur = 0 /\ call'[t].pc = "idle"
  BY <1>5 DEF PcOk, NoCall, ParentOps
<1>7. Old(obj, obj')
  BY <1>2 DEF Down, Old, SameInode
<1>8. ASSUME NEW o \in Objs
      PROVE  Ref(obj', o) = Ref(obj, o)
               + One(fd'[t], o) - One(fd[t], o) + One(cwd'[t], o) - One(cwd[t], o)
               + One(call'[t].cur, o) - One(call[t].cur, o)
               + One(call'[t].nxt, o) - One(call[t].nxt, o)
  <2>1. Ref(obj', o) = Ref(obj, o) - One(call[t].cur, o) - One(call[t].nxt, o)
    BY DEF GivesBack
  <2>2. One(call'[t].cur, o) = 0 /\ One(call'[t].nxt, o) = 0
    BY <1>6 DEF One, Objs
  <2>3. /\ One(call[t].cur, o) \in {0, 1} /\ One(call[t].nxt, o) \in {0, 1}
        /\ One(fd[t], o) \in {0, 1} /\ One(cwd[t], o) \in {0, 1}
    BY OneNat
  <2>4. Ref(obj, o) \in Nat
    BY <1>1, RefNat DEF VfsTypeOK
  <2>5. fd' = fd /\ cwd' = cwd
    OBVIOUS
  <2> QED BY <2>1, <2>2, <2>3, <2>4, <2>5
<1>9. InodeInv'
  BY <1>4, <1>5, <1>6, <1>7, <1>8, CallerStep
<1> QED BY <1>2, <1>9, DownCalm

\* The root of a disk does not go away with what a call holds.
LEMMA RootSpare ==
  ASSUME VfsTypeOK, RefInv, NEW t \in Callers, NEW o \in Objs, o = root[1] \/ o = root[2]
  PROVE  Ref(obj, o) - One(call[t].cur, o) - One(call[t].nxt, o) >= 1
<1>1. /\ Ref(obj, o) \in Nat
      /\ Ref(obj, o) >= InSet(icache, o) + One(root[1], o) + One(root[2], o)
                          + Kids(Parents(obj), icache, o)
                          + One(fd[t], o) + One(cwd[t], o) + One(call[t].cur, o) + One(call[t].nxt, o)
      /\ Kids(Parents(obj), icache, o) \in Nat
  BY RefObj
<1>2. /\ InSet(icache, o) \in Nat /\ One(fd[t], o) \in Nat /\ One(cwd[t], o) \in Nat
      /\ One(root[1], o) \in Nat /\ One(root[2], o) \in Nat
      /\ One(call[t].cur, o) \in Nat /\ One(call[t].nxt, o) \in Nat
  BY DEF InSet, One
<1>3. One(root[1], o) >= 1 \/ One(root[2], o) >= 1
  BY DEF One
<1>4. InSet(icache, o) + One(root[1], o) + One(root[2], o) + Kids(Parents(obj), icache, o)
        + One(fd[t], o) + One(cwd[t], o) >= 1
  BY <1>1, <1>2, <1>3
<1>5. Ref(obj, o) >= 1 + One(call[t].cur, o) + One(call[t].nxt, o)
  BY <1>1, <1>2, <1>4
<1> QED BY <1>1, <1>2, <1>5

\* A walk starts, what the call held before given back.
LEMMA Started ==
  ASSUME InodeInv, NEW t \in Callers, NEW ob, GivesBack(t, ob),
         NEW f \in CallOps, NEW path \in Seq(Names),
         f \in ParentOps \cup {"make"} => path # <<>>,
         StartWalk(t, ob, f, path),
         UNCHANGED <<dirents, icache, root, mounted, fd, cwd>>
  PROVE  InodeInv' /\ Calm
<1> DEFINE full == IF f \in ParentOps \cup {"make"} THEN ParentPath(path) ELSE path
           m == vfs_find_mount(full)
           rest == IF m = 2 THEN Tail(full) ELSE full
           c == [pc |-> "walk", op |-> f, path |-> path, cur |-> root[m], nxt |-> 0, rest |-> rest]
<1>1. VfsTypeOK /\ RefInv /\ PcInv /\ RootInv
  BY DEF InodeInv
<1>2. full \in Seq(Names)
  <2>1. CASE f \in ParentOps \cup {"make"}
    <3>1. Len(path) - 1 \in 0..Len(path)
      <4>1. Len(path) \in Nat /\ Len(path) # 0
        BY <2>1
      <4> QED BY <4>1
    <3>2. SubSeq(path, 1, Len(path) - 1) \in Seq(Names)
      BY <3>1
    <3> QED BY <2>1, <3>2 DEF ParentPath
  <2>2. CASE f \notin ParentOps \cup {"make"}
    BY <2>2
  <2> QED BY <2>1, <2>2
<1> HIDE DEF full
<1>3. m \in 1..2 /\ (m = 2 => full # <<>> /\ mounted # {})
  BY DEF vfs_find_mount
<1>4. rest \in Seq(Names)
  BY <1>2, <1>3
<1>5. root[m] \in Ptrs /\ root[m] # 0
  <2>1. m = 1 \/ m = 2
    BY <1>3
  <2> QED BY <1>1, <1>3, <2>1 DEF VfsTypeOK, RootInv
<1>6. obj' = inode_get(ob, root[m]) /\ call' = [call EXCEPT ![t] = c]
  BY DEF StartWalk, full
<1> HIDE DEF m
<1>7. Heap(ob) /\ Down(obj, ob)
  BY DEF GivesBack, Down, SameInode
<1>8. root[m] \in DOMAIN ob
  <2>1. root[m] \in Objs
    BY <1>5 DEF Ptrs, Objs
  <2>7. root[m] = root[1] \/ root[m] = root[2]
    BY <1>3
  <2>8. Ref(ob, root[m]) >= 1
    BY <1>1, <2>1, <2>7, RootSpare DEF GivesBack
  <2> QED BY <2>8, <1>7, RefNat
<1>9. Down(ob, obj') /\ \A o \in Objs : Ref(obj', o) = Ref(ob, o) + One(root[m], o)
  BY <1>5, <1>6, <1>7, <1>8, GetRef
<1>10. Down(obj, obj') /\ Heap(obj') /\ Old(obj, obj')
  <2>1. Down(obj, obj')
    BY <1>7, <1>9, DownTrans
  <2> QED BY <2>1 DEF Down, Old, SameInode
<1>11. c \in CallRecs
  BY <1>4, <1>5, VfsAssumption DEF CallRecs, CallPcs, Ptrs
<1>12. VfsTypeOK'
  BY <1>1, <1>6, <1>10, <1>11 DEF VfsTypeOK
<1>13. call'[t] = c /\ \A u \in Callers \ {t} : call'[u] = call[u]
  BY <1>1, <1>6 DEF VfsTypeOK
<1>14. PcOk(call'[t]) /\ call'[t].nxt = 0 /\ call'[t].cur = root[m] /\ call'[t].pc = "walk"
  BY <1>5, <1>13 DEF PcOk
<1> HIDE DEF c
<1>15. ASSUME NEW o \in Objs
      PROVE  Ref(obj', o) = Ref(obj, o)
               + One(fd'[t], o) - One(fd[t], o) + One(cwd'[t], o) - One(cwd[t], o)
               + One(call'[t].cur, o) - One(call[t].cur, o)
               + One(call'[t].nxt, o) - One(call[t].nxt, o)
  <2>1. Ref(ob, o) = Ref(obj, o) - One(call[t].cur, o) - One(call[t].nxt, o)
    BY DEF GivesBack
  <2>2. Ref(obj', o) = Ref(ob, o) + One(call'[t].cur, o) /\ One(call'[t].nxt, o) = 0
    BY <1>9, <1>14 DEF One, Objs
  <2>3. /\ One(call[t].cur, o) \in {0, 1} /\ One(call[t].nxt, o) \in {0, 1}
        /\ One(call'[t].cur, o) \in {0, 1}
        /\ One(fd[t], o) \in {0, 1} /\ One(cwd[t], o) \in {0, 1}
    BY OneNat
  <2>4. Ref(obj, o) \in Nat
    BY <1>1, RefNat DEF VfsTypeOK
  <2>5. fd' = fd /\ cwd' = cwd
    OBVIOUS
  <2> QED BY <2>1, <2>2, <2>3, <2>4, <2>5
<1>16. InodeInv'
  BY <1>10, <1>12, <1>13, <1>14, <1>15, CallerStep
<1> QED BY <1>10, <1>16, DownCalm

\* A walk that fails: vfs_lookup_impl() puts what it holds and returns.
LEMMA Failed ==
  ASSUME InodeInv, NEW t \in Callers, NEW ob, GivesBack(t, ob), LookupFails(t, ob),
         UNCHANGED <<dirents, icache, root, mounted, fd, cwd>>
  PROVE  InodeInv' /\ Calm
<1>1. call[t].path \in Seq(Names)
  BY DEF InodeInv, VfsTypeOK, CallRecs
<1>2. CASE call[t].op \in {"create", "excl"} /\ call[t].path # <<>>
  <2>1. StartWalk(t, ob, "make", call[t].path)
    BY <1>2 DEF LookupFails
  <2> QED BY <1>1, <1>2, <2>1, Started DEF CallOps
<1>3. CASE ~(call[t].op \in {"create", "excl"} /\ call[t].path # <<>>)
  <2>1. obj' = ob /\ call' = [call EXCEPT ![t] = NoCall]
    BY <1>3 DEF LookupFails
  <2> QED BY <2>1, Returned
<1> QED BY <1>2, <1>3

-----------------------------------------------------------------------------
(* The steps of a walk                                                      *)

\* vfs_lookup_impl() starts at the root of a disk and takes a reference to it.
LEMMA BeginCallInv ==
  ASSUME InodeInv, NEW t \in Callers, NEW f \in VfsOps, NEW path \in Paths, BeginCall(t, f, path)
  PROVE  InodeInv' /\ Calm
<1>1. VfsTypeOK /\ PcInv
  BY DEF InodeInv
<1>2. call[t].cur = 0 /\ call[t].nxt = 0
  BY <1>1 DEF BeginCall, MayBegin, PcInv, PcOk
<1>3. GivesBack(t, obj)
  <2>1. Heap(obj) /\ Down(obj, obj)
    BY <1>1 DEF VfsTypeOK, Down, SameInode
  <2>2. ASSUME NEW o \in Objs
        PROVE  Ref(obj, o) = Ref(obj, o) - One(call[t].cur, o) - One(call[t].nxt, o)
    <3>1. One(call[t].cur, o) = 0 /\ One(call[t].nxt, o) = 0
      BY <1>2 DEF One, Objs
    <3> QED BY <2>1, <3>1, RefNat
  <2> QED BY <2>1, <2>2 DEF GivesBack
<1>4. f \in CallOps /\ path \in Seq(Names) /\ (f \in ParentOps \cup {"make"} => path # <<>>)
  BY VfsAssumption DEF BeginCall, CallOps, VfsOps, OpenOps, ParentOps
<1>5. /\ StartWalk(t, obj, f, path)
      /\ UNCHANGED <<dirents, icache, root, mounted, fd, cwd>>
  BY DEF BeginCall
<1> QED BY <1>3, <1>4, <1>5, Started

\* A caller takes a reference to p and gives back the one it walks with.
LEMMA TakeAndPut ==
  ASSUME VfsTypeOK, RefInv, NEW t \in Callers, NEW p \in DOMAIN obj
  PROVE  /\ Down(obj, inode_put(inode_get(obj, p), call[t].cur))
         /\ \A o \in Objs : Ref(inode_put(inode_get(obj, p), call[t].cur), o)
                              = Ref(obj, o) + One(p, o) - One(call[t].cur, o)
<1> DEFINE a == inode_get(obj, p)
           b == inode_put(a, call[t].cur)
<1>1. /\ Heap(obj) /\ call[t].cur \in Ptrs /\ p \in Ptrs
      /\ call[t].cur # 0 => call[t].cur \in DOMAIN obj
  BY Pointers DEF VfsTypeOK, Heap, Ptrs, Objs
<1>2. Down(obj, a) /\ \A o \in Objs : Ref(a, o) = Ref(obj, o) + One(p, o)
  BY <1>1, GetRef
<1>3. Heap(a)
  BY <1>2 DEF Down, SameInode
<1>4. call[t].cur # 0 => call[t].cur \in DOMAIN a
  BY <1>1 DEF inode_get
<1> HIDE DEF a
<1>5. Down(a, b) /\ \A o \in Objs : Ref(b, o) = Ref(a, o) - One(call[t].cur, o)
  BY <1>1, <1>3, <1>4, PutRef
<1>6. Down(obj, b)
  BY <1>2, <1>5, DownTrans
<1>7. ASSUME NEW o \in Objs PROVE Ref(b, o) = Ref(obj, o) + One(p, o) - One(call[t].cur, o)
  <2> HIDE DEF b
  <2>1. Ref(b, o) = Ref(a, o) - One(call[t].cur, o)
    BY <1>5
  <2>2. Ref(a, o) = Ref(obj, o) + One(p, o)
    BY <1>2
  <2>3. Ref(obj, o) \in Nat /\ One(p, o) \in {0, 1} /\ One(call[t].cur, o) \in {0, 1}
    BY <1>1, RefNat, OneNat
  <2> QED BY <2>1, <2>2, <2>3
<1> QED BY <1>6, <1>7 DEF a

\* The next component is in the cache: inode_cache_find() takes a reference, the
\* one to the directory is given back.
LEMMA WalkHitInv ==
  ASSUME InodeInv, NEW t \in Callers, NEW o \in icache, WalkHit(t, o)
  PROVE  InodeInv' /\ Calm
<1>1. VfsTypeOK /\ PcInv /\ RefInv
  BY DEF InodeInv
<1>2. o \in DOMAIN obj /\ o \in Ptrs /\ o # 0
  BY <1>1, Pointers DEF VfsTypeOK, Ptrs, Objs
<1>3. obj' = inode_put(inode_get(obj, o), call[t].cur)
  BY DEF WalkHit
<1>4. /\ Down(obj, obj')
      /\ \A x \in Objs : Ref(obj', x) = Ref(obj, x) + One(o, x) - One(call[t].cur, x)
  BY <1>1, <1>2, <1>3, TakeAndPut
<1>5. call[t] \in CallRecs /\ call[t].pc = "walk" /\ call[t].rest # <<>> /\ call[t].nxt = 0 /\ PcOk(call[t])
  BY <1>1 DEF WalkHit, VfsTypeOK, PcInv, PcOk
<1> DEFINE c == [call[t] EXCEPT !.cur = o, !.rest = Tail(@)]
<1>6. call' = [call EXCEPT ![t] = c]
  BY <1>1 DEF WalkHit, VfsTypeOK
<1>7. /\ c \in CallRecs /\ c.nxt = 0 /\ c.cur = o /\ c.pc = "walk" /\ PcOk(c)
  <2>1. Tail(call[t].rest) \in Seq(Names)
    BY <1>5 DEF CallRecs
  <2>2. /\ c \in CallRecs /\ c.nxt = 0 /\ c.cur = o /\ c.pc = "walk"
        /\ c.op = call[t].op /\ c.path = call[t].path
    BY <1>2, <1>5, <2>1 DEF CallRecs
  <2> QED BY <1>2, <1>5, <2>2 DEF PcOk
<1> HIDE DEF c
<1>8. call'[t] = c /\ \A u \in Callers \ {t} : call'[u] = call[u]
  BY <1>1, <1>6 DEF VfsTypeOK
<1>9. UNCHANGED <<dirents, icache, root, mounted, fd, cwd>>
  BY DEF WalkHit
<1>10. VfsTypeOK' /\ Old(obj, obj')
  BY <1>1, <1>4, <1>6, <1>7, <1>9 DEF VfsTypeOK, Down, Old, SameInode
<1>11. ASSUME NEW x \in Objs
       PROVE  Ref(obj', x) = Ref(obj, x)
               + One(fd'[t], x) - One(fd[t], x) + One(cwd'[t], x) - One(cwd[t], x)
               + One(call'[t].cur, x) - One(call[t].cur, x)
               + One(call'[t].nxt, x) - One(call[t].nxt, x)
  <2>1. Ref(obj', x) = Ref(obj, x) + One(call'[t].cur, x) - One(call[t].cur, x)
    BY <1>4, <1>7, <1>8
  <2>2. call'[t].nxt = call[t].nxt /\ fd'[t] = fd[t] /\ cwd'[t] = cwd[t]
    BY <1>5, <1>7, <1>8, <1>9
  <2>3. /\ One(call[t].cur, x) \in {0, 1} /\ One(call[t].nxt, x) \in {0, 1}
        /\ One(call'[t].cur, x) \in {0, 1}
        /\ One(fd[t], x) \in {0, 1} /\ One(cwd[t], x) \in {0, 1}
    BY OneNat
  <2>4. Ref(obj, x) \in Nat
    BY <1>1, RefNat DEF VfsTypeOK
  <2> QED BY <2>1, <2>2, <2>3, <2>4
<1>12. InodeInv'
  BY <1>7, <1>8, <1>9, <1>10, <1>11, CallerStep
<1> QED BY <1>4, <1>9, <1>12, DownCalm

\* A step that changes only where the call is.
LEMMA PcStep ==
  ASSUME InodeInv, NEW t \in Callers, NEW c \in CallRecs, PcOk(c),
         c.cur = call[t].cur, c.nxt = call[t].nxt, c.pc \notin {"insert", "link"},
         call' = [call EXCEPT ![t] = c],
         dirents' \subseteq dirents, UNCHANGED <<obj, icache, root, mounted, fd, cwd>>
  PROVE  InodeInv' /\ Calm
<1>1. VfsTypeOK /\ PcInv /\ RefInv
  BY DEF InodeInv
<1>2. call'[t] = c /\ \A u \in Callers \ {t} : call'[u] = call[u]
  BY <1>1 DEF VfsTypeOK
<1>3. VfsTypeOK' /\ Old(obj, obj') /\ Down(obj, obj')
  BY <1>1 DEF VfsTypeOK, Old, Down, SameInode
<1>4. ASSUME NEW x \in Objs
       PROVE  Ref(obj', x) = Ref(obj, x)
               + One(fd'[t], x) - One(fd[t], x) + One(cwd'[t], x) - One(cwd[t], x)
               + One(call'[t].cur, x) - One(call[t].cur, x)
               + One(call'[t].nxt, x) - One(call[t].nxt, x)
  <2>1. /\ One(call[t].cur, x) \in {0, 1} /\ One(call[t].nxt, x) \in {0, 1}
        /\ One(fd[t], x) \in {0, 1} /\ One(cwd[t], x) \in {0, 1}
    BY OneNat
  <2>2. Ref(obj, x) \in Nat
    BY <1>1, RefNat DEF VfsTypeOK
  <2>3. call'[t].nxt = call[t].nxt /\ fd'[t] = fd[t] /\ cwd'[t] = cwd[t] /\ call'[t].cur = call[t].cur
    BY <1>2
  <2> QED BY <2>1, <2>2, <2>3
<1>5. InodeInv'
  BY <1>2, <1>3, <1>4, CallerStep
<1> QED BY <1>3, <1>5, DownCalm

\* The next component is not in the cache.
LEMMA WalkMissInv ==
  ASSUME InodeInv, NEW t \in Callers, WalkMiss(t)
  PROVE  InodeInv' /\ Calm
<1> DEFINE c == [call[t] EXCEPT !.pc = "fill"]
<1>1. VfsTypeOK /\ PcOk(call[t]) /\ call[t] \in CallRecs
  BY DEF InodeInv, PcInv, VfsTypeOK
<1>2. call' = [call EXCEPT ![t] = c]
  BY <1>1 DEF WalkMiss, VfsTypeOK
<1>3. /\ c \in CallRecs /\ c.pc = "fill" /\ c.cur = call[t].cur /\ c.nxt = call[t].nxt
      /\ c.op = call[t].op /\ c.path = call[t].path /\ c.rest = call[t].rest
  BY <1>1 DEF CallRecs, CallPcs
<1>4. PcOk(c)
  BY <1>1, <1>3 DEF PcOk, WalkMiss
<1> HIDE DEF c
<1> QED BY <1>2, <1>3, <1>4, PcStep DEF WalkMiss

\* A file system makes an inode for a call that walks in directory cur.
LEMMA MadeInv ==
  ASSUME InodeInv, NEW t \in Callers, NEW o \in Objs, FreshObj(o),
         NEW i \in Nat, NEW nm \in Names, obj' = NewInode(o, i, call[t].cur, nm),
         call[t].cur # 0, call[t].nxt = 0,
         NEW c \in CallRecs, PcOk(c), c.cur = call[t].cur, c.nxt = o,
         call' = [call EXCEPT ![t] = c],
         dirents' \subseteq Nat \X Names \X Nat, UNCHANGED <<icache, root, mounted, fd, cwd>>
  PROVE  InodeInv' /\ Calm
<1>1. VfsTypeOK /\ PcInv /\ RefInv
  BY DEF InodeInv
<1>2. /\ Heap(obj) /\ call[t].cur \in DOMAIN obj /\ call[t].cur \in Ptrs
      /\ icache \subseteq DOMAIN obj /\ o \in Objs \ DOMAIN obj
  BY <1>1, Pointers DEF FreshObj, VfsTypeOK
<1> DEFINE in == Inode(i, obj[call[t].cur].sb, 1, call[t].cur, nm)
<1>3. in \in InodeRecs /\ in.ref = 1 /\ in.parent = call[t].cur /\ in.sb = obj[call[t].cur].sb
  BY <1>2 DEF Heap, InodeRecs, Inode
<1>4. obj' = With(obj, o, in)
  BY DEF NewInode
<1> HIDE DEF in
<1>5. /\ Heap(obj') /\ DOMAIN obj' = DOMAIN obj \cup {o}
      /\ obj'[o] = in
      /\ \A x \in DOMAIN obj : obj'[x] = obj[x]
      /\ \A x \in Objs : Ref(obj', x) = Ref(obj, x) + (IF x = o THEN in.ref ELSE 0)
  <2>1. Grown(obj, o, in, obj')
    BY <1>2, <1>3, <1>4, WithRef
  <2> QED BY <2>1 DEF Grown
<1>6. call'[t] = c /\ \A u \in Callers \ {t} : call'[u] = call[u]
  BY <1>1 DEF VfsTypeOK
<1>7. VfsTypeOK' /\ Old(obj, obj')
  BY <1>1, <1>5 DEF VfsTypeOK, Old, SameInode
<1>8. ASSUME NEW x \in Objs
       PROVE  Ref(obj', x) = Ref(obj, x)
               + One(fd'[t], x) - One(fd[t], x) + One(cwd'[t], x) - One(cwd[t], x)
               + One(call'[t].cur, x) - One(call[t].cur, x)
               + One(call'[t].nxt, x) - One(call[t].nxt, x)
  <2>1. Ref(obj', x) = Ref(obj, x) + One(call'[t].nxt, x) /\ One(call[t].nxt, x) = 0
    BY <1>3, <1>5, <1>6 DEF One, Objs
  <2>2. /\ One(call[t].cur, x) \in {0, 1} /\ One(call'[t].nxt, x) \in {0, 1}
        /\ One(fd[t], x) \in {0, 1} /\ One(cwd[t], x) \in {0, 1}
    BY OneNat
  <2>3. Ref(obj, x) \in Nat
    BY <1>2, RefNat
  <2>4. fd'[t] = fd[t] /\ cwd'[t] = cwd[t] /\ call'[t].cur = call[t].cur
    BY <1>6
  <2> QED BY <2>1, <2>2, <2>3, <2>4
<1>9. MadeBy(t)'
  <2>1. call'[t].nxt = o /\ o # 0 /\ o \notin icache' /\ call'[t].cur = call[t].cur
    BY <1>2, <1>6 DEF Objs
  <2>2. ASSUME NEW u \in Callers \ {t} PROVE call'[u].nxt # o
    BY <1>1, <1>2, <1>6, <2>1, Pointers
  <2>3. obj'[o].parent = call'[t].cur /\ obj'[o].sb = obj'[call'[t].cur].sb
    BY <1>2, <1>3, <1>5, <2>1
  <2> QED BY <2>1, <2>2, <2>3 DEF MadeBy
<1>10. InodeInv'
  BY <1>2, <1>6, <1>7, <1>8, <1>9, CallerStep
<1>11. Calm
  BY <1>2, <1>3, <1>5, <1>7 DEF Calm
<1> QED BY <1>10, <1>11

\* The lookup of the file system makes an inode for the component.
LEMMA WalkFillInv ==
  ASSUME InodeInv, NEW t \in Callers, NEW o \in Objs, WalkFill(t, o)
  PROVE  InodeInv' /\ Calm
<1> DEFINE c == [call[t] EXCEPT !.pc = "insert", !.nxt = o]
<1>1. VfsTypeOK /\ PcOk(call[t]) /\ call[t] \in CallRecs
  BY DEF InodeInv, PcInv, VfsTypeOK
<1>2. call' = [call EXCEPT ![t] = c]
  BY <1>1 DEF WalkFill, VfsTypeOK
<1>3. /\ c \in CallRecs /\ c.pc = "insert" /\ c.cur = call[t].cur /\ c.nxt = o
      /\ c.op = call[t].op /\ c.path = call[t].path /\ c.rest = call[t].rest
  <2>1. o \in Ptrs
    BY DEF Ptrs, Objs
  <2> QED BY <1>1, <2>1 DEF CallRecs, CallPcs
<1>4. PcOk(c) /\ call[t].cur # 0 /\ call[t].nxt = 0
  BY <1>1, <1>3 DEF PcOk, WalkFill
<1> HIDE DEF c
<1>5. PICK e \in OnDisk(call[t].cur, Head(call[t].rest)) : obj' = NewInode(o, e[3], call[t].cur, e[2])
  BY DEF WalkFill
<1>6. e[3] \in Nat /\ e[2] \in Names
  BY <1>1 DEF OnDisk, VfsTypeOK
<1>7. FreshObj(o) /\ UNCHANGED <<dirents, icache, root, mounted, fd, cwd>>
  BY DEF WalkFill
<1>8. dirents' \subseteq Nat \X Names \X Nat
  BY <1>1, <1>7 DEF VfsTypeOK
<1> QED BY <1>2, <1>3, <1>4, <1>5, <1>6, <1>7, <1>8, MadeInv

\* The component is not in the directory.
LEMMA WalkNotFoundInv ==
  ASSUME InodeInv, NEW t \in Callers, WalkNotFound(t)
  PROVE  InodeInv' /\ Calm
<1>1. VfsTypeOK /\ RefInv /\ call[t].nxt = 0
  BY DEF InodeInv, PcInv, PcOk, WalkNotFound
<1>2. GivesBack(t, inode_put(obj, call[t].cur))
  BY <1>1, GiveCur
<1> QED BY <1>2, Failed DEF WalkNotFound

\* Another walk has cached the name first: the inode made here is put.
LEMMA WalkInsertLostInv ==
  ASSUME InodeInv, NEW t \in Callers, WalkInsertLost(t)
  PROVE  InodeInv' /\ Calm
<1>1. GivesBack(t, inode_put(inode_put(obj, call[t].nxt), call[t].cur))
  BY GiveBoth DEF InodeInv
<1> QED BY <1>1, Failed DEF WalkInsertLost

-----------------------------------------------------------------------------
(* The cache                                                                *)

\* inode_cache_insert() and the end of the walk in the directory.
LEMMA InsertHeap ==
  ASSUME InodeInv, NEW t \in Callers, call[t].pc \in {"insert", "link"}
  PROVE  /\ Down(obj, inode_put(CacheRefs(obj, call[t].nxt, call[t].cur), call[t].cur))
         /\ \A o \in Objs : Ref(inode_put(CacheRefs(obj, call[t].nxt, call[t].cur), call[t].cur), o)
                              = Ref(obj, o) + One(call[t].nxt, o)
<1> DEFINE n == call[t].nxt
           p == call[t].cur
           a == inode_get(obj, n)
           b == inode_get(a, p)
           c == inode_put(b, p)
<1>1. VfsTypeOK /\ RefInv /\ MadeBy(t) /\ PcOk(call[t])
  BY DEF InodeInv, NewInv, PcInv
<1>2. Heap(obj) /\ n \in Ptrs /\ p \in Ptrs /\ n \in DOMAIN obj /\ p \in DOMAIN obj
  BY <1>1, Pointers DEF VfsTypeOK, MadeBy, PcOk
<1> HIDE DEF n, p
<1>3. Down(obj, a) /\ (\A o \in Objs : Ref(a, o) = Ref(obj, o) + One(n, o)) /\ p \in DOMAIN a
  BY <1>2, GetRef DEF inode_get
<1>4. Heap(a)
  BY <1>3 DEF Down, SameInode
<1> HIDE DEF a
<1>5. Down(a, b) /\ (\A o \in Objs : Ref(b, o) = Ref(a, o) + One(p, o)) /\ p \in DOMAIN b
  BY <1>2, <1>3, <1>4, GetRef DEF inode_get
<1>6. Heap(b)
  BY <1>5 DEF Down, SameInode
<1> HIDE DEF b
<1>7. Down(b, c) /\ \A o \in Objs : Ref(c, o) = Ref(b, o) - One(p, o)
  BY <1>2, <1>5, <1>6, PutRef
<1> HIDE DEF c
<1>8. Down(obj, c)
  BY <1>3, <1>5, <1>7, DownTrans
<1>9. ASSUME NEW o \in Objs PROVE Ref(c, o) = Ref(obj, o) + One(n, o)
  <2>1. Ref(a, o) = Ref(obj, o) + One(n, o) /\ Ref(b, o) = Ref(a, o) + One(p, o) /\ Ref(c, o) = Ref(b, o) - One(p, o)
    BY <1>3, <1>5, <1>7
  <2>2. Ref(obj, o) \in Nat /\ One(n, o) \in {0, 1} /\ One(p, o) \in {0, 1}
    BY <1>2, RefNat, OneNat
  <2> QED BY <2>1, <2>2
<1>10. c = inode_put(CacheRefs(obj, call[t].nxt, call[t].cur), call[t].cur)
  BY DEF a, b, c, n, p, CacheRefs
<1> QED BY <1>8, <1>9, <1>10 DEF n

\* What is left of what a call has made: a reference to what it walks with.
LEMMA CacheInsert ==
  ASSUME InodeInv, NEW t \in Callers, call[t].pc \in {"insert", "link"}, Down(obj, obj'),
         NEW c \in CallRecs, PcOk(c), c.nxt = 0, c.pc \notin {"insert", "link"},
         call' = [call EXCEPT ![t] = c],
         icache' = icache \cup {call[t].nxt},
         UNCHANGED <<dirents, root, mounted, fd, cwd>>,
         \A o \in Objs : Ref(obj', o) = Ref(obj, o) + One(c.cur, o)
  PROVE  InodeInv' /\ Calm
<1> DEFINE n == call[t].nxt
           p == call[t].cur
           par == Parents(obj)
<1>1. VfsTypeOK /\ RefInv /\ MadeBy(t) /\ PcOk(call[t]) /\ PcInv /\ RootInv
  BY DEF InodeInv, NewInv, PcInv
<1>2. /\ Heap(obj) /\ n \in Objs /\ n \in DOMAIN obj /\ p \in DOMAIN obj
      /\ n \notin icache /\ obj[n].parent = p /\ obj[n].sb = obj[p].sb
  BY <1>1, Pointers DEF VfsTypeOK, MadeBy, PcOk, Heap
<1>3. call'[t] = c /\ \A u \in Callers \ {t} : call'[u] = call[u]
  BY <1>1 DEF VfsTypeOK
<1>4. VfsTypeOK'
  BY <1>1, <1>2 DEF VfsTypeOK, Down, SameInode
<1>5. /\ Curs' \in [Callers -> Ptrs] /\ Nxts' \in [Callers -> Ptrs]
      /\ fd' \in [Callers -> Ptrs] /\ cwd' \in [Callers -> Ptrs] /\ Heap(obj')
      /\ root' \in [1..2 -> Ptrs] /\ icache' \subseteq Objs
      /\ \A u \in Callers : /\ Curs[u] = call[u].cur /\ Nxts[u] = call[u].nxt
                            /\ Curs'[u] = call'[u].cur /\ Nxts'[u] = call'[u].nxt
  BY <1>4 DEF Curs, Nxts, VfsTypeOK, CallRecs
<1>6. SameBut(t, fd, fd') /\ SameBut(t, cwd, cwd') /\ SameBut(t, Curs, Curs') /\ SameBut(t, Nxts, Nxts')
  BY <1>3, <1>5 DEF SameBut
<1>7. /\ \A x \in icache : par[x] = obj[x].parent
      /\ \A x \in icache' \cap DOMAIN obj' : obj'[x].parent = par[x]
      /\ par[n] = p
  BY <1>1, <1>2, Pointers DEF Parents, Down, SameInode
<1> HIDE DEF n, p, par
<1>8. ASSUME NEW o \in Objs
      PROVE  Ref(obj', o) = Ref(obj, o) + (Pinned(par, icache', root', o) - Pinned(par, icache, root, o))
               + (InHand(t, fd', cwd', Curs', Nxts', o) - InHand(t, fd, cwd, Curs, Nxts, o))
  <2>1. icache' = icache \cup {n} /\ icache \subseteq Objs /\ root' = root /\ fd' = fd /\ cwd' = cwd
    BY <1>1 DEF VfsTypeOK, n
  <2>2. Kids(par, icache', o) = Kids(par, icache, o) + One(p, o) /\ Kids(par, icache, o) \in Nat
    <3>1. Kids(par, icache \cup {n}, o) = Kids(par, icache, o) + One(par[n], o)
      BY <1>2, <2>1, KidsAdd
    <3>2. Kids(par, icache, o) \in Nat
      BY <2>1, KidsNat
    <3> QED BY <1>7, <2>1, <3>1, <3>2
  <2>3. InSet(icache', o) = InSet(icache, o) + One(n, o) /\ InSet(icache, o) \in Nat
    BY <1>2, <2>1 DEF InSet, One
  <2>4. /\ One(root[1], o) \in Nat /\ One(root[2], o) \in Nat /\ One(p, o) \in Nat /\ One(n, o) \in Nat
        /\ One(fd[t], o) \in Nat /\ One(cwd[t], o) \in Nat /\ One(c.cur, o) \in Nat
    BY DEF One
  <2>5. Pinned(par, icache', root', o) - Pinned(par, icache, root, o) = One(p, o) + One(n, o)
    BY <2>1, <2>2, <2>3, <2>4 DEF Pinned
  <2>6. One(Curs[t], o) = One(p, o) /\ One(Nxts[t], o) = One(n, o)
        /\ One(Curs'[t], o) = One(c.cur, o) /\ One(Nxts'[t], o) = 0
    BY <1>3, <1>5 DEF n, p, One, Objs
  <2>7. InHand(t, fd', cwd', Curs', Nxts', o) - InHand(t, fd, cwd, Curs, Nxts, o)
          = One(c.cur, o) - One(p, o) - One(n, o)
    BY <2>1, <2>4, <2>6 DEF InHand
  <2>8. Ref(obj', o) = Ref(obj, o) + One(c.cur, o) /\ Ref(obj, o) \in Nat
    BY <1>2, RefNat
  <2> QED BY <2>4, <2>5, <2>7, <2>8
<1>9. Moved(t, obj', par, icache', root', fd', cwd', Curs', Nxts')
  BY <1>8 DEF Moved
<1>10. Exact(obj', Parents(obj'), icache', root', fd', cwd', Curs', Nxts')
  BY <1>1, <1>5, <1>6, <1>7, <1>9, Settle
<1>11. RefInv'
  BY <1>10 DEF RefInv
<1>12. PcInv'
  BY <1>1, <1>3 DEF PcInv
<1>13. Old(obj, obj')
  BY DEF Old, Down, SameInode
<1>14. NewInv'
  BY <1>3, <1>4, <1>11, <1>13, NewKept
<1>15. RootInv'
  BY <1>1 DEF RootInv
<1>16. Calm
  BY <1>2, <1>13 DEF Calm, Down, SameInode, n, p
<1> QED BY <1>4, <1>11, <1>12, <1>14, <1>15, <1>16 DEF InodeInv

\* The inode made here enters the cache and becomes the one walked with.
LEMMA WalkInsertInv ==
  ASSUME InodeInv, NEW t \in Callers, WalkInsert(t)
  PROVE  InodeInv' /\ Calm
<1> DEFINE c == [call[t] EXCEPT !.pc = "walk", !.cur = call[t].nxt, !.nxt = 0, !.rest = Tail(@)]
<1>1. VfsTypeOK /\ PcOk(call[t]) /\ call[t] \in CallRecs /\ MadeBy(t) /\ call[t].pc = "insert"
  BY DEF InodeInv, PcInv, VfsTypeOK, NewInv, WalkInsert
<1>2. call' = [call EXCEPT ![t] = c]
  BY DEF WalkInsert
<1>3. /\ c \in CallRecs /\ c.pc = "walk" /\ c.cur = call[t].nxt /\ c.nxt = 0
      /\ c.op = call[t].op /\ c.path = call[t].path
  <2>1. Tail(call[t].rest) \in Seq(Names) /\ 0 \in Ptrs
    BY <1>1, VfsAssumption DEF CallRecs, PcOk, Ptrs
  <2> QED BY <1>1, <2>1 DEF CallRecs, CallPcs
<1>4. PcOk(c)
  BY <1>1, <1>3 DEF PcOk, MadeBy
<1> HIDE DEF c
<1>5. /\ icache' = icache \cup {call[t].nxt} /\ UNCHANGED <<dirents, root, mounted, fd, cwd>>
      /\ obj' = inode_put(CacheRefs(obj, call[t].nxt, call[t].cur), call[t].cur)
  BY DEF WalkInsert
<1>6. Down(obj, obj') /\ \A o \in Objs : Ref(obj', o) = Ref(obj, o) + One(c.cur, o)
  BY <1>1, <1>3, <1>5, InsertHeap
<1> QED BY <1>1, <1>2, <1>3, <1>4, <1>5, <1>6, CacheInsert

\* vfs_create() and vfs_mkdir() cache the inode they have made.
LEMMA LinkInv ==
  ASSUME InodeInv, NEW t \in Callers, Link(t)
  PROVE  InodeInv' /\ Calm
<1> DEFINE n == call[t].nxt
           b == inode_put(CacheRefs(obj, call[t].nxt, call[t].cur), call[t].cur)
<1>1. VfsTypeOK /\ PcOk(call[t]) /\ call[t] \in CallRecs /\ MadeBy(t) /\ call[t].pc = "link"
  BY DEF InodeInv, PcInv, VfsTypeOK, NewInv, Link
<1>2. Down(obj, b) /\ \A o \in Objs : Ref(b, o) = Ref(obj, o) + One(n, o)
  BY <1>1, InsertHeap
<1>3. icache' = icache \cup {call[t].nxt} /\ UNCHANGED <<dirents, root, mounted, fd, cwd>>
  BY DEF Link
<1>4. CASE call[t].op = "make"
  <2> DEFINE c == [call[t] EXCEPT !.pc = "walk", !.op = "open", !.cur = call[t].nxt, !.nxt = 0]
  <2>1. call' = [call EXCEPT ![t] = c] /\ obj' = b
    BY <1>4 DEF Link
  <2>2. c \in CallRecs /\ c.pc = "walk" /\ c.cur = n /\ c.nxt = 0 /\ c.op = "open"
    <3>1. 0 \in Ptrs
      BY VfsAssumption DEF Ptrs
    <3> QED BY <1>1, <3>1 DEF CallRecs, CallPcs, CallOps, VfsOps, OpenOps
  <2>3. PcOk(c)
    BY <1>1, <2>2 DEF PcOk, MadeBy, ParentOps
  <2> HIDE DEF c, b, n
  <2>4. Down(obj, obj') /\ \A o \in Objs : Ref(obj', o) = Ref(obj, o) + One(c.cur, o)
    BY <1>2, <2>1, <2>2
  <2> QED BY <1>1, <1>3, <2>1, <2>2, <2>3, <2>4, CacheInsert
<1>5. CASE call[t].op = "mkdir"
  <2>1. call' = [call EXCEPT ![t] = NoCall] /\ obj' = inode_put(b, n)
    BY <1>5 DEF Link
  <2>2. NoCall \in CallRecs /\ NoCall.pc = "idle" /\ NoCall.cur = 0 /\ NoCall.nxt = 0 /\ PcOk(NoCall)
    BY VfsAssumption DEF NoCall, CallRecs, CallPcs, CallOps, Ptrs, PcOk, ParentOps
  <2>3. n \in Ptrs /\ n \in Objs /\ n \in DOMAIN obj
    <3>1. n \in Ptrs /\ n # 0
      BY <1>1 DEF CallRecs, MadeBy
    <3> QED BY <3>1, <1>1, Pointers DEF InodeInv, VfsTypeOK, Heap
  <2> HIDE DEF b, n
  <2>4. Heap(b) /\ n \in DOMAIN b
    <3>1. Heap(b) /\ Heap(obj)
      BY <1>1, <1>2 DEF Down, SameInode, VfsTypeOK
    <3>2. Ref(b, n) >= 1
      <4>1. Ref(b, n) = Ref(obj, n) + One(n, n) /\ Ref(obj, n) \in Nat
        BY <1>2, <2>3, <3>1, RefNat
      <4> QED BY <4>1 DEF One
    <3> QED BY <3>1, <3>2, RefNat
  <2>5. Down(b, obj') /\ \A o \in Objs : Ref(obj', o) = Ref(b, o) - One(n, o)
    BY <2>1, <2>3, <2>4, PutRef
  <2>6. Down(obj, obj')
    BY <1>2, <2>5, DownTrans
  <2>7. ASSUME NEW o \in Objs PROVE Ref(obj', o) = Ref(obj, o) + One(NoCall.cur, o)
    <3>1. Ref(obj', o) = Ref(b, o) - One(n, o) /\ Ref(b, o) = Ref(obj, o) + One(n, o)
      BY <1>2, <2>5
    <3>2. One(n, o) \in {0, 1} /\ One(NoCall.cur, o) = 0 /\ Ref(obj, o) \in Nat
      BY <1>1, <2>2, RefNat DEF One, Objs, VfsTypeOK
    <3> QED BY <3>1, <3>2
  <2>8. NoCall.pc \notin {"insert", "link"}
    BY <2>2
  <2> QED BY <1>1, <1>3, <2>1, <2>2, <2>6, <2>7, <2>8, CacheInsert
<1> QED BY <1>4, <1>5 DEF Link

\* What is left of the count of o when the inodes of V leave the cache.
LEMMA RefSpare ==
  ASSUME VfsTypeOK, RefInv, NEW t \in Callers, NEW V, V \subseteq icache, NEW o \in Objs
  PROVE  /\ Ref(obj, o) - (InSet(V, o) + Kids(Parents(obj), V, o))
              >= One(root[1], o) + One(root[2], o) + One(call[t].cur, o) + One(call[t].nxt, o)
         /\ InSet(V, o) \in Nat /\ Kids(Parents(obj), V, o) \in Nat /\ Ref(obj, o) \in Nat
<1>1. /\ Ref(obj, o) \in Nat
      /\ Ref(obj, o) >= InSet(icache, o) + One(root[1], o) + One(root[2], o)
                          + Kids(Parents(obj), icache, o)
                          + One(fd[t], o) + One(cwd[t], o) + One(call[t].cur, o) + One(call[t].nxt, o)
      /\ Kids(Parents(obj), icache, o) \in Nat
  BY RefObj
<1>2. icache \subseteq Objs /\ V \subseteq Objs /\ icache \ V \subseteq Objs
  BY DEF VfsTypeOK
<1>3. Kids(Parents(obj), icache, o) = Kids(Parents(obj), icache \ V, o) + Kids(Parents(obj), V, o)
  BY <1>2, KidsRemove
<1>4. Kids(Parents(obj), icache \ V, o) \in Nat /\ Kids(Parents(obj), V, o) \in Nat
  BY <1>2, KidsNat
<1>5. InSet(V, o) \in Nat /\ InSet(icache, o) \in Nat /\ InSet(V, o) <= InSet(icache, o)
  BY DEF InSet
<1>6. /\ One(fd[t], o) \in Nat /\ One(cwd[t], o) \in Nat
      /\ One(root[1], o) \in Nat /\ One(root[2], o) \in Nat
      /\ One(call[t].cur, o) \in Nat /\ One(call[t].nxt, o) \in Nat
  BY DEF One
<1>7. Kids(Parents(obj), icache, o) >= Kids(Parents(obj), V, o)
  BY <1>3, <1>4
<1>8. InSet(icache, o) + Kids(Parents(obj), icache, o) >= InSet(V, o) + Kids(Parents(obj), V, o)
  BY <1>1, <1>4, <1>5, <1>7
<1>9. Ref(obj, o) >= (InSet(icache, o) + Kids(Parents(obj), icache, o))
                      + (One(root[1], o) + One(root[2], o) + One(call[t].cur, o) + One(call[t].nxt, o))
  BY <1>1, <1>5, <1>6
<1>10. Ref(obj, o) >= (InSet(V, o) + Kids(Parents(obj), V, o))
                      + (One(root[1], o) + One(root[2], o) + One(call[t].cur, o) + One(call[t].nxt, o))
  BY <1>1, <1>4, <1>5, <1>6, <1>8, <1>9
<1> QED BY <1>1, <1>4, <1>5, <1>6, <1>10

\* inode_cache_remove() of inodes that are in the cache.
LEMMA RemoveHeap ==
  ASSUME VfsTypeOK, RefInv, NEW V, V \subseteq icache
  PROVE  /\ Down(obj, inode_cache_remove(obj, V))
         /\ \A o \in Objs : Ref(inode_cache_remove(obj, V), o)
                              = Ref(obj, o) - (InSet(V, o) + Kids(Parents(obj), V, o))
<1>1. PICK t \in Callers : TRUE
  BY VfsAssumption
<1>2. Heap(obj) /\ V \subseteq DOMAIN obj
  BY Pointers DEF VfsTypeOK
<1>3. ASSUME NEW o \in Objs PROVE InSet(V, o) + Kids(Parents(obj), V, o) <= Ref(obj, o)
  <2>1. /\ Ref(obj, o) - (InSet(V, o) + Kids(Parents(obj), V, o))
              >= One(root[1], o) + One(root[2], o) + One(call[t].cur, o) + One(call[t].nxt, o)
        /\ InSet(V, o) \in Nat /\ Kids(Parents(obj), V, o) \in Nat /\ Ref(obj, o) \in Nat
    BY RefSpare
  <2>2. /\ One(root[1], o) \in Nat /\ One(root[2], o) \in Nat
        /\ One(call[t].cur, o) \in Nat /\ One(call[t].nxt, o) \in Nat
    BY DEF One
  <2>3. One(root[1], o) + One(root[2], o) + One(call[t].cur, o) + One(call[t].nxt, o) >= 0
    BY <2>2
  <2> QED BY <2>1, <2>2, <2>3
<1> QED BY <1>2, <1>3, RemoveRef

\* The cache loses the inodes of V: what holds them and their directories.
LEMMA PinnedLess ==
  ASSUME VfsTypeOK, NEW V, V \subseteq icache, NEW par, NEW rt, NEW o
  PROVE  Pinned(par, icache \ V, rt, o) - Pinned(par, icache, root, o)
           = (One(rt[1], o) - One(root[1], o)) + (One(rt[2], o) - One(root[2], o))
             - (InSet(V, o) + Kids(par, V, o))
<1>1. icache \subseteq Objs /\ V \subseteq Objs /\ icache \ V \subseteq Objs
  BY DEF VfsTypeOK
<1>2. Kids(par, icache, o) = Kids(par, icache \ V, o) + Kids(par, V, o)
  BY <1>1, KidsRemove
<1>3. Kids(par, icache \ V, o) \in Nat /\ Kids(par, V, o) \in Nat
  BY <1>1, KidsNat
<1>4. InSet(icache, o) = InSet(icache \ V, o) + InSet(V, o) /\ InSet(icache \ V, o) \in Nat /\ InSet(V, o) \in Nat
  BY DEF InSet
<1>5. /\ One(root[1], o) \in Nat /\ One(root[2], o) \in Nat
      /\ One(rt[1], o) \in Nat /\ One(rt[2], o) \in Nat
  BY DEF One
<1> QED BY <1>2, <1>3, <1>4, <1>5 DEF Pinned

\* The heap after vfs_unlink() or vfs_rmdir() has taken the name out of the cache
\* and put what it held.
LEMMA DropHeap ==
  ASSUME VfsTypeOK, RefInv, NEW t \in Callers, NEW V, V \subseteq icache, NEW b,
         b = inode_put(inode_put(inode_cache_remove(obj, V), call[t].nxt), call[t].cur)
  PROVE  /\ Down(obj, b)
         /\ \A o \in Objs : Ref(b, o) = Ref(obj, o) - (InSet(V, o) + Kids(Parents(obj), V, o))
                                         - One(call[t].nxt, o) - One(call[t].cur, o)
<1> DEFINE n == call[t].nxt
           p == call[t].cur
           a == inode_cache_remove(obj, V)
           d == inode_put(a, n)
<1>1. n \in Ptrs /\ p \in Ptrs /\ (n # 0 => n \in Objs) /\ (p # 0 => p \in Objs)
  BY Pointers DEF Ptrs, Objs
<1>2. Down(obj, a) /\ \A o \in Objs : Ref(a, o) = Ref(obj, o) - (InSet(V, o) + Kids(Parents(obj), V, o))
  BY RemoveHeap
<1>3. ASSUME NEW o \in Objs PROVE Ref(a, o) >= One(p, o) + One(n, o) /\ Ref(a, o) \in Int
  <2>1. /\ Ref(obj, o) - (InSet(V, o) + Kids(Parents(obj), V, o))
              >= One(root[1], o) + One(root[2], o) + One(p, o) + One(n, o)
        /\ InSet(V, o) \in Nat /\ Kids(Parents(obj), V, o) \in Nat /\ Ref(obj, o) \in Nat
    BY RefSpare
  <2> HIDE DEF p, n, a
  <2>2. One(root[1], o) \in Nat /\ One(root[2], o) \in Nat /\ One(p, o) \in Nat /\ One(n, o) \in Nat
    BY DEF One
  <2>3. Ref(a, o) = Ref(obj, o) - (InSet(V, o) + Kids(Parents(obj), V, o))
    BY <1>2
  <2> QED BY <2>1, <2>2, <2>3
<1> HIDE DEF n, p, a
<1>4. Heap(a)
  BY <1>2 DEF Down, SameInode
<1>5. n # 0 => n \in DOMAIN a
  <2> SUFFICES ASSUME n \in Objs PROVE n \in DOMAIN a
    BY <1>1
  <2>1. Ref(a, n) >= 1
    BY <1>3 DEF One
  <2> QED BY <2>1, <1>4, RefNat
<1>6. Down(a, d) /\ \A o \in Objs : Ref(d, o) = Ref(a, o) - One(n, o)
  BY <1>1, <1>4, <1>5, PutRef
<1> HIDE DEF d
<1>7. Heap(d)
  BY <1>6 DEF Down, SameInode
<1>8. p # 0 => p \in DOMAIN d
  <2> SUFFICES ASSUME p \in Objs PROVE p \in DOMAIN d
    BY <1>1
  <2>1. Ref(d, p) >= 1
    <3>1. Ref(d, p) = Ref(a, p) - One(n, p) /\ Ref(a, p) >= One(p, p) + One(n, p) /\ Ref(a, p) \in Int
      BY <1>3, <1>6
    <3>2. One(p, p) = 1 /\ One(n, p) \in Nat
      BY DEF One
    <3> QED BY <3>1, <3>2
  <2> QED BY <2>1, <1>7, RefNat
<1>9. b = inode_put(d, p)
  BY DEF n, p, a, d
<1>10. Down(d, b) /\ \A o \in Objs : Ref(b, o) = Ref(d, o) - One(p, o)
  BY <1>1, <1>7, <1>8, <1>9, PutRef
<1>11. Down(obj, b)
  BY <1>2, <1>6, <1>10, DownTrans
<1>12. \A o \in Objs : Ref(b, o) = Ref(obj, o) - (InSet(V, o) + Kids(Parents(obj), V, o)) - One(n, o) - One(p, o)
  BY <1>2, <1>6, <1>10
<1> QED BY <1>11, <1>12 DEF n, p

\* The end of vfs_unlink() and vfs_rmdir().
LEMMA DropInv ==
  ASSUME InodeInv, NEW t \in Callers, Drop(t)
  PROVE  InodeInv' /\ Calm
<1> DEFINE n == call[t].nxt
           p == call[t].cur
           V == {n} \cap icache
           par == Parents(obj)
<1>1. VfsTypeOK /\ RefInv /\ PcOk(call[t]) /\ PcInv /\ RootInv
  BY DEF InodeInv, PcInv
<1>2. V \subseteq icache /\ icache' = icache \ V
  BY DEF Drop
<1>3. /\ obj' = inode_put(inode_put(inode_cache_remove(obj, V), call[t].nxt), call[t].cur)
      /\ call' = [call EXCEPT ![t] = NoCall]
      /\ UNCHANGED <<dirents, root, mounted, fd, cwd>>
  BY DEF Drop
<1> HIDE DEF V
<1>4. /\ Down(obj, obj')
      /\ \A o \in Objs : Ref(obj', o) = Ref(obj, o) - (InSet(V, o) + Kids(par, V, o)) - One(n, o) - One(p, o)
  BY <1>1, <1>2, <1>3, DropHeap
<1>5. NoCall \in CallRecs /\ NoCall.pc = "idle" /\ NoCall.cur = 0 /\ NoCall.nxt = 0 /\ PcOk(NoCall)
  BY VfsAssumption DEF NoCall, CallRecs, CallPcs, CallOps, Ptrs, PcOk, ParentOps
<1>6. call'[t] = NoCall /\ \A u \in Callers \ {t} : call'[u] = call[u]
  BY <1>1, <1>3 DEF VfsTypeOK
<1>7. VfsTypeOK'
  BY <1>1, <1>2, <1>3, <1>4, <1>5 DEF VfsTypeOK, Down, SameInode
<1>8. /\ Curs' \in [Callers -> Ptrs] /\ Nxts' \in [Callers -> Ptrs]
      /\ fd' \in [Callers -> Ptrs] /\ cwd' \in [Callers -> Ptrs] /\ Heap(obj')
      /\ root' \in [1..2 -> Ptrs] /\ icache' \subseteq Objs
      /\ \A u \in Callers : /\ Curs[u] = call[u].cur /\ Nxts[u] = call[u].nxt
                            /\ Curs'[u] = call'[u].cur /\ Nxts'[u] = call'[u].nxt
  BY <1>7 DEF Curs, Nxts, VfsTypeOK, CallRecs
<1>9. SameBut(t, fd, fd') /\ SameBut(t, cwd, cwd') /\ SameBut(t, Curs, Curs') /\ SameBut(t, Nxts, Nxts')
  BY <1>3, <1>6, <1>8 DEF SameBut
<1>10. /\ \A x \in icache : par[x] = obj[x].parent
       /\ \A x \in icache' \cap DOMAIN obj' : obj'[x].parent = par[x]
  BY <1>1, <1>2, <1>4, Pointers DEF Parents, Down, SameInode
<1> HIDE DEF n, p, par
<1>11. ASSUME NEW o \in Objs
       PROVE  Ref(obj', o) = Ref(obj, o) + (Pinned(par, icache', root', o) - Pinned(par, icache, root, o))
               + (InHand(t, fd', cwd', Curs', Nxts', o) - InHand(t, fd, cwd, Curs, Nxts, o))
  <2>1. Pinned(par, icache \ V, root, o) - Pinned(par, icache, root, o)
           = (One(root[1], o) - One(root[1], o)) + (One(root[2], o) - One(root[2], o))
             - (InSet(V, o) + Kids(par, V, o))
    BY <1>1, <1>2, PinnedLess
  <2>2. /\ One(root[1], o) \in Nat /\ One(root[2], o) \in Nat /\ One(p, o) \in Nat /\ One(n, o) \in Nat
        /\ One(fd[t], o) \in Nat /\ One(cwd[t], o) \in Nat /\ InSet(V, o) \in Nat
    BY DEF One, InSet
  <2>3. Kids(par, V, o) \in Nat /\ Ref(obj, o) \in Nat
    <3>1. V \subseteq Objs
      BY <1>1, <1>2 DEF VfsTypeOK
    <3> QED BY <3>1, <1>1, KidsNat, RefNat DEF VfsTypeOK
  <2>4. Pinned(par, icache', root', o) - Pinned(par, icache, root, o) = 0 - (InSet(V, o) + Kids(par, V, o))
    BY <1>2, <1>3, <2>1, <2>2, <2>3
  <2>5. One(Curs[t], o) = One(p, o) /\ One(Nxts[t], o) = One(n, o)
        /\ One(Curs'[t], o) = 0 /\ One(Nxts'[t], o) = 0
    BY <1>5, <1>6, <1>8 DEF n, p, One, Objs
  <2>6. InHand(t, fd', cwd', Curs', Nxts', o) - InHand(t, fd, cwd, Curs, Nxts, o) = 0 - One(p, o) - One(n, o)
    BY <1>3, <2>2, <2>5 DEF InHand
  <2> QED BY <1>4, <2>2, <2>3, <2>4, <2>6
<1>12. Moved(t, obj', par, icache', root', fd', cwd', Curs', Nxts')
  BY <1>11 DEF Moved
<1>13. Exact(obj', Parents(obj'), icache', root', fd', cwd', Curs', Nxts')
  BY <1>1, <1>8, <1>9, <1>10, <1>12, Settle
<1>14. RefInv'
  BY <1>13 DEF RefInv
<1>15. PcInv'
  BY <1>1, <1>5, <1>6 DEF PcInv
<1>16. Old(obj, obj')
  BY <1>4 DEF Old, Down, SameInode
<1>17. NewInv'
  BY <1>2, <1>5, <1>6, <1>7, <1>14, <1>16, NewKept
<1>18. RootInv'
  BY <1>1, <1>3 DEF RootInv
<1>19. Calm
  BY <1>2, <1>3, <1>4, DownCalm
<1> QED BY <1>7, <1>14, <1>15, <1>17, <1>18, <1>19 DEF InodeInv

-----------------------------------------------------------------------------
(* The operations                                                           *)

\* A caller outside the VFS holds nothing.
LEMMA NoCallOk == NoCall \in CallRecs /\ PcOk(NoCall) /\ NoCall.pc = "idle" /\ NoCall.cur = 0 /\ NoCall.nxt = 0
BY VfsAssumption DEF NoCall, CallRecs, CallPcs, CallOps, Ptrs, PcOk, ParentOps

\* The call returns, and its file or its working directory has become f or w.
LEMMA HandedOver ==
  ASSUME InodeInv, NEW t \in Callers, NEW f \in Ptrs, NEW w \in Ptrs, call[t].nxt = 0, Down(obj, obj'),
         call' = [call EXCEPT ![t] = NoCall],
         fd' = [fd EXCEPT ![t] = f], cwd' = [cwd EXCEPT ![t] = w],
         UNCHANGED <<dirents, icache, root, mounted>>,
         \A o \in Objs : Ref(obj', o) = Ref(obj, o) + One(f, o) - One(fd[t], o)
                                         + One(w, o) - One(cwd[t], o) - One(call[t].cur, o)
  PROVE  InodeInv' /\ Calm
<1>1. VfsTypeOK
  BY DEF InodeInv
<1>2. VfsTypeOK' /\ Old(obj, obj')
  BY <1>1, NoCallOk DEF VfsTypeOK, Down, Old, SameInode
<1>3. /\ call'[t] = NoCall /\ fd'[t] = f /\ cwd'[t] = w
      /\ \A u \in Callers \ {t} : call'[u] = call[u] /\ fd'[u] = fd[u] /\ cwd'[u] = cwd[u]
  BY <1>1 DEF VfsTypeOK
<1>4. ASSUME NEW x \in Objs
       PROVE  Ref(obj', x) = Ref(obj, x)
               + One(fd'[t], x) - One(fd[t], x) + One(cwd'[t], x) - One(cwd[t], x)
               + One(call'[t].cur, x) - One(call[t].cur, x)
               + One(call'[t].nxt, x) - One(call[t].nxt, x)
  <2>1. Ref(obj', x) = Ref(obj, x) + One(f, x) - One(fd[t], x)
                                         + One(w, x) - One(cwd[t], x) - One(call[t].cur, x)
    OBVIOUS
  <2>2. /\ One(call[t].cur, x) \in {0, 1} /\ One(f, x) \in {0, 1} /\ One(w, x) \in {0, 1}
        /\ One(fd[t], x) \in {0, 1} /\ One(cwd[t], x) \in {0, 1}
    BY OneNat
  <2>3. Ref(obj, x) \in Nat
    BY <1>1, RefNat DEF VfsTypeOK
  <2>4. One(call'[t].cur, x) = 0 /\ One(call'[t].nxt, x) = 0 /\ One(call[t].nxt, x) = 0
    BY <1>3, NoCallOk DEF One, Objs
  <2> QED BY <1>3, <2>1, <2>2, <2>3, <2>4
<1>5. InodeInv'
  BY <1>2, <1>3, <1>4, NoCallOk, CallerStep
<1> QED BY <1>5, DownCalm

\* An error: the call gives back the inode it walks with.
LEMMA ReturnPutInv ==
  ASSUME InodeInv, NEW t \in Callers, call[t].nxt = 0, ReturnPut(t, call[t].cur),
         UNCHANGED <<dirents, icache, root, mounted, fd, cwd>>
  PROVE  InodeInv' /\ Calm
<1>1. GivesBack(t, inode_put(obj, call[t].cur))
  BY GiveCur DEF InodeInv
<1> QED BY <1>1, Returned DEF ReturnPut

\* A call that walks has one inode in hand, and it is there.
LEMMA WalkedNxt ==
  ASSUME InodeInv, NEW t \in Callers, call[t].pc = "walk"
  PROVE  /\ VfsTypeOK /\ RefInv /\ call[t].nxt = 0 /\ call[t].cur \in DOMAIN obj
         /\ call[t].cur \in Ptrs /\ Heap(obj) /\ Down(obj, obj)
         /\ fd = [fd EXCEPT ![t] = fd[t]] /\ cwd = [cwd EXCEPT ![t] = cwd[t]]
         /\ fd[t] \in Ptrs /\ cwd[t] \in Ptrs
<1>1. VfsTypeOK /\ RefInv /\ PcOk(call[t])
  BY DEF InodeInv, PcInv
<1>2. call[t].nxt = 0 /\ call[t].cur # 0
  BY <1>1 DEF PcOk
<1>3. call[t].cur \in DOMAIN obj /\ call[t].cur \in Ptrs
  BY <1>1, <1>2, Pointers
<1>4. Heap(obj) /\ Down(obj, obj) /\ fd \in [Callers -> Ptrs] /\ cwd \in [Callers -> Ptrs]
  BY <1>1 DEF VfsTypeOK, Down, SameInode
<1> QED BY <1>1, <1>2, <1>3, <1>4

\* vfs_open() of what is there: the reference of the walk goes to the file.
LEMMA OpenFoundInv ==
  ASSUME InodeInv, NEW t \in Callers, OpenFound(t)
  PROVE  InodeInv' /\ Calm
<1>1. call[t].pc = "walk" /\ UNCHANGED <<dirents, icache, root, mounted, cwd>>
  BY DEF OpenFound, Walked
<1>2. /\ VfsTypeOK /\ RefInv /\ call[t].nxt = 0 /\ call[t].cur \in Ptrs /\ Heap(obj) /\ Down(obj, obj)
      /\ cwd = [cwd EXCEPT ![t] = cwd[t]] /\ cwd[t] \in Ptrs
  BY <1>1, WalkedNxt
<1>3. CASE ReturnPut(t, call[t].cur) /\ UNCHANGED fd
  BY <1>1, <1>2, <1>3, ReturnPutInv
<1>4. CASE /\ fd[t] = 0 /\ fd' = [fd EXCEPT ![t] = call[t].cur]
           /\ call' = [call EXCEPT ![t] = NoCall] /\ UNCHANGED obj
  <2>1. ASSUME NEW o \in Objs
        PROVE  Ref(obj', o) = Ref(obj, o) + One(call[t].cur, o) - One(fd[t], o)
                                + One(cwd[t], o) - One(cwd[t], o) - One(call[t].cur, o)
    <3>1. One(fd[t], o) = 0 /\ One(call[t].cur, o) \in {0, 1} /\ One(cwd[t], o) \in {0, 1}
      BY <1>4 DEF One, Objs
    <3>2. Ref(obj, o) \in Nat
      BY <1>2, RefNat
    <3> QED BY <1>4, <3>1, <3>2
  <2>2. Down(obj, obj') /\ cwd' = [cwd EXCEPT ![t] = cwd[t]]
    BY <1>1, <1>2, <1>4
  <2> QED BY <1>1, <1>2, <1>4, <2>1, <2>2, HandedOver
<1> QED BY <1>3, <1>4 DEF OpenFound, OpenFd

\* chdir: the reference of the walk goes to the working directory, the old one is
\* put.
LEMMA SetCwdInv ==
  ASSUME InodeInv, NEW t \in Callers, set_cwd(t)
  PROVE  InodeInv' /\ Calm
<1>1. call[t].pc = "walk" /\ UNCHANGED <<dirents, icache, root, mounted, fd>>
  BY DEF set_cwd, Walked
<1>2. /\ VfsTypeOK /\ RefInv /\ call[t].nxt = 0 /\ call[t].cur \in Ptrs /\ Heap(obj)
      /\ fd = [fd EXCEPT ![t] = fd[t]] /\ fd[t] \in Ptrs /\ cwd[t] \in Ptrs
  BY <1>1, WalkedNxt
<1>3. CASE ReturnPut(t, call[t].cur) /\ UNCHANGED cwd
  BY <1>1, <1>2, <1>3, ReturnPutInv
<1>4. CASE cwd' = [cwd EXCEPT ![t] = call[t].cur] /\ ReturnPut(t, cwd[t])
  <2>1. cwd[t] # 0 => cwd[t] \in DOMAIN obj
    BY <1>2, Pointers
  <2>2. obj' = inode_put(obj, cwd[t]) /\ call' = [call EXCEPT ![t] = NoCall]
    BY <1>4 DEF ReturnPut
  <2>3. Down(obj, obj') /\ \A o \in Objs : Ref(obj', o) = Ref(obj, o) - One(cwd[t], o)
    BY <1>2, <2>1, <2>2, PutRef
  <2>4. ASSUME NEW o \in Objs
        PROVE  Ref(obj', o) = Ref(obj, o) + One(fd[t], o) - One(fd[t], o)
                                + One(call[t].cur, o) - One(cwd[t], o) - One(call[t].cur, o)
    <3>1. One(fd[t], o) \in {0, 1} /\ One(call[t].cur, o) \in {0, 1} /\ One(cwd[t], o) \in {0, 1}
      BY DEF One
    <3>2. Ref(obj, o) \in Nat /\ Ref(obj', o) = Ref(obj, o) - One(cwd[t], o)
      BY <1>2, <2>3, RefNat
    <3> QED BY <3>1, <3>2
  <2>5. fd' = [fd EXCEPT ![t] = fd[t]]
    BY <1>1, <1>2
  <2> QED BY <1>1, <1>2, <1>4, <2>2, <2>3, <2>4, <2>5, HandedOver
<1> QED BY <1>3, <1>4 DEF set_cwd

\* The parent of the path is not a directory.
LEMMA ParentNotDirInv ==
  ASSUME InodeInv, NEW t \in Callers, ParentNotDir(t)
  PROVE  InodeInv' /\ Calm
<1>1. call[t].nxt = 0
  BY WalkedNxt DEF ParentNotDir, Walked
<1> QED BY <1>1, ReturnPutInv DEF ParentNotDir

\* A call that changes a directory takes vfs_meta_lock and looks for the name in
\* the cache: it goes on with what it finds, or puts the directory and returns.
LEMMA MetaLockInv ==
  ASSUME InodeInv, NEW t \in Callers, MetaLock(t)
  PROVE  InodeInv' /\ Calm
<1> DEFINE there == inode_cache_find(call[t].cur, BaseName(call[t].path))
           making == call[t].op \in {"make", "mkdir"}
<1>1. call[t].pc = "walk" /\ UNCHANGED <<dirents, icache, root, mounted, fd, cwd>>
  BY DEF MetaLock, Walked
<1>2. /\ VfsTypeOK /\ RefInv /\ call[t].nxt = 0 /\ Heap(obj) /\ call[t] \in CallRecs /\ PcOk(call[t])
  BY <1>1, WalkedNxt DEF VfsTypeOK, InodeInv, PcInv
<1>3. CASE ReturnPut(t, call[t].cur)
  BY <1>1, <1>2, <1>3, ReturnPutInv
<1>4. CASE call' = [call EXCEPT ![t].pc = "fs"] /\ UNCHANGED obj
  <2> DEFINE c == [call[t] EXCEPT !.pc = "fs"]
  <2>1. call' = [call EXCEPT ![t] = c]
    BY <1>2, <1>4 DEF VfsTypeOK
  <2>2. /\ c \in CallRecs /\ c.pc = "fs" /\ c.cur = call[t].cur /\ c.nxt = call[t].nxt
        /\ c.op = call[t].op /\ c.path = call[t].path
    BY <1>2 DEF CallRecs, CallPcs
  <2>3. PcOk(c)
    BY <1>1, <1>2, <2>2 DEF PcOk
  <2> HIDE DEF c
  <2> QED BY <1>1, <1>4, <2>1, <2>2, <2>3, PcStep
<1>5. ASSUME NEW o \in there, ~making, obj' = inode_get(obj, o),
             call' = [call EXCEPT ![t].pc = "fs", ![t].nxt = o]
      PROVE  InodeInv' /\ Calm
  <2>1. o \in icache /\ o \in DOMAIN obj /\ o \in Ptrs
    <3>1. o \in icache
      BY DEF inode_cache_find
    <3>2. icache \subseteq DOMAIN obj /\ icache \subseteq Objs
      BY <1>2, Pointers DEF VfsTypeOK
    <3> QED BY <3>1, <3>2 DEF Ptrs, Objs
  <2> DEFINE c == [call[t] EXCEPT !.pc = "fs", !.nxt = o]
  <2>2. call' = [call EXCEPT ![t] = c]
    BY <1>2, <1>5 DEF VfsTypeOK
  <2>3. /\ c \in CallRecs /\ c.pc = "fs" /\ c.cur = call[t].cur /\ c.nxt = o
        /\ c.op = call[t].op /\ c.path = call[t].path
    BY <1>2, <2>1 DEF CallRecs, CallPcs
  <2>4. PcOk(c)
    BY <1>1, <1>2, <1>5, <2>3 DEF PcOk
  <2> HIDE DEF c
  <2>5. Down(obj, obj') /\ \A x \in Objs : Ref(obj', x) = Ref(obj, x) + One(o, x)
    BY <1>2, <1>5, <2>1, GetRef
  <2>6. call'[t] = c /\ \A u \in Callers \ {t} : call'[u] = call[u]
    BY <1>2, <2>2 DEF VfsTypeOK
  <2>7. VfsTypeOK' /\ Old(obj, obj')
    BY <1>1, <1>2, <2>2, <2>3, <2>5 DEF VfsTypeOK, Down, Old, SameInode
  <2>8. ASSUME NEW x \in Objs
        PROVE  Ref(obj', x) = Ref(obj, x)
               + One(fd'[t], x) - One(fd[t], x) + One(cwd'[t], x) - One(cwd[t], x)
               + One(call'[t].cur, x) - One(call[t].cur, x)
               + One(call'[t].nxt, x) - One(call[t].nxt, x)
    <3>1. Ref(obj', x) = Ref(obj, x) + One(call'[t].nxt, x) /\ One(call[t].nxt, x) = 0
      BY <1>2, <2>3, <2>5, <2>6 DEF One, Objs
    <3>2. /\ One(call[t].cur, x) \in {0, 1} /\ One(call'[t].nxt, x) \in {0, 1}
          /\ One(fd[t], x) \in {0, 1} /\ One(cwd[t], x) \in {0, 1}
      BY OneNat
    <3>3. Ref(obj, x) \in Nat
      BY <1>2, RefNat
    <3>4. fd'[t] = fd[t] /\ cwd'[t] = cwd[t] /\ call'[t].cur = call[t].cur
      BY <1>1, <2>3, <2>6
    <3> QED BY <3>1, <3>2, <3>3, <3>4
  <2>9. InodeInv'
    BY <1>1, <2>1, <2>3, <2>4, <2>6, <2>7, <2>8, CallerStep
  <2> QED BY <1>1, <2>5, <2>9, DownCalm
<1> QED BY <1>3, <1>4, <1>5 DEF MetaLock

\* The file system makes a file or a directory and its inode.
LEMMA FsMakeInv ==
  ASSUME InodeInv, NEW t \in Callers, NEW i \in Inos, NEW o \in Objs, FsMake(t, i, o)
  PROVE  InodeInv' /\ Calm
<1> DEFINE c == [call[t] EXCEPT !.pc = "link", !.nxt = o]
           nm == BaseName(call[t].path)
<1>1. VfsTypeOK /\ RefInv /\ PcOk(call[t]) /\ call[t] \in CallRecs
  BY DEF InodeInv, PcInv, VfsTypeOK
<1>2. call[t].pc = "fs" /\ call[t].op \in {"make", "mkdir"} /\ FreshObj(o)
  BY DEF FsMake
<1>3. call' = [call EXCEPT ![t] = c]
  BY <1>1 DEF FsMake, VfsTypeOK
<1>4. /\ c \in CallRecs /\ c.pc = "link" /\ c.cur = call[t].cur /\ c.nxt = o
      /\ c.op = call[t].op /\ c.path = call[t].path
  <2>1. o \in Ptrs
    BY DEF Ptrs, Objs
  <2> QED BY <1>1, <2>1 DEF CallRecs, CallPcs
<1>5. PcOk(c) /\ call[t].cur # 0 /\ call[t].nxt = 0 /\ call[t].path # <<>>
  BY <1>1, <1>2, <1>4 DEF PcOk, ParentOps
<1> HIDE DEF c
<1>6. nm \in Names /\ i \in Nat
  <2>1. call[t].path \in Seq(Names)
    BY <1>1 DEF CallRecs
  <2>2. Len(call[t].path) \in 1..Len(call[t].path)
    BY <1>5, <2>1
  <2> QED BY <2>1, <2>2, VfsAssumption DEF BaseName, Inos
<1>7. dirents' \subseteq Nat \X Names \X Nat
  <2>1. dirents' = dirents \cup {<<obj[call[t].cur].ino, nm, i>>}
    BY DEF FsMake
  <2>2. obj[call[t].cur].ino \in Nat
    BY <1>1, <1>5, Pointers DEF VfsTypeOK, Heap, InodeRecs
  <2> QED BY <1>1, <1>6, <2>1, <2>2 DEF VfsTypeOK
<1>8. obj' = NewInode(o, i, call[t].cur, nm) /\ UNCHANGED <<icache, root, mounted, fd, cwd>>
  BY DEF FsMake
<1> HIDE DEF nm
<1> QED BY <1>2, <1>3, <1>4, <1>5, <1>6, <1>7, <1>8, MadeInv

\* The file system refuses: the call puts what it holds.
LEMMA FsFailsInv ==
  ASSUME InodeInv, NEW t \in Callers, FsFails(t)
  PROVE  InodeInv' /\ Calm
<1>1. VfsTypeOK /\ RefInv /\ PcOk(call[t])
  BY DEF InodeInv, PcInv
<1>2. /\ call' = [call EXCEPT ![t] = NoCall] /\ call[t].pc = "fs"
      /\ UNCHANGED <<dirents, icache, root, mounted, fd, cwd>>
  BY DEF FsFails
<1>3. CASE call[t].op \in {"make", "mkdir"}
  <2>1. call[t].nxt = 0 /\ obj' = inode_put(obj, call[t].cur)
    BY <1>1, <1>2, <1>3 DEF FsFails, PcOk
  <2> QED BY <1>1, <1>2, <2>1, GiveCur, Returned
<1>4. CASE call[t].op \notin {"make", "mkdir"}
  <2>1. obj' = inode_put(inode_put(obj, call[t].nxt), call[t].cur)
    BY <1>4 DEF FsFails
  <2> QED BY <1>1, <1>2, <2>1, GiveBoth, Returned
<1> QED BY <1>3, <1>4

\* The name is cached already: the inode made here is put.
LEMMA LinkLostInv ==
  ASSUME InodeInv, NEW t \in Callers, LinkLost(t)
  PROVE  InodeInv' /\ Calm
<1>1. VfsTypeOK /\ RefInv
  BY DEF InodeInv
<1>2. /\ call' = [call EXCEPT ![t] = NoCall] /\ UNCHANGED <<dirents, icache, root, mounted, fd, cwd>>
      /\ obj' = inode_put(inode_put(obj, call[t].nxt), call[t].cur)
  BY DEF LinkLost
<1> QED BY <1>1, <1>2, GiveBoth, Returned

\* The file system removes the entry; the inode stays in hand.
LEMMA FsRemoveInv ==
  ASSUME InodeInv, NEW t \in Callers, FsRemove(t)
  PROVE  InodeInv' /\ Calm
<1> DEFINE c == [call[t] EXCEPT !.pc = "drop"]
<1>1. VfsTypeOK /\ PcOk(call[t]) /\ call[t] \in CallRecs /\ call[t].pc = "fs"
  BY DEF InodeInv, PcInv, VfsTypeOK, FsRemove
<1>2. call' = [call EXCEPT ![t] = c]
  BY <1>1 DEF FsRemove, VfsTypeOK
<1>3. /\ c \in CallRecs /\ c.pc = "drop" /\ c.cur = call[t].cur /\ c.nxt = call[t].nxt
      /\ c.op = call[t].op /\ c.path = call[t].path
  BY <1>1 DEF CallRecs, CallPcs
<1>4. PcOk(c)
  BY <1>1, <1>3 DEF PcOk
<1> HIDE DEF c
<1>5. dirents' \subseteq dirents /\ UNCHANGED <<obj, icache, root, mounted, fd, cwd>>
  BY DEF FsRemove
<1> QED BY <1>2, <1>3, <1>4, <1>5, PcStep

\* vfs_close() puts the reference of the file.
LEMMA CloseFdInv ==
  ASSUME InodeInv, NEW t \in Callers, CloseFd(t)
  PROVE  InodeInv' /\ Calm
<1>1. VfsTypeOK /\ RefInv /\ PcOk(call[t]) /\ 0 \in Ptrs
  BY VfsAssumption DEF InodeInv, PcInv, Ptrs
<1>2. /\ fd' = [fd EXCEPT ![t] = 0] /\ obj' = inode_put(obj, fd[t])
      /\ UNCHANGED <<dirents, icache, root, mounted, call, cwd>>
  BY DEF CloseFd
<1>3. Heap(obj) /\ fd[t] \in Ptrs /\ (fd[t] # 0 => fd[t] \in DOMAIN obj)
  BY <1>1, Pointers DEF VfsTypeOK
<1>4. Down(obj, obj') /\ \A o \in Objs : Ref(obj', o) = Ref(obj, o) - One(fd[t], o)
  BY <1>2, <1>3, PutRef
<1>5. fd'[t] = 0 /\ \A u \in Callers \ {t} : fd'[u] = fd[u]
  BY <1>1, <1>2 DEF VfsTypeOK
<1>6. VfsTypeOK' /\ Old(obj, obj')
  BY <1>1, <1>2, <1>4 DEF VfsTypeOK, Down, Old, SameInode
<1>7. ASSUME NEW x \in Objs
       PROVE  Ref(obj', x) = Ref(obj, x)
               + One(fd'[t], x) - One(fd[t], x) + One(cwd'[t], x) - One(cwd[t], x)
               + One(call'[t].cur, x) - One(call[t].cur, x)
               + One(call'[t].nxt, x) - One(call[t].nxt, x)
  <2>1. Ref(obj', x) = Ref(obj, x) - One(fd[t], x) /\ One(fd'[t], x) = 0
    BY <1>4, <1>5 DEF One, Objs
  <2>2. /\ One(call[t].cur, x) \in {0, 1} /\ One(call[t].nxt, x) \in {0, 1}
        /\ One(fd[t], x) \in {0, 1} /\ One(cwd[t], x) \in {0, 1}
    BY OneNat
  <2>3. Ref(obj, x) \in Nat
    BY <1>3, RefNat
  <2> QED BY <1>2, <2>1, <2>2, <2>3
<1>8. call'[t] = call[t] /\ (call[t].pc \in {"insert", "link"} => FALSE)
  BY <1>2 DEF CloseFd
<1>9. InodeInv'
  BY <1>1, <1>2, <1>5, <1>6, <1>7, <1>8, CallerStep
<1> QED BY <1>2, <1>4, <1>9, DownCalm

-----------------------------------------------------------------------------
(* Mounts                                                                   *)

\* Nothing in the hands of the callers changes.
LEMMA SameHands ==
  ASSUME VfsTypeOK, VfsTypeOK', UNCHANGED <<call, fd, cwd>>, NEW t \in Callers
  PROVE  /\ Curs' = Curs /\ Nxts' = Nxts
         /\ Curs' \in [Callers -> Ptrs] /\ Nxts' \in [Callers -> Ptrs]
         /\ fd' \in [Callers -> Ptrs] /\ cwd' \in [Callers -> Ptrs]
         /\ SameBut(t, fd, fd') /\ SameBut(t, cwd, cwd') /\ SameBut(t, Curs, Curs') /\ SameBut(t, Nxts, Nxts')
         /\ \A o : InHand(t, fd', cwd', Curs', Nxts', o) - InHand(t, fd, cwd, Curs, Nxts, o) = 0
<1>1. Curs' = Curs /\ Nxts' = Nxts
  BY DEF Curs, Nxts
<1>2. /\ Curs' \in [Callers -> Ptrs] /\ Nxts' \in [Callers -> Ptrs]
      /\ fd' \in [Callers -> Ptrs] /\ cwd' \in [Callers -> Ptrs]
  BY DEF Curs, Nxts, VfsTypeOK, CallRecs
<1>3. SameBut(t, fd, fd') /\ SameBut(t, cwd, cwd') /\ SameBut(t, Curs, Curs') /\ SameBut(t, Nxts, Nxts')
  BY <1>1 DEF SameBut
<1>4. ASSUME NEW o PROVE InHand(t, fd', cwd', Curs', Nxts', o) - InHand(t, fd, cwd, Curs, Nxts, o) = 0
  <2>1. InHand(t, fd, cwd, Curs, Nxts, o) \in Nat
    BY HandNat
  <2>2. InHand(t, fd', cwd', Curs', Nxts', o) = InHand(t, fd, cwd, Curs, Nxts, o)
    BY <1>1 DEF InHand
  <2> QED BY <2>1, <2>2
<1> QED BY <1>1, <1>2, <1>3, <1>4

\* vfs_mount() makes and caches the root of the second disk, below the root.
LEMMA MountInv ==
  ASSUME InodeInv, NEW p \in Targets, NEW o \in Objs, vfs_mount(p, o)
  PROVE  /\ InodeInv'
         /\ Old(obj, obj') /\ DOMAIN obj' = DOMAIN obj \cup {o} /\ o \notin DOMAIN obj
         /\ obj'[o].sb = 2 /\ root'[2] # 0
<1> DEFINE in == Inode(2, 2, 2, 1, <<>>)
           a == inode_get(obj, 1)
           par == [x \in DOMAIN obj \cup {o} |-> IF x = o THEN 1 ELSE obj[x].parent]
<1>1. VfsTypeOK /\ RefInv /\ PcInv /\ RootInv
  BY DEF InodeInv
<1>2. PICK t \in Callers : TRUE
  BY VfsAssumption
<1>3. /\ mounted = {} /\ o \notin DOMAIN obj /\ icache' = icache \cup {o}
      /\ obj' = With(a, o, in) /\ root' = [root EXCEPT ![2] = o] /\ mounted' = {p}
      /\ UNCHANGED <<dirents, call, fd, cwd>> /\ \A u \in Callers : call[u].pc = "idle"
  BY DEF vfs_mount, FreshObj
<1>4. /\ root[1] = 1 /\ root[2] = 0 /\ Heap(obj) /\ 1 \in DOMAIN obj /\ 1 \in Ptrs /\ 0 \in Ptrs
      /\ o \in Ptrs /\ o # 0 /\ icache \subseteq DOMAIN obj /\ icache \subseteq Objs
  <2>1. root[1] = 1 /\ root[2] = 0
    BY <1>1, <1>3 DEF RootInv
  <2>2. 1 \in DOMAIN obj /\ icache \subseteq DOMAIN obj
    BY <1>1, <2>1, Pointers
  <2> QED BY <1>1, <2>1, <2>2, VfsAssumption DEF VfsTypeOK, Ptrs, Objs
<1>5. Down(obj, a) /\ (\A x \in Objs : Ref(a, x) = Ref(obj, x) + One(1, x)) /\ DOMAIN a = DOMAIN obj
  BY <1>4, GetRef DEF inode_get
<1> HIDE DEF a
<1>6. Heap(a) /\ o \in Objs \ DOMAIN a
  BY <1>3, <1>5 DEF Down, SameInode
<1>7. in \in InodeRecs /\ in.ref = 2 /\ in.parent = 1 /\ in.sb = 2
  BY <1>4 DEF InodeRecs, Inode
<1> HIDE DEF in
<1>8. Grown(a, o, in, obj')
  BY <1>3, <1>6, <1>7, WithRef
<1>9. Heap(obj') /\ DOMAIN obj' = DOMAIN obj \cup {o} /\ obj'[o] = in /\ Old(obj, obj')
  BY <1>3, <1>5, <1>8 DEF Grown, Down, Old, SameInode
<1>10. root' \in [1..2 -> Ptrs] /\ root'[1] = root[1] /\ root'[2] = o /\ icache' \subseteq Objs
  BY <1>1, <1>3, <1>4 DEF VfsTypeOK
<1>11. VfsTypeOK'
  BY <1>1, <1>3, <1>9, <1>10 DEF VfsTypeOK
<1>12. /\ \A x \in icache : par[x] = obj[x].parent
       /\ \A x \in icache' \cap DOMAIN obj' : obj'[x].parent = par[x]
       /\ par[o] = 1
  BY <1>3, <1>4, <1>7, <1>9 DEF Old, SameInode
<1> HIDE DEF par
<1>13. ASSUME NEW x \in Objs
       PROVE  Ref(obj', x) = Ref(obj, x) + (Pinned(par, icache', root', x) - Pinned(par, icache, root, x))
               + (InHand(t, fd', cwd', Curs', Nxts', x) - InHand(t, fd, cwd, Curs, Nxts, x))
  <2>1. Kids(par, icache', x) = Kids(par, icache, x) + One(1, x) /\ Kids(par, icache, x) \in Nat
    <3>1. Kids(par, icache \cup {o}, x) = Kids(par, icache, x) + One(par[o], x)
      BY <1>3, <1>4, KidsAdd
    <3>2. Kids(par, icache, x) \in Nat
      BY <1>4, KidsNat
    <3> QED BY <1>3, <1>12, <3>1, <3>2
  <2>2. InSet(icache', x) = InSet(icache, x) + One(o, x) /\ InSet(icache, x) \in Nat
    BY <1>3, <1>4 DEF InSet, One
  <2>3. /\ One(root'[1], x) = One(root[1], x) /\ One(root'[2], x) = One(o, x) /\ One(root[2], x) = 0
    BY <1>4, <1>10 DEF One, Objs
  <2>4. One(1, x) \in Nat /\ One(o, x) \in Nat /\ One(root[1], x) \in Nat
    BY DEF One
  <2>5. Pinned(par, icache', root', x) - Pinned(par, icache, root, x) = One(1, x) + One(o, x) + One(o, x)
    BY <2>1, <2>2, <2>3, <2>4 DEF Pinned
  <2>6. InHand(t, fd', cwd', Curs', Nxts', x) - InHand(t, fd, cwd, Curs, Nxts, x) = 0
    BY <1>1, <1>3, <1>11, SameHands
  <2>7. Ref(obj', x) = Ref(a, x) + (IF x = o THEN 2 ELSE 0) /\ Ref(a, x) = Ref(obj, x) + One(1, x)
    BY <1>5, <1>7, <1>8 DEF Grown
  <2>8. (IF x = o THEN 2 ELSE 0) = One(o, x) + One(o, x)
    BY DEF One
  <2>9. Ref(obj, x) \in Nat
    BY <1>4, RefNat
  <2> QED BY <2>4, <2>5, <2>6, <2>7, <2>8, <2>9
<1>14. Moved(t, obj', par, icache', root', fd', cwd', Curs', Nxts')
  BY <1>13 DEF Moved
<1>15. Exact(obj', Parents(obj'), icache', root', fd', cwd', Curs', Nxts')
  BY <1>1, <1>3, <1>9, <1>10, <1>11, <1>12, <1>14, SameHands, Settle
<1>16. RefInv'
  BY <1>15 DEF RefInv
<1>17. PcInv' /\ RootInv' /\ NewInv'
  BY <1>1, <1>3, <1>4, <1>10 DEF PcInv, RootInv, NewInv
<1> QED BY <1>3, <1>4, <1>7, <1>9, <1>10, <1>11, <1>16, <1>17 DEF InodeInv

\* vfs_umount() takes the inodes of the disk out of the cache and puts its root.
LEMMA UmountInv ==
  ASSUME InodeInv, vfs_umount
  PROVE  InodeInv' /\ Down(obj, obj')
<1> DEFINE V == {o \in icache : obj[o].sb = 2}
           r == root[2]
           par == Parents(obj)
           a == inode_cache_remove(obj, V)
<1>1. VfsTypeOK /\ RefInv /\ PcInv /\ RootInv /\ NewInv
  BY DEF InodeInv
<1>2. PICK t \in Callers : TRUE
  BY VfsAssumption
<1>3. /\ V \subseteq icache /\ icache' = icache \ V /\ obj' = inode_put(a, r)
      /\ root' = [root EXCEPT ![2] = 0] /\ mounted' = {} /\ UNCHANGED <<dirents, call, fd, cwd>>
  BY DEF vfs_umount
<1> HIDE DEF V
<1>4. Down(obj, a) /\ \A x \in Objs : Ref(a, x) = Ref(obj, x) - (InSet(V, x) + Kids(par, V, x))
  BY <1>1, <1>3, RemoveHeap
<1>5. Heap(a) /\ Heap(obj) /\ r \in Ptrs /\ 0 \in Ptrs
  BY <1>1, <1>4, VfsAssumption DEF Down, SameInode, VfsTypeOK, Ptrs
<1> HIDE DEF a, par
<1>6. r # 0 => r \in DOMAIN a
  <2> SUFFICES ASSUME NEW x \in Objs, x = root[2] PROVE x \in DOMAIN a
    BY <1>5 DEF Ptrs, Objs
  <2>1. /\ Ref(obj, x) - (InSet(V, x) + Kids(par, V, x))
              >= One(root[1], x) + One(root[2], x) + One(call[t].cur, x) + One(call[t].nxt, x)
        /\ InSet(V, x) \in Nat /\ Kids(par, V, x) \in Nat /\ Ref(obj, x) \in Nat
    BY <1>1, <1>3, RefSpare DEF par
  <2>2. /\ One(root[1], x) \in Nat /\ One(root[2], x) = 1
        /\ One(call[t].cur, x) \in Nat /\ One(call[t].nxt, x) \in Nat
    BY DEF One
  <2>3. Ref(a, x) = Ref(obj, x) - (InSet(V, x) + Kids(par, V, x))
    BY <1>4
  <2>4. Ref(a, x) >= 1
    BY <2>1, <2>2, <2>3
  <2> QED BY <2>4, <1>5, RefNat
<1>7. Down(a, obj') /\ \A x \in Objs : Ref(obj', x) = Ref(a, x) - One(r, x)
  BY <1>3, <1>5, <1>6, PutRef
<1>8. Down(obj, obj') /\ Heap(obj') /\ Old(obj, obj')
  <2>1. Down(obj, obj')
    BY <1>4, <1>7, DownTrans
  <2> QED BY <2>1 DEF Down, Old, SameInode
<1>9. root' \in [1..2 -> Ptrs] /\ root'[1] = root[1] /\ root'[2] = 0 /\ icache' \subseteq Objs
  BY <1>1, <1>3, <1>5 DEF VfsTypeOK
<1>10. VfsTypeOK'
  BY <1>1, <1>3, <1>8, <1>9 DEF VfsTypeOK
<1>11. /\ \A x \in icache : par[x] = obj[x].parent
       /\ \A x \in icache' \cap DOMAIN obj' : obj'[x].parent = par[x]
  BY <1>1, <1>3, <1>8, Pointers DEF Parents, par, Down, SameInode
<1>12. ASSUME NEW x \in Objs
       PROVE  Ref(obj', x) = Ref(obj, x) + (Pinned(par, icache', root', x) - Pinned(par, icache, root, x))
               + (InHand(t, fd', cwd', Curs', Nxts', x) - InHand(t, fd, cwd, Curs, Nxts, x))
  <2>1. Pinned(par, icache \ V, root', x) - Pinned(par, icache, root, x)
           = (One(root'[1], x) - One(root[1], x)) + (One(root'[2], x) - One(root[2], x))
             - (InSet(V, x) + Kids(par, V, x))
    <3>1. ASSUME NEW rt
          PROVE  Pinned(par, icache \ V, rt, x) - Pinned(par, icache, root, x)
                   = (One(rt[1], x) - One(root[1], x)) + (One(rt[2], x) - One(root[2], x))
                     - (InSet(V, x) + Kids(par, V, x))
      BY <1>1, <1>3, PinnedLess
    <3> QED BY <3>1
  <2>2. One(root'[1], x) = One(root[1], x) /\ One(root'[2], x) = 0
    BY <1>9 DEF One, Objs
  <2>3. One(root[1], x) \in Nat /\ One(root[2], x) \in Nat /\ InSet(V, x) \in Nat
    BY DEF One, InSet
  <2>4. Kids(par, V, x) \in Nat /\ Ref(obj, x) \in Nat
    <3>1. V \subseteq Objs
      BY <1>1, <1>3 DEF VfsTypeOK
    <3> QED BY <3>1, <1>5, KidsNat, RefNat
  <2>5. Pinned(par, icache', root', x) - Pinned(par, icache, root, x)
          = 0 - One(root[2], x) - (InSet(V, x) + Kids(par, V, x))
    BY <1>3, <2>1, <2>2, <2>3, <2>4
  <2>6. InHand(t, fd', cwd', Curs', Nxts', x) - InHand(t, fd, cwd, Curs, Nxts, x) = 0
    BY <1>1, <1>3, <1>10, SameHands
  <2>7. Ref(obj', x) = Ref(a, x) - One(root[2], x) /\ Ref(a, x) = Ref(obj, x) - (InSet(V, x) + Kids(par, V, x))
    BY <1>4, <1>7
  <2> QED BY <2>3, <2>4, <2>5, <2>6, <2>7
<1>13. Moved(t, obj', par, icache', root', fd', cwd', Curs', Nxts')
  BY <1>12 DEF Moved
<1>14. Exact(obj', Parents(obj'), icache', root', fd', cwd', Curs', Nxts')
  BY <1>1, <1>3, <1>8, <1>9, <1>10, <1>11, <1>13, SameHands, Settle
<1>15. RefInv'
  BY <1>14 DEF RefInv
<1>16. PcInv' /\ RootInv'
  BY <1>1, <1>3, <1>9 DEF PcInv, RootInv
<1>17. NewInv'
  <2> SUFFICES ASSUME NEW u \in Callers, call[u].pc \in {"insert", "link"} PROVE MadeBy(u)'
    BY <1>3 DEF NewInv
  <2>1. MadeBy(u)
    BY <1>1 DEF NewInv
  <2>2. call[u].nxt \notin icache' /\ call'[u] = call[u] /\ \A v \in Callers \ {u} : call'[v].nxt # call[u].nxt
    BY <1>3, <2>1 DEF MadeBy
  <2> QED BY <1>8, <1>10, <1>15, <2>2, MadeKept
<1> QED BY <1>8, <1>10, <1>15, <1>16, <1>17 DEF InodeInv

-----------------------------------------------------------------------------
(* The invariant                                                            *)

\* The state after boot: the root inode, held by its disk, the cache and the
\* working directories.
LEMMA InitInv ==
  ASSUME VfsInit PROVE InodeInv /\ DiskInv
<1> DEFINE in == Inode(1, 1, 2 + Cardinality(Callers), 0, <<>>)
<1>1. /\ obj = [o \in {1} |-> in] /\ icache = {1} /\ root = <<1, 0>> /\ mounted = {}
      /\ call = [t \in Callers |-> NoCall] /\ fd = [t \in Callers |-> 0] /\ cwd = [t \in Callers |-> 1]
  BY DEF VfsInit
<1>2. Cardinality(Callers) \in Nat /\ 0 \in Ptrs /\ 1 \in Ptrs /\ 1 \in Objs
  BY FS_CardinalityType, VfsAssumption DEF Ptrs, Objs
<1>3. in \in InodeRecs /\ in.sb = 1 /\ in.parent = 0 /\ in.ref = 2 + Cardinality(Callers)
  BY <1>2 DEF InodeRecs, Inode
<1>4. DOMAIN obj = {1} /\ obj[1] = in
  BY <1>1
<1> HIDE DEF in
<1>5. Heap(obj)
  BY <1>1, <1>2, <1>3 DEF Heap
<1>6. root \in [1..2 -> Ptrs] /\ root[1] = 1 /\ root[2] = 0
  BY <1>1, <1>2
<1>7. dirents \subseteq Nat \X Names \X Nat
  BY VfsAssumption DEF VfsInit
<1>8. VfsTypeOK
  BY <1>1, <1>2, <1>5, <1>6, <1>7, NoCallOk DEF VfsTypeOK
<1>9. PcInv /\ NewInv /\ RootInv
  BY <1>1, <1>6, NoCallOk DEF PcInv, NewInv, RootInv
<1>10. ASSUME NEW o \in Objs
       PROVE  Ref(obj, o) = Held(Parents(obj), icache, root, fd, cwd, Curs, Nxts, o)
  <2>1. o # 0
    BY DEF Objs
  <2>2. Cnt(fd, o) = 0 /\ Cnt(Curs, o) = 0 /\ Cnt(Nxts, o) = 0
    <3>1. /\ {t \in Callers : fd[t] = o} = {} /\ {t \in Callers : Curs[t] = o} = {}
          /\ {t \in Callers : Nxts[t] = o} = {}
      BY <1>1, <2>1, NoCallOk DEF Curs, Nxts
    <3> QED BY <3>1, FS_EmptySet DEF Cnt
  <2>3. Kids(Parents(obj), icache, o) = 0
    <3>1. {x \in icache : Parents(obj)[x] = o} = {}
      BY <1>1, <1>3, <1>4, <2>1 DEF Parents
    <3> QED BY <3>1, FS_EmptySet DEF Kids
  <2>4. CASE o = 1
    <3>1. {t \in Callers : cwd[t] = o} = Callers
      BY <1>1, <2>4
    <3>2. Cnt(cwd, o) = Cardinality(Callers)
      BY <3>1 DEF Cnt
    <3>3. InSet(icache, o) = 1 /\ One(root[1], o) = 1 /\ One(root[2], o) = 0
      BY <1>1, <1>6, <2>4 DEF InSet, One
    <3>4. Ref(obj, o) = 2 + Cardinality(Callers)
      BY <1>3, <1>4, <2>4 DEF Ref
    <3> QED BY <1>2, <2>2, <2>3, <3>2, <3>3, <3>4 DEF Held, Pinned, Cnts
  <2>5. CASE o # 1
    <3>1. {t \in Callers : cwd[t] = o} = {}
      BY <1>1, <2>5
    <3>2. Cnt(cwd, o) = 0
      BY <3>1, FS_EmptySet DEF Cnt
    <3>3. InSet(icache, o) = 0 /\ One(root[1], o) = 0 /\ One(root[2], o) = 0
      BY <1>1, <1>6, <2>1, <2>5 DEF InSet, One
    <3>4. Ref(obj, o) = 0
      BY <1>4, <2>5 DEF Ref
    <3> QED BY <2>2, <2>3, <3>2, <3>3, <3>4 DEF Held, Pinned, Cnts
  <2> QED BY <2>4, <2>5
<1>11. RefInv
  BY <1>10 DEF RefInv, Exact
<1>12. DiskInv
  BY <1>1, <1>3, <1>4 DEF DiskInv
<1> QED BY <1>8, <1>9, <1>11, <1>12 DEF InodeInv

\* Every step of a caller preserves the invariant.
LEMMA CallerInv ==
  ASSUME InodeInv, NEW t \in Callers, VfsStep(t)
  PROVE  InodeInv' /\ Calm
<1>1. ASSUME NEW f \in VfsOps, NEW p \in Paths, BeginCall(t, f, p) PROVE InodeInv' /\ Calm
  BY <1>1, BeginCallInv
<1>2. ASSUME NEW o \in icache, WalkHit(t, o) PROVE InodeInv' /\ Calm
  BY <1>2, WalkHitInv
<1>3. CASE WalkMiss(t)
  BY <1>3, WalkMissInv
<1>4. ASSUME NEW o \in Objs, WalkFill(t, o) PROVE InodeInv' /\ Calm
  BY <1>4, WalkFillInv
<1>5. CASE WalkNotFound(t)
  BY <1>5, WalkNotFoundInv
<1>6. CASE WalkInsert(t)
  BY <1>6, WalkInsertInv
<1>7. CASE WalkInsertLost(t)
  BY <1>7, WalkInsertLostInv
<1>8. CASE OpenFound(t)
  BY <1>8, OpenFoundInv
<1>9. CASE set_cwd(t)
  BY <1>9, SetCwdInv
<1>10. CASE ParentNotDir(t)
  BY <1>10, ParentNotDirInv
<1>11. CASE MetaLock(t)
  BY <1>11, MetaLockInv
<1>12. ASSUME NEW i \in Inos, NEW o \in Objs, FsMake(t, i, o) PROVE InodeInv' /\ Calm
  BY <1>12, FsMakeInv
<1>13. CASE FsFails(t)
  BY <1>13, FsFailsInv
<1>14. CASE Link(t)
  BY <1>14, LinkInv
<1>15. CASE LinkLost(t)
  BY <1>15, LinkLostInv
<1>16. CASE FsRemove(t)
  BY <1>16, FsRemoveInv
<1>17. CASE Drop(t)
  BY <1>17, DropInv
<1>18. CASE CloseFd(t)
  BY <1>18, CloseFdInv
<1> QED BY <1>1, <1>2, <1>3, <1>4, <1>5, <1>6, <1>7, <1>8, <1>9, <1>10, <1>11, <1>12,
           <1>13, <1>14, <1>15, <1>16, <1>17, <1>18 DEF VfsStep

\* A step that changes nothing.
LEMMA StutterInv ==
  ASSUME InodeInv, UNCHANGED vfsVars PROVE InodeInv'
<1>1. UNCHANGED <<dirents, obj, icache, root, mounted, call, fd, cwd>>
  BY DEF vfsVars
<1>2. Curs' = Curs /\ Nxts' = Nxts
  BY <1>1 DEF Curs, Nxts
<1>3. VfsTypeOK' /\ PcInv' /\ RootInv' /\ NewInv'
  BY <1>1 DEF InodeInv, VfsTypeOK, PcInv, RootInv, NewInv, MadeBy
<1>4. RefInv'
  BY <1>1, <1>2 DEF InodeInv, RefInv
<1> QED BY <1>3, <1>4 DEF InodeInv

\* Whatever inode_get() and inode_put() are called by, walks that lose a race and
\* failing file systems included, the counts are the numbers of the pointers and
\* InodeInv holds, for any number of callers, inodes, names and calls.  Of an
\* umount it is the code's only if umount is in Quiet (see StartWalk).
THEOREM InodeInvariant == VfsSpec => []InodeInv
<1>1. VfsInit => InodeInv
  BY InitInv
<1>2. InodeInv /\ [VfsNext]_vfsVars => InodeInv'
  <2> SUFFICES ASSUME InodeInv, [VfsNext]_vfsVars PROVE InodeInv'
    OBVIOUS
  <2>1. ASSUME NEW t \in Callers, VfsStep(t) PROVE InodeInv'
    BY <2>1, CallerInv
  <2>2. ASSUME NEW p \in Targets, NEW o \in Objs, vfs_mount(p, o) PROVE InodeInv'
    BY <2>2, MountInv
  <2>3. CASE vfs_umount
    BY <2>3, UmountInv
  <2>4. CASE CallsDone \/ UNCHANGED vfsVars
    BY <2>4, StutterInv DEF CallsDone
  <2> QED BY <2>1, <2>2, <2>3, <2>4 DEF VfsNext
<1> QED BY <1>1, <1>2, PTL DEF VfsSpec

-----------------------------------------------------------------------------
(* The disks of the inodes                                                  *)

\* A calm step leaves no inode of a disk that is not mounted.
LEMMA CalmDisk ==
  ASSUME InodeInv, InodeInv', DiskInv, Calm PROVE DiskInv'
<1>1. VfsTypeOK /\ RefInv /\ VfsTypeOK' /\ RefInv' /\ RootInv' /\ root' = root
  BY DEF InodeInv, Calm
<1>2. 1 \in DOMAIN obj' /\ obj'[1].sb = 1
  <2>1. 1 \in DOMAIN obj'
    BY <1>1, PointersNext DEF RootInv
  <2> QED BY <2>1 DEF DiskInv, Calm, Old, SameInode
<1>3. ASSUME root'[2] = 0, NEW o \in DOMAIN obj' PROVE obj'[o].sb = 1
  <2>1. \A x \in DOMAIN obj : obj[x].sb = 1
    BY <1>1, <1>3 DEF DiskInv
  <2>2. CASE o \in DOMAIN obj
    BY <2>1, <2>2 DEF Calm, Old, SameInode
  <2>3. CASE o \notin DOMAIN obj
    BY <2>1, <2>3 DEF Calm
  <2> QED BY <2>2, <2>3
<1>4. ASSUME NEW x \in icache', obj'[x].parent # 0, obj'[obj'[x].parent].sb = 2 PROVE obj'[x].sb = 2
  <2>1. x \in DOMAIN obj' /\ obj'[x].parent \in DOMAIN obj'
    BY <1>1, <1>4, PointersNext
  <2>2. CASE x \in icache
    <3>1. x \in DOMAIN obj
      BY <1>1, <2>2, Pointers
    <3>2. obj'[x].parent = obj[x].parent /\ obj'[x].sb = obj[x].sb
      BY <2>1, <3>1 DEF Calm, Old, SameInode
    <3>3. obj[x].parent \in DOMAIN obj
      BY <1>1, <1>4, <2>2, <3>2, Pointers
    <3>4. obj[obj[x].parent].sb = 2
      BY <1>4, <2>1, <3>2, <3>3 DEF Calm, Old, SameInode
    <3> QED BY <1>4, <2>2, <3>2, <3>4 DEF DiskInv
  <2>3. CASE x \notin icache
    <3>1. x \in DOMAIN obj /\ obj[x].parent \in DOMAIN obj /\ obj[x].sb = obj[obj[x].parent].sb
      BY <2>3 DEF Calm
    <3>2. obj'[x].parent = obj[x].parent /\ obj'[x].sb = obj[x].sb
      BY <2>1, <3>1 DEF Calm, Old, SameInode
    <3>3. obj[obj[x].parent].sb = 2
      BY <1>4, <2>1, <3>1, <3>2 DEF Calm, Old, SameInode
    <3> QED BY <3>1, <3>2, <3>3
  <2> QED BY <2>2, <2>3
<1> QED BY <1>2, <1>3, <1>4 DEF DiskInv

\* With the second disk mounted its inodes may be there.
LEMMA MountDisk ==
  ASSUME InodeInv, DiskInv, NEW p \in Targets, NEW o \in Objs, vfs_mount(p, o)
  PROVE  DiskInv'
<1>1. /\ Old(obj, obj') /\ DOMAIN obj' = DOMAIN obj \cup {o} /\ o \notin DOMAIN obj
      /\ obj'[o].sb = 2 /\ root'[2] # 0
  BY MountInv
<1>2. icache' = icache \cup {o}
  BY DEF vfs_mount
<1>3. 1 \in DOMAIN obj' /\ obj'[1].sb = 1
  BY <1>1 DEF DiskInv, Old, SameInode
<1>4. ASSUME NEW x \in icache', obj'[x].parent # 0, obj'[obj'[x].parent].sb = 2 PROVE obj'[x].sb = 2
  <2>1. CASE x = o
    BY <1>1, <2>1
  <2>2. CASE x \in icache
    <3>1. x \in DOMAIN obj /\ (obj[x].parent # 0 => obj[x].parent \in DOMAIN obj)
      BY <2>2, Pointers DEF InodeInv
    <3>2. obj'[x].parent = obj[x].parent /\ obj'[x].sb = obj[x].sb
      BY <1>1, <3>1 DEF Old, SameInode
    <3>3. obj[obj[x].parent].sb = 2
      BY <1>1, <1>4, <3>1, <3>2 DEF Old, SameInode
    <3> QED BY <1>4, <2>2, <3>2, <3>3 DEF DiskInv
  <2> QED BY <1>2, <2>1, <2>2
<1> QED BY <1>1, <1>3, <1>4 DEF DiskInv

\* An umount that finds no call in progress leaves no inode of its disk: what is
\* left has a holder, and none of them is on that disk.
LEMMA UmountDisk ==
  ASSUME InodeInv, DiskInv, vfs_umount, \A t \in Callers : call[t].pc = "idle"
  PROVE  DiskInv'
<1>1. InodeInv' /\ Down(obj, obj')
  BY UmountInv
<1>2. VfsTypeOK /\ RefInv /\ VfsTypeOK' /\ RefInv' /\ RootInv' /\ PcInv
  BY <1>1 DEF InodeInv
<1>3. /\ icache' \subseteq icache /\ (\A x \in icache' : obj[x].sb # 2) /\ root' = [root EXCEPT ![2] = 0]
      /\ UNCHANGED <<call, fd, cwd>> /\ ~Busy
  BY DEF vfs_umount
<1>4. root'[1] = 1 /\ root'[2] = 0
  BY <1>2, <1>3 DEF RootInv, VfsTypeOK
<1>5. 1 \in DOMAIN obj' /\ obj'[1].sb = 1
  <2>1. 1 \in DOMAIN obj'
    BY <1>2, <1>4, PointersNext
  <2> QED BY <1>1, <2>1 DEF DiskInv, Down, SameInode
<1>6. ASSUME NEW x \in icache' PROVE x \in DOMAIN obj /\ obj'[x].sb # 2 /\ obj'[x].parent = obj[x].parent
  BY <1>1, <1>2, <1>3, PointersNext DEF Down, SameInode
<1>7. ASSUME NEW x \in icache', obj'[x].parent # 0, obj'[obj'[x].parent].sb = 2 PROVE FALSE
  <2>1. obj'[x].parent \in DOMAIN obj'
    BY <1>2, <1>7, PointersNext
  <2>2. obj[x].parent # 0 /\ obj[obj[x].parent].sb = 2
    BY <1>1, <1>6, <1>7, <2>1 DEF Down, SameInode
  <2>3. obj[x].sb = 2
    BY <1>3, <2>2 DEF DiskInv
  <2> QED BY <1>3, <2>3
<1>8. ASSUME NEW o \in DOMAIN obj', obj'[o].sb # 1 PROVE FALSE
  <2>1. o \in Objs /\ o # 0 /\ Heap(obj') /\ obj'[o].sb = 2 /\ obj[o].sb = 2
    BY <1>1, <1>2, <1>8 DEF VfsTypeOK, Heap, InodeRecs, Objs, Down, SameInode
  <2>2. Ref(obj', o) = Held(Parents(obj'), icache', root', fd', cwd', Curs', Nxts', o)
    BY <1>2, <2>1 DEF RefInv, Exact
  <2>3. InSet(icache', o) = 0
    BY <1>6, <2>1 DEF InSet
  <2>4. One(root'[1], o) = 0 /\ One(root'[2], o) = 0
    BY <1>4, <1>5, <2>1 DEF One
  <2>5. Kids(Parents(obj'), icache', o) = 0
    <3>1. icache' \subseteq Objs /\ icache' \subseteq DOMAIN obj'
      BY <1>2, PointersNext DEF VfsTypeOK
    <3>2. \A x \in icache' : Parents(obj')[x] # o
      BY <1>7, <2>1, <3>1 DEF Parents
    <3>3. {x \in icache' : Parents(obj')[x] = o} = {}
      BY <3>2
    <3> QED BY <3>3, FS_EmptySet DEF Kids
  <2>6. ASSUME NEW t \in Callers PROVE fd'[t] # o /\ cwd'[t] # o /\ Curs'[t] # o /\ Nxts'[t] # o
    <3>1. fd[t] # o /\ cwd[t] # o
      BY <1>3, <2>1 DEF Busy
    <3>2. Curs'[t] = 0 /\ Nxts'[t] = 0
      BY <1>2, <1>3 DEF PcInv, PcOk, Curs, Nxts
    <3> QED BY <1>3, <2>1, <3>1, <3>2
  <2>7. Cnt(fd', o) = 0 /\ Cnt(cwd', o) = 0 /\ Cnt(Curs', o) = 0 /\ Cnt(Nxts', o) = 0
    <3>1. /\ {t \in Callers : fd'[t] = o} = {} /\ {t \in Callers : cwd'[t] = o} = {}
          /\ {t \in Callers : Curs'[t] = o} = {} /\ {t \in Callers : Nxts'[t] = o} = {}
      BY <2>6
    <3> QED BY <3>1, FS_EmptySet DEF Cnt
  <2>8. Ref(obj', o) = 0
    BY <2>2, <2>3, <2>4, <2>5, <2>7 DEF Held, Pinned, Cnts
  <2> QED BY <2>1, <2>8, RefNat
<1> QED BY <1>5, <1>7, <1>8 DEF DiskInv

-----------------------------------------------------------------------------
(* The theorems                                                             *)

\* The super blocks that hold an inode, counted one by one.
LEMMA RootCount ==
  ASSUME NEW o
  PROVE  Cardinality({m \in 1..2 : root[m] = o}) = One(root[1], o) + One(root[2], o)
<1> DEFINE A == IF root[1] = o THEN {1} ELSE {}
           S == {m \in 1..2 : root[m] = o}
<1>1. IsFiniteSet(A) /\ Cardinality(A) = One(root[1], o)
  <2>1. CASE root[1] = o
    BY <2>1, FS_Singleton DEF One
  <2>2. CASE root[1] # o
    BY <2>2, FS_EmptySet DEF One
  <2> QED BY <2>1, <2>2
<1>2. One(root[1], o) \in {0, 1} /\ 2 \notin A
  BY DEF One
<1>3. CASE root[2] = o
  <2>1. S = A \cup {2}
    BY <1>3
  <2>2. Cardinality(A \cup {2}) = Cardinality(A) + 1
    BY <1>1, <1>2, FS_AddElement
  <2>3. One(root[2], o) = 1
    BY <1>3 DEF One
  <2> QED BY <1>1, <2>1, <2>2, <2>3
<1>4. CASE root[2] # o
  <2>1. S = A
    BY <1>4
  <2>2. One(root[2], o) = 0
    BY <1>4 DEF One
  <2> QED BY <1>1, <1>2, <2>1, <2>2
<1> QED BY <1>3, <1>4

\* The holders of the model are those of the invariant.
LEMMA HoldersHeld ==
  ASSUME VfsTypeOK, RefInv, NEW o
  PROVE  Holders(o) = Held(Parents(obj), icache, root, fd, cwd, Curs, Nxts, o)
<1>1. Cardinality({m \in 1..2 : root[m] = o}) = One(root[1], o) + One(root[2], o)
  BY RootCount
<1>2. Cardinality({x \in icache : obj[x].parent = o}) = Kids(Parents(obj), icache, o)
  <2>1. icache \subseteq DOMAIN obj
    BY Pointers
  <2>2. {x \in icache : obj[x].parent = o} = {x \in icache : Parents(obj)[x] = o}
    BY <2>1 DEF Parents
  <2> QED BY <2>2 DEF Kids
<1>3. /\ {t \in Callers : call[t].cur = o} = {t \in Callers : Curs[t] = o}
      /\ {t \in Callers : call[t].nxt = o} = {t \in Callers : Nxts[t] = o}
  BY DEF Curs, Nxts
<1>4. /\ Cnt(fd, o) = Cardinality({t \in Callers : fd[t] = o}) /\ Cnt(cwd, o) = Cardinality({t \in Callers : cwd[t] = o})
      /\ Cnt(Curs, o) = Cardinality({t \in Callers : call[t].cur = o})
      /\ Cnt(Nxts, o) = Cardinality({t \in Callers : call[t].nxt = o})
  BY <1>3 DEF Cnt
<1>5. Cnt(fd, o) \in Nat /\ Cnt(cwd, o) \in Nat /\ Cnt(Curs, o) \in Nat /\ Cnt(Nxts, o) \in Nat
  BY CntNat
<1>6. Kids(Parents(obj), icache, o) \in Nat
  BY KidsNat DEF VfsTypeOK
<1>7. InSet(icache, o) = (IF o \in icache THEN 1 ELSE 0) /\ InSet(icache, o) \in Nat
      /\ One(root[1], o) \in Nat /\ One(root[2], o) \in Nat
  BY DEF InSet, One
<1> QED BY <1>1, <1>2, <1>4, <1>5, <1>6, <1>7 DEF Holders, Held, Pinned, Cnts

\* The invariant implies the part of InodesSound about counts.
LEMMA CountsExact == ASSUME InodeInv PROVE RefExact /\ NoDangling
<1>1. VfsTypeOK /\ RefInv
  BY DEF InodeInv
<1>2. ASSUME NEW o \in DOMAIN obj PROVE obj[o].ref = Holders(o) /\ obj[o].ref > 0
  <2>1. o \in Objs /\ obj[o].ref > 0
    BY <1>1 DEF VfsTypeOK, Heap, InodeRecs
  <2>2. obj[o].ref = Held(Parents(obj), icache, root, fd, cwd, Curs, Nxts, o)
    BY <1>1, <2>1 DEF RefInv, Exact, Ref
  <2> QED BY <1>1, <2>1, <2>2, HoldersHeld
<1>3. NoDangling
  <2>1. /\ icache \subseteq DOMAIN obj
        /\ \A x \in icache : obj[x].parent \in DOMAIN obj \cup {0}
    BY <1>1, Pointers
  <2>2. ASSUME NEW t \in Callers
        PROVE  {fd[t], cwd[t], call[t].cur, call[t].nxt} \subseteq DOMAIN obj \cup {0}
    BY <1>1, Pointers
  <2> QED BY <2>1, <2>2 DEF NoDangling
<1> QED BY <1>2, <1>3 DEF RefExact

\* If umount is only called while no other call runs, no inode of its disk is left
\* behind.
LEMMA DiskInvariant ==
  ASSUME "umount" \in Quiet PROVE VfsSpec => []DiskInv
<1>1. VfsInit => DiskInv
  BY InitInv
<1>2. InodeInv /\ InodeInv' /\ DiskInv /\ [VfsNext]_vfsVars => DiskInv'
  <2> SUFFICES ASSUME InodeInv, InodeInv', DiskInv, [VfsNext]_vfsVars PROVE DiskInv'
    OBVIOUS
  <2>1. ASSUME NEW t \in Callers, VfsStep(t) PROVE DiskInv'
    BY <2>1, CallerInv, CalmDisk
  <2>2. ASSUME NEW p \in Targets, NEW o \in Objs, vfs_mount(p, o) PROVE DiskInv'
    BY <2>2, MountDisk
  <2>3. CASE vfs_umount
    BY <2>3, UmountDisk DEF vfs_umount
  <2>4. CASE CallsDone \/ UNCHANGED vfsVars
    BY <2>4 DEF CallsDone, vfsVars, DiskInv
  <2> QED BY <2>1, <2>2, <2>3, <2>4 DEF VfsNext
<1> QED BY <1>1, <1>2, InodeInvariant, PTL DEF VfsSpec

\* If umount is only called while no other call runs, inode_get() and inode_put()
\* are balanced and nobody stands on a disk that is not mounted.
THEOREM InodesSoundHolds ==
  ASSUME "umount" \in Quiet PROVE VfsSpec => []InodesSound
<1>1. VfsSpec => []DiskInv
  BY DiskInvariant
<1>2. InodeInv /\ DiskInv => InodesSound
  <2> SUFFICES ASSUME InodeInv, DiskInv PROVE InodesSound
    OBVIOUS
  <2>1. MountedInUse
    <3> SUFFICES ASSUME NEW o \in DOMAIN obj PROVE root[obj[o].sb] # 0
      BY DEF MountedInUse
    <3>1. obj[o].sb \in 1..2 /\ root[1] = 1
      BY DEF InodeInv, VfsTypeOK, Heap, InodeRecs, RootInv
    <3>2. obj[o].sb = 1 \/ obj[o].sb = 2
      BY <3>1
    <3> QED BY <3>1, <3>2 DEF DiskInv
  <2> QED BY <2>1, CountsExact DEF InodesSound
<1> QED BY <1>1, <1>2, InodeInvariant, PTL

-----------------------------------------------------------------------------
(* The name space                                                           *)

\* An entry of a directory on the disk that leads to inode o.
EntryOf(p, n, o) == <<obj[p].ino, n, obj[o].ino>> \in dirents

\* The disks are trees, and nothing leads to their roots.
TreeInv == DiskTree /\ \A e \in dirents : e[3] \notin {1, 2}

\* In the cache a key and a disk inode occur once, and directories are there as
\* long as something below them is.
KeyInv ==
  /\ \A o, p \in icache : obj[o].parent = obj[p].parent /\ obj[o].name = obj[p].name => o = p
  /\ \A o, p \in icache : obj[o].ino = obj[p].ino => o = p
  /\ \A o \in icache : obj[o].name # <<>> => obj[o].parent \in icache

\* The roots of the mounted disks, and only they, are in the cache without a name.
IsRoot(m) == root[m] \in icache /\ obj[root[m]].ino = m /\ obj[root[m]].sb = m /\ obj[root[m]].name = <<>>
RootsCached ==
  /\ IsRoot(1) /\ obj[root[1]].parent = 0
  /\ root[2] # 0 => IsRoot(2)
  /\ \A o \in icache : obj[o].name = <<>> => o \in {root[1], root[2]}

\* What a call knows of the inodes it has in hand.
Removes(t) == call[t].op \in {"unlink", "rmdir"}
Victim(t) ==
  /\ call[t].nxt \in icache /\ obj[call[t].nxt].parent = call[t].cur
  /\ obj[call[t].nxt].name = BaseName(call[t].path)
CallKnows(t) ==
  LET c == call[t] IN
  /\ c.pc # "idle" => c.cur \in icache
  /\ c.pc # "idle" /\ Removes(t) =>
       /\ \A u \in Callers \ {t} : call[u].pc = "idle"
       /\ \A u \in Callers : fd[u] = 0
  /\ c.pc = "insert" => obj[c.nxt].name = Head(c.rest) /\ EntryOf(c.cur, Head(c.rest), c.nxt)
  /\ c.pc = "link" => obj[c.nxt].name = BaseName(c.path) /\ EntryOf(c.cur, BaseName(c.path), c.nxt)
  /\ c.pc = "fs" => IsDir(c.cur) /\ (Removes(t) => Victim(t))
  /\ c.pc = "drop" =>
       /\ Removes(t) /\ Victim(t) /\ c.cur # c.nxt
       /\ \A f \in dirents : f[1] # obj[c.nxt].ino
  /\ fd[t] # 0 => fd[t] \in icache
CallsKnow == \A t \in Callers : CallKnows(t)

\* The inductive invariant of the name space.
NameInv == CacheTrue /\ TreeInv /\ KeyInv /\ RootsCached /\ CallsKnow

\* The fields of the inodes that stay.
LEMMA Kept ==
  ASSUME InodeInv, InodeInv', Old(obj, obj')
  PROVE  \A o \in icache \cap icache' : SameInode(obj'[o], obj[o])
<1>1. icache \subseteq DOMAIN obj /\ icache' \subseteq DOMAIN obj'
  BY Pointers, PointersNext DEF InodeInv
<1> QED BY <1>1 DEF Old

\* The fields of the inodes that a call has in hand.
LEMMA KeptHand ==
  ASSUME InodeInv, InodeInv', Old(obj, obj'), NEW t \in Callers
  PROVE  /\ call[t].cur # 0 /\ call'[t].cur = call[t].cur => SameInode(obj'[call[t].cur], obj[call[t].cur])
         /\ call[t].nxt # 0 /\ call'[t].nxt = call[t].nxt => SameInode(obj'[call[t].nxt], obj[call[t].nxt])
<1>2. /\ call[t].cur # 0 => call[t].cur \in DOMAIN obj
      /\ call[t].nxt # 0 => call[t].nxt \in DOMAIN obj
      /\ call'[t].cur # 0 => call'[t].cur \in DOMAIN obj'
      /\ call'[t].nxt # 0 => call'[t].nxt \in DOMAIN obj'
  BY Pointers, PointersNext DEF InodeInv
<1> QED BY <1>2 DEF Old

\* Nobody but t removes something.
NoRemover(t) == \A u \in Callers \ {t} : call[u].pc # "idle" => ~Removes(u)

\* While a call runs nobody else removes something.
LEMMA BusyNoRemover ==
  ASSUME NameInv, NEW t \in Callers, call[t].pc # "idle" PROVE NoRemover(t)
BY DEF NameInv, CallsKnow, CallKnows, NoRemover

\* A step of t that leaves the disks and the cache alone.
LEMMA CacheStays ==
  ASSUME InodeInv, InodeInv', NameInv, Old(obj, obj'), NEW t \in Callers, NEW c,
         UNCHANGED <<dirents, dirs, icache, root>>, call' = [call EXCEPT ![t] = c], call[t].pc # "drop"
  PROVE  CacheTrue' /\ TreeInv' /\ KeyInv' /\ RootsCached'
<1>1. icache' = icache /\ root' = root /\ dirents' = dirents /\ dirs' = dirs
  OBVIOUS
<1>2. ASSUME NEW o \in icache PROVE SameInode(obj'[o], obj[o])
  BY <1>1, <1>2, Kept
<1>3. KeyInv'
  BY <1>1, <1>2 DEF NameInv, KeyInv, SameInode
<1>4. RootsCached'
  BY <1>1, <1>2 DEF NameInv, RootsCached, IsRoot, SameInode
<1>5. TreeInv'
  BY <1>1 DEF NameInv, TreeInv, DiskTree
<1>6. CacheTrue'
  <2> SUFFICES ASSUME NEW o \in icache, obj'[o].name # <<>>, ~Dropping(o)'
               PROVE  <<obj'[obj'[o].parent].ino, obj'[o].name, obj'[o].ino>> \in dirents
    BY <1>1 DEF CacheTrue
  <2>1. ~Dropping(o)
    <3> SUFFICES ASSUME NEW u \in Callers, call[u].pc = "drop", call[u].nxt = o PROVE FALSE
      BY DEF Dropping
    <3>1. call'[u] = call[u]
      BY DEF InodeInv, VfsTypeOK
    <3> QED BY <3>1 DEF Dropping
  <2>2. SameInode(obj'[o], obj[o])
    BY <1>2
  <2>3. obj[o].parent \in icache
    BY <2>2 DEF NameInv, KeyInv, SameInode
  <2>4. SameInode(obj'[obj[o].parent], obj[obj[o].parent])
    BY <1>2, <2>3
  <2>5. <<obj[obj[o].parent].ino, obj[o].name, obj[o].ino>> \in dirents
    BY <2>1, <2>2 DEF NameInv, CacheTrue, SameInode
  <2> QED BY <2>2, <2>4, <2>5 DEF SameInode
<1> QED BY <1>3, <1>4, <1>5, <1>6

\* The other callers know what they knew while the cache and what they have seen
\* on the disks stay.
LEMMA OthersKnow ==
  ASSUME InodeInv, InodeInv', NameInv, Old(obj, obj'), NEW t \in Callers, NEW c, NoRemover(t),
         call' = [call EXCEPT ![t] = c], icache \subseteq icache', dirents \subseteq dirents',
         \A o \in icache : obj[o].ino \in dirs => obj[o].ino \in dirs',
         \A u \in Callers \ {t} : fd'[u] = fd[u]
  PROVE  \A u \in Callers \ {t} : CallKnows(u)'
<1> SUFFICES ASSUME NEW u \in Callers \ {t} PROVE CallKnows(u)'
  OBVIOUS
<1>1. call'[u] = call[u] /\ fd'[u] = fd[u]
  BY DEF InodeInv, VfsTypeOK
<1>2. CallKnows(u) /\ (call[u].pc # "idle" => ~Removes(u))
  BY DEF NameInv, CallsKnow, NoRemover
<1>3. PcOk(call[u]) /\ (call[u].pc \in {"insert", "link"} => MadeBy(u))
  BY DEF InodeInv, PcInv, NewInv
<1>4. /\ call[u].cur # 0 => SameInode(obj'[call[u].cur], obj[call[u].cur])
      /\ call[u].nxt # 0 => SameInode(obj'[call[u].nxt], obj[call[u].nxt])
  <2>1. call'[u].cur = call[u].cur /\ call'[u].nxt = call[u].nxt /\ u \in Callers
    BY <1>1
  <2> QED BY <2>1, KeptHand
<1>5. /\ call[u].pc # "idle" => call[u].cur # 0 
      /\ call[u].pc \in {"insert", "link"} => call[u].nxt # 0
  BY <1>3 DEF PcOk, MadeBy
<1>6. Removes(u)' <=> Removes(u)
  BY <1>1 DEF Removes
<1>7. call[u].pc # "drop"
  BY <1>2 DEF CallKnows
<1> QED BY <1>1, <1>2, <1>4, <1>5, <1>6, <1>7 DEF CallKnows, EntryOf, IsDir, SameInode

\* A step of t that leaves the disks and the cache alone, and after which t knows
\* what it should.
LEMMA NamesStay ==
  ASSUME InodeInv, InodeInv', NameInv, Old(obj, obj'), NEW t \in Callers, NEW c, NoRemover(t),
         UNCHANGED <<dirents, dirs, icache, root>>, call' = [call EXCEPT ![t] = c], call[t].pc # "drop",
         \A u \in Callers \ {t} : fd'[u] = fd[u], CallKnows(t)'
  PROVE  NameInv'
<1>1. CacheTrue' /\ TreeInv' /\ KeyInv' /\ RootsCached'
  BY CacheStays
<1>2. \A u \in Callers \ {t} : CallKnows(u)'
  BY OthersKnow
<1> QED BY <1>1, <1>2 DEF NameInv, CallsKnow

\* What holds before and after a step of the callers.
Around == InodeInv /\ InodeInv' /\ NameInv /\ Old(obj, obj')

\* A caller that removes is alone, and all files are closed.
Alone(t) == (\A u \in Callers \ {t} : call[u].pc = "idle") /\ \A u \in Callers : fd[u] = 0

\* A call that has returned knows nothing.
LEMMA KnowsIdle ==
  ASSUME NEW t \in Callers, call'[t].pc = "idle", fd'[t] # 0 => fd'[t] \in icache'
  PROVE  CallKnows(t)'
BY DEF CallKnows

\* A call that walks knows that its inode is cached.
LEMMA KnowsWalk ==
  ASSUME NEW t \in Callers, call'[t].pc \in {"walk", "fill"}, call'[t].cur \in icache',
         Removes(t)' => Alone(t)', fd'[t] # 0 => fd'[t] \in icache'
  PROVE  CallKnows(t)'
BY DEF CallKnows, Alone

\* A call that goes on with the same operation is still alone if it was.
LEMMA StillAlone ==
  ASSUME InodeInv, NameInv, NEW t \in Callers, NEW c, call[t].pc # "idle", call' = [call EXCEPT ![t] = c],
         c.op = call[t].op, fd' = fd
  PROVE  Removes(t)' => Alone(t)'
<1>1. call'[t].op = call[t].op /\ \A u \in Callers \ {t} : call'[u] = call[u]
  BY DEF InodeInv, VfsTypeOK
<1>2. Removes(t) => Alone(t)
  BY DEF NameInv, CallsKnow, CallKnows, Alone
<1> QED BY <1>1, <1>2 DEF Removes, Alone

\* The inode of an open file is cached.
LEMMA FdCached ==
  ASSUME NameInv, NEW t \in Callers PROVE fd[t] # 0 => fd[t] \in icache
BY DEF NameInv, CallsKnow, CallKnows

\* The call returns, its file what it was.
LEMMA ReturnNames ==
  ASSUME Around, NEW t \in Callers, call[t].pc \notin {"idle", "drop"},
         UNCHANGED <<dirents, dirs, icache, root, fd>>, call' = [call EXCEPT ![t] = NoCall]
  PROVE  NameInv'
<1>1. call'[t].pc = "idle"
  BY NoCallOk DEF Around, InodeInv, VfsTypeOK
<1>2. CallKnows(t)'
  BY <1>1, KnowsIdle, FdCached DEF Around
<1>3. NoRemover(t)
  BY BusyNoRemover DEF Around
<1> QED BY <1>2, <1>3, NamesStay DEF Around

\* The call goes on walking.
LEMMA WalkNames ==
  ASSUME Around, NEW t \in Callers, NEW c, call[t].pc \notin {"idle", "drop"},
         UNCHANGED <<dirents, dirs, icache, root, fd>>, call' = [call EXCEPT ![t] = c],
         c.op = call[t].op \/ c.op = "make", c.pc \in {"walk", "fill"}, c.cur \in icache
  PROVE  NameInv'
<1>1. call'[t] = c
  BY DEF Around, InodeInv, VfsTypeOK
<1>2. Removes(t)' => Alone(t)'
  BY <1>1, StillAlone DEF Around, Removes
<1>3. CallKnows(t)'
  BY <1>1, <1>2, KnowsWalk, FdCached DEF Around
<1>4. NoRemover(t)
  BY BusyNoRemover DEF Around
<1> QED BY <1>3, <1>4, NamesStay DEF Around

\* The walk starts at a root, which is cached.
LEMMA RootFound ==
  ASSUME InodeInv, NameInv, NEW p PROVE root[vfs_find_mount(p)] \in icache
<1>1. vfs_find_mount(p) = 1 \/ (vfs_find_mount(p) = 2 /\ mounted # {})
  BY DEF vfs_find_mount
<1> QED BY <1>1 DEF InodeInv, RootInv, NameInv, RootsCached, IsRoot

\* vfs_lookup() fails: the call returns, or open() goes on with vfs_create().
LEMMA LookupFailsNames ==
  ASSUME Around, NEW t \in Callers, NEW ob, call[t].pc \notin {"idle", "drop"}, LookupFails(t, ob),
         UNCHANGED <<dirents, dirs, icache, root, fd>>
  PROVE  NameInv'
<1>1. CASE call[t].op \in {"create", "excl"} /\ call[t].path # <<>>
  <2> DEFINE full == ParentPath(call[t].path)
             m == vfs_find_mount(full)
             c == [pc |-> "walk", op |-> "make", path |-> call[t].path, cur |-> root[m], nxt |-> 0,
                   rest |-> IF m = 2 THEN Tail(full) ELSE full]
  <2>1. call' = [call EXCEPT ![t] = c]
    BY <1>1 DEF LookupFails, StartWalk
  <2>2. c.op = "make" /\ c.pc = "walk" /\ c.cur = root[m]
    OBVIOUS
  <2>3. root[m] \in icache
    BY RootFound DEF Around
  <2> HIDE DEF c, m, full
  <2> QED BY <2>1, <2>2, <2>3, WalkNames
<1>2. CASE ~(call[t].op \in {"create", "excl"} /\ call[t].path # <<>>)
  BY <1>2, ReturnNames DEF LookupFails
<1> QED BY <1>1, <1>2

\* A call begins at a root.
LEMMA BeginNames ==
  ASSUME Around, {"unlink", "rmdir"} \subseteq Quiet, NEW t \in Callers, NEW f \in VfsOps, NEW p \in Paths, BeginCall(t, f, p)
  PROVE  NameInv'
<1> DEFINE full == IF f \in ParentOps \cup {"make"} THEN ParentPath(p) ELSE p
           m == vfs_find_mount(full)
           c == [pc |-> "walk", op |-> f, path |-> p, cur |-> root[m], nxt |-> 0,
                 rest |-> IF m = 2 THEN Tail(full) ELSE full]
<1>1. call' = [call EXCEPT ![t] = c] /\ MayBegin(t, f) /\ UNCHANGED <<dirents, dirs, icache, root, fd>>
  BY DEF BeginCall, StartWalk
<1>2. c.op = f /\ c.pc = "walk" /\ c.cur = root[m]
  OBVIOUS
<1>3. root[m] \in icache
  BY RootFound DEF Around
<1> HIDE DEF c, m, full
<1>4. call'[t] = c /\ \A u \in Callers \ {t} : call'[u] = call[u]
  BY <1>1 DEF Around, InodeInv, VfsTypeOK
<1>5. Removes(t)' => Alone(t)'
  BY <1>1, <1>2, <1>4 DEF MayBegin, Removes, Alone
<1>6. CallKnows(t)'
  BY <1>1, <1>2, <1>3, <1>4, <1>5, KnowsWalk, FdCached DEF Around
<1>7. NoRemover(t) /\ call[t].pc = "idle"
  BY <1>1 DEF MayBegin, NoRemover, Removes
<1> QED BY <1>1, <1>6, <1>7, NamesStay DEF Around

\* The walk goes on from a cached inode.
LEMMA WalkHitNames ==
  ASSUME Around, NEW t \in Callers, NEW o \in icache, WalkHit(t, o) PROVE NameInv'
<1> DEFINE c == [call[t] EXCEPT !.cur = o, !.rest = Tail(@)]
<1>1. call' = [call EXCEPT ![t] = c] /\ UNCHANGED <<dirents, dirs, icache, root, fd>> /\ call[t].pc = "walk"
  BY DEF WalkHit
<1>2. c.op = call[t].op /\ c.pc = "walk" /\ c.cur = o
  BY <1>1 DEF Around, InodeInv, VfsTypeOK, CallRecs
<1> HIDE DEF c
<1> QED BY <1>1, <1>2, WalkNames

\* A call in progress has its inode cached.
LEMMA CurCached ==
  ASSUME NameInv, NEW t \in Callers, call[t].pc # "idle" PROVE call[t].cur \in icache
BY DEF NameInv, CallsKnow, CallKnows

\* The cache does not have the component.
LEMMA WalkMissNames ==
  ASSUME Around, NEW t \in Callers, WalkMiss(t) PROVE NameInv'
<1> DEFINE c == [call[t] EXCEPT !.pc = "fill"]
<1>1. call' = [call EXCEPT ![t] = c] /\ UNCHANGED <<dirents, dirs, icache, root, fd>> /\ call[t].pc = "walk"
  BY DEF WalkMiss
<1>2. c.op = call[t].op /\ c.pc = "fill" /\ c.cur = call[t].cur
  BY <1>1 DEF Around, InodeInv, VfsTypeOK, CallRecs
<1>3. call[t].cur \in icache
  BY <1>1, CurCached DEF Around
<1> HIDE DEF c
<1> QED BY <1>1, <1>2, <1>3, WalkNames

\* The directory has the component: the walk has made an inode for its entry.
LEMMA WalkFillNames ==
  ASSUME Around, NEW t \in Callers, NEW o \in Objs, WalkFill(t, o) PROVE NameInv'
<1> DEFINE c == [call[t] EXCEPT !.pc = "insert", !.nxt = o]
           w == call[t]
<1>1. call' = [call EXCEPT ![t] = c] /\ UNCHANGED <<dirents, dirs, icache, root, fd>> /\ w.pc = "fill"
  BY DEF WalkFill
<1>2. /\ c.op = w.op /\ c.pc = "insert" /\ c.cur = w.cur
      /\ c.nxt = o /\ c.rest = w.rest
  BY <1>1 DEF Around, InodeInv, VfsTypeOK, CallRecs
<1>3. w.cur \in icache /\ w.cur \in DOMAIN obj
  BY <1>1, CurCached, Pointers DEF Around, InodeInv
<1> HIDE DEF c
<1>4. call'[t] = c
  BY <1>1 DEF Around, InodeInv, VfsTypeOK
<1>5. PICK e \in OnDisk(w.cur, Head(w.rest)) : obj' = NewInode(o, e[3], w.cur, e[2])
  BY DEF WalkFill
<1>6. e \in dirents /\ e = <<obj[w.cur].ino, Head(w.rest), e[3]>>
  BY <1>5 DEF OnDisk, Around, InodeInv, VfsTypeOK
<1>7. o \notin DOMAIN obj
  BY DEF WalkFill, FreshObj
<1>8. obj'[o].name = Head(w.rest) /\ obj'[o].ino = e[3] /\ obj'[w.cur] = obj[w.cur]
  BY <1>3, <1>5, <1>6, <1>7 DEF NewInode, With, Inode
<1>9. Removes(t)' => Alone(t)'
  BY <1>1, <1>2, StillAlone DEF Around
<1>10. <<obj'[w.cur].ino, Head(w.rest), obj'[o].ino>> \in dirents'
  BY <1>1, <1>6, <1>8
<1>11. CallKnows(t)'
  BY <1>1, <1>2, <1>3, <1>4, <1>8, <1>9, <1>10, FdCached DEF Around, CallKnows, Alone, EntryOf
<1>12. NoRemover(t)
  BY <1>1, BusyNoRemover DEF Around
<1> QED BY <1>1, <1>11, <1>12, NamesStay DEF Around

\* The component is not in the directory.
LEMMA WalkNotFoundNames ==
  ASSUME Around, NEW t \in Callers, WalkNotFound(t) PROVE NameInv'
BY LookupFailsNames DEF WalkNotFound

\* Another walk has cached the component first.
LEMMA WalkInsertLostNames ==
  ASSUME Around, NEW t \in Callers, WalkInsertLost(t) PROVE NameInv'
BY LookupFailsNames DEF WalkInsertLost

\* open() of a file that is there: its inode is cached.
LEMMA OpenFoundNames ==
  ASSUME Around, NEW t \in Callers, OpenFound(t) PROVE NameInv'
<1>1. call' = [call EXCEPT ![t] = NoCall] /\ UNCHANGED <<dirents, dirs, icache, root>> /\ call[t].pc = "walk"
  BY DEF OpenFound, OpenFd, ReturnPut, Walked
<1>2. CASE fd' = fd
  BY <1>1, <1>2, ReturnNames
<1>3. CASE fd' = [fd EXCEPT ![t] = call[t].cur]
  <2>1. call'[t].pc = "idle" /\ fd'[t] = call[t].cur /\ \A u \in Callers \ {t} : fd'[u] = fd[u]
    BY <1>1, <1>3, NoCallOk DEF Around, InodeInv, VfsTypeOK
  <2>2. CallKnows(t)'
    BY <1>1, <2>1, KnowsIdle, CurCached DEF Around
  <2>3. NoRemover(t)
    BY <1>1, BusyNoRemover DEF Around
  <2> QED BY <1>1, <2>1, <2>2, <2>3, NamesStay DEF Around
<1> QED BY <1>2, <1>3 DEF OpenFound, OpenFd, ReturnPut

\* chdir() returns.
LEMMA SetCwdNames ==
  ASSUME Around, NEW t \in Callers, set_cwd(t) PROVE NameInv'
<1>1. /\ call' = [call EXCEPT ![t] = NoCall] /\ call[t].pc = "walk"
      /\ UNCHANGED <<dirents, dirs, icache, root, fd>>
  BY DEF set_cwd, ReturnPut, Walked
<1> QED BY <1>1, ReturnNames

\* The parent is not a directory.
LEMMA ParentNotDirNames ==
  ASSUME Around, NEW t \in Callers, ParentNotDir(t) PROVE NameInv'
<1>1. /\ call' = [call EXCEPT ![t] = NoCall] /\ call[t].pc = "walk"
      /\ UNCHANGED <<dirents, dirs, icache, root, fd>>
  BY DEF ParentNotDir, ReturnPut, Walked
<1> QED BY <1>1, ReturnNames

\* The file system refuses.
LEMMA FsFailsNames ==
  ASSUME Around, NEW t \in Callers, FsFails(t) PROVE NameInv'
<1>1. /\ call' = [call EXCEPT ![t] = NoCall] /\ call[t].pc = "fs"
      /\ UNCHANGED <<dirents, dirs, icache, root, fd>>
  BY DEF FsFails
<1> QED BY <1>1, ReturnNames

\* A walk has cached the new entry first.
LEMMA LinkLostNames ==
  ASSUME Around, NEW t \in Callers, LinkLost(t) PROVE NameInv'
<1>1. /\ call' = [call EXCEPT ![t] = NoCall] /\ call[t].pc = "link"
      /\ UNCHANGED <<dirents, dirs, icache, root, fd>>
  BY DEF LinkLost
<1> QED BY <1>1, ReturnNames

\* The call takes vfs_meta_lock and looks the name up in the cache: what it will
\* remove is cached under the directory it has in hand.
LEMMA MetaLockNames ==
  ASSUME Around, NEW t \in Callers, MetaLock(t) PROVE NameInv'
<1> DEFINE w == call[t]
<1>1. w.pc = "walk" /\ IsDir(w.cur) /\ UNCHANGED <<dirents, dirs, icache, root, fd>>
  BY DEF MetaLock, Walked
<1>2. NoRemover(t) /\ w.cur \in icache
  BY <1>1, BusyNoRemover, CurCached DEF Around
<1>3. SameInode(obj'[w.cur], obj[w.cur])
  BY <1>1, <1>2, Kept DEF Around
<1>4. CASE w.op \in {"make", "mkdir"} /\ call' = [call EXCEPT ![t].pc = "fs"]
  <2> DEFINE c == [w EXCEPT !.pc = "fs"]
  <2>1. call' = [call EXCEPT ![t] = c]
    BY <1>4
  <2>2. c.op = w.op /\ c.pc = "fs" /\ c.cur = w.cur
    BY <1>1 DEF Around, InodeInv, VfsTypeOK, CallRecs
  <2> HIDE DEF c
  <2>3. call'[t] = c
    BY <2>1 DEF Around, InodeInv, VfsTypeOK
  <2>4. CallKnows(t)'
    BY <1>1, <1>2, <1>3, <1>4, <2>2, <2>3, FdCached DEF Around, CallKnows, Removes, IsDir, SameInode
  <2> QED BY <1>1, <1>2, <2>1, <2>4, NamesStay DEF Around
<1>5. ASSUME NEW o \in inode_cache_find(w.cur, BaseName(w.path)), call' = [call EXCEPT ![t].pc = "fs", ![t].nxt = o]
      PROVE  NameInv'
  <2> DEFINE c == [w EXCEPT !.pc = "fs", !.nxt = o]
  <2>1. call' = [call EXCEPT ![t] = c]
    BY <1>5
  <2>2. c.op = w.op /\ c.pc = "fs" /\ c.cur = w.cur /\ c.nxt = o /\ c.path = w.path
    BY <1>1 DEF Around, InodeInv, VfsTypeOK, CallRecs
  <2> HIDE DEF c
  <2>3. call'[t] = c
    BY <2>1 DEF Around, InodeInv, VfsTypeOK
  <2>4. Removes(t)' => Alone(t)'
    BY <1>1, <2>1, <2>2, StillAlone DEF Around
  <2>5. o \in icache /\ obj[o].parent = w.cur /\ obj[o].name = BaseName(w.path)
    BY <1>5 DEF inode_cache_find
  <2>6. SameInode(obj'[o], obj[o])
    BY <1>1, <2>5, Kept DEF Around
  <2>7. Victim(t)'
    BY <1>1, <2>2, <2>3, <2>5, <2>6 DEF Victim, SameInode
  <2>8. obj'[w.cur].ino \in dirs'
    BY <1>1, <1>3 DEF IsDir, SameInode
  <2>9. CallKnows(t)'
    BY <1>1, <1>2, <2>2, <2>3, <2>4, <2>7, <2>8, FdCached DEF Around, CallKnows, Alone, IsDir
  <2> QED BY <1>1, <1>2, <2>1, <2>9, NamesStay DEF Around
<1>6. CASE call' = [call EXCEPT ![t] = NoCall]
  BY <1>1, <1>6, ReturnNames
<1> QED BY <1>4, <1>5, <1>6 DEF MetaLock, ReturnPut

\* A file is closed: nobody removes while it is open.
LEMMA CloseFdNames ==
  ASSUME Around, NEW t \in Callers, CloseFd(t) PROVE NameInv'
<1>1. /\ call[t].pc = "idle" /\ fd[t] # 0 /\ fd' = [fd EXCEPT ![t] = 0] /\ call' = call
      /\ UNCHANGED <<dirents, dirs, icache, root>>
  BY DEF CloseFd
<1>2. NoRemover(t)
  BY <1>1 DEF Around, NameInv, CallsKnow, CallKnows, NoRemover
<1>3. call' = [call EXCEPT ![t] = call[t]] /\ fd'[t] = 0 /\ \A u \in Callers \ {t} : fd'[u] = fd[u]
  BY <1>1 DEF Around, InodeInv, VfsTypeOK
<1>4. CallKnows(t)'
  BY <1>1, <1>3, KnowsIdle
<1> QED BY <1>1, <1>2, <1>3, <1>4, NamesStay DEF Around


\* While a call that does not drop a name runs, nobody does.
LEMMA NotDropping ==
  ASSUME NameInv, NEW t \in Callers, call[t].pc \notin {"idle", "drop"} PROVE \A o : ~Dropping(o)
BY DEF NameInv, CallsKnow, CallKnows, Dropping

\* A cached inode is the root of a disk, or the disk has its entry.
LEMMA CacheEntry ==
  ASSUME InodeInv, NameInv, NEW o \in icache, ~Dropping(o)
  PROVE  \/ obj[o].name = <<>> /\ obj[o].ino \in {1, 2} /\ o \in {root[1], root[2]}
         \/ /\ obj[o].name # <<>> /\ obj[o].parent \in icache
            /\ <<obj[obj[o].parent].ino, obj[o].name, obj[o].ino>> \in dirents
<1>1. CASE obj[o].name = <<>>
  <2>1. o # 0 /\ (o = root[1] \/ o = root[2])
    BY <1>1 DEF NameInv, RootsCached, InodeInv, VfsTypeOK, Objs
  <2> QED BY <1>1, <2>1 DEF NameInv, RootsCached, IsRoot
<1>2. CASE obj[o].name # <<>>
  BY <1>2 DEF NameInv, CacheTrue, KeyInv
<1> QED BY <1>1, <1>2

\* inode_cache_insert(): the inode that the call of t has made for an entry of
\* its directory enters the cache, in which it was not found.
Caches(t) ==
  /\ call[t].pc \in {"insert", "link"}
  /\ EntryOf(call[t].cur, obj[call[t].nxt].name, call[t].nxt)
  /\ inode_cache_find(call[t].cur, obj[call[t].nxt].name) = {}
  /\ icache' = icache \cup {call[t].nxt}
  /\ UNCHANGED <<dirents, dirs, root, fd>>

\* The inode that the call of t has made enters the cache.  No other one of its
\* disk inode is there: that would be the same entry of the same directory, which
\* was not found.
LEMMA CacheGrows ==
  ASSUME Around, NEW t \in Callers, NEW c, Caches(t),
         call' = [call EXCEPT ![t] = c], CallKnows(t)'
  PROVE  NameInv'
<1> DEFINE p == call[t].cur
           n == call[t].nxt
<1> USE DEF Caches
<1>1. InodeInv /\ InodeInv' /\ NameInv /\ Old(obj, obj') /\ VfsTypeOK
  BY DEF Around, InodeInv
<1>2. n # 0 /\ n \notin icache /\ obj[n].parent = p /\ p \in icache
  BY <1>1, CurCached DEF InodeInv, NewInv, MadeBy
<1>3. n \in DOMAIN obj /\ n \in DOMAIN obj' /\ icache \subseteq DOMAIN obj /\ icache' \subseteq DOMAIN obj'
  BY <1>1, <1>2, Pointers, PointersNext DEF InodeInv
<1>4. obj[n].name \in Names /\ obj[n].name # <<>> /\ obj[n].ino \notin {1, 2}
  <2>1. obj[n].name \in Names
    BY <1>1 DEF EntryOf, VfsTypeOK
  <2>2. <<obj[p].ino, obj[n].name, obj[n].ino>>[3] \notin {1, 2}
    BY <1>1 DEF EntryOf, NameInv, TreeInv
  <2> QED BY <2>1, <2>2, VfsAssumption
<1>5. ASSUME NEW o \in icache' PROVE SameInode(obj'[o], obj[o]) /\ (o \in icache \/ o = n)
  BY <1>1, <1>3 DEF Old
<1>6. ASSUME NEW o \in icache, obj[o].ino = obj[n].ino PROVE FALSE
  <2>1. ~Dropping(o)
    BY <1>1, NotDropping
  <2>2. /\ obj[o].parent \in icache
        /\ <<obj[obj[o].parent].ino, obj[o].name, obj[o].ino>> \in dirents
    BY <1>1, <1>4, <1>6, <2>1, CacheEntry
  <2>3. <<obj[obj[o].parent].ino, obj[o].name, obj[o].ino>> = <<obj[p].ino, obj[n].name, obj[n].ino>>
    <3> DEFINE e == <<obj[obj[o].parent].ino, obj[o].name, obj[o].ino>>
               f == <<obj[p].ino, obj[n].name, obj[n].ino>>
    <3>1. e \in dirents /\ f \in dirents /\ e[3] = f[3]
      BY <1>6, <2>2 DEF EntryOf
    <3> HIDE DEF e, f
    <3>2. e = f
      BY <1>1, <3>1 DEF NameInv, TreeInv, DiskTree, IsTree
    <3> QED BY <3>2 DEF e, f
  <2>4. obj[o].name = obj[n].name /\ obj[o].parent = p
    BY <1>1, <1>2, <2>2, <2>3 DEF NameInv, KeyInv
  <2> QED BY <2>4 DEF inode_cache_find
<1>7. KeyInv'
  <2>1. ASSUME NEW o \in icache', NEW q \in icache', obj'[o].parent = obj'[q].parent, obj'[o].name = obj'[q].name
        PROVE  o = q
    <3>1. obj[o].parent = obj[q].parent /\ obj[o].name = obj[q].name
      BY <1>5, <2>1 DEF SameInode
    <3>2. ASSUME NEW x \in icache PROVE ~(obj[x].parent = p /\ obj[x].name = obj[n].name)
      BY DEF inode_cache_find
    <3> QED BY <1>1, <1>2, <1>5, <3>1, <3>2 DEF NameInv, KeyInv
  <2>2. ASSUME NEW o \in icache', NEW q \in icache', obj'[o].ino = obj'[q].ino PROVE o = q
    <3>1. obj[o].ino = obj[q].ino
      BY <1>5, <2>2 DEF SameInode
    <3> QED BY <1>1, <1>5, <1>6, <3>1 DEF NameInv, KeyInv
  <2>3. ASSUME NEW o \in icache', obj'[o].name # <<>> PROVE obj'[o].parent \in icache'
    BY <1>1, <1>2, <1>5, <2>3 DEF NameInv, KeyInv, SameInode
  <2> QED BY <2>1, <2>2, <2>3 DEF KeyInv
<1>8. RootsCached'
  <2>1. root' = root
    OBVIOUS
  <2> QED BY <1>1, <1>4, <1>5, <2>1 DEF NameInv, RootsCached, IsRoot, SameInode
<1>9. TreeInv'
  BY <1>1 DEF NameInv, TreeInv, DiskTree
<1>10. CacheTrue'
  <2> SUFFICES ASSUME NEW o \in icache', obj'[o].name # <<>>
               PROVE  <<obj'[obj'[o].parent].ino, obj'[o].name, obj'[o].ino>> \in dirents
    BY DEF CacheTrue
  <2>1. SameInode(obj'[o], obj[o]) /\ obj[o].name # <<>>
    BY <1>5 DEF SameInode
  <2>2. obj[o].parent \in icache /\ <<obj[obj[o].parent].ino, obj[o].name, obj[o].ino>> \in dirents
    BY <1>1, <1>2, <1>5, <2>1, NotDropping, CacheEntry DEF EntryOf
  <2>3. SameInode(obj'[obj[o].parent], obj[obj[o].parent])
    BY <1>5, <2>2
  <2> QED BY <2>1, <2>2, <2>3 DEF SameInode
<1>11. \A u \in Callers \ {t} : CallKnows(u)'
  BY <1>1, BusyNoRemover, OthersKnow
<1> QED BY <1>7, <1>8, <1>9, <1>10, <1>11 DEF NameInv, CallsKnow

\* The walk caches the component and goes on from it.
LEMMA WalkInsertNames ==
  ASSUME Around, NEW t \in Callers, WalkInsert(t) PROVE NameInv'
<1> DEFINE w == call[t]
           c == [w EXCEPT !.pc = "walk", !.cur = w.nxt, !.nxt = 0, !.rest = Tail(@)]
<1>1. /\ call' = [call EXCEPT ![t] = c] /\ UNCHANGED <<dirents, dirs, root, fd>> /\ w.pc = "insert"
      /\ icache' = icache \cup {w.nxt} /\ inode_cache_find(w.cur, Head(w.rest)) = {}
  BY DEF WalkInsert
<1>2. c.op = w.op /\ c.pc = "walk" /\ c.cur = w.nxt
  BY <1>1 DEF Around, InodeInv, VfsTypeOK, CallRecs
<1> HIDE DEF c
<1>3. call'[t] = c
  BY <1>1 DEF Around, InodeInv, VfsTypeOK
<1>4. obj[w.nxt].name = Head(w.rest) /\ EntryOf(w.cur, Head(w.rest), w.nxt)
  BY <1>1 DEF Around, NameInv, CallsKnow, CallKnows
<1>7. Caches(t)
  BY <1>1, <1>4 DEF Caches
<1>5. Removes(t)' => Alone(t)'
  BY <1>1, <1>2, StillAlone DEF Around
<1>6. CallKnows(t)'
  BY <1>1, <1>2, <1>3, <1>5, KnowsWalk, FdCached DEF Around
<1> QED BY <1>1, <1>2, <1>6, <1>7, CacheGrows

\* The new file or directory enters the cache.
LEMMA LinkNames ==
  ASSUME Around, NEW t \in Callers, Link(t) PROVE NameInv'
<1> DEFINE w == call[t]
<1>1. /\ UNCHANGED <<dirents, dirs, root, fd>> /\ w.pc = "link"
      /\ icache' = icache \cup {w.nxt} /\ inode_cache_find(w.cur, BaseName(w.path)) = {}
  BY DEF Link
<1>2. obj[w.nxt].name = BaseName(w.path) /\ EntryOf(w.cur, BaseName(w.path), w.nxt)
  BY <1>1 DEF Around, NameInv, CallsKnow, CallKnows
<1>5. Caches(t)
  BY <1>1, <1>2 DEF Caches
<1>3. CASE w.op = "make"
  <2> DEFINE c == [w EXCEPT !.pc = "walk", !.op = "open", !.cur = w.nxt, !.nxt = 0]
  <2>1. call' = [call EXCEPT ![t] = c]
    BY <1>3 DEF Link
  <2>2. c.op = "open" /\ c.pc = "walk" /\ c.cur = w.nxt
    BY <1>1 DEF Around, InodeInv, VfsTypeOK, CallRecs
  <2> HIDE DEF c
  <2>3. call'[t] = c
    BY <2>1 DEF Around, InodeInv, VfsTypeOK
  <2>4. CallKnows(t)'
    BY <1>1, <2>2, <2>3, KnowsWalk, FdCached DEF Around, Removes
  <2> QED BY <1>1, <1>5, <2>1, <2>2, <2>4, CacheGrows
<1>4. CASE w.op = "mkdir"
  <2>1. call' = [call EXCEPT ![t] = NoCall]
    BY <1>4 DEF Link
  <2>2. call'[t].pc = "idle"
    BY <2>1, NoCallOk DEF Around, InodeInv, VfsTypeOK
  <2>3. CallKnows(t)'
    BY <1>1, <2>2, KnowsIdle, FdCached DEF Around
  <2>4. NoCall.pc # "drop"
    BY NoCallOk
  <2> QED BY <1>1, <1>5, <2>1, <2>3, <2>4, CacheGrows
<1> QED BY <1>3, <1>4 DEF Link

\* The file system makes a file or a directory in a directory that is linked.
LEMMA FsMakeNames ==
  ASSUME Around, NEW t \in Callers, NEW i \in Inos, NEW o \in Objs, FsMake(t, i, o) PROVE NameInv'
<1> DEFINE w == call[t]
           c == [w EXCEPT !.pc = "link", !.nxt = o]
           nm == BaseName(w.path)
           en == <<obj[w.cur].ino, nm, i>>
<1>1. /\ call' = [call EXCEPT ![t] = c] /\ UNCHANGED <<icache, root, fd>> /\ w.pc = "fs"
      /\ FreshIno(i) /\ o \notin DOMAIN obj /\ OnDisk(w.cur, nm) = {}
      /\ dirents' = dirents \cup {en} /\ w.op \in {"make", "mkdir"}
      /\ obj' = NewInode(o, i, w.cur, nm)
      /\ dirs' = dirs \cup {i} \/ dirs' = dirs \ {i}
  BY DEF FsMake, FreshObj
<1>2. /\ c.op = w.op /\ c.pc = "link" /\ c.cur = w.cur /\ c.nxt = o /\ c.path = w.path
  BY <1>1 DEF Around, InodeInv, VfsTypeOK, CallRecs
<1>3. w.cur \in icache /\ w.cur \in DOMAIN obj /\ obj[w.cur].ino \in dirs
  BY <1>1, CurCached, Pointers DEF Around, InodeInv, NameInv, CallsKnow, CallKnows, IsDir
<1>4. InodeInv /\ InodeInv' /\ NameInv /\ Old(obj, obj')
  BY DEF Around
<1> HIDE DEF c
<1>5. call'[t] = c
  BY <1>1 DEF Around, InodeInv, VfsTypeOK
<1>6. obj'[o].name = nm /\ obj'[o].ino = i /\ obj'[w.cur] = obj[w.cur]
  BY <1>1, <1>3 DEF NewInode, With, Inode
<1>7. i \notin {1, 2} /\ \A e \in dirents : e[3] # i
  BY <1>1 DEF FreshIno
<1>8. ASSUME NEW x \in icache
      PROVE  obj[x].ino # i /\ (obj[x].ino \in {1, 2} \/ \E f \in dirents : f[3] = obj[x].ino)
  <2>1. obj[x].ino \in {1, 2} \/ <<obj[obj[x].parent].ino, obj[x].name, obj[x].ino>> \in dirents
    BY <1>1, <1>4, NotDropping, CacheEntry
  <2>2. CASE obj[x].ino \in {1, 2}
    BY <1>7, <2>2
  <2>3. CASE <<obj[obj[x].parent].ino, obj[x].name, obj[x].ino>> \in dirents
    <3> DEFINE f == <<obj[obj[x].parent].ino, obj[x].name, obj[x].ino>>
    <3>1. f[3] = obj[x].ino
      OBVIOUS
    <3> QED BY <1>7, <2>3, <3>1
  <2> QED BY <2>1, <2>2, <2>3
<1>9. \A e \in dirents : e[1] # i
  BY <1>4, <1>7 DEF NameInv, TreeInv, DiskTree, IsTree
<1>10. en[1] = obj[w.cur].ino /\ en[2] = nm /\ en[3] = i
  OBVIOUS
<1>11. \A e \in dirents : ~(e[1] = en[1] /\ e[2] = en[2])
  BY <1>1 DEF OnDisk
<1> HIDE DEF en, nm
<1>12. TreeInv'
  <2>1. ASSUME NEW e \in dirents', NEW f \in dirents', (e[1] = f[1] /\ e[2] = f[2]) \/ e[3] = f[3] PROVE e = f
    BY <1>1, <1>4, <1>7, <1>10, <1>11, <2>1 DEF NameInv, TreeInv, DiskTree, IsTree
  <2>2. ASSUME NEW e \in dirents' PROVE e[1] \in {1, 2} \/ \E f \in dirents' : f[3] = e[1]
    BY <1>1, <1>3, <1>4, <1>8, <1>10 DEF NameInv, TreeInv, DiskTree, IsTree
  <2>3. ASSUME NEW e \in dirents' PROVE e[1] \in dirs'
    BY <1>1, <1>3, <1>4, <1>8, <1>9, <1>10 DEF NameInv, TreeInv, DiskTree, IsTree
  <2>4. ASSUME NEW e \in dirents' PROVE e[3] \notin {1, 2}
    BY <1>1, <1>4, <1>7, <1>10 DEF NameInv, TreeInv
  <2> QED BY <2>1, <2>2, <2>3, <2>4 DEF TreeInv, DiskTree, IsTree
<1>13. ASSUME NEW x \in icache PROVE SameInode(obj'[x], obj[x])
  BY <1>1, <1>4, <1>13, Kept
<1>14. KeyInv'
  BY <1>1, <1>4, <1>13 DEF NameInv, KeyInv, SameInode
<1>15. RootsCached'
  BY <1>1, <1>4, <1>13 DEF NameInv, RootsCached, IsRoot, SameInode
<1>16. CacheTrue'
  <2> SUFFICES ASSUME NEW x \in icache, obj'[x].name # <<>>
               PROVE  <<obj'[obj'[x].parent].ino, obj'[x].name, obj'[x].ino>> \in dirents'
    BY <1>1 DEF CacheTrue
  <2>1. SameInode(obj'[x], obj[x]) /\ obj[x].name # <<>>
    BY <1>13 DEF SameInode
  <2>2. obj[x].parent \in icache /\ <<obj[obj[x].parent].ino, obj[x].name, obj[x].ino>> \in dirents
    BY <1>1, <1>4, <2>1, NotDropping, CacheEntry
  <2>3. SameInode(obj'[obj[x].parent], obj[obj[x].parent])
    BY <1>13, <2>2
  <2> QED BY <1>1, <2>1, <2>2, <2>3 DEF SameInode
<1>17. <<obj'[w.cur].ino, nm, obj'[o].ino>> \in dirents'
  BY <1>1, <1>6 DEF en
<1>18. CallKnows(t)'
  BY <1>1, <1>2, <1>3, <1>4, <1>5, <1>6, <1>17, FdCached DEF CallKnows, Removes, EntryOf, nm
<1>19. \A u \in Callers \ {t} : CallKnows(u)'
  <2>1. \A x \in icache : obj[x].ino \in dirs => obj[x].ino \in dirs'
    BY <1>1, <1>8
  <2>2. dirents \subseteq dirents' /\ icache \subseteq icache' /\ \A u \in Callers \ {t} : fd'[u] = fd[u]
    BY <1>1
  <2>3. NoRemover(t)
    BY <1>1, <1>4, BusyNoRemover
  <2> QED BY <1>1, <1>4, <2>1, <2>2, <2>3, OthersKnow
<1> QED BY <1>12, <1>14, <1>15, <1>16, <1>18, <1>19 DEF NameInv, CallsKnow

\* While t removes a name the others are idle and have no file open.
LEMMA OthersIdle ==
  ASSUME Around, NEW t \in Callers, NEW c, call[t].pc # "idle", Removes(t), call' = [call EXCEPT ![t] = c], fd' = fd
  PROVE  Alone(t) /\ Alone(t)' /\ \A u \in Callers \ {t} : CallKnows(u)'
<1>1. Alone(t)
  BY DEF Around, NameInv, CallsKnow, CallKnows, Alone
<1>2. \A u \in Callers \ {t} : call'[u] = call[u]
  BY DEF Around, InodeInv, VfsTypeOK
<1>3. Alone(t)'
  BY <1>1, <1>2 DEF Alone
<1>4. ASSUME NEW u \in Callers \ {t} PROVE CallKnows(u)'
  BY <1>3, KnowsIdle DEF Alone
<1> QED BY <1>1, <1>3, <1>4

\* The file system removes the entry of the inode that the call has in hand; the
\* cache forgets it in the next step.
LEMMA FsRemoveNames ==
  ASSUME Around, NEW t \in Callers, FsRemove(t) PROVE NameInv'
<1> DEFINE w == call[t]
           c == [w EXCEPT !.pc = "drop"]
           nm == BaseName(w.path)
           n == w.nxt
           en == <<obj[w.cur].ino, nm, obj[n].ino>>
<1>1. /\ call' = [call EXCEPT ![t] = c] /\ UNCHANGED <<dirs, obj, icache, root, fd>> /\ w.pc = "fs"
      /\ Removes(t) /\ dirents' = dirents \ OnDisk(w.cur, nm)
      /\ \A e \in OnDisk(w.cur, nm), f \in dirents : f[1] # e[3]
  BY DEF FsRemove, Removes
<1>2. c.op = w.op /\ c.pc = "drop" /\ c.cur = w.cur /\ c.nxt = w.nxt /\ c.path = w.path
  BY <1>1 DEF Around, InodeInv, VfsTypeOK, CallRecs
<1> HIDE DEF c
<1>3. InodeInv /\ InodeInv' /\ NameInv
  BY DEF Around
<1>4. call'[t] = c
  BY <1>1, <1>3 DEF InodeInv, VfsTypeOK
<1>5. w.cur \in icache /\ n \in icache /\ obj[n].parent = w.cur /\ obj[n].name = nm
  BY <1>1, <1>3, CurCached DEF NameInv, CallsKnow, CallKnows, Victim
<1>6. nm # <<>>
  <2>1. w.path \in Seq(Names) /\ w.path # <<>>
    BY <1>1, <1>3 DEF InodeInv, VfsTypeOK, CallRecs, PcInv, PcOk, ParentOps, Removes
  <2>2. Len(w.path) \in 1..Len(w.path)
    BY <2>1
  <2>3. nm \in Names
    BY <2>1, <2>2 DEF BaseName
  <2> QED BY <2>3, VfsAssumption
<1>7. en \in dirents
  BY <1>1, <1>3, <1>5, <1>6, NotDropping DEF NameInv, CacheTrue
<1>8. en[1] = obj[w.cur].ino /\ en[2] = nm /\ en[3] = obj[n].ino
  OBVIOUS
<1> HIDE DEF en
<1>9. OnDisk(w.cur, nm) = {en}
  BY <1>3, <1>7, <1>8 DEF OnDisk, NameInv, TreeInv, DiskTree, IsTree
<1>10. \A f \in dirents : f[1] # en[3]
  BY <1>1, <1>9
<1>11. w.cur # n
  BY <1>7, <1>8, <1>10
<1>12. dirents' = dirents \ {en}
  BY <1>1, <1>9
<1>13. TreeInv'
  <2>1. ASSUME NEW e \in dirents', NEW f \in dirents', (e[1] = f[1] /\ e[2] = f[2]) \/ e[3] = f[3] PROVE e = f
    BY <1>3, <1>12, <2>1 DEF NameInv, TreeInv, DiskTree, IsTree
  <2>2. ASSUME NEW e \in dirents' PROVE e[1] \in {1, 2} \/ \E f \in dirents' : f[3] = e[1]
    <3>1. e \in dirents /\ e[1] # en[3]
      BY <1>10, <1>12
    <3> QED BY <1>3, <1>12, <3>1 DEF NameInv, TreeInv, DiskTree, IsTree
  <2>3. ASSUME NEW e \in dirents' PROVE e[1] \in dirs' /\ e[3] \notin {1, 2}
    BY <1>1, <1>3, <1>12 DEF NameInv, TreeInv, DiskTree, IsTree
  <2> QED BY <2>1, <2>2, <2>3 DEF TreeInv, DiskTree, IsTree
<1>14. KeyInv' /\ RootsCached'
  BY <1>1, <1>3 DEF NameInv, KeyInv, RootsCached, IsRoot
<1>15. CacheTrue'
  <2> SUFFICES ASSUME NEW x \in icache, obj[x].name # <<>>, ~Dropping(x)'
               PROVE  <<obj[obj[x].parent].ino, obj[x].name, obj[x].ino>> \in dirents'
    BY <1>1 DEF CacheTrue
  <2>1. x # n
    BY <1>2, <1>4 DEF Dropping
  <2>2. obj[x].ino # obj[n].ino
    BY <1>3, <1>5, <2>1 DEF NameInv, KeyInv
  <2>3. <<obj[obj[x].parent].ino, obj[x].name, obj[x].ino>> \in dirents
    BY <1>1, <1>3, NotDropping DEF NameInv, CacheTrue
  <2>4. <<obj[obj[x].parent].ino, obj[x].name, obj[x].ino>> # en
    BY <2>2 DEF en
  <2> QED BY <1>12, <2>3, <2>4
<1>16. Alone(t)' /\ \A u \in Callers \ {t} : CallKnows(u)'
  BY <1>1, OthersIdle
<1>17. Removes(t)' /\ Victim(t)'
  BY <1>1, <1>2, <1>4, <1>5 DEF Removes, Victim
<1>18. \A f \in dirents' : f[1] # obj'[n].ino
  BY <1>1, <1>8, <1>10, <1>12
<1>19. CallKnows(t)'
  <2>1. /\ call'[t].pc = "drop" /\ call'[t].cur = w.cur /\ call'[t].nxt = n /\ fd'[t] = 0 /\ w.cur \in icache'
    BY <1>1, <1>2, <1>4, <1>5, <1>16 DEF Alone
  <2> QED BY <1>11, <1>16, <1>17, <1>18, <2>1 DEF CallKnows, Alone
<1> QED BY <1>13, <1>14, <1>15, <1>16, <1>19 DEF NameInv, CallsKnow

\* The removed inode leaves the cache; nothing below it is there.
LEMMA DropNames ==
  ASSUME Around, NEW t \in Callers, Drop(t) PROVE NameInv'
<1> DEFINE w == call[t]
           n == w.nxt
<1>1. /\ call' = [call EXCEPT ![t] = NoCall] /\ UNCHANGED <<dirents, dirs, root, fd>> /\ w.pc = "drop"
      /\ icache' = icache \ {n}
  BY DEF Drop
<1>2. InodeInv /\ InodeInv' /\ NameInv /\ Old(obj, obj')
  BY DEF Around
<1>3. /\ Removes(t) /\ n \in icache /\ obj[n].name = BaseName(w.path)
      /\ \A f \in dirents : f[1] # obj[n].ino
  BY <1>1, <1>2 DEF NameInv, CallsKnow, CallKnows, Victim
<1>4. obj[n].name # <<>>
  <2>1. w.path \in Seq(Names) /\ w.path # <<>>
    BY <1>1, <1>2, <1>3 DEF InodeInv, VfsTypeOK, CallRecs, PcInv, PcOk, ParentOps, Removes
  <2>2. Len(w.path) \in 1..Len(w.path)
    BY <2>1
  <2>3. obj[n].name \in Names
    BY <1>3, <2>1, <2>2 DEF BaseName
  <2> QED BY <2>3, VfsAssumption
<1>5. Alone(t) /\ Alone(t)' /\ \A u \in Callers \ {t} : CallKnows(u)'
  BY <1>1, <1>3, OthersIdle
<1>6. CallKnows(t)'
  <2>1. call'[t].pc = "idle" /\ fd'[t] = 0
    BY <1>1, <1>2, <1>5, NoCallOk DEF InodeInv, VfsTypeOK, Alone
  <2> QED BY <2>1, KnowsIdle
<1>7. ASSUME NEW x \in icache' PROVE SameInode(obj'[x], obj[x]) /\ x \in icache /\ x # n /\ ~Dropping(x)
  <2>1. x \in icache /\ x # n
    BY <1>1
  <2>2. SameInode(obj'[x], obj[x])
    BY <1>2, <2>1, Kept
  <2>3. ~Dropping(x)
    BY <1>1, <1>5, <2>1 DEF Dropping, Alone
  <2> QED BY <2>1, <2>2, <2>3
<1>8. ASSUME NEW x \in icache', obj[x].name # <<>>
      PROVE  /\ <<obj[obj[x].parent].ino, obj[x].name, obj[x].ino>> \in dirents
             /\ obj[x].parent \in icache'
  <2>1. /\ <<obj[obj[x].parent].ino, obj[x].name, obj[x].ino>> \in dirents
        /\ obj[x].parent \in icache
    BY <1>2, <1>7, <1>8, CacheEntry
  <2>2. <<obj[obj[x].parent].ino, obj[x].name, obj[x].ino>>[1] # obj[n].ino
    BY <1>3, <2>1
  <2>3. obj[x].parent # n
    BY <2>2
  <2> QED BY <1>1, <2>1, <2>3
<1>9. KeyInv'
  <2>1. ASSUME NEW x \in icache', NEW y \in icache' PROVE
           /\ obj'[x].parent = obj'[y].parent /\ obj'[x].name = obj'[y].name => x = y
           /\ obj'[x].ino = obj'[y].ino => x = y
    BY <1>2, <1>7 DEF NameInv, KeyInv, SameInode
  <2>2. ASSUME NEW x \in icache', obj'[x].name # <<>> PROVE obj'[x].parent \in icache'
    BY <1>7, <1>8, <2>2 DEF SameInode
  <2> QED BY <2>1, <2>2 DEF KeyInv
<1>10. RootsCached'
  <2>1. root' = root
    BY <1>1
  <2>2. root[1] # n /\ (root[2] # 0 => root[2] # n)
    BY <1>2, <1>4 DEF NameInv, RootsCached, IsRoot
  <2> QED BY <1>1, <1>2, <1>7, <2>1, <2>2 DEF NameInv, RootsCached, IsRoot, SameInode
<1>11. TreeInv'
  BY <1>1, <1>2 DEF NameInv, TreeInv, DiskTree
<1>12. CacheTrue'
  <2> SUFFICES ASSUME NEW x \in icache', obj'[x].name # <<>>
               PROVE  <<obj'[obj'[x].parent].ino, obj'[x].name, obj'[x].ino>> \in dirents
    BY <1>1 DEF CacheTrue
  <2>1. SameInode(obj'[x], obj[x]) /\ obj[x].name # <<>>
    BY <1>7 DEF SameInode
  <2>2. obj[x].parent \in icache' /\ <<obj[obj[x].parent].ino, obj[x].name, obj[x].ino>> \in dirents
    BY <1>8, <2>1
  <2>3. SameInode(obj'[obj[x].parent], obj[obj[x].parent])
    BY <1>7, <2>2
  <2> QED BY <2>1, <2>2, <2>3 DEF SameInode
<1> QED BY <1>5, <1>6, <1>9, <1>10, <1>11, <1>12 DEF NameInv, CallsKnow

\* While no call runs all that a caller knows is that its open file is cached.
LEMMA IdleKnow ==
  ASSUME \A t \in Callers : call'[t].pc = "idle" /\ (fd'[t] # 0 => fd'[t] \in icache') PROVE CallsKnow'
BY KnowsIdle DEF CallsKnow

\* The root of the second disk enters the cache.
LEMMA MountNames ==
  ASSUME InodeInv, NameInv, NEW p \in Targets, NEW o \in Objs, vfs_mount(p, o) PROVE NameInv'
<1>1. InodeInv' /\ Old(obj, obj') /\ DOMAIN obj' = DOMAIN obj \cup {o} /\ o \notin DOMAIN obj
  BY MountInv
<1>2. /\ mounted = {} /\ icache' = icache \cup {o} /\ UNCHANGED <<dirents, dirs, call, fd>>
      /\ (\A t \in Callers : call[t].pc = "idle") /\ root' = [root EXCEPT ![2] = o]
  BY DEF vfs_mount
<1>3. obj'[o].ino = 2 /\ obj'[o].sb = 2 /\ obj'[o].parent = 1 /\ obj'[o].name = <<>>
  BY DEF vfs_mount, With, Inode
<1>4. root[1] = 1 /\ root[2] = 0 /\ root'[1] = 1 /\ root'[2] = o
  BY <1>2 DEF InodeInv, RootInv, VfsTypeOK
<1>5. icache \subseteq DOMAIN obj /\ 0 \notin icache
  BY Pointers DEF InodeInv, VfsTypeOK, Objs
<1>6. ASSUME NEW x \in icache PROVE SameInode(obj'[x], obj[x]) /\ x # o /\ ~Dropping(x)
  BY <1>1, <1>2, <1>5 DEF Old, Dropping
<1>7. ASSUME NEW x \in icache PROVE ~(obj[x].parent = 1 /\ obj[x].name = <<>>) /\ obj[x].ino # 2
  <2>1. CASE obj[x].name = <<>>
    BY <1>4, <1>5, <2>1 DEF NameInv, RootsCached, IsRoot
  <2>2. CASE obj[x].name # <<>>
    <3>1. <<obj[obj[x].parent].ino, obj[x].name, obj[x].ino>> \in dirents
      BY <1>6, <2>2, CacheEntry
    <3>2. <<obj[obj[x].parent].ino, obj[x].name, obj[x].ino>>[3] # 2
      BY <3>1 DEF NameInv, TreeInv
    <3> QED BY <2>2, <3>2
  <2> QED BY <2>1, <2>2
<1>8. KeyInv'
  <2>1. ASSUME NEW x \in icache', NEW y \in icache' PROVE
           /\ obj'[x].parent = obj'[y].parent /\ obj'[x].name = obj'[y].name => x = y
           /\ obj'[x].ino = obj'[y].ino => x = y
    <3>1. CASE x \in icache /\ y \in icache
      BY <1>6, <3>1 DEF NameInv, KeyInv, SameInode
    <3>2. CASE x = o \/ y = o
      BY <1>2, <1>3, <1>6, <1>7, <3>2 DEF SameInode
    <3> QED BY <1>2, <3>1, <3>2
  <2>2. ASSUME NEW x \in icache', obj'[x].name # <<>> PROVE obj'[x].parent \in icache'
    BY <1>2, <1>3, <1>6, <2>2 DEF NameInv, KeyInv, SameInode
  <2> QED BY <2>1, <2>2 DEF KeyInv
<1>9. RootsCached'
  BY <1>2, <1>3, <1>4, <1>5, <1>6 DEF NameInv, RootsCached, IsRoot, SameInode
<1>10. TreeInv'
  BY <1>2 DEF NameInv, TreeInv, DiskTree
<1>11. CacheTrue'
  <2> SUFFICES ASSUME NEW x \in icache', obj'[x].name # <<>>
               PROVE  <<obj'[obj'[x].parent].ino, obj'[x].name, obj'[x].ino>> \in dirents
    BY <1>2 DEF CacheTrue
  <2>1. x \in icache /\ SameInode(obj'[x], obj[x]) /\ obj[x].name # <<>>
    BY <1>2, <1>3, <1>6 DEF SameInode
  <2>2. obj[x].parent \in icache /\ <<obj[obj[x].parent].ino, obj[x].name, obj[x].ino>> \in dirents
    BY <1>6, <2>1, CacheEntry
  <2>3. SameInode(obj'[obj[x].parent], obj[obj[x].parent])
    BY <1>6, <2>2
  <2> QED BY <2>1, <2>2, <2>3 DEF SameInode
<1>12. CallsKnow'
  BY <1>2, FdCached, IdleKnow
<1> QED BY <1>8, <1>9, <1>10, <1>11, <1>12 DEF NameInv

\* The inodes of the second disk leave the cache, with all that is below them.
LEMMA UmountNames ==
  ASSUME InodeInv, DiskInv, NameInv, vfs_umount, \A t \in Callers : call[t].pc = "idle" PROVE NameInv'
<1>1. InodeInv' /\ Old(obj, obj')
  BY UmountInv DEF Down, Old
<1>2. /\ icache' = {x \in icache : obj[x].sb # 2} /\ UNCHANGED <<dirents, dirs, call, fd>>
      /\ root' = [root EXCEPT ![2] = 0] /\ ~Busy
  BY DEF vfs_umount
<1>3. root'[1] = root[1] /\ root'[2] = 0 /\ 0 \notin icache
  BY <1>2 DEF InodeInv, VfsTypeOK, Objs
<1>4. ASSUME NEW x \in icache' PROVE SameInode(obj'[x], obj[x]) /\ x \in icache /\ obj[x].sb # 2 /\ ~Dropping(x)
  <2>1. x \in icache /\ obj[x].sb # 2
    BY <1>2
  <2>2. SameInode(obj'[x], obj[x])
    BY <1>1, <2>1, Kept
  <2> QED BY <2>1, <2>2 DEF Dropping
<1>5. ASSUME NEW x \in icache', obj[x].name # <<>>
      PROVE  /\ <<obj[obj[x].parent].ino, obj[x].name, obj[x].ino>> \in dirents
             /\ obj[x].parent \in icache'
  <2>1. /\ <<obj[obj[x].parent].ino, obj[x].name, obj[x].ino>> \in dirents
        /\ obj[x].parent \in icache
    BY <1>4, <1>5, CacheEntry
  <2> QED BY <1>2, <1>3, <1>4, <2>1 DEF DiskInv
<1>6. KeyInv'
  <2>1. ASSUME NEW x \in icache', NEW y \in icache' PROVE
           /\ obj'[x].parent = obj'[y].parent /\ obj'[x].name = obj'[y].name => x = y
           /\ obj'[x].ino = obj'[y].ino => x = y
    BY <1>4 DEF NameInv, KeyInv, SameInode
  <2>2. ASSUME NEW x \in icache', obj'[x].name # <<>> PROVE obj'[x].parent \in icache'
    BY <1>4, <1>5, <2>2 DEF SameInode
  <2> QED BY <2>1, <2>2 DEF KeyInv
<1>7. RootsCached'
  <2>1. root[1] \in icache'
    BY <1>2 DEF NameInv, RootsCached, IsRoot
  <2>2. IsRoot(1)' /\ obj'[root'[1]].parent = 0
    BY <1>3, <1>4, <2>1 DEF NameInv, RootsCached, IsRoot, SameInode
  <2>3. ASSUME NEW x \in icache', obj'[x].name = <<>> PROVE x = root'[1]
    BY <1>3, <1>4, <2>3 DEF NameInv, RootsCached, IsRoot, SameInode
  <2> QED BY <1>3, <2>2, <2>3 DEF RootsCached
<1>8. TreeInv'
  BY <1>2 DEF NameInv, TreeInv, DiskTree
<1>9. CacheTrue'
  <2> SUFFICES ASSUME NEW x \in icache', obj'[x].name # <<>>
               PROVE  <<obj'[obj'[x].parent].ino, obj'[x].name, obj'[x].ino>> \in dirents
    BY <1>2 DEF CacheTrue
  <2>1. SameInode(obj'[x], obj[x]) /\ obj[x].name # <<>>
    BY <1>4 DEF SameInode
  <2>2. obj[x].parent \in icache' /\ <<obj[obj[x].parent].ino, obj[x].name, obj[x].ino>> \in dirents
    BY <1>5, <2>1
  <2>3. SameInode(obj'[obj[x].parent], obj[obj[x].parent])
    BY <1>4, <2>2
  <2> QED BY <2>1, <2>2, <2>3 DEF SameInode
<1>10. CallsKnow'
  <2>1. ASSUME NEW t \in Callers PROVE call'[t].pc = "idle" /\ (fd'[t] # 0 => fd'[t] \in icache')
    BY <1>2, FdCached DEF Busy
  <2> QED BY <2>1, IdleKnow
<1> QED BY <1>6, <1>7, <1>8, <1>9, <1>10 DEF NameInv

\* At boot the root is cached and nothing else is.
LEMMA InitNames == ASSUME VfsInit PROVE NameInv
<1>1. /\ icache = {1} /\ root[1] = 1 /\ root[2] = 0
      /\ \A t \in Callers : call[t] = NoCall /\ fd[t] = 0
  BY DEF VfsInit
<1>2. obj[1].ino = 1 /\ obj[1].sb = 1 /\ obj[1].parent = 0 /\ obj[1].name = <<>>
  BY DEF VfsInit, Inode
<1>3. TreeInv
  <2>1. PICK im \in Images : dirents = im.entries /\ dirs = im.dirs \cup {1, 2}
    BY DEF VfsInit
  <2>2. im.entries \subseteq Nat \X Names \X (Nat \ {1, 2}) /\ IsTree(im.entries, im.dirs \cup {1, 2})
    BY VfsAssumption
  <2> QED BY <2>1, <2>2 DEF TreeInv, DiskTree
<1>4. CacheTrue /\ KeyInv /\ RootsCached
  BY <1>1, <1>2 DEF CacheTrue, KeyInv, RootsCached, IsRoot
<1>5. CallsKnow
  BY <1>1, NoCallOk DEF CallsKnow, CallKnows
<1> QED BY <1>3, <1>4, <1>5 DEF NameInv

\* Every step of a caller preserves the invariant of the name space, if unlink()
\* and rmdir() are not called while another call runs or a file is open.
LEMMA CallerNames ==
  ASSUME Around, {"unlink", "rmdir"} \subseteq Quiet, NEW t \in Callers, VfsStep(t)
  PROVE  NameInv'
<1>1. ASSUME NEW f \in VfsOps, NEW p \in Paths, BeginCall(t, f, p) PROVE NameInv'
  BY <1>1, BeginNames
<1>2. ASSUME NEW o \in icache, WalkHit(t, o) PROVE NameInv'
  BY <1>2, WalkHitNames
<1>3. CASE WalkMiss(t)
  BY <1>3, WalkMissNames
<1>4. ASSUME NEW o \in Objs, WalkFill(t, o) PROVE NameInv'
  BY <1>4, WalkFillNames
<1>5. CASE WalkNotFound(t) \/ WalkInsertLost(t)
  BY <1>5, WalkNotFoundNames, WalkInsertLostNames
<1>6. CASE WalkInsert(t)
  BY <1>6, WalkInsertNames
<1>7. CASE OpenFound(t)
  BY <1>7, OpenFoundNames
<1>8. CASE set_cwd(t)
  BY <1>8, SetCwdNames
<1>9. CASE ParentNotDir(t)
  BY <1>9, ParentNotDirNames
<1>10. CASE MetaLock(t)
  BY <1>10, MetaLockNames
<1>11. ASSUME NEW i \in Inos, NEW o \in Objs, FsMake(t, i, o) PROVE NameInv'
  BY <1>11, FsMakeNames
<1>12. CASE FsFails(t)
  BY <1>12, FsFailsNames
<1>13. CASE Link(t) \/ LinkLost(t)
  BY <1>13, LinkNames, LinkLostNames
<1>14. CASE FsRemove(t)
  BY <1>14, FsRemoveNames
<1>15. CASE Drop(t)
  BY <1>15, DropNames
<1>16. CASE CloseFd(t)
  BY <1>16, CloseFdNames
<1> QED BY <1>1, <1>2, <1>3, <1>4, <1>5, <1>6, <1>7, <1>8, <1>9, <1>10, <1>11, <1>12,
           <1>13, <1>14, <1>15, <1>16 DEF VfsStep

\* If umount(), unlink() and rmdir() are only called while no other call runs,
\* and the last two while no file is open, the cached names are those of the
\* disks, the disks stay trees, and two tasks that have the same file open share
\* its inode: walks that race with each other and with create() and mkdir() never
\* make two inodes of one file.
THEOREM NamesSoundHolds ==
  ASSUME {"unlink", "rmdir", "umount"} \subseteq Quiet PROVE VfsSpec => []NamesSound
<1>1. VfsInit => NameInv
  BY InitNames
<1>2. InodeInv /\ InodeInv' /\ DiskInv /\ NameInv /\ [VfsNext]_vfsVars => NameInv'
  <2> SUFFICES ASSUME InodeInv, InodeInv', DiskInv, NameInv, [VfsNext]_vfsVars PROVE NameInv'
    OBVIOUS
  <2>1. ASSUME NEW t \in Callers, VfsStep(t) PROVE NameInv'
    BY <2>1, CallerInv, CallerNames DEF Around, Calm
  <2>2. ASSUME NEW p \in Targets, NEW o \in Objs, vfs_mount(p, o) PROVE NameInv'
    BY <2>2, MountNames
  <2>3. CASE vfs_umount
    BY <2>3, UmountNames DEF vfs_umount
  <2>4. CASE CallsDone \/ UNCHANGED vfsVars
    <3>1. UNCHANGED <<dirents, dirs, obj, icache, root, call, fd>>
      BY <2>4 DEF CallsDone, vfsVars
    <3>2. CacheTrue' /\ TreeInv' /\ KeyInv' /\ RootsCached'
      BY <3>1 DEF NameInv, CacheTrue, Dropping, TreeInv, DiskTree, KeyInv, RootsCached, IsRoot
    <3>3. CallsKnow'
      BY <3>1 DEF NameInv, CallsKnow, CallKnows, Removes, EntryOf, IsDir, Victim
    <3> QED BY <3>2, <3>3 DEF NameInv
  <2> QED BY <2>1, <2>2, <2>3, <2>4 DEF VfsNext
<1>3. VfsSpec => []DiskInv
  BY DiskInvariant
<1>4. VfsSpec => []NameInv
  BY <1>1, <1>2, <1>3, InodeInvariant, PTL DEF VfsSpec
<1>5. NameInv => NamesSound
  BY FdCached DEF NameInv, KeyInv, TreeInv, NamesSound, SharedInode
<1> QED BY <1>4, <1>5, PTL
=============================================================================
