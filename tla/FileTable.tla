----------------------------- MODULE FileTable ------------------------------
(***************************************************************************)
(* Open files (fs/vfs.c): one struct file, the descriptors of the tasks    *)
(* that refer to it, and its reference count, which is protected by the    *)
(* sleep lock file->slk of module Sleeplock.  A system call takes a        *)
(* reference with fd_get(), works on the file and gives the reference back *)
(* with file_put(); dup and fork add references, close and exit drop them, *)
(* and the last file_put() frees the object.                               *)
(*                                                                         *)
(* fd_get(), fd_alloc(), exit_fs() and kfork() call file_get()/file_put()  *)
(* while they hold the spinlock of a task.  When file->slk is taken at     *)
(* that moment the kernel panics, in acquire() or in sched(): the machine  *)
(* stops.                                                                  *)
(***************************************************************************)
EXTENDS Sleeplock

CONSTANTS First,   \* the task that has the file open at the start
          MaxFd    \* bound: descriptors of one task for the file

ASSUME FirstAssumption == First \in Tasks
ASSUME MaxFdAssumption == MaxFd \in Nat \ {0}

VARIABLES
  ofile,      \* how many entries of ts->ofile refer to the file
  op,         \* the file operation a task is in
  left,       \* kfork(): entries of ofile still to visit
  refcount,
  last,       \* the task whose file_put() has set destroy, or None
  freed,      \* slab_free(file) was called
  panicked

fileVars == <<ofile, op, left, refcount, last, freed, panicked>>
fvars == <<vars, fileVars>>

\* The operations that take file->slk with the spinlock of a task held.
UnderLk == {"fd_get", "fd_alloc", "exit_fs", "kfork"}

\* Those that call file_get(), and those that call file_put().
Getters == {"fd_get", "fd_alloc", "kfork"}
Putters == {"file_put", "exit_fs"}

\* vfs_open() has left First with one descriptor.  The other tasks are
\* slots that kfork() may take.
FInit ==
  /\ state = [t \in Tasks |-> IF t = First THEN "RUNNABLE" ELSE "INITLIZED"]
  /\ sleep_chan = [t \in Tasks |-> 0]
  /\ lk = [t \in Tasks |-> None]
  /\ ctx = [t \in Tasks |-> "off"]
  /\ pc = [t \in Tasks |-> "idle"]
  /\ spinlock = None /\ locked = FALSE /\ holder = None /\ wait_queue = <<>>
  /\ ofile = [t \in Tasks |-> IF t = First THEN 1 ELSE 0]
  /\ op = [t \in Tasks |-> "none"]
  /\ left = [t \in Tasks |-> 0]
  /\ refcount = 1 /\ last = None /\ freed = FALSE /\ panicked = FALSE

\* Task t is between two calls of the sleep lock, in operation o.
In(t, o) == Executes(t, "idle") /\ op[t] = o

SetOp(t, o) == op' = [op EXCEPT ![t] = o]
Sleeping == <<state, sleep_chan, ctx, spinlock, slkVars>>

-----------------------------------------------------------------------------
(* fd_get() and what follows it in the system calls                         *)

\* Takes ts->lk and enters file_get().
FdGet(t) ==
  /\ In(t, "none") /\ ofile[t] > 0 /\ Free(t)
  /\ lk' = [lk EXCEPT ![t] = t]
  /\ Goto(t, "acq") /\ SetOp(t, "fd_get")
  /\ UNCHANGED <<Sleeping, ofile, left, refcount, last, freed, panicked>>

\* fd_get() and fd_alloc() release ts->lk.
FdRet(t) ==
  /\ \/ In(t, "fd_get") /\ SetOp(t, "got")
     \/ In(t, "fd_alloc") /\ SetOp(t, "used")
  /\ lk' = [lk EXCEPT ![t] = None]
  /\ UNCHANGED <<Sleeping, pc, ofile, left, refcount, last, freed, panicked>>

\* vfs_read(), vfs_write(), vfs_seek(), vfs_readdir()
VfsIo(t) ==
  /\ In(t, "got") \/ In(t, "used")
  /\ Ask(t) /\ SetOp(t, "used")
  /\ UNCHANGED <<ofile, left, refcount, last, freed, panicked>>

\* fd_alloc() for vfs_dup(): the entry is set, then file_get() is called.
FdAlloc(t) ==
  /\ In(t, "got") /\ ofile[t] < MaxFd /\ Free(t)
  /\ lk' = [lk EXCEPT ![t] = t]
  /\ ofile' = [ofile EXCEPT ![t] = @ + 1]
  /\ Goto(t, "acq") /\ SetOp(t, "fd_alloc")
  /\ UNCHANGED <<Sleeping, left, refcount, last, freed, panicked>>

\* The system call gives its reference back.
FilePut(t) ==
  /\ In(t, "got") \/ In(t, "used")
  /\ Ask(t) /\ SetOp(t, "file_put")
  /\ UNCHANGED <<ofile, left, refcount, last, freed, panicked>>

\* fd_close(): the entry is cleared under ts->lk, file_put() comes after.
FdClose(t) ==
  /\ In(t, "none") /\ ofile[t] > 0 /\ Free(t)
  /\ ofile' = [ofile EXCEPT ![t] = @ - 1]
  /\ Ask(t) /\ SetOp(t, "file_put")
  /\ UNCHANGED <<left, refcount, last, freed, panicked>>

\* After release_sleep(): file_put() destroys the file if it was the last.
Destroy(t) ==
  /\ freed' = (freed \/ last = t)
  /\ last' = IF last = t THEN None ELSE last

PutRet(t) ==
  /\ In(t, "file_put")
  /\ Destroy(t)
  /\ SetOp(t, "none")
  /\ UNCHANGED <<vars, ofile, left, refcount, panicked>>

-----------------------------------------------------------------------------
(* kfork() and exit_fs()                                                    *)

\* alloc_task() has returned a slot with its lock held.
KFork(t, u) ==
  /\ In(t, "none") /\ state[u] = "INITLIZED" /\ Free(u)
  /\ state' = [state EXCEPT ![u] = "USED"]
  /\ lk' = [lk EXCEPT ![u] = t]
  /\ SetOp(t, "kfork")
  /\ left' = [left EXCEPT ![t] = ofile[t]]
  /\ UNCHANGED <<sleep_chan, ctx, pc, spinlock, slkVars, ofile, refcount, last,
                 freed, panicked>>

KForkGet(t) ==
  /\ In(t, "kfork") /\ left[t] > 0
  /\ left' = [left EXCEPT ![t] = @ - 1]
  /\ Goto(t, "acq")
  /\ UNCHANGED <<Sleeping, lk, ofile, op, refcount, last, freed, panicked>>

KForkRet(t, u) ==
  /\ In(t, "kfork") /\ left[t] = 0 /\ lk[u] = t
  /\ state' = [state EXCEPT ![u] = "RUNNABLE"]
  /\ lk' = [lk EXCEPT ![u] = None]
  /\ ofile' = [ofile EXCEPT ![u] = ofile[t]]
  /\ SetOp(t, "none")
  /\ UNCHANGED <<sleep_chan, ctx, pc, spinlock, slkVars, left, refcount, last,
                 freed, panicked>>

\* kexit() takes ts->lk and calls exit_fs().
ExitFs(t) ==
  /\ In(t, "none") /\ Free(t)
  /\ lk' = [lk EXCEPT ![t] = t]
  /\ SetOp(t, "exit_fs")
  /\ UNCHANGED <<Sleeping, pc, ofile, left, refcount, last, freed, panicked>>

\* The end of the file_put() of one entry, then the next entry: cleared,
\* then file_put().
ExitPut(t) ==
  /\ In(t, "exit_fs") /\ ofile[t] > 0
  /\ Destroy(t)
  /\ ofile' = [ofile EXCEPT ![t] = @ - 1]
  /\ Goto(t, "acq")
  /\ UNCHANGED <<Sleeping, lk, op, left, refcount, panicked>>

\* The rest of kexit(): the task leaves its hart for good.
ExitRet(t) ==
  /\ In(t, "exit_fs") /\ ofile[t] = 0
  /\ Destroy(t)
  /\ lk' = [lk EXCEPT ![t] = None]
  /\ state' = [state EXCEPT ![t] = "ZOMBIE"]
  /\ ctx' = [ctx EXCEPT ![t] = "off"]
  /\ SetOp(t, "none")
  /\ UNCHANGED <<sleep_chan, pc, spinlock, slkVars, ofile, left, refcount, panicked>>

-----------------------------------------------------------------------------
(* Under file->slk                                                          *)

\* Mutant: kfork() shares the file without file_get().
AddedNotByFork(t) == op[t] \in Getters \ {"kfork"}

\* file_get() adds a reference.
Added(t) == op[t] \in Getters

\* file_put() dropped the last reference.
IsLast(t) == op[t] \in Putters /\ refcount <= 1

\* file_get() and file_put() change the count, then release_sleep().
Count(t) ==
  /\ RelSpin(t)
  /\ refcount' = CASE Added(t) -> refcount + 1
                   [] op[t] \in Putters /\ refcount > 0 -> refcount - 1
                   [] OTHER -> refcount
  /\ last' = IF IsLast(t) THEN t ELSE last
  /\ UNCHANGED <<ofile, op, left, freed, panicked>>

\* acquire(&ts->lk) of a lock the hart holds, or sched() with two locks.
Panic(t) ==
  /\ Executes(t, "test") /\ locked /\ op[t] \in UnderLk
  /\ panicked' = TRUE
  /\ UNCHANGED <<vars, ofile, op, left, refcount, last, freed>>

\* The steps of Sleeplock that the file operations do not touch.  A timer
\* interrupt finds a task only when it holds no spinlock.
LockStep(t) ==
  /\ \/ Switch(t)
     \/ Yield(t) /\ op[t] # "kfork"
     \/ AcqSpin(t) \/ AcqGet(t)
     \/ AcqSleep(t) /\ op[t] \notin UnderLk
     \/ RelDrop(t, "wake1") \/ RelWake(t) \/ RelEmpty(t) \/ RelDone(t)
  /\ UNCHANGED fileVars

FileStep(t) ==
  \/ FdGet(t) \/ FdRet(t) \/ VfsIo(t) \/ FdAlloc(t) \/ FilePut(t)
  \/ FdClose(t) \/ PutRet(t)
  \/ \E u \in Tasks : KFork(t, u) \/ KForkRet(t, u)
  \/ KForkGet(t) \/ ExitFs(t) \/ ExitPut(t) \/ ExitRet(t)
  \/ Count(t) \/ Panic(t)

FNext == ~panicked /\ \E t \in Tasks : LockStep(t) \/ FileStep(t)

FSpec == FInit /\ [][FNext]_fvars
-----------------------------------------------------------------------------
(* Properties                                                               *)

\* A descriptor refers to the file, a system call has a reference, or the
\* task is inside acquire_sleep() or release_sleep() of file->slk.
InUse(t) == \/ ofile[t] > 0
            \/ op[t] \in {"fd_get", "got", "used", "fd_alloc"}
            \/ pc[t] # "idle"

\* The object, with the lock in it, is freed only when no task uses it,
\* whatever closes, exits, forks and reads run at the same time.
NoUseAfterFree == freed => \A t \in Tasks : ~InUse(t)

\* The entries of all the tasks' ofile that refer to the file.
Descriptors == {d \in Tasks \X (1..MaxFd) : d[2] <= ofile[d[1]]}

\* When no operation is under way the count is the number of descriptors,
\* and the object is freed exactly when there are none.
CountExact ==
  (\A t \in Tasks : op[t] = "none") =>
    refcount = Cardinality(Descriptors) /\ (freed <=> refcount = 0)

\* "Taking ts->lk first and slk->spinlock after it is forbidden everywhere"
\* (include/kernel/sleeplock.h): so acquire() does not panic when two tasks
\* that share a file use it at the same time.
NoPanic == ~panicked

\* Task t is about to take ts->lk, which it holds already: acquire() panics.
OwnLkAgain(t) == Executes(t, "test") /\ locked /\ lk[t] = t /\ op[t] \in UnderLk

\* Although four callers take a task's lock first and slk->spinlock after it,
\* no set of harts spins in a cycle for ever: where a cycle closes, one of
\* these callers is at the acquire() that panics.
NoSilentDeadlock ==
  \A S \in (SUBSET Tasks) \ {{}} :
    (\A t \in S : WaitsFor(t) \in S) => \E t \in S : OwnLkAgain(t)

\* The panics of the owner tests never fire for file->slk, and its callers,
\* those with the lock of a task included, do not deadlock unnoticed.
LockSafe == OwnerTests /\ NoSilentDeadlock

\* file_get() and file_put() keep the object as long as, and no longer than, it is used.
FileSound == NoUseAfterFree /\ CountExact
=============================================================================
