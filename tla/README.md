# A TLA+ model of the loeux RISC-V kernel

loeux is a small multi-hart kernel in C (`kernel/`, `mm/`, `fs/`, `drivers/`,
`utils/`) with a user land (`user/`). This directory holds TLA+ modules
translated from its source, TLC configurations that check them on small
instances, and proofs that TLAPS checks for every instance. `PROJECT.json` maps
each definition to the lines it models and lists the runs, the mutants that show
that each property can fail, the hazards the properties are aimed at, and the
theorems.

## The system

| part | state | operations | interacts with |
|---|---|---|---|
| process layer `kernel/proc.c`, `asm/switch.S` | `tasks[NTASKS]` with one spinlock each, `pid_counter`, per-hart `struct cpu` | `scheduler`, `sched`, `yield`, `alloc_task`, `kfork`, `waitpid`, `kexit`, `to_kill`, `kexec` | everything |
| spinlocks `kernel/spinlock.c` | `val`, `holder`, per-hart `noff`, `intena` | `acquire`, `release`, `push_off`, `pop_off` | interrupts |
| sleep locks `kernel/sleeplock.c` | `locked`, `holder`, queue of waiting tasks, inner spinlock | `acquire_sleep`, `release_sleep`, `release_sleep_all` | task states and `ts->lk` |
| traps, timer `kernel/trap.c`, `kernel/timer.c` | `sys_timer_tick`, saved `sepc`/`sstatus` | timer tick, `yield` from an interrupt, exceptions that kill | process layer |
| memory `mm/memory.c`, `mm/slab.c` | free list of pages, slabs, pool of slab descriptors | `alloc_page`, `free_page`, `slab_alloc`, `slab_free` | all allocations |
| address spaces `mm/vm.c`, `kexec` | page tables, heap bounds | map, unmap, copy for fork, lazy fault, load a program | process layer |
| VFS `fs/vfs.c`, `utils/hashmap.c` | mounts, inode cache, open files, descriptors | lookup, create, unlink, open, read, close, mount, umount | sleep locks, file systems |
| ext2, fat32 `fs/` | superblock, bitmaps, inodes, directories, block cache | the VFS operations | block driver |
| drivers `drivers/` | virtqueues, key buffer, tty lines, screen | request and poll, interrupt, line input | VFS, traps |
| user land `user/` | init, shell, stdio, malloc, lcc, vim, tools | system calls | kernel |

What is hard here: several harts execute the same table of tasks; a task's lock
is taken on one side of a context switch and released on the other; a scan over
the table holds one lock at a time; a wake-up may come before the sleep it is
for; objects are shared through fork and freed by the last user; documented lock
orders cross module borders. Each such place is a hazard in `PROJECT.json`, with
its line and the properties that would catch it going wrong.

## Modules

| module | models | extends |
|---|---|---|
| `Proc` | scheduler, context switch, yield, fork, waitpid, exit, kill | |
| `ProcInv`, `ProcProofs` | the inductive invariant of `Proc`; its proof and the theorems, and those of `UserPath` | `Proc`, `UserPath` |
| `UserLand` | `init.c` and `lsh.c` as users of the process layer | `Proc` |
| `SleepMutex` | what a sleep lock promises: an abstract mutex | |
| `Sleeplock` | `sleeplock.c` with the scheduler and the other kind of sleep | instantiates `SleepMutex` |
| `SleeplockInv` | its inductive invariant | `Sleeplock` |
| `FileTable` | one open file shared by several tasks | `Sleeplock` |
| `Vfs` | path walks, inode cache, create, remove, mount | |
| `VfsProofs` | proofs about the sleep lock, the open file and the inode cache | `FileTable`, `SleeplockInv`, `Vfs` |
| `HashMap` | `utils/hashmap.c`, behind the inode and block caches | |
| `Ext2`, `Ext2Cache` | ext2 on its disk; its write-back block cache | |
| `Ext2Proofs` | proofs about ext2 on its disk | `Ext2` |
| `CacheProofs` | proofs about the hash table, the block cache and the time stamps | `HashMap`, `Ext2Cache`, `FatTime` |
| `Fat32`, `FatTime` | fat32 on its disk; its time stamps | |
| `PageAlloc` | `alloc_page()`, `free_page()` | |
| `Slab` | `slab_alloc()`, `slab_free()` and the descriptor pool | |
| `AddressSpace` | user page tables, exec, fork, exit, sbrk, faults | |
| `MemoryProofs` | proofs about pages and address spaces | `PageAlloc`, `AddressSpace` |
| `VirtioDisk` | the block driver and its device | |
| `Virtqueue` | `virtqueue_send()` with its timeout | |
| `Keyboard`, `Tty`, `Screen` | the console: keys, lines, cells on the screen | |
| `VirtioProofs` | proofs about both drivers and the console | `VirtioDisk`, `Virtqueue`, `Keyboard`, `Tty`, `Screen` |
| `Malloc` | the user library's heap | |
| `AllocProofs` | proofs about the slabs and the user heap | `Slab`, `Malloc` |
| `UserPath` | paths from user space as texts | |
| `NatLemmas` | induction up to a number, loops, remainders: lemmas for the proofs | |
| `MCProc`, `MCUserLand` | instances of the process layer | |
| `MCWaits` | sleep lock, disk and keyboard under fairness | `SleeplockInv`, `VirtioDisk`, `Keyboard` |
| `MCSharing` | everything several actors use at once | nine modules |
| `MCLayouts` | everything laid out in memory or on a disk | eight modules |
| `MCFileTable`, `MCPageAlloc`, `MCSlab`, `MCFat32`, `MCScreen` | the instances of the findings | |

### Proc

`state`, `pid`, `parent`, `child_exit_pending`, `sleep_chan`, `dead` are the
fields of `struct task_struct`; `mem` records which of the pages `utf` and `pg`
a slot owns. `lk[t]` is the hart that holds `ts->lk`. `ts[h]` is `cpu->ts`, and
`want[h]` the slot whose lock `scheduler()` is about to take after its test
without a lock. A task that is not executing is a stored context: `call[t]` says
which call of `sched()` it returns to and `saved[t]` whether `swtch()` has
stored it. `pc`, `cur`, `arg` and `flag` are the locals of the system call a
task is in.

A step is a critical section, from one `acquire` to the matching `release`; a
lock that is held across two steps (through `swtch()`, while fork copies, while
exit wakes the parent) appears in `lk`. So every interleaving the locks allow is
an interleaving of steps. Between two critical sections a timer tick may take
the hart away (`Yield`).

| code | actions |
|---|---|
| `scheduler()` | `SchedSee` (test without lock), `SchedTake` / `SchedSkip` (test under the lock) |
| `sched()`, return to `scheduler()` | `Sched`; the way back is `Resume` |
| `yield()` | `Yield` |
| `kfork()`, `alloc_task()`, `free_task()` | `Fork`, `ForkNext`, `ForkFull`, `ForkAlloc`, `ForkAllocFail`, `ForkCopyFail`, `ForkFree`, `ForkCommit`, `ForkRet` |
| `waitpid()` | `Wait`, `WaitNext`, `WaitReap`, `WaitNone`, `WaitPending`, `WaitSleep` |
| `kexit()`, `to_kill()` | `Exit`, `Fault`, `ExitBegin`, `ExitOrphan`, `ExitWakeInit`, `ExitZombie`, `ExitWake` |

Left out: the order in which `scheduler()` meets the slots (any order is
allowed), the contents of memory, `kexec()` (it changes no field that another
task reads). The failure of a copy in `kfork()` is modelled as the code means
it; that the cleanup then walks a half-filled page table is the matter of
`AddressSpace`. A fault marks any task dead, init included: `kexit()` returns at
once for init, which goes on with the mark, and ends in the loop for dead tasks at its
next system call. In `ExitBegin` the closing of files is one
step under `ts->lk`; `FileTable` looks inside it.

### UserLand

`prog[t]` is the program in a slot and `child[t]` the pid its last `fork()`
returned. `init` and `lsh` fork and wait for exactly that pid; a command makes
any system calls. The run about orphans starts at `Booted`, a reachable state in
which init waits for the shell, and the shell for a command, so that the
interesting part needs few steps.

### Sleeplock

One lock, any number of tasks, `NHARTS` of them on a hart at once. `ctx[t]` says
where the context of a task is: executing, on its way into `sched()`, stored, or
just switched to. `pc[t]` is its place in `acquire_sleep()` or
`release_sleep()`. The inner spinlock is the variable `spinlock`. `WaitChild`
and `WakeWaitParent` are the other sleep of the kernel, that of `waitpid()`,
reduced to what can disturb the queue. The refinement mapping to `SleepMutex`
maps `holder` to `owner` and `pc` to the phases.

### FileTable

One `struct file` with its `refcount`, the number of descriptors each task has
for it, and the operation each task is in. It uses the actions of `Sleeplock`
for `file->slk`; the count changes between `acquire_sleep` and `release_sleep`.
A task that needs `file->slk` with a task lock held while another task owns it
makes the kernel panic (`Panic`), and the behaviour ends there.

### PageAlloc

`free_head`, `free_tail`, `next`, `flags` and `refcount` are the fields of the
code; `data` says whose data a page holds and `owner` who got it from
`alloc_page()`. `free_list` is auxiliary, the list the pointers represent, so
that a property can say what they should be. The two clearings, after
`release()`, are steps of their own (`AllocClear`, `FreeClear`). Users free only
what they own: a wrong address or a double free is a panic in the code.

### Slab

Descriptors are numbers in the order their pages are added; an object is a
descriptor and an index. One step is one critical section; the lock of the last
slab of a chain stays in `slock` while `do_create_new_slab()` works. In
`slab_alloc_meta()` the test without the pool's lock (the end of `Grow`, which
has just taken the lock of the full slab), the inflation (`MetaInflate`,
`MetaLate`, `MetaPanic`) and the take (`MetaTake`, `MetaFault`) are steps of
their own. The model ends at the null pointer, at the panic for want of memory,
and at the point where the pool has been empty and an inflation writes through a
stale `end` over the lock of a slab in use (`MetaCorrupt`):
nothing is said of what follows. Which page an object is in, and how a size is
rounded to a class, are left out.

### Vfs

`obj` is the heap of inodes with their counts, `icache` the ones the cache
holds, `dirents` and `dirs` the two disks. A walk goes component by component
and holds no lock in between: the look into the cache (`WalkHit`, `WalkMiss`),
the file system's lookup (`WalkFill`, `WalkNotFound`) and the insert
(`WalkInsert`, or `WalkInsertLost` when another walk came first) are steps, and
so are the ends of open, chdir, create, mkdir, unlink and rmdir; what changes a
directory holds `meta`, the lock `vfs_meta_lock`. The reference counts change
where the code changes them, and `RefExact` compares them with the number of
pointers that exist. Everybody is root, as in the kernel.

`Quiet` lists the operations that are called only while no other call is on its
way and no file is open: unlink, rmdir and umount in the run. The code does not
ensure this. Without it TLC finds, in a few steps, an inode that is removed
under an open descriptor or under a walk, and a walk that stands on a disk that
has been unmounted: `vfs_umount()` looks at descriptors and working directories
only (the hazard at `vfs.c:990`). No system call reaches the three at this commit.

### HashMap

A node is a key, a value and the bucket that links it. Each call computes its
bucket index from `ht->size` (`HBegin`) before it takes `ht->lock` and works
under it. A resize of another call in between makes the index stale: the history
variable `overtaken` records that a call has entered the lock with such an index,
and `TableSound` is claimed up to there, for every interleaving. The comment at
`hashmap.c:383-387` promises an atomic insertion; after a stale call the code does
not keep it. `Serial` says that the callers hold a lock around each call, as the
inode cache does with `icache.lock` and the block cache of ext2 does not. The run
has `FALSE`; with `TRUE`, `overtaken` never becomes true, which `TableSound` also
says.

### Ext2 and Ext2Cache

`Ext2` has the bitmap and the contents of the blocks (`edisk`), the inode bitmap
and table on the disk (`iused`, `itable`) and the inodes in memory (`priv`),
which the code writes back at some places and not at others. Each VFS operation
is one action, and each failure of an allocation in its middle another
(`AddFails`, `MkdirNoBlock`, `WriteFails`; `CreateNoInode` and `MkdirNoInode` when
there is no memory for the inode and the entry stays on the disk). `vfs_meta_lock`
makes create, mkdir, unlink, rmdir and truncate exclude each other. It does not
exclude a write, which holds the lock of its own open file only: `ext2_alloc_block()`
tests a bit and sets it in two accesses, so a write may stand between them
(`WriteTests`, `WriteSets`, the variable `found`) while other writes and other
operations run. `astray` records that one of them has taken the block meanwhile, or
that an entry was left without its inode; the three properties are claimed until then.
Other overlaps of a write, with its own file or with the counters of the superblock,
are not modelled; that there are none is an open assumption of this module. `content` is a history variable:
what was written to a file. A block map has direct pointers, one indirect and
one double indirect block, as many of each as the constants say; space in a
directory is counted in units of four bytes and records are split and merged as
in the code. `Remount` forgets what was in memory only. A block map is looked at
through its places (`MapPlaces`, `BlockAt`): a pointer of the inode, or one of an
indirect block; `ext2_free_all_blocks()` frees what the places point to and counts
a place each, so a block in two places would be counted twice, as in the code.
A directory block maps offsets to records. The code finds them from offset 0 by the
record lengths; `DirsSound` says that such a walk meets exactly the ones there are.
`Ext2Assumption` has two facts about names: a record with the name fits into a
block (a name has at most 255 bytes, a block 1024 or more), and "." and ".." are
never created or removed, since `vfs_normalize()` resolves them before the walk.

`Ext2Cache` is the layer below: single accesses to the table, transfers that may
fail, memory that may be missing, and the flush that clears the marks under the
lock and writes outside it. A flush collects all dirty blocks at once; the code
does so in batches, which differ only when there are more than a batch of them.
Nothing in the code keeps two calls about one block apart, and the model has every
interleaving: a read that missed the table fills it step by step (allocate, delete what
is there, insert, or fall back to its own copy), and the insert of a write may find no memory. A
write can be lost in four ways, listed in the head of the module; `lapsed` records the
first of them, and `CacheSound` is claimed until then (the hazard at `ext2.c:355`).
`doc/fs/ext2.md:112` leaves all exclusion to `vfs_meta_lock`, which reads and writes of
file data do not take.

### Fat32 and FatTime

The table `fat`, the slots of directories in clusters, the sectors of files, and
the first cluster and size an inode keeps in memory. Where the code leaves the disk or a
file wrong the model does the same, and a history variable, `hurt`, records it, since
afterwards less can be said:

| mark | what happened |
|---|---|
| `head` | an append at a cluster boundary replaced the first cluster (the finding below) |
| `first` | a first cluster that was only in memory was forgotten |
| `memory` | no memory for the inode of a new directory: its cluster is freed, its entry stays |
| `full` | no cluster was left in the middle of a write or a growth |
| `slack` | a truncation that grows a file inside its last cluster took in old sectors; nothing zeroes them, although `fat32.c:1688` has a file extended by zeros |
| `broken` | the disk failed in `fat32_free_chain()` in unlink, rmdir or a truncation to 0, or in the first two when the slot was to be cleared: the entry stays and names freed clusters |
| `cut` | the disk failed in the freeing behind the new end of a file |

`ChainsApart` and `FTreeSound` hold through all of them but `first`, `memory` and
`broken`, after which the model stops; `ClustersOwned` and `FDataIntact` as long as there
is none. Disks that fail
elsewhere are not modelled. `FatTime` translates the two conversions of time; its
loops are recursive functions.

### AddressSpace

A page table is its root page, a table page per region in use, and the mapped
pages, all of them taken from one set of physical pages. Addresses count in half
pages, so that a break may lie inside a page. `kexec`, `kfork` and `kexit` are
whole system calls with their failures (`ExecFails`, `ReadFails`, `ForkFails`);
`Span` is the ratio of the page size to the number the code divides by in
`pg_user_vmfree()`, scaled. The copy of fork skips
a page whose physical address is 0, as the code does, and the loops of load, copy
and clean-up are recursive functions over the pages.
`kexec()` reads through a page of its own (`Buffer`), and panics when there is none
(`ExecOom`). `sys_sbrk` has no bound in the code; the model's `MaxBrk` lies above
the stack, so that a heap may reach over the stack, where fork maps a page twice
(`ForkRemaps`, a panic). `Store` reaches every mapped page: which pages of a
program are data is not told apart. A panic ends the behaviour (`kpanic`).

Two things the clean-up does wrong are in the model as the code has them, and
history variables record when they bite. `spoilt`: a table that failed half way is
freed as if nothing of the program were mapped, and `pg_user_vmfree()` counts too few
pages for a large heap; the walk then meets a mapped page, which is a panic,
although the comment at the end of `kexec()` (proc.c:1148) says that a failure does
neither panic nor leak. `stale`: `kexit()` and `kexec()` free the table and then
walk it for the heap (two steps, `kexit` and `do_free_task_heap`); when another
task has been given the root page in between, the walk unmaps that task's memory.
The properties of this module are claimed up to these events: `PagesReturned` until
`spoilt`, everything until `stale`. Nothing stronger is true of the code.

### VirtioDisk and Virtqueue

The driver fills three descriptors, writes the ring entry, publishes the index,
reads the used index and waits: a step each, because two tasks may be in the
driver at once. A device (external) takes entries in order, answers in any
order, and may fail a request. `Lazy` says that it looks for requests only when
notified; a device that looks earlier may answer before the driver reads the
used index, and `DReturns` fails. `crowded` records that two tasks have been in
the driver at once: from then on only `DescsOwned` is claimed, because a task
takes any movement of the used index for its own answer. The driver counts the
available ring modulo its `QUEUE_SIZE` of 56 (`DQSize`) and tells the device 256
(`DevSize`); it reads the length of its answer at `(idx - 1) & 55` of the used ring
(`UsedSlot`), which is another element from the ninth completion on. All three are
parameters, and neither size need divide `IdxMod`. Requests still go right, one after the
other, because each takes descriptor 0 first and the device meets stale entries that say
the same; of the length `RequestsServed` claims nothing. `DWord` scales the width
of the `int` in `1 << i`.

`Virtqueue` is the same for the GPU's queue, which has a lock, and a timeout
that gives the descriptors back while the device may still hold them. `late`
records the first timeout.

### Keyboard, Tty, Screen

`Keyboard`: event buffers circulate between the device and `keyboard_poll()`,
characters wait in a ring. Modifiers, letters and an arrow key (three
characters) stand for all keys. `PollAlone` says that one task at a time is in
`keyboard_getchar()`; with two, both compare the index outside the lock and an
event is taken twice. `Tty`: the line discipline over any source of characters.
`ReadAlone` is the same assumption for `tty_cdev_read()`; `doc/paradigm/tty.md:179`
has a single reader. The echo is no part of `Tty`: it is one of the writers of `Screen`.

`Screen` counts in character cells. `fb` is the frame buffer of twice the height
of the screen, `pan` the place of its window, `gt` the terminal emulator with its
cursor, `put` the place of each writer in `gpu_tty_putc()`, and `term` a reference
terminal that moves its lines. Several harts write at once: `tty_cdev_write()` holds
`output_lock`, but the echo and `printk()` do not, and the timer of hart 0 blinks the
cursor at any point. `crossed` records that a hart came in while another one was
there, and `OneCursor` is claimed until then; afterwards a cursor can be left behind
and scrolled up, against the comment at `gpu_tty.c:255-256`. Escape sequences are
taken as recognised; the dirty rectangle and the frames that are presented are left
out: a flush between the mark and the later draw of `J` and `K` (`gpu_tty.c:100-102`,
`147-150`) loses a cell in the code, so that no property of them holds.

### Malloc and UserPath

`Malloc` has the headers of the blocks, the tail pointer, the break and the
payload. A call is a step, since a process has one thread. What callers hold,
with the tag they wrote, is a history variable. `UserPath` has a path as the
sequence of its components with their lengths, `do_build_user_path()` as the loop
it is, and the walk through the tree as the definition to compare it with.

## Runs

| run | instance | checks |
|---|---|---|
| `proc_safety` | 2 harts, 3 slots, 3 pids, allocation may fail, `waitpid(-1)` and `waitpid(2)` | `HartSafe`, `SlotSafe`, `FamilySafe`, `NoLostWakeup`, `NoSpinCycle`, `LifeCycle` |
| `proc_liveness` | 2 harts, 2 slots | `WaiterReturns` |
| `userland_shell` | 1 hart, 4 slots: up to four tasks compete for it | `ShellReaped`, `RunnableRuns` |
| `waits` | lock: 3 tasks, 2 harts; disk: 1 task, 3 requests; keyboard: 1 task, 3 events | `SleepersSafe`, refinement of `SleepMutex` with its liveness (`ImplementsMutex`), `SleepersWoken`, `DReturns`, `ReaderReturns` |
| `sharing` | see below | `FileSound`, `LockSafe`, `InodesSound`, `NamesSound`, `TableSound`, `SlabsSound`, `DescsOwned`, `RequestsServed`, `CommandsServed`, `KeysDelivered`, `LinesDelivered`, `OneCursor` |
| `layouts` | see below | `ListExact`, `NoForeignData`, `PagesSound`, `MemoryPrivate`, `HeapSound`, `PathsResolve`, `CacheSound`, `BlocksOwned`, `DataIntact`, `DirsSound`, `ClustersSound`, `FFilesSound`, `StampRoundTrip` |
| `userland_orphan` | 1 hart, 4 slots | `OrphanReaped`, violated: a finding |
| `filetable_panic` | 3 tasks, 2 harts | `NoPanic`, violated: a finding |
| `pagealloc_keep` | 3 users, 3 pages | `OwnerKeepsData`, violated: a finding |
| `slab_pool` | 2 users, 2 classes, up to 5 slabs | `PoolNeverEmpty`, violated: a finding |
| `fat32_lost` | 5 clusters | `WrittenStays`, violated: a finding |
| `screen_wrap` | 2 x 2 cells | `WindowIsText`, violated: a finding |

Most invariants are conjunctions of named parts, each with its own comment in
the module: `InodesSound`, for one, is `RefExact` (counts are numbers of
pointers), `NoDangling` and `MountedInUse`.

`waits`, `sharing` and `layouts` each put several components into one instance.
The components share no state: a variable `layer`, fixed by the initial state,
says which one runs, and the others stay at their initial states. So the states
of the run are those of the components one after the other, and no component is
restricted by another. In `waits` the fairness of the lock is demanded only
where it runs; that of the others is vacuous until they are called.

Bounds. Three slots are init, a father and a child, which is every role in
`waitpid()` and `kexit()`; with `MaxPid = 3` a slot is used again when an
allocation fails or a child is reaped before the next fork. Two harts give every
race of two actors; the locks are per task, so a cycle of spinning harts would
need two. The proofs remove these bounds for the safety properties. Three tasks
at the sleep lock are an owner, one that overtakes and one in the queue.

In `sharing` there are two tasks besides init wherever tasks meet. `FileTable`:
`MaxFd = 2` lets a task hold a duplicate. `Vfs`: two names, paths of up to two
components, three initial disks, at most five inodes in memory and four on the
disks, and three calls on their way or done, which is two that race and one that
prepares. `HashMap`: four keys that collide at size 2 and spread at 8, the largest
size memory allows. `Slab`: classes with two objects per slab and with one (as
the class of 4096 bytes has) share the pool, which starts with two free
descriptors and grows once; four slabs are the two fathers and two more.
`VirtioDisk`: five descriptors,
so that a second request finds too few and its pass is rolled back, words of four bits,
rings of five for the driver and six for the device, a mask of 4 (as 55 is not a mask
of 56), and six requests, so that the indices wrap at both. `Virtqueue`: four
descriptors, four commands, so that the indices wrap.
`Keyboard`: two buffers, four events, a ring of five. `Tty`: lines of four, six
characters, so that a line overflows and another one follows. `Screen`: two lines
of two cells, two writers and the timer, four characters, sequences or blinks: two
newlines after a character scroll.

In `layouts`: three pages for three users let the free list become empty and be
filled again. `AddressSpace`: two tasks, fourteen pages, so that allocation fails
in the middle of exec and fork, a heap that may reach the stack, five steps besides stores. `Malloc`: blocks of
two sizes in a heap of 22 units, up to four at a time, so that one has free
neighbours on both sides. `UserPath`: every path of up to three components over
two names, from every directory of a tree of depth three, with a buffer one
character longer than `cwd_path`. `Ext2Cache`: two users, two blocks, two faults.
`Ext2`: one direct pointer, two pointers in an indirect block, six blocks and four
inodes, names of two lengths, five operations: enough to fill the disk, to
remove, and to use a block again as data, indirect block and directory. `Fat32`:
five clusters of two sectors, two entries in a cluster of a directory, truncation to
0, 1 and 3 sectors, so that a file ends inside a cluster and grows there, five
operations. `FatTime`: weeks around leap days, the year 2100 and the end of the
range. Tasks may all be done and bounds reached, so deadlock is not checked in
the composed runs. Tasks that are interchangeable are under symmetry, in runs
without liveness only.

Fairness. The loop of `scheduler()` is circular, so a slot that stays RUNNABLE
is met again and again (strong fairness of `SchedSee`, since the hart leaves the
loop in between). The timer is armed before each return from its trap, so a
running task is preempted again and again, and the kernel code of a task makes
progress between ticks. A spinning `acquire()` wins its exchange in the end;
this is an assumption about the hardware, the lock is not a ticket lock. User
programs are under no fairness, except that init and lsh go on from fork to
waitpid, as their code does. In `waits` an owner releases in time, a task in the
disk driver or in the loop of `keyboard_getchar()` keeps running, and the disk
answers what it has taken; nobody has to press a key.

## Proofs

`ProcProofs` proves every part of the safety properties of `proc_safety`, and the
action property `LifeCycle`, from the assumptions on the constants in `Proc` only: any
number of slots, harts and pids. None of the properties is inductive. `IInv` in
`ProcInv` adds three groups of facts.

* `SchedInv` ties locks to places: a hart that executes a task inside `sched()`
  holds its lock; a stored context is on no hart; a lock that is held is held by
  the hart that executes the task, or by the hart whose `kfork()` is filling the
  slot; `OneHart`, `StoppedWhenUnlocked`, `SchedAsserts` and `NoSpinCycle`
  follow from it.
* `FamilyInv` is about parents: a parent is alive, a task that is past the point
  of giving its children away has none among the slots it has visited, a scan of
  `waitpid()` that counted a child still has one, and a sleeping father with a
  zombie child is about to be woken.
* `LifeInv` ties pages, the dead mark and the pid to the state, and a scan index
  to its range.

The proof that a step preserves `IInv` has one case per action. `NoSpinCycle`
needs an argument of its own: a hart that spins with a lock held is in
`ExitWake` and holds the lock of a zombie, or copies in fork and spins for
nothing, so a cycle cannot close.

`VfsProofs` proves the parts of `SleepersSafe` and
that the lock implements the safety part of `SleepMutex` (`MutexHolds`). `IInv`
in `SleeplockInv` says where a held `ts->lk` and the inner spinlock come from
and what the owner fields say at each `pc`.

It also proves `FileSound` for any number of tasks and descriptors. The
count of a file has no counterpart in the state: a reference is an entry of
`ofile`, or what a system call holds between `fd_get()` and `file_put()`, or one
`kfork()` has made for a child that does not run yet. `Refs` says how many a task
has at every point of every operation, and `CountInv`, that `refcount` is the
size of the set of all of them. `FreeInv` says that the count is zero only when
the object is freed or when one `file_put()` has seen the zero and nobody else is
at the lock; `Forks` and `OpPoints` tie the operation to the locks it holds. Only
`Count` changes the number; every other action moves a reference from one place
to another, and most of the proof is that it is the same one.
`LockSafe` is proved of the same specification, that is, with the callers that hold a
task's lock when they take `file->slk`. The owner tests never panic; and where harts
wait for each other in a cycle, one of them is a caller that is about to take its own
lock a second time, which `acquire()` answers with a panic (the finding
`filetable_panic`), so that no cycle goes unnoticed (`FLockInv`).

`AllocProofs` proves `SlabsSound` for any number of users, classes, objects per
page and descriptors. `SInv` adds that the counter of the pool is the length of
its list and that every descriptor, free or in use, is below the total
(`PoolExact`), that a slab lists and hands out objects of its own page
(`WithinSlab`), and that who makes a slab holds the lock of the last one of the
chain (`LocksHeld`), so that two who grow one chain cannot lose a slab. It also
proves `HeapSound` of the user library for any header, alignment and sizes. There
`Tiled` adds that every block ends before any later one begins, and that `prev`
and `next` are each other's inverse; then the run of free blocks that `free()`
takes in is one block or none, the two merges keep the heap tiled, and what a
caller writes is in the cells of no other allocation.

`VirtioProofs` proves the properties of both drivers and of the console.
`CommandsServed` is about the GPU's queue, `DescsOwned` and `RequestsServed` about
the block driver. `DescsOwned` holds with any number of tasks
in the driver: `DescInv` says which descriptors each has marked and linked at
each point, a full bit map and the roll-back included. The other two say what
the properties say: as long as no command timed out (`late`), or as long as two
tasks were not in the driver at once (`crowded`). Their core is that the only
request there is has been published, or taken by the device, or answered, and
that the used index has moved in the last case only. It holds for rings of any sizes,
the device's at least as large as the driver's, and any modulus of the indices, so for
56, 256 and 65536; and `RequestsServed` whether the device is lazy or not.

`KeysDelivered` (under `PollAlone`) holds for any number of buffers and any ring.
`KInv` counts events: there is a number n such that the driver has made of the
first n events what they mean, the used ring holds the others in order, and every
buffer that is not there is at the device; the modifiers are what the n events make
of them, and as long as the ring was never full what was read and what waits in it
are together the characters of the n events.

`LinesDelivered` (under `ReadAlone`) holds for any length of the line buffer. A line is a
stack of the keys typed, and the property speaks of runs of keys: a character stays
if no run after it is more than half erasures. `Places` gives for each character of
the line the key it was, and `Slack` says that of the keys after that one the
characters outnumber the erasures by as many as the line has behind it. So an
erasure takes the one character with no surplus, and the others survive.

`OneCursor` holds for screens of any size, any text, any escape sequences and any
number of writers, until `crossed`. `CursorInv` says that one writer at most is in
`gpu_tty_putc()`, that a cursor on the screen is in the cell the terminal stands on,
and that none is there while a character is put; each operation is followed cell by
cell of the window.

`CacheProofs` proves `TableSound` of the hash table and `CacheSound` of the block
cache, both for every interleaving, until `overtaken` and until `lapsed`. For the
table, a call that enters has a bucket index of the present size or is recorded, and a
resize keeps the number of nodes and the keys; with `Serial` the one call under way
always has (`IndexFresh`). For the cache, an entry holds the latest
data (`EntriesLatest`), and whoever missed reads the latest data from the disk
(`CallsFresh`), because data that is not on the disk is in an entry that is dirty
or that a flush has collected and not written. `StampRoundTrip` holds for every day
and second of a 32-bit time. The loop over the years is shown to end in the year
whose first day, in closed form (`YearStarts`), is the last one not after the day, and
the loop over the months likewise (`MonthStarts`); the formula of the way back, which counts
years from March, gives the same days.

`MemoryProofs` proves `ListExact` and `NoForeignData` of the page allocator for any
number of users and pages. `IInv` adds that a user that has a new page to clear
still owns it, which is why the late clearing of a previous owner can spoil data
but never show them. Of the address spaces it proves `PagesSound` and
`MemoryPrivate`, for any number of tasks, pages and regions. The loops of exec and
fork build a space page by page from the free pages; `Built` says that what a loop
has mapped so far came from the free pages, each once, and lies in the range the
loop has passed, whether it went on or failed there. What an operation then does
with the result is one of two things: it adopts the new space and frees the old one
(`Adopts`, `Replaces`), or frees what was built. `AInv` says that the pages of
different tasks, their tables and the free pages do not meet, that all pages are
accounted for and nothing has panicked unless `spoilt`, and that what is mapped lies
within program, stack and heap. It holds until `stale` (`AHist`), with no assumption
on the interleaving: until then the root of a walk is a free page, which is nobody's
root. That nothing panics at an exit rests on `NearFound`: a heap of at most `Span`
pages for each page of the program is within what `pg_user_vmfree()` counts.

`VfsProofs` also proves `InodesSound`, for any callers, inodes and names and for any
calls at once, with the hypothesis `"umount" \in Quiet`, which the run satisfies:
`StartWalk` finds the root of the mount and takes its reference in one step, and the
code holds no lock between the two (`vfs.c:354-374`), so an umount in the middle of
a walk is not among the cases. `InodeInv` says
that the count of every inode, 0 for one that is not in the heap, is the number of
pointers from the cache, from cached inodes below it, from the super blocks and
from the callers (`RefInv`). It needs to know where a call has a second inode in
hand (`PcInv`) and that an inode a call has made is known to nobody else before it
is linked (`NewInv`): two walks that miss the same name make two inodes, and the
one that loses must put its own. Every action is then shown to move as many
references as pointers (`Moved`, `Settle`). Without the hypothesis the third part,
`MountedInUse`, is false (see the module above): an umount that finds no call leaves
no inode of its disk, because each one left would have a holder (`DiskInv`).

`NamesSound` has the hypothesis that unlink, rmdir and umount are quiet. Then a
cached inode has the name and the parent that the disk says, and a call that is
between two steps still stands on a name that exists: the entry it has read was
not removed under it. The invariant says that the cache is true to the disks
(`CacheTrue`), has a name and an inode once and keeps the parents of what it has
(`KeyInv`), and what each call knows at each point (`CallsKnow`). That the directories of each disk form a tree (`IsTree`) is
kept because a new directory has no entries and one that is removed is empty.

`Ext2Proofs` proves `BlocksOwned`, `DataIntact` and `DirsSound` for any number of
blocks, inodes, pointers, names and operations, from `Ext2Assumption`. `AstrayInv` is
inductive: `Ext2Inv` until `astray`, and that a write between its test and its set has
a file and a block (`FoundOK`). While a write stands there, `Ext2Inv` does not
depend on it; when it sets a bit that is still clear, the step is that of a whole write
(`StepSets`), and otherwise it is astray. None of the three can be proved alone: a block is freed once
because an inode has one name, and it has one name because no file writes into the
blocks of a directory. `Ext2Inv` has them all (`Fine`), for the disk, the inodes in
use, the inodes that count, those on the disk, and what was written:

* `Apart` and `AllOwned`: no block is in two places, each one in use is marked, and
  none is lost before an allocation fails;
* `Good`, for each inode: `FileOK`, a file has no block behind its end and reads as
  written, without which a hole left by a later write would show old data;
  `Chained`, a directory has all its blocks and each is a chain of records; and
  `Saved`, what the inode on the disk still has of the one in memory. After a failed
  allocation the two differ, and `unlink`, `rmdir` and a new mount go by the one on
  the disk;
* `TreeOK`, about what the directories list: one name for every inode, its directory
  in use, the links counted.

The proof has three layers. The first is about block maps: `ext2_get_block()` adds
at most the places on the way to one logical block, with zeroed blocks that were free
(`Grow`, `Got`), whatever fails on the way. Every other inode, and this one before
the new block, then looks as before (`Looks`). The second is about directory blocks:
adding to a slot or a tail and merging a removed record keep a block tiled and
change its listing by one entry (`SplitSlot`, `SplitTail`, `RemoveEntry`; `Added`,
`Removed`). The third is about listings only: `TreeAdd` and `TreeRemove` say which
changes of names, kinds and link counts keep the tree. Each operation is put together from
them; `MkdirNoBlock` uses the second twice, because its roll-back removes what it
has added.

`PathsResolve` is proved in `ProcProofs` for every tree, buffer and path of any
length. `do_build_user_path()` and the walk through the tree are loops over the
same segments; as long as the walk stands on a directory, the text names it or
was refused (`SamePlace`). A loop over a path is the loop over its first part and then the one
over the rest (`BuildTwice`).

Recursive functions. A loop of the code is a function `at[i]` from the round to
the state. The prover's induction theorems cannot be used, since they take an
operator as a parameter; `NatLemmas` derives what is needed from the least element
of a set of numbers: induction up to n for membership in a set (`UpTo`), that a loop has a
run (`LoopExists`), and that two runs that do the same agree (`LoopsAgree`).

Only model-checked:

* the liveness properties and the liveness part of the refinement: the prover
  has no rule for fairness or `ENABLED`;
* `UserLand`, whose one property of a passing run is liveness;
* `ClustersSound` and `FFilesSound` of `Fat32`. A file is a chain of clusters there,
  found by following the table, and the invariants are about what is reachable:
  the proof would be an induction along chains that every write changes. And
  their parts are claimed only as long as `hurt` lacks certain marks, so each
  action has its exceptions.

## Findings

* `userland_orphan`: `kexit()` hands a zombie orphan over to init and wakes it so
  that it reaps the zombie; `init.c` waits for the pid of its shell only. The
  slot is lost for ever.
* `filetable_panic`: `sleeplock.h` forbids to take a sleep lock with a task lock
  held. `fd_get()`, `fd_alloc()`, `exit_fs()` under `kexit()`, and `kfork()` do
  so; with a second task inside the file the kernel panics.
* `pagealloc_keep`: the comment at `free_page()` says that `memory_lock` is held
  all the time. The page is cleared after the release, when another hart may own
  it, and loses what that hart has written.
* `slab_pool`: the comment at `slab_alloc_meta()` says that the pool is never used
  up. Two classes that grow at once drain it, and the next growth follows a null
  pointer.

* `fat32_lost`: the comment at `fat32_write_data()` says that it extends the chain
  when needed. An append at a cluster boundary makes the new cluster the first
  one of the file, and what was written before is lost.
* `screen_wrap`: the terminal says that it scrolls up by a line and keeps the
  history. When the window starts over in the frame buffer, the text is moved
  without the shift and its last line is wiped.

What the code does only under an assumption (`Quiet`, `PollAlone`, `ReadAlone`,
`Lazy`, and that writes of ext2 overlap at one place only) is described with its module
above. Where the code itself goes wrong in an interleaving or a failure, the model
goes with it and a history variable records the event (`overtaken`, `lapsed`,
`astray`, `spoilt`, `stale`, `crossed`, `crowded`, `late`, `hurt`); the property is
claimed up to it. In several of these places a comment or a document promises more
than the code keeps:

* `hashmap.c:383-387`: an atomic insertion, whatever else runs;
* `vfs.c:47-58`: that the VFS does all the write protection a file system needs; a
  write has `file->slk` only, and `ext2_alloc_block()` relies on more;
* `doc/fs/ext2.md:112`: that `vfs_meta_lock` serialises all that ext2 needs serialised;
* `gpu_tty.c:255-256`: that no line with a cursor is ever scrolled up;
* `proc.c:1148`: that a failed `kexec()` neither panics nor leaks;
* `fat32.c:1688`: that a file is extended by zeros.

They are listed as hazards with their properties; the passing runs show what holds
before the event, not that the event is impossible.

Other hazards met while modelling, which no property covers: `sys_pwd()` copies to
user memory with `ts->lk` held (`syscall_impl.c:45`); `_map_user_stack()` does not
test `kalloc()` (`proc.c:1336`) and `load_segment()` ignores a `mappages()` that
fails (`proc.c:1236`); a file may be removed while it is open
(`ext2.c:1997`); the scratch sector of a fat32 write (`fat32.c:1681`) and the page
of a failed disk read (`virtio_disk.c:136`) are not freed; fat32 compares names
in their 8.3 form and the inode cache by their spelling (`fat32.c:756`); the disk
driver enables interrupts under its caller's spinlocks (`virtio_disk.c:209`); a
full key ring cuts an escape sequence (`keyboard.c:331`); a woken task can be
overtaken at the sleep lock for ever (`sleeplock.c:110`); `calloc()` does not test
for overflow (`malloc.c:115`).

## Not modelled, and the plan

`PROJECT.json` lists every component with its status. Not modelled:

* start-up: `start.c`, the device tree parser, the negotiation with virtio
  devices and the first commands to the GPU. One hart runs straight through it;
  its outcome is `Init` of the modules;
* `printk`, `panic`, the uart's registers, fonts, lines and pixels: output
  without state that another part reads;
* `lcc.c`, `vim.c` and the other user programs, the buffers of `stdio.c` and the
  string functions: sequential code above the system-call interface. The
  compiler alone is a sixth of the repository; a model of it would be the
  compiler again;
* in ext2: symbolic links, several block groups, triple indirection, truncation
  to a size other than 0, writes that overlap elsewhere than in the allocation of a
  block, and a stop between two writes, after which the code has nothing that repairs;
* in fat32: transfers that fail elsewhere than in the freeing of a chain, and two
  writers at once (`fat32.c:24` has a single one);
* interrupts that the disk driver enables under a spinlock: they would need
  `Proc`, `Vfs` and `VirtioDisk` in one state space, which is out of reach.

Next are the proofs about `Fat32`, with one invariant for its chains and its
names; and the inode cache as an implementation of an abstract name
space.
