# zxy_os in TLA+

A verification project for zxy_os, a small 32-bit kernel with threads, user
processes, locks, a keyboard, pipes, an IDE driver and a file system. Paths below
are those of the repository; `src/src/` is left out (`kernel/thread.c` is
`src/src/kernel/thread.c`).

The kernel runs on one processor. What makes it hard is not parallelism but the
places where the processor changes hands: a kernel thread can be preempted by the
timer at any instruction that runs with interrupts on, and any thread gives the
processor away where it sleeps, with whatever it had read or half changed before.

## 1. Inventory

| Part | State | Operations | Talks to |
|---|---|---|---|
| threads and scheduler, `kernel/thread.c` | `thread_ready_list`, `thread_all_list`, PCB `status`, `ticks`, `pid`, the pid bitmap | `schedule`, `thread_yield`, `thread_block`, `thread_unblock`, `thread_start`, `thread_exit`, idle | called by everything |
| semaphores and locks, `kernel/sync.c` | `value`, `waiters`, `holder`, `holder_repeat_nr` | `sema_down`, `sema_up`, `lock_acquire`, `lock_release` | blocks and wakes threads; used by memory, console, disk, pids, ring buffers |
| ring buffer, `device/ioqueue.c` | `buf`, `head`, `tail`, `producer`, `consumer`, a lock | `ioq_get_char`, `ioq_put_char`, `ioq_length` | keyboard interrupt, `sys_read`, pipes |
| keyboard, `device/keyboard.c` | modifier keys, `kbd_buf` | interrupt handler | ring buffer |
| pipes, `user/pipe.c` | ring buffer in a file table slot | `pipe_read`, `pipe_write`, `sys_pipe` | ring buffer, file table |
| processes, `user/fork.c`, `user/wait_exit.c` | `parent_pid`, exit status, `WAITING` / `HANGING` | `sys_fork`, `sys_wait`, `sys_exit` | scheduler, memory, files |
| timer, `device/timer.c` | `ticks` | interrupt handler, `mtime_sleep` | scheduler |
| interrupts, `kernel/interrupt.c`, `kernel/kernel.S` | the interrupt flag | enable, disable, exceptions | all |
| disk driver, `device/ide.c` | channel lock, `disk_done`, `expecting_intr` | `ide_read`, `ide_write`, `identify_disk`, interrupt handler | locks, timer; used by the file system |
| memory, `kernel/memory.c`, `lib/kernel/bitmap.c` | page pools, address bitmaps, arenas and free lists | `malloc_page`, `mfree_page`, `sys_malloc`, `sys_free` | locks; used by all |
| files, `fs/file.c`, `fs/inode.c`, `fs/dir.c`, `fs/fs.c` | file table, per-process descriptors, cache of open inodes, block and inode bitmaps, directories | open, create, read, write, close, unlink, mkdir, rmdir | disk driver, memory |
| exec, `user/exec.c`, `user/process.c` | page directories, entry point | `sys_execv`, `process_execute` | memory, files |
| shell and user programs | none in the kernel | | system calls |
| boot, printing, strings | none the properties are about | | |

What makes each of them correct, and where it is hard:

* scheduler: every thread is in the ready list exactly when it is READY, no
  assertion of `thread.c` can fire in any order of calls, pids are unique though
  used again, nobody is starved although woken threads jump the queue;
* locks: at most one owner although `holder` and `holder_repeat_nr` are written
  with interrupts on; no wake-up is lost although the woken thread competes anew;
* ring buffer: first in, first out across the wrap-around; whoever sleeps is
  recorded where its wake-up looks, although the test for empty or full is made
  before sleeping for the lock and not again after it;
* processes: a parent is found by its pid only, and must be found although pids
  are used again and `sys_exit` may sleep half-way; a parent never misses a child;
* disk: the interrupt may come before the driver sleeps for it; a driver must move
  the data of its own command, and leave nothing behind for the next one;
* memory: a frame has one user although three bitmaps lie side by side and are
  scanned one bit too far; what fork, exec and exit take and give back adds up, also
  when one of several allocations fails; free lists and arenas describe the same
  blocks, whoever frees them;
* open files: slots, descriptors and open counts agree although they are changed in
  different places of a call and a call sleeps for the disk between them; an open
  file is not deleted;
* file system on the disk: bitmaps, inodes, directories and blocks, in memory and on
  the disk, say the same when a call returns, across block borders, indirect tables,
  full directories and failures half-way.

The full list of hazards, each at its line, is in `PROJECT.json`.

## 2. Modules

| Module | Models | Lines up with the code |
|---|---|---|
| `ThreadOps` | `kernel/thread.c`, `lib/kernel/list.c`, timer handler | the scheduler's state is one record; each function is an operator from record to record |
| `Scheduler` | the same as a state machine | one action per entry: tick, yield, block, wait, hang, unblock, start, reap, end of main |
| `SyncOps` | `kernel/sync.c` | the parts of `sema_down` and `sema_up` that run with interrupts off, and the whole lock calls for callers that have them off |
| `Sync` | one `struct lock` used by all threads | every statement of `lock_acquire` and `lock_release` outside the semaphore is an action of its own |
| `LockSpec` | nothing: what callers rely on | owner and nesting depth; `Sync` implements it |
| `IOQueue` | `device/ioqueue.c` | cut where a thread sleeps: in `lock_acquire` and in `ioq_wait` |
| `Keyboard` | the handler that fills `kbd_buf`, `sys_read` from standard input | extends `IOQueue` with a producer that never sleeps |
| `Pipe` | `pipe_read`, `pipe_write` | extends `IOQueue` with processes on both sides |
| `WaitExit` | `user/fork.c`, `user/wait_exit.c`, the loop of init in `main.c` | extends `ThreadOps` with parent pids and the places in `sys_wait` and `sys_exit` |
| `Disk` | `device/ide.c`, `mtime_sleep` | extends `SyncOps` with the channel, the drivers' places and the disk |
| `Memory` | `kernel/memory.c`, `lib/kernel/bitmap.c`, the memory side of `user/process.c`, `user/exec.c`, `user/fork.c`, `user/wait_exit.c` | one record for the three bitmaps and the kernel's page table, one per process, one per heap; an action per call |
| `FileTable` | slots, descriptors and open inodes of `fs/file.c`, `fs/inode.c`, `fs/fs.c`, `user/pipe.c`, and what fork and exit do to them | an action per stretch between two sleeps for the disk |
| `FileSys` | the disk contents of `fs/fs.c`, `fs/file.c`, `fs/dir.c`, `fs/inode.c` | memory and disk copies of bitmaps and inodes, sectors; an action per call, a restart |
| `ThreadOpsProofs`, `SchedulerProofs`, `SyncProofs`, `PipeProofs`, `WaitExitProofs`, `DiskProofs`, `FileTableProofs`, `MemoryProofs` | | proofs, section 6 |
| `MC...` | | slice lengths and start states for TLC |

`Scheduler`, `WaitExit` and `SyncOps` all build on `ThreadOps`; `Sync`, `IOQueue`
and `Disk` on `SyncOps`; `Keyboard` and `Pipe` on `IOQueue`. So every model runs on
the same scheduler: which thread runs, who is queued where, and what an interrupt
does to the running thread are never idealised. `Memory`, `FileTable` and `FileSys`
stand alone: processes in system calls cannot be preempted, so they need no more of
the scheduler than where a call sleeps.

How code becomes actions:

* A stretch of code that runs with interrupts off is one step up to the point where
  the thread sleeps. System calls enter through an interrupt gate
  (`kernel/kernel.S`) and never turn interrupts on, so a process in the kernel
  loses the processor only where it sleeps. `InterruptsOn` says when a timer,
  keyboard or disk interrupt can be taken. The boot thread and kernel threads run
  with interrupts on and are cut finer (`Sync`, the driver's steps in `Disk`).
* A failed `ASSERT` or `PANIC` sets `halt` to "panic" and the system spins for
  ever, as `panic_spin` does. `halt = "fault"` is an exception; it spins too. Stops
  that a program can cause by its arguments alone have values of `halt` of their own:
  "name" (`WaitExit`: a fork with a name of more than 10 letters, `user/fork.c:45`; the
  other modules leave this stop out, which changes nothing before it), "null" and "page
  count" (`Memory`), "root" (`FileSys`), "wild" (`FileTable`, `FileSys`: a write or
  read through a wrong address, after which nothing is known).
* `thread_exit` frees the PCB page of the thread it reaps and then reads its pid
  from that page. `page_table_pte_remove` gives `invlpg` the address of a local
  variable, so the old translation may still be in the TLB or not: the model has
  both outcomes, the pid or a fault. At the fault the machine stops before the pid is
  released, and what is half done is not looked at.
* A page that holds no PCB has status "FREE". Values nobody reads any more (the
  PCB of an ended thread, the registers of an idle disk) are recorded as one
  fixed value.

Deliberate abstractions: characters are numbers that tell their order; outside
`Memory`, `sys_fork` is one step, finds memory and takes the first free page; the
sleeps inside
`release_prog_resource` (locks of the memory pools, the disk) are one place where
the process may sleep and be woken; in `IOQueue` and `Disk` taking or releasing the
lock is one step between sleeps, since its callers have interrupts off, or because
`Sync` shows that the finer steps make no difference; the disk is modelled from how
the driver uses it, one interrupt for each command, with any delay. (A real disk raises
one for each sector of a transfer; the driver waits once for each command and acknowledges
what it does not expect, and that branch of the handler is not reached here.)

In the three modules about resources:

* `Memory` keeps page numbers and not addresses; an address inside a page is the
  number of its block. The three bitmaps of low memory are one set of bits, because
  what the code does one bit behind the end of one map happens to the next map.
* `FileTable` lets only the boot thread create files, as in the repository: a process
  that created one would put the inode into its own heap (`fs/file.c:114`), and what
  others find at that address is undefined. Contents, sizes and positions are left to
  `FileSys`.
* `FileSys` does not cut calls; how calls meet is `FileTable`'s subject. A unit of
  data is the path of the file it was written to. The position of a read is free. What
  is in a sector that is given back is forgotten (`InodeRelease`), so that a later
  reader of it would find text that nobody wrote. `open` has the inodes of the root and
  of open files; `left` has those of directories that `sys_open` leaves on
  `open_inodes` when it opens a file in them (`fs/fs.c:351`), and `inode_open` finds
  them there. ASSERTs on the form of an argument (the length of a path or a name, a
  leading slash, NULL) are left out.
* In `FileTable` `sys_pipe` with a full table writes to `file_table[-1]`
  (`SysPipeFull`) and the model stops.

Four switches say what programs do, because the code is known to break otherwise,
and a run that mixed the known damage with everything else would show nothing:
`Overlap` (calls meet while they sleep for the disk), `ShareFiles` (fork with files
open), `CarryHeap` (a heap lives across fork or exec) and `RemoveLeft` (a directory is
removed through which a file was opened). Each passing run has its switch off and
section 5 says what TLC finds with it on. `BootSpec` of `Memory` adds
the preemptible boot thread to `Spec` in the same way. `ByteRange` is the range of the
byte that holds an inode number, and `MaxEntries` bounds the entries of a directory: the
run keeps below the limits where the code does its damage (section 5).

## 3. Runs

All `pass` runs finish with every reachable state explored and deadlock checked.

| Run | Checks | Instance |
|---|---|---|
| `scheduler` | no assertion of `thread.c` fires; ready list, all-threads list and pids are exact; only woken threads overtake; every READY thread runs | 5 threads, 5 pids |
| `sync` | mutual exclusion, holder and count exact, waiters exact, no lost wake-up, a free lock is taken again, `LockSpec` is implemented | 2 preemptible threads, nesting 2 |
| `keyboard` | no sleeper is forgotten, a lone reader gets all its characters | 2 readers, ring of 3, keys at any moment |
| `pipe` | no assertion fires, order kept, who sleeps in a pipe and when, a single writer gets through | 2 readers, 2 writers, ring of 3 |
| `wait_exit` | parents are found, no child missed, WAITING / HANGING mean what they say, a process in `sys_wait` gets its child | 3 processes beside init, pids used again |
| `init_reaps` | *violation*, section 5 | the same |
| `disk` | own command, quiet channel, interrupt not missed, panic only on a time-out, reads end | preemptible boot thread, a process, 2 rounds |
| `memory` | frames have one user; what is marked and not reachable is exactly what two known leaks lost; arenas, free lists and held blocks are exact; the only failing assertions are those of a full bitmap, of `free(NULL)`, and of `malloc_page` on a page count that a request below the pool's size reaches | kernel and 2 processes, 11 frames in each pool |
| `files` | nothing freed is used; a slot in use has its descriptors and no others; open counts equal references; an open file keeps name and number | boot thread and 2 processes, 2 names, 2 slots |
| `files_overlap` | *violation* | 2 processes whose calls overlap |
| `filesys` | a failed assertion has one of the causes of section 5; files hold what was written; bitmaps, inodes and blocks agree in memory and on disk; directories are trees with exact sizes; listing, look-up and getcwd agree | a file in the root and one in a directory, 6 blocks |
| `file_read` | *violation* | as `filesys` |

`MCDirectories.cfg` is a second instance of `FileSys`, with directories in directories
and without writes, for `DirectoriesExact` and `LookupsExact`; it passes as well. The
other cfgs of `MCFileSys` are those of section 5.

Bounds, and why they suffice:

* `Threads`: the boot threads (init, main, idle) and one to three pages for
  processes. Queue corruption needs three threads (runner, queued, woken); two
  contenders and a third that runs meanwhile show every lock race; a parent, its
  child and its grandchild are what adoption needs.
* `MaxPid` is the number of pages, the least that `PidsSuffice` allows, so pids are used
  again at once. `MaxAlive = 5` in `WaitExit`: beside five living threads nobody forks.
* `MCPrio`: slices of length 0 (a tick always preempts) in most runs: every
  preemption a longer slice allows is among these. `scheduler` has its own slices
  because its fairness property depends on them.
* `BufSize = 3`: two usable slots, so head and tail wrap within a call.
* `RegSize = 2`, `MaxSectors = 3`: calls of one round that is not full, of one full
  round (whose count is 0 in the register) and of two rounds.
* `TimeLimit = 3`: `busy_wait` can sleep twice before it gives up.
* `MaxNest = 2`, `MaxCount`: nesting and multi-character calls happen.
* `Memory`: `FreePages = 22` with `ByteBits = 11` gives two pools of a whole byte
  each, as 3840 pages are 480 whole bytes, small enough to run out in a fork;
  `PgSize = 3`, `ArenaSize = 1` make arenas of two blocks, so an arena fills,
  empties and is collected; `BitmapBytes = 5` is no multiple of a page, as the
  real 94199 bytes are not, so that rounding up and rounding down differ;
  `MaxMallocs = 4`, `MaxForks = 2`: a grandchild, and a failing fork after others;
  `PageLimit = 11` is the number of pages of a pool, as 3840 is, and of `Sizes` 1 is a
  block, 4 a request of whole pages, 32 is below the size of the pool but needs
  `PageLimit` pages with its header, and 33 is refused.
* `FileTable`: 2 slots for 3 callers with 2 descriptors each: slots run out before
  descriptors and the other way round; 2 names, so a freed number goes to another
  file; `MaxLost = 2` bounds the slots and descriptors that nobody can close any more.
  With 3 slots and `MaxLost = 1` (1.2 million states) TLC finds nothing either;
  `files_overlap` has 3 slots.
* `filesys`: `Direct = 2`, `Indirect = 2`, `BlockSize = 3`, `Counts = {3, 5}`: writes
  that end inside a block, at its border, and in the indirect table; `PerSector = 3`: a
  directory has room for one name, and the second takes another block;
  `DataBlocks = 5`, `NumInodes = 4`: both run out; `MaxOpen = 1`, `MaxLost = 1`.

## 4. Fairness

* The PIT keeps interrupting: `WF` of `Tick`, or `SF` where interrupts go on and off,
  because the PIC keeps a timer interrupt pending until it can be taken. The same
  holds of the disk's interrupt.
* Code in a system call runs on (`WF` of the steps of system calls): nothing can
  stop it but sleeping. The boot thread gets something done between two ticks (`SF`
  of its driver steps).
* The world goes on: keys are pressed, the reader of a pipe reads again and again,
  the disk works, a lock others hold is freed, and init calls `wait` in its loop
  (`main.c`). Each is stated with the fair specification of its module.

Nothing is assumed about which thread runs: that is the scheduler's own doing.

## 5. Findings

Shown by runs:

1. `init_reaps`: a zombie handed over to init while init sleeps in `wait` stays until
   some other child of init exits: `init_adopt_a_child` wakes nobody (`main.c:76`
   says that init reaps the zombies).
2. `files_overlap`: `sys_unlink` tests `file_table` (`fs/fs.c:514`), but `file_open`
   fills its slot only after it has slept for the inode. A process that unlinks
   meanwhile finds the file unused and deletes it, contrary to `fs/fs.c:520`.
3. `file_read`: a read that crosses direct blocks leaves out the address of the one in
   which it ends (`fs/file.c:462`); its tail is the contents of sector 0. The comment
   at `fs/file.c:436` says all addresses are recorded.

Stated in the modules and refuted by TLC when added to the cfg named; they are not
runs of their own:

* `Pipe!WriteNeverSleeps` (`MCPipe`): `pipe_write` takes `bufsize - ioq_length` for
  the room left, but a ring of `bufsize` holds one less. A write of `bufsize`
  characters sleeps, contrary to the comment at `user/pipe.c:63`.
* `IOQueue!ProducerSleepsOnFull` (`MCPipe`): a second producer that slept in
  `lock_acquire` goes to `ioq_wait` without testing again, and sleeps though there is
  room (`include/device/ioqueue.h:13`); with an empty pipe `pipe_read` returns 0 and
  does not wake it.
* `Disk!BusyWaitEnds` (`MCDisk`): `busy_wait` sleeps by yielding until `ticks`
  advances. In a system call interrupts are off; if nobody else is ready the process
  yields to itself for ever. (Its limit is also lowered by 1 in place of 10, since
  `>=` binds tighter than `-=`, `device/ide.c:131`; the model does as the code.)
* `FileTable!OneWriter` (`MCFileTable`): any `file_close` clears `write_deny`, and
  `file_create` never sets it, so a file can be open for writing twice
  (`include/fs/inode.h:12`).
* `FileSys!EmptiedIsSmall` (`MCDirEmptied.cfg`): an empty directory that once had more
  than a block keeps its blocks, and `rmdir` fails the ASSERT of `dir_remove`
  (`fs/dir.c:381`); the comment above it says that an empty directory has one sector.

Reached by turning a switch on or moving a bound, with the cfg named:

* `Overlap = TRUE` breaks `DescriptorsExact` (two opens choose one slot,
  `fs/file.c:184`), `CountsExact` (two inodes with one number, `fs/inode.c:80`) and
  `NoFault`.
* `ShareFiles = TRUE` breaks `DescriptorsExact` and `NoFault`: parent and child share
  a slot, and the first close empties it (`user/fork.c:124`).
* `CarryHeap = TRUE` breaks `Memory!BlocksExact`: the child's descriptors are
  empty while its arenas name the parent's (`user/fork.c:31`), and `execv` reads a
  program over heap pages (`user/exec.c:83`).
* `BootSpec` breaks `FramesExclusive`: `page_table_add` takes a page table
  without the lock of the kernel pool (`kernel/memory.c:226`).
* `RemoveLeft = TRUE` breaks `FileSys!InodesFresh`, a part of `BlocksExact`
  (`MCStaleInode.cfg`): `sys_open` of a file that exists does not close the directory
  that `search_file` opened for it (`fs/fs.c:351`), although `fs/fs.c:278` leaves that to
  it and its other branches do. mkdir /d, create, close and open /d/x, close and unlink
  it, rmdir /d: the inode of d stays on `open_inodes`, and whoever gets its number is
  opened through it.
* `ByteRange < NumInodes` breaks `InodesFresh` (`MCInodeByte.cfg`): `inode_sync` keeps
  the number in 8 bits and writes inode 256 over inode 0 (`fs/inode.c:46`), not to its
  place, as `fs/inode.c:44` says.
* `MaxEntries = 6` with one direct block breaks `DirectoriesExact` (`MCDirTable.cfg`):
  `sync_dir_entry` never reads the indirect table (`fs/dir.c:124`), so the next entry
  behind the first indirect block gets a new table, and the entries of the old one are
  lost.

Part of the models, and allowed for by the properties as they are stated:

* Leaks: one page of the address bitmap at each exit (`user/wait_exit.c:56` rounds
  down), PCB and buffer page of a failed fork (`user/fork.c:180`); `LostExact`
  counts them and finds no other. A slot whose open fails late is never given back
  (`fs/file.c:190`).
* `pfree` compares with `>` (`kernel/memory.c:476`): it clears the right bit for the
  first user frame only because the user's bitmap follows the kernel's.
* `file_write` to a file with an indirect table assigns -1 where it means to compare
  (`fs/file.c:372`): such a file never grows by a block again and each attempt loses
  one. `inode_release` skips the last index (`fs/inode.c:198`).
* `rmdir("/")` and `unlink("/")` fail ASSERTs (`fs/fs.c:704`, `fs/fs.c:499`); look-ups
  and getcwd in a directory that was removed under the process read whatever is there
  now; writes and reads that use the last block run into the ASSERTs of `file_write` and
  `file_read`; a full bitmap fails that of `bitmap_scan`. `PanicsExplained` says that no
  other assertion on the state of the file system fails, and none of these without its
  cause.
* `free(NULL)` fails an ASSERT (`kernel/memory.c:555`), and a malloc just below the size
  of the pool passes the test at `kernel/memory.c:397` and fails the ASSERT of
  `malloc_page` (`kernel/memory.c:248`) with its 3840 pages. `PanicsKnown` says that no
  other assertion of `kernel/memory.c` fails, a full bitmap's excepted.
* `sys_pipe` does not look at the -1 of a full `file_table` (`user/pipe.c:16`).
* A third generation of forks without an exec stops at the ASSERT on the name's length
  (`user/fork.c:45`).
* `delete_dir_entry` passes `&p->my_disk` for `p->my_disk` when the directory has an
  indirect table (`fs/dir.c:222`), and never gives a block back, since
  `is_dir_first_block` is not reset; `sys_unlink` of a path below a regular file
  removes that file; `partition_format` frees one bit behind the partition's blocks
  (`fs/fs.c:93`).

Found while reading: `file_create` takes the inode from the caller's heap
(`fs/file.c:114`), although `fs/inode.c:93` says why that must not be.

## 6. Proofs

All theorems are about the `Spec` of a module with its constants left open: every set
of threads, every choice of slices, every size of the pid pool, of the ring buffer, of
the disk's registers, of the file table and of the page pools. TLC checks the same formulas on the instances of section 3,
except `NoPanic` of `Sync` and of `WaitExit`, which are only proved, and
`SleepersRecorded`, which the run checks with the keyboard and the proof with the pipe.

| Module | Theorem | States |
|---|---|---|
| `SchedulerProofs` | `TypeCorrect` | `TypeOK` |
| | `NeverPanics` | `NoPanic`: no `ASSERT` or `PANIC` of the thread layer fires |
| | `ReadyListIsExact` | `ReadyListExact`: the ready list holds the READY threads, each once, and the one RUNNING thread has the processor |
| | `PidsAreExact` | `PidsExact`: the list of all threads and the pid pool describe the living threads, pids all different |
| | `OrderIsKept` | `QueueOrderKept`, an action property: only a woken thread passes others in the queue |
| `SyncProofs` | `LockExcludes` | `MutualExclusion` |
| | `NeverPanics` | `NoPanic` |
| | `HolderIsExact` | `HolderExact` |
| | `WaitersAreExact` | `WaitersExact` |
| | `WakeupKept` | `NoLostWakeup` |
| | `LockImplements` | `ImplementsLock`: `Sync` refines `LockSpec` |
| `PipeProofs` | `NeverPanics` | `NoPanic` |
| | `PipeIsFifo` | `Fifo` |
| | `SleepersAreRecorded` | `SleepersRecorded` |
| | `SleepsOnlyLast` | `PipeSleeps` |
| `WaitExitProofs` | `ParentsAreExact` | `ParentExact` |
| | `WaitIsNotMissed` | `WaitNotMissed` |
| | `SleepStatesAreExact` | `SleepStatesExact` |
| | `NeverPanics` | `NoPanic` |
| `DiskProofs` | `PanicsOnlyOnTimeout` | `PanicOnlyOnTimeout` |
| | `CommandsAreOwn` | `OwnCommand` |
| | `FreeIsQuiet` | `QuietWhenFree` |
| | `DoneIsNotMissed` | `DoneNotMissed` |
| `FileTableProofs` | `FilesNeverFault` | `NoFault` |
| | `DescriptorsAreExact` | `DescriptorsExact` |
| | `CountsAreExact` | `CountsExact` |
| | `OpenFilesAreKept` | `OpenFileKept` |
| `MemoryProofs` | `PanicsAreKnown` | `PanicsKnown` |
| | `FramesAreExclusive` | `FramesExclusive` |
| | `LossesAreExact` | `LostExact` |
| | `BlocksAreExact` | `BlocksExact` |

`ThreadOpsProofs` has the lemmas that those of the scheduler, the lock, the pipe, the
processes and the disk rest on: about lists (push, append,
pop and remove keep a list free of repetitions and change its members as expected),
one for each operation of the thread layer, and what the semaphore operations of
`SyncOps` leave of a semaphore or a lock.

### Assumptions

`ThreadsAssumption` (init, main and idle are three different pages), `PrioAssumption`
(slices are natural numbers), `MaxPidAssumption` (room for the three boot pids),
`PidsSuffice` (no more pages for PCBs than pids: with some 26 of 3840 kernel pages for a
process, memory runs out long before 1024 pids, so `allocate_pid` never meets a full pool),
`NoThreadAssumption` (NULL is no thread). `Sync`: `KThreadsAssumption` and
`MaxNestAssumption`. `Pipe`: `BufSizeAssumption` (a ring of at least two slots, one of
which stays empty), `PipeEndsAssumption`, `MaxCountAssumption`. `Disk`:
`RegSizeAssumption`, `TimeLimitAssumption`, `MaxSectorsAssumption`. `FileTable`:
`SizesAssumption` (a slot and a descriptor at least) and `NamesAssumption` (finitely
many processes and names; the boot thread is no process; NULL and the page of a pipe
are no inode). `Memory`: `PoolsAssumption` (each pool is a whole number of bytes of its
bitmap, as 3840 pages are), `ArenaAssumption` (an arena's header is smaller than a page,
an address bitmap at least a page), `ProcsAssumption` (finitely many processes, init one
of them, the kernel none), `BlocksAssumption` (a block of every descriptor fits
behind the header) and `LimitAssumption` (the pages that the kernel itself asks for at
once are fewer than `malloc_page` accepts). TLC evaluates each of them in the runs of its module. They bound nothing from above but the time limit,
which the code keeps in 16 bits.

### The scheduler

None of its properties is inductive. `NoPanic` needs that a thread about to be appended
is not queued, hence `ReadyExact`; that `schedule` with an empty list finds idle asleep
needs `IdleExact` (idle is RUNNING, READY or BLOCKED, never freed) together with the
fact that RUNNING means "has the processor"; the pid invariant needs that dead PCBs
are out of both lists and that only main leaves one behind. The inductive invariant
`SchedInv` is the conjunction of these. Between the assignment of
`status` in `thread_block` and the end of `schedule` the processor's owner is not
RUNNING, so the lemmas are about the weaker `SchedCore`, and `Dispatch` turns
`SchedCore` back into `SchedInv`.

`OrderIsKept` follows from `SchedInv` and one lemma on each list operation: push puts
in front one thread that slept, append puts behind, pop and remove add no pair, and a
list without repetitions orders each pair in one way only.

### The lock

`SyncInv` adds to `SchedInv` the four invariants and three facts. `PlaceInv`: a
thread's place in the code tells how deep it has nested. `LockInv`: `holder` and
`holder_repeat_nr` are a function of where the owner stands (`HolderAt`, `RepeatAt`),
statement by statement, since between them a preempted owner leaves the record half
written. `AsleepInv`: who sleeps elsewhere is BLOCKED and not inside the lock, so
nobody but `sema_up` wakes a waiter. With these the test of `holder` on the fast path,
made with interrupts on, can be right only for the owner itself.

For the refinement each action of `Sync` is one of `LockSpec` or leaves `AbstractOwner`
and `AbstractCount` as they were: the outer acquire takes effect where `nest` becomes
1, the outer release at the end of `sema_up`, so the statements between are stutters.
That the owner of the abstract lock is unique is `MutualExclusion`.

### The ring buffer under a pipe

`Fifo` is arithmetic of head and tail modulo `BufSize`, and of the characters modulo
`CharCount`. `CountInv` says that a reader never asks for more than there is and a
writer for at most one character more than fits, which is kept because system calls
run with interrupts off (`PlaceInv`: who is in the middle of one is on the processor).
So a reader never sleeps, and a writer sleeps only with its last character, holding the
lock (`LockInv`). That the single slot `producer` is free when a writer sleeps, and that
a second writer queues up for the lock, follows from that.

### fork, wait and exit

The three invariants depend on each other. A pid in `parent_pid` is not used again
because the parent still exists; the parent still exists because whoever reaps it finds
it HANGING; a HANGING process has no children left because `sys_exit` gave them to init
before it hung. In `WaitExitInv` children are told by the history variable `father` and
not by pid (`FatherInv`, `WaitInv`); the lemma `ChildrenByFather` shows from the
uniqueness of pids that both are the same set.

### The disk

`DiskInv` says that the machine stopped on a timeout (`HaltInv`), or that the channel
is in one of the situations `Driving` lists: where the one thread stands that drives
the channel tells what the disk does, whether its interrupt is pending, expected or
already counted in `disk_done`, and who sleeps for it. `LockInv` says that there is at
most one such thread once the disks are identified, which `identify_disk` does without
the lock while the boot thread is alone; nobody drives means `Quiet`.

### Open files

The four theorems have the hypotheses of the run: calls do not overlap while they sleep
for the disk (`~Overlap`) and programs do not fork with files open (`~ShareFiles`). They
are not conveniences. With overlap the run `files_overlap` refutes `OpenFileKept`; and a
fork counts the child's descriptors in the inode's open count but not in the slot, so
after it two descriptors name one file slot and the first close frees it. The invariant
is `FilesOrWild`: `FileTableInv`, or a `sys_pipe` has found the table full and the machine
stopped (`StoppedStays`); the properties speak of a running machine, or of its fault.

`FileTableInv` ties the tables to each other: a descriptor names a slot in use
(`DescInv`), `fd_pos` counts the descriptors of a pipe (`PosInv`), the slots no process
can close are as many as `lost` says (`LostInv`), a listed inode has slots and counts
them, or is being released, and has a directory entry (`InodeInv`), the inode bitmap
covers the directory (`DirInv`). The calls under way are part of it: what a call
chose before it slept, slot, inode and number, is still free or still unlinked when it
continues (`CallInv`), which is kept because only one call is under way (`OneCall`).
That `inode_release` finds an inode to allocate, and `file_create` a number, is a
pigeonhole argument (`IdLeft`, `InoLeft`).

`release_prog_resource` closes all descriptors in one step, so the part of the
invariant about the tables, `FilesInv`, is a predicate of any tables. `CloseFacts`
shows that one close keeps it, and `CloseAllFacts` that the loop does, by induction
over the descriptors. The induction is over a set (`NatSetInduction`, from the least
member of its complement), since the library's rule takes an operator, which the
provers cannot instantiate.

### Memory

The four theorems have the hypothesis of the run, `~CarryHeap`: a program frees no small
block from before its fork and calls exec with an empty heap. Section 5 says what the
code does otherwise.

`MemoryInv` has two halves. `MachineInv` is about the machine: every bit of the three
bitmaps is set exactly when a page table says so (`FramesInv`), what a process owns in
each state of its life (`LifeInv`: page directory and PCB until it is reaped, pages and
tables only while it lives), and that the kernel pages of the processes, their pieces,
are mapped and lie apart (`PagesInv`). `HeapInv` is about one heap: arenas lie apart, and
each free list has the blocks that are not held (`ListsInv`). It knows of the machine
only the set of pages the heap may lie on, `Area`: for the kernel what is mapped and no
piece of a process, for a process its mapped pages but the stack's. `HeapsInv` puts the
halves together and counts: the pages of the kernel's area that no arena covers are as
many as `Losses` says.

So each call is proved in two parts. `MallocPageFacts` and `MfreePageFacts` say how a
call changes an area and that it leaves the areas of others alone; `PopFacts`,
`AddLargeFacts`, `AddBlocksFacts`, `GiveFacts` and `DropFacts` say what it makes of the
heap on it. fork, exec, exit, wait and process start move pieces: `MovesFacts` shows that
what becomes unreachable is exactly `Extra`, which is empty except for exit and for a
fork that fails. That palloc returns different frames rests on `RankExists` (a finite
set of numbers has a member of every rank); that the loop of `list_remove` in `sys_free`
empties the list of the arena's blocks and of nothing else is `CollectFacts`, an
induction over the blocks. `BitFacts` is where `pfree`'s wrong comparison turns out to be
harmless: with pools of whole bytes it finds the same bit.

The attempt to prove `BlocksExact` in an earlier form failed for a good reason. It told
a process's own arenas from those it inherited by the `owner` their header names. That
is wrong once a PCB is used again: p1 allocates, forks p2, exits and is reaped, and p2
forks a process that gets p1's PCB. The arena it inherits then names its own
descriptors, though its lists are empty. The header's pointer cannot tell, so the model
marks an arena as `old` when fork copies it, and the property and the restriction on
`SysFree` are stated with that. Two processes, as in the run, do not show this.

TLC checked each inductive invariant on an instance before it was proved.

### Only model-checked

* Liveness (`ReadyRuns`, `FreeLockTaken`, `ReadReturns`, `WriteReturns`, `WaitReturns`,
  `ReadEnds`): fairness and ENABLED are outside what the prover handles.
* `IOQueue` under the keyboard, whose reader can sleep in both places. The proofs of
  `PipeProofs` use that a reader of a pipe never does.
* The invariants of `FileSys`: `FilesIntact`, `BlocksExact`, `DirectoriesExact` and
  `LookupsExact` are about what paths, files of several blocks and directories contain,
  which recursive functions over paths and blocks compute, so each needs an induction
  over data; `PanicsExplained` depends on them.
* `Memory` with `BootSpec`, and with `CarryHeap`, where the properties do not hold.

## 7. Not modelled, and the plan

Left out for good: boot code, console output, `printf` and string helpers (no state
the properties are about); the parsing of ELF headers, register frames and the TSS;
the text processing of the shell and of user programs; `sys_stat`, which only reads;
`sys_fd_redirect`, which only the shell's pipes use; the decoding of scan codes in
front of `KeyPress`.

A restart between two disk writes of one call is left out as well: the code writes
bitmap, inode and directory one after the other, keeps no log and has no check at
mount, so there is no recovery to verify. `Reboot` of `FileSys` restarts between
calls, which shows that what a finished call promises is on the disk.

The preemption of the boot thread is modelled in `Sync` and `Disk`, and in `Memory`
only by `BootSpec`.

What is left is proof. `FileSys` would need an induction for each walk over a path or
the blocks of a file; a first step would be the half of
`BlocksExact` that is about the bitmaps, which needs no contents. For the keyboard's
`IOQueue` an invariant would have to say which of two readers sleeps where, as `Driving`
does for the disk.
