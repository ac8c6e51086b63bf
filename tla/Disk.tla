-------------------------------- MODULE Disk ---------------------------------
(***************************************************************************)
(* The driver of one IDE channel (device/ide.c) and the disk behind it.    *)
(* A call holds the channel's lock from its first command to its last; each*)
(* command ends with an interrupt, whose handler ups disk_done.  The boot  *)
(* thread calls the driver with interrupts on; processes call it from      *)
(* system calls, with interrupts off, so that the disk's interrupt is taken*)
(* only while another thread has the processor.  ide_init's identify_disk  *)
(* gives its commands without the lock.  The lock is taken and released in *)
(* one step here: Sync has its steps.                                      *)
(***************************************************************************)
EXTENDS SyncOps

CONSTANTS RegSize,     \* 256: what the 8-bit sector count register counts to
          MaxSectors,  \* bound: sectors one call asks for
          TimeLimit    \* time_limit at the start of busy_wait, 30 * 1000

ASSUME RegSizeAssumption == RegSize \in Nat \ {0}

ASSUME MaxSectorsAssumption == MaxSectors \in Nat

ASSUME TimeLimitAssumption == TimeLimit \in 2 .. 2^16 - 1

VARIABLES
    sched,   \* the scheduler, see ThreadOps
    chan,    \* struct ide_channel: lock, disk_done, expecting_intr
    disk,    \* the disk: what it does and the command in its registers
    irq,     \* the PIC holds an interrupt of the disk
    pc,      \* where each thread is
    call,    \* each thread's call: operation, sec_cnt, secs_done
    limit,   \* time_limit in the busy_wait of the thread that drives the disk
    ticked   \* ticks advanced since that busy_wait began to sleep

vars == <<sched, chan, disk, irq, pc, call, limit, ticked>>

Places == {"out",      \* outside the driver
           "lock",     \* before lock_acquire
           "locking",  \* in its sema_down after thread_block, interrupts off
           "select",   \* at the head of the loop over secs_done
           "command",  \* in cmd_out, before the write of the register
           "done",     \* before sema_down(&disk_done)
           "woken",    \* in it after thread_block, interrupts off
           "busy",     \* in busy_wait
           "sleep",    \* in ticks_to_sleep
           "transfer", \* before read_from_sector or write_to_sector
           "release"}  \* before lock_release

\* The disk without a command: what its registers keep is not looked at.
AtRest == [phase |-> "ready", owner |-> NoThread, from |-> 0, count |-> 0]

NoCall == [op |-> "none", cnt |-> 0, done |-> 0]

\* ide_init goes over the two drives of a channel.
Identify == [op |-> "identify", cnt |-> 2, done |-> 0]

Running == sched.halt = "no"

At(t, place) == Running /\ sched.cur = t /\ pc[t] = place

InterruptsOn ==
    \/ pc[sched.cur] = "out"
    \/ sched.cur = Main /\ pc[Main] \notin {"locking", "woken"}

Goto(t, place) == pc' = [pc EXCEPT ![t] = place]

\* ide_init: nothing is mounted before the boot thread is through with its
\* identify_disk of both drives, so nobody else calls the driver.
Booting == call[Main].op = "identify"

Init ==
    /\ sched = BootState
    /\ chan = [lock |-> LockInit, done |-> [value |-> 0, waiters |-> << >>],
               expecting |-> FALSE]
    /\ disk = AtRest
    /\ irq = FALSE
    /\ pc = [t \in Threads |-> IF t = Main THEN "select" ELSE "out"]
    /\ call = [t \in Threads |-> IF t = Main THEN Identify ELSE NoCall]
    /\ limit = TimeLimit
    /\ ticked = FALSE

-----------------------------------------------------------------------------
\* ide_read and ide_write up to the command.  init itself never uses the disk.

Call(t, op, cnt) ==
    /\ At(t, "out")
    /\ t \notin {Idle, InitProc}
    /\ ~Booting
    /\ call' = [call EXCEPT ![t] = [op |-> op, cnt |-> cnt, done |-> 0]]
    /\ Goto(t, "lock")
    /\ UNCHANGED <<sched, chan, disk, irq, limit, ticked>>

LockSleep(t) ==
    /\ At(t, "lock") \/ At(t, "locking")
    /\ ~AcquirePasses(chan.lock)
    /\ sched' = DownWaits(sched, chan.lock)
    /\ chan' = [chan EXCEPT !.lock = DownQueues(sched, @)]
    /\ Goto(t, "locking")
    /\ UNCHANGED <<disk, irq, call, limit, ticked>>

LockTake(t) ==
    /\ At(t, "lock") \/ At(t, "locking")
    /\ AcquirePasses(chan.lock)
    /\ sched' = AcquireChecks(sched, chan.lock)
    /\ chan' = [chan EXCEPT !.lock = Acquired(sched, @)]
    /\ Goto(t, "select")
    /\ UNCHANGED <<disk, irq, call, limit, ticked>>

\* secs_op: what is left, as far as one command goes; identify moves one sector.
SecsOp(t) ==
    IF call[t].op = "identify" THEN 1
    ELSE IF call[t].done + RegSize <= call[t].cnt THEN RegSize
    ELSE call[t].cnt - call[t].done

\* Mutant of Select: the start sector of the call, not of this round.
SelectFirst(t) ==
    /\ At(t, "select")
    /\ disk' = [disk EXCEPT !.from = 0, !.count = SecsOp(t) % RegSize]
    /\ chan' = [chan EXCEPT !.expecting = TRUE]
    /\ Goto(t, "command")
    /\ UNCHANGED <<sched, irq, call, limit, ticked>>

\* Mutant of Select: expecting_intr is not set.
SelectUnexpecting(t) ==
    /\ At(t, "select")
    /\ disk' = [disk EXCEPT !.from = call[t].done, !.count = SecsOp(t) % RegSize]
    /\ Goto(t, "command")
    /\ UNCHANGED <<sched, chan, irq, call, limit, ticked>>

\* select_disk, select_sector (the count is cut to 8 bits) and the first
\* statement of cmd_out.
Select(t) ==
    /\ At(t, "select")
    /\ disk' = [disk EXCEPT !.from = call[t].done, !.count = SecsOp(t) % RegSize]
    /\ chan' = [chan EXCEPT !.expecting = TRUE]
    /\ Goto(t, "command")
    /\ UNCHANGED <<sched, irq, call, limit, ticked>>

\* Mutant of Command: a read polls busy_wait and leaves disk_done alone.
CommandPolls(t) ==
    /\ At(t, "command")
    /\ disk' = [disk EXCEPT !.phase = "busy", !.owner = t]
    /\ Goto(t, "busy")
    /\ limit' = TimeLimit
    /\ UNCHANGED <<sched, chan, irq, call, ticked>>

\* The second statement of cmd_out. ide_write goes to busy_wait, the others wait
\* for the interrupt first.
Command(t) ==
    /\ At(t, "command")
    /\ disk' = [disk EXCEPT !.phase = "busy", !.owner = t]
    /\ Goto(t, IF call[t].op = "write" THEN "busy" ELSE "done")
    /\ limit' = TimeLimit
    /\ UNCHANGED <<sched, chan, irq, call, ticked>>

-----------------------------------------------------------------------------
\* sema_down(&disk_done), busy_wait and the transfer

\* Behind sema_down: a read goes to busy_wait, a write is through with the round.
DoneSleep(t) ==
    /\ At(t, "done") \/ At(t, "woken")
    /\ chan.done.value = 0
    /\ sched' = DownWaits(sched, chan.done)
    /\ chan' = [chan EXCEPT !.done = DownQueues(sched, @)]
    /\ Goto(t, "woken")
    /\ UNCHANGED <<disk, irq, call, limit, ticked>>

\* secs_done += secs_op, and the loop's test.  identify_disk has no lock to
\* release.  What nobody reads any more is recorded as NoCall or TimeLimit.
RoundEnds(t) ==
    LET done == call[t].done + SecsOp(t)
        more == done < call[t].cnt
    IN  /\ call' = [call EXCEPT ![t] = IF more THEN [@ EXCEPT !.done = done]
                                       ELSE NoCall]
        /\ Goto(t, IF more THEN "select"
                   ELSE IF call[t].op = "identify" THEN "out" ELSE "release")
        /\ limit' = TimeLimit

DoneTake(t) ==
    /\ At(t, "done") \/ At(t, "woken")
    /\ chan.done.value # 0
    /\ sched' = DownTakes(sched, chan.done)
    /\ chan' = [chan EXCEPT !.done = DownLowers(@)]
    /\ IF call[t].op = "write"
       THEN RoundEnds(t)
       ELSE Goto(t, "busy") /\ UNCHANGED <<call, limit>>
    /\ UNCHANGED <<disk, irq, ticked>>

\* One pass of the loop of busy_wait: time_limit -= (10 >= 0), then the status
\* register.  A result of false makes both callers PANIC.
BusyWait(t) ==
    /\ At(t, "busy")
    /\ limit' = limit - 1
    /\ LET expired == limit - 1 = 0
           bsy     == disk.phase \in {"busy", "writing"}
           drq     == disk.phase = "data"
       IN  \/ /\ expired \/ (~bsy /\ ~drq)
              /\ sched' = Panic(sched)
              /\ UNCHANGED <<pc, ticked>>
           \/ /\ ~expired /\ bsy
              /\ ticked' = FALSE
              /\ Goto(t, "sleep")
              /\ UNCHANGED sched
           \/ /\ ~expired /\ ~bsy /\ drq
              /\ Goto(t, "transfer")
              /\ UNCHANGED <<sched, ticked>>
    /\ UNCHANGED <<chan, disk, irq, call>>

\* ticks_to_sleep of the one tick that mtime_sleep(10) makes of 10 ms.
SleepYield(t) ==
    /\ At(t, "sleep")
    /\ ~ticked
    /\ sched' = Yield(sched)
    /\ UNCHANGED <<chan, disk, irq, pc, call, limit, ticked>>

SleepEnds(t) ==
    /\ At(t, "sleep")
    /\ ticked
    /\ ticked' = FALSE
    /\ Goto(t, "busy")
    /\ UNCHANGED <<sched, chan, disk, irq, call, limit>>

\* read_from_sector; write_to_sector, after which the disk is busy again.
Transfer(t) ==
    /\ At(t, "transfer")
    /\ IF call[t].op = "write"
       THEN /\ disk' = [disk EXCEPT !.phase = "writing"]
            /\ Goto(t, "done")
            /\ UNCHANGED <<call, limit>>
       ELSE /\ disk' = AtRest
            /\ RoundEnds(t)
    /\ UNCHANGED <<sched, chan, irq, ticked>>

Release(t) ==
    /\ At(t, "release")
    /\ sched' = ReleaseWakes(sched, chan.lock)
    /\ chan' = [chan EXCEPT !.lock = Released(@)]
    /\ Goto(t, "out")
    /\ UNCHANGED <<disk, irq, call, limit, ticked>>

DriverStep(t) ==
    \/ LockSleep(t) \/ LockTake(t)
    \/ Select(t) \/ Command(t)
    \/ DoneSleep(t) \/ DoneTake(t)
    \/ BusyWait(t) \/ SleepYield(t) \/ SleepEnds(t)
    \/ Transfer(t)
    \/ Release(t)

-----------------------------------------------------------------------------
\* The disk, as the driver uses it: a read or identify command ends with data to
\* fetch and an interrupt; a write command asks for data, and ends with an
\* interrupt once it has them.
DiskWorks ==
    /\ Running
    /\ disk.phase \in {"busy", "writing"}
    /\ LET asksForData == disk.phase = "busy" /\ call[disk.owner].op = "write"
       IN  irq' = (irq \/ ~asksForData)
    /\ disk' = IF disk.phase = "busy" THEN [disk EXCEPT !.phase = "data"]
               ELSE [disk EXCEPT !.phase = "ready"]
    /\ UNCHANGED <<sched, chan, pc, call, limit, ticked>>

\* Mutant of DiskIntr: expecting_intr is not reset.
IntrStaysExpecting ==
    /\ Running /\ InterruptsOn /\ irq
    /\ irq' = FALSE
    /\ chan' = [chan EXCEPT !.done = UpRaises(@)]
    /\ sched' = UpWakes(sched, chan.done)
    /\ UNCHANGED <<disk, pc, call, limit, ticked>>

\* intr_hd_handler
DiskIntr ==
    /\ Running /\ InterruptsOn /\ irq
    /\ irq' = FALSE
    /\ IF chan.expecting
       THEN /\ chan' = [chan EXCEPT !.expecting = FALSE, !.done = UpRaises(@)]
            /\ sched' = UpWakes(sched, chan.done)
       ELSE UNCHANGED <<chan, sched>>
    /\ UNCHANGED <<disk, pc, call, limit, ticked>>

-----------------------------------------------------------------------------
\* The rest of the system

\* intr_timer_handler: ticks++ too, of which only a sleeper in busy_wait knows.
Tick ==
    /\ Running
    /\ InterruptsOn
    /\ sched' = TimerTick(sched)
    /\ ticked' = (ticked \/ \E t \in Threads : pc[t] = "sleep")
    /\ UNCHANGED <<chan, disk, irq, pc, call, limit>>

IdleLoop ==
    /\ At(Idle, "out")
    /\ sched' = Block(sched, "BLOCKED")
    /\ UNCHANGED <<chan, disk, irq, pc, call, limit, ticked>>

\* sys_fork by the running process.
Fork(t, p) ==
    /\ At(sched.cur, "out")
    /\ sched.cur \notin {Idle, Main}
    /\ sched.status[t] = "FREE"
    /\ LowestFreePid(sched, p)
    /\ sched' = ThreadStart(sched, t, p)
    /\ UNCHANGED <<chan, disk, irq, pc, call, limit, ticked>>

\* init in its sys_wait: it sleeps until a process that exits wakes it.
InitWaits ==
    /\ At(InitProc, "out")
    /\ sched' = Block(sched, "WAITING")
    /\ UNCHANGED <<chan, disk, irq, pc, call, limit, ticked>>

WakeInit ==
    /\ At(sched.cur, "out")
    /\ sched.cur \notin {Idle, Main}
    /\ sched.status[InitProc] = "WAITING"
    /\ sched' = Unblock(sched, InitProc)
    /\ UNCHANGED <<chan, disk, irq, pc, call, limit, ticked>>

\* The end of main.
MainExit ==
    /\ At(Main, "out")
    /\ sched' = Schedule(ThreadExit(sched, Main))
    /\ UNCHANGED <<chan, disk, irq, pc, call, limit, ticked>>

Spin == ~Running /\ UNCHANGED vars

Next ==
    \/ \E t \in Threads, op \in {"read", "write"}, n \in 1 .. MaxSectors :
         Call(t, op, n)
    \/ \E t \in Threads : DriverStep(t)
    \/ DiskWorks \/ DiskIntr
    \/ Tick \/ IdleLoop \/ InitWaits \/ WakeInit \/ MainExit \/ Spin
    \/ \E t \in Threads, p \in Pids : Fork(t, p)

Spec == Init /\ [][Next]_vars

\* The disk works on, system calls run on, the boot thread gets something done
\* between ticks, and the PIT and the PIC keep their interrupts until they can be
\* taken, however briefly interrupts are on.
FairSpec ==
    /\ Spec
    /\ WF_vars(DiskWorks)
    /\ WF_vars(\E t \in Threads : DriverStep(t))
    /\ SF_vars(DriverStep(Main))
    /\ SF_vars(DiskIntr)
    /\ SF_vars(Tick)

-----------------------------------------------------------------------------
TypeOK ==
    /\ sched \in SchedState
    /\ chan \in [lock : LockState,
                 done : [value : Nat, waiters : Seq(Threads)],
                 expecting : BOOLEAN]
    /\ disk \in [phase : {"ready", "busy", "data", "writing"},
                 owner : Threads \cup {NoThread},
                 from : 0 .. MaxSectors + 1,
                 count : 0 .. RegSize - 1]
    /\ irq \in BOOLEAN
    /\ pc \in [Threads -> Places]
    /\ call \in [Threads -> [op : {"none", "identify", "read", "write"},
                              cnt : Nat, done : Nat]]
    /\ limit \in 0 .. TimeLimit
    /\ ticked \in BOOLEAN

Sectors(register) == IF register = 0 THEN RegSize ELSE register

\* The kernel stops only when the disk stayed busy through all of busy_wait: no
\* assertion of the lock, of disk_done or of the scheduler fires, and a disk
\* that answered always has its data ready for the driver.
PanicOnlyOnTimeout == sched.halt # "no" => limit = 0

\* A driver that moves data moves those of its own command: the one the disk
\* executes was given by this thread, for the sectors this round is about, and
\* the disk counts as many of them (0 stands for RegSize) as the driver.
OwnCommand ==
    \A t \in Threads :
      pc[t] \in {"done", "woken", "busy", "sleep", "transfer"}
        => /\ disk.owner = t
           /\ disk.from = call[t].done
           /\ Sectors(disk.count) = SecsOp(t)
           /\ pc[t] = "transfer" => disk.phase = "data"

\* A channel whose lock is free has nothing left over from earlier commands: no
\* interrupt on its way or expected, no token in disk_done, a disk at rest.
QuietWhenFree ==
    (chan.lock.value = 1 /\ ~Booting)
      => /\ ~irq /\ ~chan.expecting
         /\ chan.done = [value |-> 0, waiters |-> << >>]
         /\ disk.phase = "ready"

\* Nobody sleeps for an interrupt that was or will be lost: the one who sleeps
\* for disk_done is in its list, the disk works or has interrupted, and the
\* handler expects it.
DoneNotMissed ==
    \A t \in Threads :
      pc[t] = "woken" /\ sched.status[t] = "BLOCKED"
        => /\ chan.done = [value |-> 0, waiters |-> <<t>>]
           /\ chan.expecting
           /\ irq \/ disk.phase \in {"busy", "writing"}

\* A read ends: the disk's interrupt wakes the driver whatever others do, and the
\* lock comes free again.
ReadEnds ==
    \A t \in Threads :
      (chan.lock.holder = t /\ call[t].op = "read")
        ~> (chan.lock.holder # t \/ sched.halt # "no")

\* The comment on busy_wait: wait for the disk for 30 seconds and judge its
\* state.  A busy_wait comes to an end.  TLC refutes it for MCDisk: a process
\* alone on the ready list yields to itself with interrupts off, and no tick comes.
BusyWaitEnds ==
    \A t \in Threads :
      (pc[t] \in {"busy", "sleep"})
        ~> (pc[t] \notin {"busy", "sleep"} \/ sched.halt # "no")
=============================================================================
