----------------------------- MODULE DiskProofs ------------------------------
(***************************************************************************)
(* PanicOnlyOnTimeout, OwnCommand, QuietWhenFree and DoneNotMissed hold of *)
(* every behaviour of Disk, for every set of threads, every width of the   *)
(* sector count register and every length of a call.  None of them is      *)
(* inductive by itself.  What holds them together is Driving: where the    *)
(* one thread that drives the channel stands tells what the disk does,     *)
(* whether its interrupt is pending, expected or already counted in        *)
(* disk_done, and who sleeps for it.                                       *)
(***************************************************************************)
EXTENDS Disk, ThreadOpsProofs

-----------------------------------------------------------------------------
\* The inductive invariant

\* Where a thread gives commands and moves data.
Inside == {"select", "command", "done", "woken", "busy", "sleep", "transfer",
           "release"}

\* Nothing is left over from an earlier command.
Quiet ==
    /\ ~irq /\ ~chan.expecting
    /\ chan.done.value = 0 /\ chan.done.waiters = << >>
    /\ disk.phase = "ready"

\* The registers are set for this round of t's call.
Aimed(t) == disk.from = call[t].done /\ Sectors(disk.count) = SecsOp(t)

\* The interrupt that ends t's command: to come, pending, or counted.
Signal(t) ==
    LET write == call[t].op = "write"
        works == IF write THEN "writing" ELSE "busy"
        ended == IF write THEN "ready" ELSE "data"
    IN  \/ /\ disk.phase = works /\ ~irq
           /\ chan.expecting /\ chan.done.value = 0
        \/ /\ disk.phase = ended /\ irq
           /\ chan.expecting /\ chan.done.value = 0
        \/ /\ disk.phase = ended /\ ~irq
           /\ ~chan.expecting /\ chan.done.value = 1

\* The disk asks for a write's data, or has a read's; the interrupt of a read is
\* over, that of a write still to come.
Polled(t) ==
    /\ ~irq /\ chan.done.value = 0 /\ chan.done.waiters = << >>
    /\ chan.expecting <=> call[t].op = "write"
    /\ \/ disk.phase = "data"
       \/ disk.phase = "busy" /\ call[t].op = "write"

\* What the place of the driving thread tells of the channel.
Driving(t) ==
    /\ pc[t] \in {"select", "release"} => Quiet
    /\ pc[t] = "command" =>
         /\ Aimed(t) /\ ~irq /\ chan.expecting /\ disk.phase = "ready"
         /\ chan.done.value = 0 /\ chan.done.waiters = << >>
    /\ pc[t] \in {"done", "woken", "busy", "sleep", "transfer"} =>
         Aimed(t) /\ disk.owner = t
    /\ pc[t] \in {"done", "woken"} =>
         /\ Signal(t)
         /\ IF pc[t] = "woken" /\ sched.status[t] = "BLOCKED"
            THEN chan.done.waiters = <<t>> /\ chan.expecting
            ELSE chan.done.waiters = << >>
    /\ pc[t] \in {"busy", "sleep", "transfer"} => Polled(t)
    /\ pc[t] = "transfer" => disk.phase = "data"

DriveInv ==
    /\ \A t \in Threads : pc[t] \in Inside => Driving(t)
    /\ (\A t \in Threads : pc[t] \notin Inside) => Quiet

\* The thread inside holds the lock, but for the boot thread in ide_init, which
\* is alone.
LockInv ==
    /\ \A t \in Threads : pc[t] \in Inside
         <=> chan.lock.holder = t \/ (t = Main /\ Booting)
    /\ Booting => chan.lock.holder = NoThread
    /\ IF chan.lock.holder = NoThread
       THEN chan.lock.value = 1 /\ chan.lock.repeat = 0
       ELSE chan.lock.value = 0 /\ chan.lock.repeat = 1
    /\ IsInjective(chan.lock.waiters)
    /\ \A t \in Threads : Contains(chan.lock.waiters, t)
         <=> pc[t] = "locking" /\ sched.status[t] = "BLOCKED"

\* Calls: nobody is in one that is through, and none is without sectors left.
CallInv ==
    \A t \in Threads :
      /\ call[t].op = "none" <=> pc[t] \in {"out", "release"}
      /\ call[t].op = "identify" => t = Main
      /\ Booting => t = Main \/ pc[t] = "out"
      /\ call[t].op # "none" => /\ call[t].done < call[t].cnt
                                /\ call[t].cnt <= MaxSectors + 2

\* Only threads that exist are in the driver, and never idle or init; who is
\* BLOCKED is idle or waits in one of the two lists.
PlaceInv ==
    \A t \in Threads :
      /\ pc[t] # "out" => Exists(sched, t) /\ t # Idle /\ t # InitProc
      /\ sched.status[t] = "BLOCKED" => t = Idle \/ pc[t] \in {"locking", "woken"}

RunInv ==
    /\ SchedInv(sched)
    /\ sched.halt = "no"
    /\ limit >= 1
    /\ PlaceInv
    /\ CallInv
    /\ LockInv
    /\ DriveInv

\* Once the machine has stopped nothing changes any more.
HaltInv ==
    /\ sched.halt # "no"
    /\ limit = 0
    /\ OwnCommand /\ QuietWhenFree /\ DoneNotMissed

DiskInv == TypeOK /\ (RunInv \/ HaltInv)

-----------------------------------------------------------------------------
\* Facts about a state in which the invariant holds.

LEMMA Records ==
    ASSUME TypeOK
    PROVE  /\ chan = [lock |-> chan.lock, done |-> chan.done,
                      expecting |-> chan.expecting]
           /\ chan.lock \in LockState /\ chan.done \in SemaState
           /\ chan.done = [value |-> chan.done.value,
                           waiters |-> chan.done.waiters]
           /\ chan.expecting \in BOOLEAN
           /\ disk = [phase |-> disk.phase, owner |-> disk.owner,
                      from |-> disk.from, count |-> disk.count]
           /\ disk.phase \in {"ready", "busy", "data", "writing"}
           /\ disk.owner \in Threads \cup {NoThread}
           /\ disk.from \in 0 .. MaxSectors + 1
           /\ disk.count \in 0 .. RegSize - 1
<1>1. /\ chan = [lock |-> chan.lock, done |-> chan.done,
                 expecting |-> chan.expecting]
      /\ chan.lock \in LockState /\ chan.done \in SemaState
      /\ chan.expecting \in BOOLEAN
  BY DEF TypeOK, SemaState
<1>2. chan.done = [value |-> chan.done.value, waiters |-> chan.done.waiters]
  BY <1>1 DEF SemaState
<1>3. /\ disk = [phase |-> disk.phase, owner |-> disk.owner,
                 from |-> disk.from, count |-> disk.count]
      /\ disk.phase \in {"ready", "busy", "data", "writing"}
      /\ disk.owner \in Threads \cup {NoThread}
      /\ disk.from \in 0 .. MaxSectors + 1
      /\ disk.count \in 0 .. RegSize - 1
  BY DEF TypeOK
<1> QED BY <1>1, <1>2, <1>3

\* The caller at a place of the driver.
LEMMA AtFacts ==
    ASSUME RunInv, NEW t \in Threads, NEW place, At(t, place)
    PROVE  /\ sched.cur = t /\ pc[t] = place
           /\ sched.status[t] = "RUNNING" /\ Exists(sched, t)
           /\ place # "out" => t # Idle /\ t # InitProc
  BY DEF At, RunInv, SchedInv, PlaceInv, Exists

\* One thread at a time is inside.
LEMMA OnlyOne ==
    ASSUME RunInv, NEW t \in Threads, pc[t] \in Inside,
           NEW u \in Threads, pc[u] \in Inside
    PROVE  t = u
  BY NoThreadAssumption DEF RunInv, LockInv

\* The invariant says what the runs check.
LEMMA RunImplies ==
    ASSUME TypeOK, RunInv
    PROVE  OwnCommand /\ QuietWhenFree /\ DoneNotMissed /\ PanicOnlyOnTimeout
<1>1. OwnCommand
  BY DEF OwnCommand, RunInv, DriveInv, Driving, Inside, Aimed
<1>2. QuietWhenFree
  <2> SUFFICES ASSUME chan.lock.value = 1, ~Booting
               PROVE  /\ ~irq /\ ~chan.expecting
                      /\ chan.done = [value |-> 0, waiters |-> << >>]
                      /\ disk.phase = "ready"
    BY DEF QuietWhenFree
  <2>1. \A t \in Threads : pc[t] \notin Inside
    BY NoThreadAssumption DEF RunInv, LockInv
  <2>2. Quiet
    BY <2>1 DEF RunInv, DriveInv
  <2> QED BY <2>2, Records DEF Quiet
<1>3. DoneNotMissed
  <2> SUFFICES ASSUME NEW t \in Threads, pc[t] = "woken",
                      sched.status[t] = "BLOCKED"
               PROVE  /\ chan.done = [value |-> 0, waiters |-> <<t>>]
                      /\ chan.expecting
                      /\ irq \/ disk.phase \in {"busy", "writing"}
    BY DEF DoneNotMissed
  <2>1. Driving(t)
    BY DEF RunInv, DriveInv, Inside
  <2>2. Signal(t) /\ chan.done.waiters = <<t>> /\ chan.expecting
    BY <2>1 DEF Driving
  <2>3. chan.done.value = 0 /\ (irq \/ disk.phase \in {"busy", "writing"})
    BY <2>2 DEF Signal
  <2> QED BY <2>2, <2>3, Records
<1>4. PanicOnlyOnTimeout
  BY DEF RunInv, PanicOnlyOnTimeout
<1> QED BY <1>1, <1>2, <1>3, <1>4

LEMMA InvImplies ==
    ASSUME DiskInv
    PROVE  OwnCommand /\ QuietWhenFree /\ DoneNotMissed /\ PanicOnlyOnTimeout
  BY RunImplies DEF DiskInv, HaltInv, PanicOnlyOnTimeout

\* The width of the register: SecsOp fits it, with 0 for RegSize.
Mod(x, n) == x % n

LEMMA ModFacts ==
    ASSUME NEW N \in Nat \ {0}, NEW x \in 1 .. N
    PROVE  Mod(x, N) = IF x = N THEN 0 ELSE x
<1>1. CASE x = N
  BY <1>1 DEF Mod
<1>2. CASE x # N
  BY <1>2, x \in 0 .. N - 1 DEF Mod
<1> QED BY <1>1, <1>2

LEMMA SecsFacts ==
    ASSUME TypeOK, RunInv, NEW t \in Threads, call[t].op # "none"
    PROVE  /\ SecsOp(t) \in 1 .. RegSize
           /\ SecsOp(t) % RegSize \in 0 .. RegSize - 1
           /\ Sectors(SecsOp(t) % RegSize) = SecsOp(t)
           /\ call[t].done \in 0 .. MaxSectors + 1
<1>1. /\ call[t].done \in Nat /\ call[t].cnt \in Nat
      /\ call[t].done < call[t].cnt /\ call[t].cnt <= MaxSectors + 2
  BY DEF TypeOK, RunInv, CallInv
<1>2. SecsOp(t) \in 1 .. RegSize
  BY <1>1, RegSizeAssumption DEF SecsOp
<1>3. call[t].done \in 0 .. MaxSectors + 1
  BY <1>1, MaxSectorsAssumption
<1>4. SecsOp(t) % RegSize = IF SecsOp(t) = RegSize THEN 0 ELSE SecsOp(t)
  <2>1. Mod(SecsOp(t), RegSize) = IF SecsOp(t) = RegSize THEN 0 ELSE SecsOp(t)
    BY <1>2, ModFacts, RegSizeAssumption
  <2> QED BY <2>1 DEF Mod
<1> QED BY <1>2, <1>3, <1>4, RegSizeAssumption DEF Sectors

LEMMA InitHolds == Init => DiskInv
<1> SUFFICES ASSUME Init PROVE DiskInv
  OBVIOUS
<1>1. SchedInv(sched) /\ sched \in SchedState /\ sched.halt = "no"
  BY BootFacts DEF Init, SchedInv, SchedCore
<1>2. /\ sched.status[Main] = "RUNNING" /\ Exists(sched, Main)
      /\ \A t \in Threads : sched.status[t] # "BLOCKED"
  BY ThreadsAssumption DEF Init, BootState, Exists
<1>3. /\ chan.lock = LockInit /\ ~chan.expecting
      /\ chan.done = [value |-> 0, waiters |-> << >>]
      /\ LockInit \in LockState
  BY DEF Init, LockInit, LockState
<1>4. TypeOK
  <2>1. disk \in [phase : {"ready", "busy", "data", "writing"},
                  owner : Threads \cup {NoThread},
                  from : 0 .. MaxSectors + 1, count : 0 .. RegSize - 1]
    BY MaxSectorsAssumption, RegSizeAssumption DEF Init, AtRest
  <2>2. call \in [Threads -> [op : {"none", "identify", "read", "write"},
                               cnt : Nat, done : Nat]]
    BY DEF Init, Identify, NoCall
  <2>3. /\ irq \in BOOLEAN /\ ticked \in BOOLEAN
        /\ pc \in [Threads -> Places]
    BY DEF Init, Places
  <2>5. limit \in 0 .. TimeLimit
    BY TimeLimitAssumption DEF Init
  <2>4. chan \in [lock : LockState,
                  done : [value : Nat, waiters : Seq(Threads)],
                  expecting : BOOLEAN]
    BY <1>3 DEF Init
  <2> QED BY <1>1, <2>1, <2>2, <2>3, <2>4, <2>5 DEF TypeOK
<1>5. /\ \A t \in Threads : pc[t] = IF t = Main THEN "select" ELSE "out"
      /\ \A t \in Threads : call[t] = IF t = Main THEN Identify ELSE NoCall
      /\ limit >= 1 /\ ~irq /\ disk.phase = "ready"
  BY TimeLimitAssumption DEF Init, AtRest
<1>6. PlaceInv
  BY <1>2, <1>5, ThreadsAssumption DEF PlaceInv
<1>7. CallInv
  BY <1>5, ThreadsAssumption, MaxSectorsAssumption
     DEF CallInv, Booting, Identify, NoCall
<1>8. LockInv
  <2>1. /\ chan.lock.holder = NoThread /\ chan.lock.value = 1
        /\ chan.lock.repeat = 0 /\ chan.lock.waiters = << >>
    BY <1>3 DEF LockInit
  <2>2. /\ IsInjective(<< >>)
        /\ \A t \in Threads : ~Contains(<< >>, t)
    BY DEF IsInjective, Contains
  <2> QED BY <1>2, <1>5, <2>1, <2>2, NoThreadAssumption, ThreadsAssumption
          DEF LockInv, Booting, Identify, Inside
<1>9. DriveInv
  <2>1. Quiet
    BY <1>3, <1>5 DEF Quiet
  <2> QED BY <1>5, <2>1 DEF DriveInv, Driving, Inside
<1> QED BY <1>1, <1>4, <1>5, <1>6, <1>7, <1>8, <1>9 DEF DiskInv, RunInv

-----------------------------------------------------------------------------
\* Steps of the scheduler alone

\* Nobody but idle goes to sleep for a semaphore or is woken from one, and
\* nobody in the driver ends.
Undisturbed(s, n) ==
    \A u \in Threads \ {Idle} :
      /\ n.status[u] = "BLOCKED" <=> s.status[u] = "BLOCKED"
      /\ Exists(s, u) => Exists(n, u) \/ (u = Main /\ pc[Main] = "out")

LEMMA SchedOnly ==
    ASSUME DiskInv, RunInv, SchedInv(sched'), sched'.halt = "no",
           Undisturbed(sched, sched'), ticked' \in BOOLEAN,
           UNCHANGED <<chan, disk, irq, pc, call, limit>>
    PROVE  DiskInv'
<1>1. TypeOK /\ PlaceInv /\ CallInv /\ LockInv /\ DriveInv /\ limit >= 1
  BY DEF DiskInv, RunInv
<1>2. \A u \in Threads : pc[u] # "out" =>
        /\ Exists(sched', u)
        /\ sched'.status[u] = "BLOCKED" <=> sched.status[u] = "BLOCKED"
  BY <1>1 DEF PlaceInv, Undisturbed
<1>3. TypeOK'
  BY <1>1 DEF TypeOK, SchedInv, SchedCore
<1>4. PlaceInv'
  BY <1>1, <1>2 DEF PlaceInv, Undisturbed
<1>5. CallInv'
  BY <1>1 DEF CallInv, Booting
<1>6. LockInv'
  <2>1. \A u \in Threads : pc[u] = "locking" =>
          (sched'.status[u] = "BLOCKED" <=> sched.status[u] = "BLOCKED")
    BY <1>2
  <2> QED BY <1>1, <2>1 DEF LockInv, Booting
<1>7. DriveInv'
  <2>1. Quiet' <=> Quiet
    BY DEF Quiet
  <2>2. ASSUME NEW u \in Threads, pc[u] \in Inside
        PROVE  Driving(u)'
    <3>1. Driving(u)
      BY <1>1, <2>2 DEF DriveInv
    <3>2. sched'.status[u] = "BLOCKED" <=> sched.status[u] = "BLOCKED"
      BY <1>2, <2>2 DEF Inside
    <3>3. /\ Aimed(u)' <=> Aimed(u)
          /\ Signal(u)' <=> Signal(u)
          /\ Polled(u)' <=> Polled(u)
      BY DEF Aimed, Signal, Polled, SecsOp
    <3> QED BY <2>1, <3>1, <3>2, <3>3 DEF Driving
  <2> QED BY <1>1, <2>1, <2>2 DEF DriveInv
<1> QED BY <1>1, <1>3, <1>4, <1>5, <1>6, <1>7 DEF DiskInv, RunInv

LEMMA TickStep ==
    ASSUME DiskInv, RunInv, Tick
    PROVE  DiskInv'
<1>1. SchedInv(sched) /\ sched.halt = "no" /\ sched' = TimerTick(sched)
  BY DEF RunInv, Tick
<1>2. SchedInv(sched') /\ sched'.halt = "no" /\ Kept(sched, sched')
  BY <1>1, TickFacts
<1>3. Undisturbed(sched, sched')
  BY <1>2 DEF Kept, Undisturbed, Exists
<1> QED BY <1>2, <1>3, SchedOnly DEF Tick

LEMMA SleepYieldStep ==
    ASSUME DiskInv, RunInv, NEW t \in Threads, SleepYield(t)
    PROVE  DiskInv'
<1>1. SchedInv(sched) /\ sched.halt = "no" /\ sched' = Yield(sched)
  BY DEF RunInv, SleepYield
<1>2. SchedInv(sched') /\ sched'.halt = "no" /\ Kept(sched, sched')
  BY <1>1, YieldFacts
<1>3. Undisturbed(sched, sched')
  BY <1>2 DEF Kept, Undisturbed, Exists
<1>4. ticked' \in BOOLEAN
  BY DEF SleepYield, DiskInv, TypeOK
<1> QED BY <1>2, <1>3, <1>4, SchedOnly DEF SleepYield

LEMMA IdleLoopStep ==
    ASSUME DiskInv, RunInv, IdleLoop
    PROVE  DiskInv'
<1>1. /\ SchedInv(sched) /\ sched.halt = "no" /\ sched.cur = Idle
      /\ sched' = Block(sched, "BLOCKED") /\ "BLOCKED" \in Sleeping
  BY DEF RunInv, IdleLoop, At, Sleeping
<1>2. SchedInv(sched') /\ sched'.halt = "no"
  BY <1>1, BlockFacts
<1>3. \A u \in Threads \ {Idle} :
        IF u = Idle THEN sched'.status[u] = "BLOCKED"
        ELSE IF sched.status[u] \in {"READY", "RUNNING"}
        THEN sched'.status[u] \in {"READY", "RUNNING"}
        ELSE sched'.status[u] = sched.status[u]
  BY <1>1, BlockStatus
<1>4. Undisturbed(sched, sched')
  BY <1>3 DEF Undisturbed, Exists
<1>5. ticked' \in BOOLEAN
  BY DEF IdleLoop, DiskInv, TypeOK
<1> QED BY <1>2, <1>4, <1>5, SchedOnly DEF IdleLoop

LEMMA InitWaitsStep ==
    ASSUME DiskInv, RunInv, InitWaits
    PROVE  DiskInv'
<1>1. /\ SchedInv(sched) /\ sched.halt = "no" /\ sched.cur = InitProc
      /\ sched.status[InitProc] = "RUNNING" /\ InitProc # Idle
      /\ sched' = Block(sched, "WAITING") /\ "WAITING" \in Sleeping
  BY ThreadsAssumption DEF RunInv, InitWaits, At, Sleeping, SchedInv
<1>2. SchedInv(sched') /\ sched'.halt = "no"
  BY <1>1, BlockFacts
<1>3. \A u \in Threads \ {Idle} :
        IF u = InitProc THEN sched'.status[u] = "WAITING"
        ELSE IF sched.status[u] \in {"READY", "RUNNING"}
        THEN sched'.status[u] \in {"READY", "RUNNING"}
        ELSE sched'.status[u] = sched.status[u]
  BY <1>1, BlockStatus
<1>4. Undisturbed(sched, sched')
  BY <1>1, <1>3 DEF Undisturbed, Exists
<1>5. ticked' \in BOOLEAN
  BY DEF InitWaits, DiskInv, TypeOK
<1> QED BY <1>2, <1>4, <1>5, SchedOnly DEF InitWaits

LEMMA WakeInitStep ==
    ASSUME DiskInv, RunInv, WakeInit
    PROVE  DiskInv'
<1>1. /\ SchedInv(sched) /\ sched.halt = "no" /\ InitProc \in Threads
      /\ sched' = Unblock(sched, InitProc)
      /\ sched.status[InitProc] = "WAITING"
      /\ sched.status[InitProc] \in Sleeping
  BY ThreadsAssumption DEF RunInv, WakeInit, Sleeping
<1>2. /\ SchedInv(sched') /\ sched'.halt = "no"
      /\ \A u \in Threads : sched'.status[u] =
           IF u = InitProc THEN "READY" ELSE sched.status[u]
  BY <1>1, WakeFacts
<1>3. Undisturbed(sched, sched')
  BY <1>1, <1>2 DEF Undisturbed, Exists
<1>4. ticked' \in BOOLEAN
  BY DEF WakeInit, DiskInv, TypeOK
<1> QED BY <1>2, <1>3, <1>4, SchedOnly DEF WakeInit

LEMMA ForkStep ==
    ASSUME DiskInv, RunInv, NEW t \in Threads, NEW p \in Pids, Fork(t, p)
    PROVE  DiskInv'
<1>1. /\ SchedInv(sched) /\ sched.halt = "no" /\ sched.status[t] = "FREE"
      /\ sched' = ThreadStart(sched, t, p) /\ p \in Pids \ sched.pids
  BY DEF RunInv, Fork, LowestFreePid
<1>2. /\ SchedInv(sched') /\ sched'.halt = "no"
      /\ \A u \in Threads : sched'.status[u] =
           IF u = t THEN "READY" ELSE sched.status[u]
  BY <1>1, StartFacts
<1>3. Undisturbed(sched, sched')
  BY <1>1, <1>2 DEF Undisturbed, Exists
<1>4. ticked' \in BOOLEAN
  BY DEF Fork, DiskInv, TypeOK
<1> QED BY <1>2, <1>3, <1>4, SchedOnly DEF Fork

LEMMA MainExitStep ==
    ASSUME DiskInv, RunInv, MainExit
    PROVE  DiskInv'
<1> DEFINE n == ThreadExit(sched, Main)
<1>1. /\ SchedCore(sched) /\ sched.halt = "no" /\ Main \in Threads
      /\ sched.status[Main] = "RUNNING" /\ Exists(sched, Main) /\ Main # Idle
      /\ pc[Main] = "out" /\ sched' = Schedule(n)
  BY ThreadsAssumption DEF RunInv, MainExit, At, SchedInv, Exists
<1>2. /\ SchedCore(n) /\ n.halt = "no"
      /\ \A u \in Threads : n.status[u] =
           IF u = Main THEN "DIED" ELSE sched.status[u]
  BY <1>1, ExitFacts
<1> HIDE DEF n
<1>3. SchedInv(sched') /\ sched'.halt = "no" /\ Kept(n, sched')
  BY <1>1, <1>2, ScheduleFacts
<1>4. Undisturbed(sched, sched')
  BY <1>1, <1>2, <1>3 DEF Kept, Undisturbed, Exists
<1>5. ticked' \in BOOLEAN
  BY DEF MainExit, DiskInv, TypeOK
<1> QED BY <1>3, <1>4, <1>5, SchedOnly DEF MainExit

-----------------------------------------------------------------------------
\* Steps of the driving thread that leave the scheduler and the lock alone

LEMMA OwnStep ==
    ASSUME DiskInv, RunInv, NEW t \in Threads, sched.cur = t,
           pc[t] \in Inside \ {"release"}, NEW p \in Inside,
           pc' = [pc EXCEPT ![t] = p], UNCHANGED sched,
           chan'.lock = chan.lock, limit' >= 1, TypeOK',
           \A u \in Threads \ {t} : call'[u] = call[u],
           call'[t].op = IF p = "release" THEN "none" ELSE call[t].op,
           p = "release" => call[t].op # "identify",
           p # "release" => /\ call'[t].done < call'[t].cnt
                            /\ call'[t].cnt = call[t].cnt,
           Driving(t)'
    PROVE  DiskInv'
<1>1. /\ TypeOK /\ PlaceInv /\ CallInv /\ LockInv /\ DriveInv
      /\ SchedInv(sched) /\ sched.halt = "no"
  BY DEF DiskInv, RunInv
<1>2. /\ \A u \in Threads : pc'[u] = IF u = t THEN p ELSE pc[u]
      /\ sched.status[t] = "RUNNING"
  BY <1>1 DEF TypeOK, SchedInv
<1>3. call[t].op # "none" /\ p # "out"
  BY <1>1 DEF CallInv, Inside
<1>4. Booting' <=> Booting
  BY <1>3, ThreadsAssumption DEF Booting
<1>5. \A u \in Threads : pc'[u] \in Inside <=> pc[u] \in Inside
  BY <1>2
<1>6. PlaceInv'
  BY <1>1, <1>2 DEF PlaceInv, Inside
<1>7. CallInv'
  <2>1. /\ call'[t].op = "none" <=> p = "release"
        /\ call'[t].op = "identify" => t = Main
        /\ Booting => t = Main \/ pc[t] = "out"
        /\ p # "release" => call'[t].cnt <= MaxSectors + 2
    BY <1>1, <1>3 DEF CallInv
  <2>2. Booting => t = Main
    BY <2>1 DEF Inside
  <2> QED BY <1>1, <1>2, <1>3, <1>4, <2>1, <2>2 DEF CallInv
<1>8. LockInv'
  <2>1. \A u \in Threads :
          (pc'[u] = "locking" /\ sched.status[u] = "BLOCKED")
            <=> (pc[u] = "locking" /\ sched.status[u] = "BLOCKED")
    BY <1>2
  <2> QED BY <1>1, <1>4, <1>5, <2>1 DEF LockInv
<1>9. DriveInv'
  <2>1. \A u \in Threads : pc'[u] \in Inside => u = t
    BY <1>5, OnlyOne
  <2> QED BY <1>2, <2>1 DEF DriveInv
<1> QED BY <1>1, <1>6, <1>7, <1>8, <1>9 DEF DiskInv, RunInv

\* What holds of the driving thread's call.
LEMMA CallFacts ==
    ASSUME TypeOK, RunInv, NEW t \in Threads, pc[t] \in Inside \ {"release"}
    PROVE  /\ call[t].op \in {"identify", "read", "write"}
           /\ call[t].done \in Nat /\ call[t].cnt \in Nat
           /\ call[t].done < call[t].cnt
           /\ call[t] = [op |-> call[t].op, cnt |-> call[t].cnt,
                         done |-> call[t].done]
           /\ Driving(t)
  BY DEF TypeOK, RunInv, CallInv, DriveInv, Inside

\* The frame of the type invariant when the call does not change.
LEMMA TypeFrame ==
    ASSUME TypeOK, NEW t \in Threads, NEW p \in Places,
           pc' = [pc EXCEPT ![t] = p],
           UNCHANGED <<sched, call>>,
           chan' \in [lock : LockState,
                      done : [value : Nat, waiters : Seq(Threads)],
                      expecting : BOOLEAN],
           disk' \in [phase : {"ready", "busy", "data", "writing"},
                      owner : Threads \cup {NoThread},
                      from : 0 .. MaxSectors + 1,
                      count : 0 .. RegSize - 1],
           irq' \in BOOLEAN, limit' \in 0 .. TimeLimit, ticked' \in BOOLEAN
    PROVE  TypeOK'
  BY DEF TypeOK

LEMMA SelectStep ==
    ASSUME DiskInv, RunInv, NEW t \in Threads, Select(t)
    PROVE  DiskInv'
<1>1. TypeOK /\ limit >= 1
  BY DEF DiskInv, RunInv
<1>2. /\ sched.cur = t /\ pc[t] = "select" /\ pc[t] \in Inside \ {"release"}
      /\ "command" \in Inside /\ "command" \in Places
  BY AtFacts DEF Select, Inside, Places
<1>3. /\ call[t].op # "none" /\ call[t].done < call[t].cnt /\ Quiet
  BY <1>1, <1>2, CallFacts DEF Driving
<1>4. /\ SecsOp(t) % RegSize \in 0 .. RegSize - 1
      /\ Sectors(SecsOp(t) % RegSize) = SecsOp(t)
      /\ call[t].done \in 0 .. MaxSectors + 1
  BY <1>1, <1>3, SecsFacts
<1> DEFINE count == SecsOp(t) % RegSize
           from == call[t].done
<1>5. /\ disk' = [phase |-> disk.phase, owner |-> disk.owner,
                  from |-> from, count |-> count]
      /\ chan' = [lock |-> chan.lock, done |-> chan.done, expecting |-> TRUE]
      /\ pc' = [pc EXCEPT ![t] = "command"]
      /\ UNCHANGED <<sched, irq, call, limit, ticked>>
  <2>1. disk' = [disk EXCEPT !.from = from, !.count = count]
    BY DEF Select
  <2> HIDE DEF count, from
  <2> QED BY <1>1, <2>1, Records DEF Select, Goto
<1> HIDE DEF count
<1>6. TypeOK'
  <2>1. disk' \in [phase : {"ready", "busy", "data", "writing"},
                   owner : Threads \cup {NoThread},
                   from : 0 .. MaxSectors + 1, count : 0 .. RegSize - 1]
    BY <1>1, <1>4, <1>5, Records DEF count
  <2>2. chan' \in [lock : LockState,
                   done : [value : Nat, waiters : Seq(Threads)],
                   expecting : BOOLEAN]
    BY <1>1, <1>5, Records DEF SemaState
  <2> QED BY <1>1, <1>2, <1>5, <2>1, <2>2, TypeFrame DEF TypeOK
<1>7. Driving(t)'
  <2>1. pc'[t] = "command"
    BY <1>1, <1>5 DEF TypeOK
  <2>2. SecsOp(t)' = SecsOp(t)
    BY <1>5 DEF SecsOp
  <2>3. Aimed(t)'
    BY <1>4, <1>5, <2>2 DEF Aimed, count
  <2>4. /\ ~irq' /\ chan'.expecting /\ disk'.phase = "ready"
        /\ chan'.done.value = 0 /\ chan'.done.waiters = << >>
    BY <1>3, <1>5 DEF Quiet
  <2> QED BY <2>1, <2>3, <2>4 DEF Driving
<1>8. limit' >= 1 /\ chan'.lock = chan.lock
  BY <1>1, <1>5
<1> QED BY <1>2, <1>3, <1>5, <1>6, <1>7, <1>8, OwnStep

LEMMA CommandStep ==
    ASSUME DiskInv, RunInv, NEW t \in Threads, Command(t)
    PROVE  DiskInv'
<1> DEFINE p == IF call[t].op = "write" THEN "busy" ELSE "done"
<1>1. TypeOK /\ limit >= 1
  BY DEF DiskInv, RunInv
<1>2. /\ sched.cur = t /\ pc[t] = "command" /\ pc[t] \in Inside \ {"release"}
      /\ p \in Inside /\ p \in Places /\ p # "release"
  BY AtFacts DEF Command, Inside, Places
<1>3. /\ call[t].op \in {"identify", "read", "write"}
      /\ call[t].done < call[t].cnt /\ Driving(t)
  BY <1>1, <1>2, CallFacts
<1>4. /\ disk' = [phase |-> "busy", owner |-> t,
                  from |-> disk.from, count |-> disk.count]
      /\ pc' = [pc EXCEPT ![t] = p] /\ limit' = TimeLimit
      /\ UNCHANGED <<sched, chan, irq, call, ticked>>
  BY <1>1, Records DEF Command, Goto
<1> HIDE DEF p
<1>5. limit' \in 0 .. TimeLimit /\ limit' >= 1
  BY <1>4, TimeLimitAssumption
<1>6. TypeOK'
  <2>1. disk' \in [phase : {"ready", "busy", "data", "writing"},
                   owner : Threads \cup {NoThread},
                   from : 0 .. MaxSectors + 1, count : 0 .. RegSize - 1]
    BY <1>1, <1>4, Records
  <2> QED BY <1>1, <1>2, <1>4, <1>5, <2>1, TypeFrame DEF TypeOK
<1>7. Driving(t)'
  <2>1. pc'[t] = p
    BY <1>1, <1>4 DEF TypeOK
  <2>2. SecsOp(t)' = SecsOp(t)
    BY <1>4 DEF SecsOp
  <2>3. Aimed(t)' /\ disk'.owner = t
    BY <1>2, <1>3, <1>4, <2>2 DEF Aimed, Driving
  <2>4. /\ ~irq' /\ chan'.expecting /\ disk'.phase = "busy"
        /\ chan'.done.value = 0 /\ chan'.done.waiters = << >>
    BY <1>2, <1>3, <1>4 DEF Driving
  <2>5. CASE call[t].op = "write"
    <3>1. p = "busy" /\ Polled(t)'
      BY <1>4, <2>4, <2>5 DEF p, Polled
    <3> QED BY <2>1, <2>3, <3>1 DEF Driving
  <2>6. CASE call[t].op # "write"
    <3>1. p = "done" /\ Signal(t)'
      BY <1>4, <2>4, <2>6 DEF p, Signal
    <3> QED BY <2>1, <2>3, <2>4, <3>1 DEF Driving
  <2> QED BY <2>5, <2>6
<1>8. chan'.lock = chan.lock
  BY <1>4
<1> QED BY <1>2, <1>3, <1>4, <1>5, <1>6, <1>7, <1>8, OwnStep

LEMMA SleepEndsStep ==
    ASSUME DiskInv, RunInv, NEW t \in Threads, SleepEnds(t)
    PROVE  DiskInv'
<1>1. TypeOK /\ limit >= 1
  BY DEF DiskInv, RunInv
<1>2. /\ sched.cur = t /\ pc[t] = "sleep" /\ pc[t] \in Inside \ {"release"}
      /\ "busy" \in Inside /\ "busy" \in Places
  BY AtFacts DEF SleepEnds, Inside, Places
<1>3. call[t].done < call[t].cnt /\ Driving(t)
  BY <1>1, <1>2, CallFacts
<1>4. /\ pc' = [pc EXCEPT ![t] = "busy"] /\ ticked' \in BOOLEAN
      /\ UNCHANGED <<sched, chan, disk, irq, call, limit>>
  BY DEF SleepEnds, Goto
<1>5. TypeOK'
  BY <1>1, <1>2, <1>4 DEF TypeOK
<1>6. Driving(t)'
  <2>1. pc'[t] = "busy"
    BY <1>1, <1>4 DEF TypeOK
  <2>2. Aimed(t)' /\ Polled(t)' /\ disk'.owner = t
    BY <1>2, <1>3, <1>4 DEF Driving, Aimed, Polled, SecsOp
  <2> QED BY <2>1, <2>2 DEF Driving
<1>7. limit' >= 1 /\ chan'.lock = chan.lock
  BY <1>1, <1>4
<1> QED BY <1>2, <1>3, <1>4, <1>5, <1>6, <1>7, OwnStep

\* busy_wait fails only when its time is over: the disk is busy or has data.
LEMMA BusyWaitStep ==
    ASSUME DiskInv, RunInv, NEW t \in Threads, BusyWait(t)
    PROVE  DiskInv'
<1>1. TypeOK /\ limit \in 1 .. TimeLimit /\ sched \in SchedState
  BY TimeLimitAssumption DEF DiskInv, RunInv, TypeOK
<1>2. /\ sched.cur = t /\ pc[t] = "busy" /\ pc[t] \in Inside \ {"release"}
      /\ {"sleep", "transfer"} \subseteq Inside \cap Places
  BY AtFacts DEF BusyWait, Inside, Places
<1>3. call[t].done < call[t].cnt /\ Driving(t) /\ Polled(t)
  BY <1>1, <1>2, CallFacts DEF Driving
<1>4. limit' = limit - 1 /\ UNCHANGED <<chan, disk, irq, call>>
  BY DEF BusyWait
<1>5. disk.phase \in {"busy", "data"}
  BY <1>3 DEF Polled
<1>6. CASE limit - 1 = 0
  <2>1. sched' = Panic(sched) /\ UNCHANGED <<pc, ticked>> /\ limit' = 0
    BY <1>4, <1>6 DEF BusyWait
  <2>2. /\ sched' \in SchedState /\ sched'.halt # "no"
        /\ sched'.status = sched.status
    <3>1. sched' = [cur |-> sched.cur, ready |-> sched.ready,
                    all |-> sched.all, status |-> sched.status,
                    ticks |-> sched.ticks, pid |-> sched.pid,
                    pids |-> sched.pids, halt |-> "panic"]
      BY <1>1, <2>1 DEF Panic, SchedState
    <3> QED BY <1>1, <3>1 DEF SchedState
  <2>3. OwnCommand /\ QuietWhenFree /\ DoneNotMissed
    BY <1>1, RunImplies
  <2>4. OwnCommand'
    BY <1>4, <2>1, <2>3 DEF OwnCommand, SecsOp
  <2>5. QuietWhenFree'
    BY <1>4, <2>1, <2>3 DEF QuietWhenFree, Booting
  <2>6. DoneNotMissed'
    BY <1>4, <2>1, <2>2, <2>3 DEF DoneNotMissed
  <2>7. TypeOK'
    <3>1. limit' \in 0 .. TimeLimit
      BY <2>1, TimeLimitAssumption
    <3> QED BY <1>1, <1>4, <2>1, <2>2, <3>1 DEF TypeOK
  <2> QED BY <2>1, <2>2, <2>4, <2>5, <2>6, <2>7 DEF DiskInv, HaltInv
<1>7. CASE limit - 1 # 0
  <2>1. limit' >= 1 /\ limit' \in 0 .. TimeLimit
    BY <1>1, <1>4, <1>7, TimeLimitAssumption
  <2>2. PICK p \in {"sleep", "transfer"} :
          /\ pc' = [pc EXCEPT ![t] = p] /\ sched' = sched
          /\ ticked' \in BOOLEAN
          /\ p = "transfer" => disk.phase = "data"
    BY <1>1, <1>5, <1>7 DEF BusyWait, Goto, TypeOK
  <2>3. TypeOK'
    BY <1>1, <1>2, <1>4, <2>1, <2>2 DEF TypeOK
  <2>4. Driving(t)'
    <3>1. pc'[t] = p
      BY <1>1, <2>2 DEF TypeOK
    <3>2. Aimed(t)' /\ Polled(t)' /\ disk'.owner = t
      BY <1>2, <1>3, <1>4 DEF Driving, Aimed, Polled, SecsOp
    <3> QED BY <1>4, <2>2, <3>1, <3>2 DEF Driving
  <2>5. chan'.lock = chan.lock /\ p \in Inside /\ p # "release"
    BY <1>2, <1>4, <2>2
  <2> QED BY <1>2, <1>3, <1>4, <2>1, <2>2, <2>3, <2>4, <2>5, OwnStep
<1> QED BY <1>6, <1>7

\* identify_disk is through with both drives.
LEMMA BootEnds ==
    ASSUME DiskInv, RunInv, Booting, sched.cur = Main,
           pc' = [pc EXCEPT ![Main] = "out"],
           call' = [call EXCEPT ![Main] = NoCall], UNCHANGED sched,
           chan'.lock = chan.lock, limit' >= 1, TypeOK', Quiet'
    PROVE  DiskInv'
<1>1. /\ TypeOK /\ PlaceInv /\ CallInv /\ LockInv /\ DriveInv
      /\ SchedInv(sched) /\ sched.halt = "no" /\ Main \in Threads
  BY ThreadsAssumption DEF DiskInv, RunInv
<1>2. /\ \A u \in Threads : pc'[u] = "out"
      /\ \A u \in Threads : u # Main => pc[u] = "out"
  BY <1>1 DEF TypeOK, CallInv
<1>3. /\ ~Booting' /\ call'[Main].op = "none"
      /\ \A u \in Threads \ {Main} : call'[u] = call[u]
  BY <1>1 DEF TypeOK, NoCall, Booting
<1>4. sched.status[Main] = "RUNNING"
  BY <1>1 DEF SchedInv
<1>5. PlaceInv'
  BY <1>1, <1>2, <1>4 DEF PlaceInv
<1>6. CallInv'
  BY <1>1, <1>2, <1>3 DEF CallInv
<1>7. LockInv'
  <2>1. chan.lock.holder = NoThread
    BY <1>1 DEF LockInv
  <2>2. \A u \in Threads : ~Contains(chan.lock.waiters, u)
    BY <1>1, <1>2, <1>4 DEF LockInv
  <2> QED BY <1>1, <1>2, <1>3, <2>1, <2>2, NoThreadAssumption
          DEF LockInv, Inside
<1>8. DriveInv'
  BY <1>2 DEF DriveInv, Inside
<1> QED BY <1>1, <1>5, <1>6, <1>7, <1>8 DEF DiskInv, RunInv

\* The end of a round: the next one, lock_release, or the end of ide_init.
LEMMA RoundStep ==
    ASSUME DiskInv, RunInv, NEW t \in Threads, sched.cur = t,
           pc[t] \in Inside \ {"release"}, RoundEnds(t), UNCHANGED sched,
           chan'.lock = chan.lock, Quiet',
           chan' \in [lock : LockState,
                      done : [value : Nat, waiters : Seq(Threads)],
                      expecting : BOOLEAN],
           disk' \in [phase : {"ready", "busy", "data", "writing"},
                      owner : Threads \cup {NoThread},
                      from : 0 .. MaxSectors + 1,
                      count : 0 .. RegSize - 1],
           irq' \in BOOLEAN, ticked' \in BOOLEAN
    PROVE  DiskInv'
<1> DEFINE done == call[t].done + SecsOp(t)
           more == done < call[t].cnt
<1>1. TypeOK
  BY DEF DiskInv
<1>2. /\ call[t].op \in {"identify", "read", "write"}
      /\ call[t].done \in Nat /\ call[t].cnt \in Nat
      /\ call[t] = [op |-> call[t].op, cnt |-> call[t].cnt,
                    done |-> call[t].done]
  BY <1>1, CallFacts
<1>3. done \in Nat
  BY <1>1, <1>2, SecsFacts, RegSizeAssumption
<1>4. limit' >= 1 /\ limit' \in 0 .. TimeLimit
  BY TimeLimitAssumption DEF RoundEnds
<1>5. CASE more
  <2> DEFINE next == [op |-> call[t].op, cnt |-> call[t].cnt, done |-> done]
  <2>1. pc' = [pc EXCEPT ![t] = "select"]
    BY <1>5 DEF RoundEnds, Goto
  <2>2. call' = [call EXCEPT ![t] = [call[t] EXCEPT !.done = done]]
    BY <1>1, <1>5 DEF RoundEnds, TypeOK
  <2>3. [call[t] EXCEPT !.done = done] = next
    <3> HIDE DEF done
    <3> QED BY <1>2
  <2> HIDE DEF done
  <2>4. call' = [call EXCEPT ![t] = next]
    BY <2>2, <2>3
  <2>5. /\ next \in [op : {"none", "identify", "read", "write"},
                     cnt : Nat, done : Nat]
        /\ next.op = call[t].op /\ next.cnt = call[t].cnt
        /\ next.done < next.cnt
    BY <1>2, <1>3, <1>5
  <2> HIDE DEF next
  <2>6. TypeOK'
    BY <1>1, <1>4, <2>1, <2>4, <2>5 DEF TypeOK, Places
  <2>7. pc'[t] = "select" /\ call'[t] = next
        /\ \A u \in Threads \ {t} : call'[u] = call[u]
    BY <1>1, <2>1, <2>4 DEF TypeOK
  <2>8. Driving(t)'
    BY <2>7 DEF Driving
  <2>9. "select" \in Inside /\ "select" # "release"
    BY DEF Inside
  <2> QED BY <1>4, <2>1, <2>5, <2>6, <2>7, <2>8, <2>9, OwnStep
<1>6. CASE ~more
  <2> DEFINE p == IF call[t].op = "identify" THEN "out" ELSE "release"
  <2>1. pc' = [pc EXCEPT ![t] = p] /\ call' = [call EXCEPT ![t] = NoCall]
    BY <1>6 DEF RoundEnds, Goto
  <2>2. TypeOK'
    BY <1>1, <1>4, <2>1 DEF TypeOK, Places, NoCall
  <2>3. /\ \A u \in Threads \ {t} : call'[u] = call[u]
        /\ call'[t].op = "none"
    BY <1>1, <2>1 DEF TypeOK, NoCall
  <2>4. CASE call[t].op = "identify"
    <3>1. t = Main /\ Booting
      BY <2>4 DEF RunInv, CallInv, Booting
    <3> QED BY <1>4, <2>1, <2>2, <2>4, <3>1, BootEnds
  <2>5. CASE call[t].op # "identify"
    <3>1. p = "release" /\ "release" \in Inside
      BY <2>5 DEF Inside
    <3>2. pc'[t] = "release"
      BY <1>1, <2>1, <3>1 DEF TypeOK
    <3>3. Driving(t)'
      BY <3>2 DEF Driving
    <3> HIDE DEF p
    <3> QED BY <1>4, <2>1, <2>2, <2>3, <2>5, <3>1, <3>3, OwnStep
  <2> QED BY <2>4, <2>5
<1> QED BY <1>5, <1>6

LEMMA TransferStep ==
    ASSUME DiskInv, RunInv, NEW t \in Threads, Transfer(t)
    PROVE  DiskInv'
<1>1. TypeOK /\ limit >= 1
  BY DEF DiskInv, RunInv
<1>2. /\ sched.cur = t /\ pc[t] = "transfer" /\ pc[t] \in Inside \ {"release"}
      /\ "done" \in Inside /\ "done" \in Places
  BY AtFacts DEF Transfer, Inside, Places
<1>3. call[t].done < call[t].cnt /\ Driving(t) /\ Polled(t)
  BY <1>1, <1>2, CallFacts DEF Driving
<1>4. UNCHANGED <<sched, chan, irq, ticked>>
  BY DEF Transfer
<1>5. CASE call[t].op = "write"
  <2>1. /\ disk' = [phase |-> "writing", owner |-> disk.owner,
                    from |-> disk.from, count |-> disk.count]
        /\ pc' = [pc EXCEPT ![t] = "done"] /\ UNCHANGED <<call, limit>>
    BY <1>1, <1>5, Records DEF Transfer, Goto
  <2>2. TypeOK'
    <3>1. disk' \in [phase : {"ready", "busy", "data", "writing"},
                     owner : Threads \cup {NoThread},
                     from : 0 .. MaxSectors + 1, count : 0 .. RegSize - 1]
      BY <1>1, <2>1, Records
    <3> QED BY <1>1, <1>2, <1>4, <2>1, <3>1, TypeFrame DEF TypeOK
  <2>3. Driving(t)'
    <3>1. pc'[t] = "done"
      BY <1>1, <2>1 DEF TypeOK
    <3>2. Aimed(t)' /\ disk'.owner = t
      BY <1>2, <1>3, <2>1 DEF Driving, Aimed, SecsOp
    <3>3. Signal(t)' /\ chan'.done.waiters = << >>
      BY <1>3, <1>4, <1>5, <2>1 DEF Polled, Signal
    <3> QED BY <3>1, <3>2, <3>3 DEF Driving
  <2>4. chan'.lock = chan.lock /\ limit' >= 1
    BY <1>1, <1>4, <2>1
  <2> QED BY <1>2, <1>3, <1>4, <2>1, <2>2, <2>3, <2>4, OwnStep
<1>6. CASE call[t].op # "write"
  <2>1. disk' = AtRest /\ RoundEnds(t)
    BY <1>6 DEF Transfer
  <2>2. disk' \in [phase : {"ready", "busy", "data", "writing"},
                   owner : Threads \cup {NoThread},
                   from : 0 .. MaxSectors + 1, count : 0 .. RegSize - 1]
    BY <2>1, MaxSectorsAssumption, RegSizeAssumption DEF AtRest
  <2>3. Quiet'
    BY <1>3, <1>4, <1>6, <2>1 DEF Polled, Quiet, AtRest
  <2>4. /\ chan' \in [lock : LockState,
                      done : [value : Nat, waiters : Seq(Threads)],
                      expecting : BOOLEAN]
        /\ irq' \in BOOLEAN /\ ticked' \in BOOLEAN
        /\ chan'.lock = chan.lock
    BY <1>1, <1>4 DEF TypeOK
  <2> QED BY <1>2, <1>4, <2>1, <2>2, <2>3, <2>4, RoundStep
<1> QED BY <1>5, <1>6

\* sema_down of disk_done with a token: the interrupt came, once.
LEMMA DoneTakeStep ==
    ASSUME DiskInv, RunInv, NEW t \in Threads, DoneTake(t)
    PROVE  DiskInv'
<1>1. TypeOK /\ limit >= 1
  BY DEF DiskInv, RunInv
<1>2. /\ sched.cur = t /\ pc[t] \in {"done", "woken"}
      /\ sched.status[t] = "RUNNING" /\ pc[t] \in Inside \ {"release"}
      /\ "busy" \in Inside /\ "busy" \in Places
  <2>1. At(t, "done") \/ At(t, "woken")
    BY DEF DoneTake
  <2> QED BY <2>1, AtFacts DEF Inside, Places
<1>3. call[t].done < call[t].cnt /\ Driving(t)
  BY <1>1, <1>2, CallFacts
<1>4. /\ Signal(t) /\ chan.done.value # 0 /\ chan.done.waiters = << >>
      /\ Aimed(t) /\ disk.owner = t
  BY <1>2, <1>3 DEF Driving, DoneTake
<1>5. /\ chan.done.value = 1 /\ ~irq /\ ~chan.expecting
      /\ disk.phase = IF call[t].op = "write" THEN "ready" ELSE "data"
  BY <1>4 DEF Signal
<1>6. /\ sched' = sched /\ UNCHANGED <<disk, irq, ticked>>
      /\ chan' = [lock |-> chan.lock,
                  done |-> [value |-> 0, waiters |-> << >>],
                  expecting |-> chan.expecting]
  <2>1. DownLowers(chan.done) = [value |-> 0, waiters |-> << >>]
    <3>1. DownLowers(chan.done) =
            [value |-> chan.done.value - 1, waiters |-> chan.done.waiters]
      BY <1>1, Records, SemaRecords
    <3> QED BY <1>4, <1>5, <3>1
  <2>2. chan' = [chan EXCEPT !.done = DownLowers(chan.done)]
    BY DEF DoneTake
  <2>3. chan' = [lock |-> chan.lock, done |-> DownLowers(chan.done),
                 expecting |-> chan.expecting]
    BY <1>1, <2>2, Records
  <2> QED BY <1>5, <2>1, <2>3 DEF DoneTake, DownTakes
<1>7. /\ chan' \in [lock : LockState,
                    done : [value : Nat, waiters : Seq(Threads)],
                    expecting : BOOLEAN]
      /\ chan'.lock = chan.lock
      /\ irq' \in BOOLEAN /\ ticked' \in BOOLEAN
      /\ disk' \in [phase : {"ready", "busy", "data", "writing"},
                    owner : Threads \cup {NoThread},
                    from : 0 .. MaxSectors + 1, count : 0 .. RegSize - 1]
  <2>1. [value |-> 0, waiters |-> << >>] \in [value : Nat, waiters : Seq(Threads)]
    OBVIOUS
  <2> QED BY <1>1, <1>6, <2>1, Records DEF TypeOK
<1>8. /\ ~irq' /\ ~chan'.expecting /\ chan'.done.value = 0
      /\ chan'.done.waiters = << >> /\ disk' = disk
  BY <1>5, <1>6
<1>9. CASE call[t].op = "write"
  <2>1. RoundEnds(t)
    BY <1>9 DEF DoneTake
  <2>2. Quiet'
    BY <1>5, <1>8, <1>9 DEF Quiet
  <2> QED BY <1>2, <1>6, <1>7, <2>1, <2>2, RoundStep
<1>10. CASE call[t].op # "write"
  <2>1. pc' = [pc EXCEPT ![t] = "busy"] /\ UNCHANGED <<call, limit>>
    BY <1>10 DEF DoneTake, Goto
  <2>2. TypeOK'
    BY <1>1, <1>2, <1>6, <1>7, <2>1 DEF TypeOK
  <2>3. Driving(t)'
    <3>1. pc'[t] = "busy"
      BY <1>1, <2>1 DEF TypeOK
    <3>2. Aimed(t)' /\ disk'.owner = t
      BY <1>4, <1>6, <2>1 DEF Aimed, SecsOp
    <3>3. Polled(t)'
      BY <1>5, <1>8, <1>10, <2>1 DEF Polled
    <3> QED BY <3>1, <3>2, <3>3 DEF Driving
  <2>4. limit' >= 1
    BY <1>1, <2>1
  <2> QED BY <1>2, <1>3, <1>6, <1>7, <2>1, <2>2, <2>3, <2>4, OwnStep
<1> QED BY <1>9, <1>10

\* sema_down of disk_done without one: the thread sleeps, and the interrupt is
\* still to come.
LEMMA DoneSleepStep ==
    ASSUME DiskInv, RunInv, NEW t \in Threads, DoneSleep(t)
    PROVE  DiskInv'
<1>1. /\ TypeOK /\ limit >= 1 /\ PlaceInv /\ CallInv /\ LockInv
      /\ SchedInv(sched) /\ sched.halt = "no"
  BY DEF DiskInv, RunInv
<1>2. /\ sched.cur = t /\ pc[t] \in {"done", "woken"} /\ t # Idle
      /\ sched.status[t] = "RUNNING" /\ pc[t] \in Inside \ {"release"}
      /\ "woken" \in Inside /\ "woken" \in Places
  <2>1. At(t, "done") \/ At(t, "woken")
    BY DEF DoneSleep
  <2> QED BY <2>1, AtFacts DEF Inside, Places
<1>3. call[t].done < call[t].cnt /\ Driving(t)
  BY <1>1, <1>2, CallFacts
<1>4. /\ Signal(t) /\ chan.done.value = 0 /\ chan.done.waiters = << >>
      /\ Aimed(t) /\ disk.owner = t
  BY <1>2, <1>3 DEF Driving, DoneSleep
<1>5. chan.expecting
  BY <1>4 DEF Signal
<1>6. /\ chan' = [lock |-> chan.lock,
                  done |-> [value |-> 0, waiters |-> <<t>>],
                  expecting |-> chan.expecting]
      /\ pc' = [pc EXCEPT ![t] = "woken"]
      /\ UNCHANGED <<disk, irq, call, limit, ticked>>
  <2>1. DownQueues(sched, chan.done) = [value |-> 0, waiters |-> <<t>>]
    <3>1. DownQueues(sched, chan.done) =
            [value |-> chan.done.value,
             waiters |-> Append(chan.done.waiters, sched.cur)]
      BY <1>1, Records, SemaRecords
    <3>2. Append(<< >>, t) = <<t>>
      OBVIOUS
    <3> QED BY <1>2, <1>4, <3>1, <3>2
  <2>2. chan' = [chan EXCEPT !.done = DownQueues(sched, chan.done)]
    BY DEF DoneSleep
  <2>3. chan' = [lock |-> chan.lock, done |-> DownQueues(sched, chan.done),
                 expecting |-> chan.expecting]
    BY <1>1, <2>2, Records
  <2> QED BY <2>1, <2>3 DEF DoneSleep, Goto
<1>7. sched' = Block(sched, "BLOCKED") /\ "BLOCKED" \in Sleeping
  <2>1. ~Contains(chan.done.waiters, t)
    BY <1>4 DEF Contains
  <2> QED BY <1>2, <2>1 DEF DoneSleep, DownWaits, Sleeping
<1>8. SchedInv(sched') /\ sched'.halt = "no"
  BY <1>1, <1>7, BlockFacts
<1>9. \A u \in Threads \ {Idle} :
        IF u = t THEN sched'.status[u] = "BLOCKED"
        ELSE IF sched.status[u] \in {"READY", "RUNNING"}
        THEN sched'.status[u] \in {"READY", "RUNNING"}
        ELSE sched'.status[u] = sched.status[u]
  BY <1>1, <1>2, <1>7, BlockStatus
<1>10. /\ sched'.status[t] = "BLOCKED"
       /\ \A u \in Threads \ {Idle} : Exists(sched, u) => Exists(sched', u)
       /\ \A u \in Threads \ {Idle, t} :
            sched'.status[u] = "BLOCKED" <=> sched.status[u] = "BLOCKED"
  BY <1>2, <1>9 DEF Exists
<1>11. \A u \in Threads : pc'[u] = IF u = t THEN "woken" ELSE pc[u]
  BY <1>1, <1>6 DEF TypeOK
<1>12. TypeOK'
  <2>1. chan' \in [lock : LockState,
                   done : [value : Nat, waiters : Seq(Threads)],
                   expecting : BOOLEAN]
    <3>1. <<t>> \in Seq(Threads)
      OBVIOUS
    <3> QED BY <1>1, <1>6, <3>1, Records
  <2>2. sched' \in SchedState
    BY <1>8 DEF SchedInv, SchedCore
  <2> QED BY <1>1, <1>2, <1>6, <2>1, <2>2 DEF TypeOK
<1>13. PlaceInv'
  BY <1>1, <1>2, <1>10, <1>11 DEF PlaceInv
<1>14. CallInv'
  BY <1>1, <1>2, <1>6, <1>11 DEF CallInv, Booting
<1>15. LockInv'
  <2>1. \A u \in Threads : pc'[u] \in Inside <=> pc[u] \in Inside
    BY <1>2, <1>11
  <2>2. \A u \in Threads :
          (pc'[u] = "locking" /\ sched'.status[u] = "BLOCKED")
            <=> (pc[u] = "locking" /\ sched.status[u] = "BLOCKED")
    BY <1>1, <1>2, <1>10, <1>11 DEF PlaceInv
  <2>3. chan'.lock = chan.lock
    BY <1>6
  <2> QED BY <1>1, <1>6, <2>1, <2>2, <2>3 DEF LockInv, Booting
<1>16. DriveInv'
  <2>1. \A u \in Threads : pc'[u] \in Inside => u = t
    BY <1>2, <1>11, OnlyOne
  <2>2. Aimed(t)' /\ disk'.owner = t
    BY <1>4, <1>6 DEF Aimed, SecsOp
  <2>3. /\ chan'.done.value = chan.done.value
        /\ chan'.expecting = chan.expecting
        /\ chan'.done.waiters = <<t>>
    BY <1>4, <1>6
  <2>4. Signal(t)'
    BY <1>4, <1>6, <2>3 DEF Signal
  <2>5. Driving(t)'
    BY <1>5, <1>10, <1>11, <2>2, <2>3, <2>4 DEF Driving
  <2> QED BY <1>2, <1>11, <2>1, <2>5 DEF DriveInv
<1>17. limit' >= 1
  BY <1>1, <1>6
<1> QED BY <1>8, <1>12, <1>13, <1>14, <1>15, <1>16, <1>17 DEF DiskInv, RunInv

-----------------------------------------------------------------------------
\* The disk and its interrupt

\* A disk that works, or whose interrupt is pending, was given a command by the
\* one thread inside, which waits for it.
LEMMA DriverThere ==
    ASSUME RunInv, disk.phase \in {"busy", "writing"} \/ irq
    PROVE  \E t \in Threads :
             /\ pc[t] \in {"done", "woken", "busy", "sleep", "transfer"}
             /\ disk.owner = t /\ Driving(t) /\ pc[t] \in Inside
<1>1. ~Quiet
  BY DEF Quiet
<1>2. PICK t \in Threads : pc[t] \in Inside /\ Driving(t)
  BY <1>1 DEF RunInv, DriveInv
<1>3. pc[t] \in {"done", "woken", "busy", "sleep", "transfer"}
  BY <1>1, <1>2 DEF Driving, Inside
<1> QED BY <1>2, <1>3 DEF Driving

LEMMA DiskWorksStep ==
    ASSUME DiskInv, RunInv, DiskWorks
    PROVE  DiskInv'
<1>1. /\ TypeOK /\ limit >= 1 /\ PlaceInv /\ CallInv /\ LockInv
      /\ SchedInv(sched) /\ sched.halt = "no"
  BY DEF DiskInv, RunInv
<1>2. PICK t \in Threads :
        /\ pc[t] \in {"done", "woken", "busy", "sleep", "transfer"}
        /\ disk.owner = t /\ Driving(t) /\ pc[t] \in Inside
  BY DriverThere DEF DiskWorks
<1> DEFINE next == IF disk.phase = "busy" THEN "data" ELSE "ready"
           asks == disk.phase = "busy" /\ call[t].op = "write"
<1>3. /\ disk' = [phase |-> next, owner |-> disk.owner,
                  from |-> disk.from, count |-> disk.count]
      /\ irq' = (irq \/ ~asks)
      /\ UNCHANGED <<sched, chan, pc, call, limit, ticked>>
  BY <1>1, <1>2, Records DEF DiskWorks
<1>4. disk.phase \in {"busy", "writing"}
  BY DEF DiskWorks
<1>5. TypeOK'
  <2>1. disk' \in [phase : {"ready", "busy", "data", "writing"},
                   owner : Threads \cup {NoThread},
                   from : 0 .. MaxSectors + 1, count : 0 .. RegSize - 1]
    BY <1>1, <1>3, Records
  <2>2. irq' \in BOOLEAN
    BY <1>3
  <2> QED BY <1>1, <1>3, <2>1, <2>2 DEF TypeOK
<1>6. PlaceInv' /\ CallInv' /\ LockInv'
  BY <1>1, <1>3 DEF PlaceInv, CallInv, LockInv, Booting
<1>7. Driving(t)'
  <2>1. Aimed(t)' /\ disk'.owner = t
    BY <1>2, <1>3 DEF Aimed, SecsOp, Driving
  <2>2. CASE pc[t] \in {"done", "woken"}
    <3>1. Signal(t)
      BY <1>2, <2>2 DEF Driving
    <3>2. disk.phase = (IF call[t].op = "write" THEN "writing" ELSE "busy")
      BY <1>4, <3>1 DEF Signal
    <3>3. Signal(t)'
      BY <1>3, <3>1, <3>2 DEF Signal
    <3>4. IF pc[t] = "woken" /\ sched.status[t] = "BLOCKED"
          THEN chan.done.waiters = <<t>> /\ chan.expecting
          ELSE chan.done.waiters = << >>
      BY <1>2, <2>2 DEF Driving
    <3> QED BY <1>3, <2>1, <2>2, <3>3, <3>4 DEF Driving
  <2>3. CASE pc[t] \in {"busy", "sleep", "transfer"}
    <3>1. Polled(t)
      BY <1>2, <2>3 DEF Driving
    <3>2. disk.phase = "busy" /\ call[t].op = "write"
      BY <1>4, <3>1 DEF Polled
    <3>3. Polled(t)' /\ disk'.phase = "data"
      BY <1>3, <3>1, <3>2 DEF Polled
    <3> QED BY <1>3, <2>1, <2>3, <3>3 DEF Driving
  <2> QED BY <1>2, <2>2, <2>3
<1>8. DriveInv'
  <2>1. \A u \in Threads : pc'[u] \in Inside => u = t
    BY <1>2, <1>3, OnlyOne
  <2> QED BY <1>2, <1>3, <1>7, <2>1 DEF DriveInv
<1>9. SchedInv(sched') /\ sched'.halt = "no" /\ limit' >= 1
  BY <1>1, <1>3
<1> QED BY <1>5, <1>6, <1>8, <1>9 DEF DiskInv, RunInv

\* intr_hd_handler: the interrupt is expected, and the token goes to the thread
\* that waits for it.
LEMMA DiskIntrStep ==
    ASSUME DiskInv, RunInv, DiskIntr
    PROVE  DiskInv'
<1>1. /\ TypeOK /\ limit >= 1 /\ PlaceInv /\ CallInv /\ LockInv
      /\ SchedInv(sched) /\ sched.halt = "no"
  BY DEF DiskInv, RunInv
<1>2. PICK t \in Threads :
        /\ pc[t] \in {"done", "woken", "busy", "sleep", "transfer"}
        /\ disk.owner = t /\ Driving(t) /\ pc[t] \in Inside
  BY DriverThere DEF DiskIntr
<1> DEFINE slept == pc[t] = "woken" /\ sched.status[t] = "BLOCKED"
<1>3. /\ pc[t] \in {"done", "woken"} /\ Signal(t)
      /\ chan.expecting /\ chan.done.value = 0
      /\ disk.phase = (IF call[t].op = "write" THEN "ready" ELSE "data")
      /\ chan.done.waiters = IF slept THEN <<t>> ELSE << >>
  <2>1. irq
    BY DEF DiskIntr
  <2>2. pc[t] \in {"done", "woken"} /\ Signal(t)
    BY <1>2, <2>1 DEF Driving, Polled
  <2>3. chan.done.waiters = IF slept THEN <<t>> ELSE << >>
    BY <1>2, <2>2 DEF Driving
  <2> HIDE DEF slept
  <2> QED BY <2>1, <2>2, <2>3 DEF Signal
<1>4. t # Idle
  BY <1>1, <1>3 DEF PlaceInv
<1>5. /\ chan' = [lock |-> chan.lock,
                  done |-> [value |-> 1, waiters |-> << >>],
                  expecting |-> FALSE]
      /\ ~irq'
      /\ UNCHANGED <<disk, pc, call, limit, ticked>>
  <2>1. UpRaises(chan.done) = [value |-> 1, waiters |-> << >>]
    <3>1. UpRaises(chan.done) =
            [value |-> chan.done.value + 1,
             waiters |-> IF chan.done.waiters = << >> THEN << >>
                         ELSE Tail(chan.done.waiters)]
      BY <1>1, Records, SemaRecords
    <3>2. Tail(<<t>>) = << >>
      OBVIOUS
    <3>3. (IF chan.done.waiters = << >> THEN << >>
           ELSE Tail(chan.done.waiters)) = << >>
      BY <1>3, <3>2
    <3>4. chan.done.value + 1 = 1
      BY <1>3
    <3> QED BY <3>1, <3>3, <3>4
  <2>2. chan' = [chan EXCEPT !.expecting = FALSE, !.done = UpRaises(chan.done)]
    BY <1>3 DEF DiskIntr
  <2>3. chan' = [lock |-> chan.lock, done |-> UpRaises(chan.done),
                 expecting |-> FALSE]
    BY <1>1, <2>2, Records
  <2> QED BY <2>1, <2>3 DEF DiskIntr
<1>6. /\ SchedInv(sched') /\ sched'.halt = "no"
      /\ \A u \in Threads : sched'.status[u] =
           IF u = t /\ slept THEN "READY" ELSE sched.status[u]
  <2>1. sched' = UpWakes(sched, chan.done)
    BY <1>3 DEF DiskIntr
  <2>2. CASE slept
    <3>1. chan.done.waiters = <<t>> /\ Head(<<t>>) = t /\ <<t>> # << >>
      BY <1>3, <2>2
    <3>2. sched' = Unblock(sched, t)
      BY <1>3, <2>1, <3>1 DEF UpWakes
    <3>3. sched.status[t] \in Sleeping
      BY <2>2 DEF Sleeping
    <3> QED BY <1>1, <2>2, <3>2, <3>3, WakeFacts
  <2>3. CASE ~slept
    <3>1. chan.done.waiters = << >>
      BY <1>3, <2>3
    <3>2. sched' = sched
      BY <1>3, <2>1, <3>1 DEF UpWakes
    <3> QED BY <1>1, <2>3, <3>2
  <2> QED BY <2>2, <2>3
<1>7. /\ \A u \in Threads : Exists(sched, u) => Exists(sched', u)
      /\ \A u \in Threads \ {t} :
           sched'.status[u] = "BLOCKED" <=> sched.status[u] = "BLOCKED"
      /\ pc[t] = "woken" => sched'.status[t] # "BLOCKED"
      /\ sched'.status[t] = "BLOCKED" => sched.status[t] = "BLOCKED"
  BY <1>6 DEF Exists
<1>8. TypeOK'
  <2>1. chan' \in [lock : LockState,
                   done : [value : Nat, waiters : Seq(Threads)],
                   expecting : BOOLEAN]
    <3>1. [value |-> 1, waiters |-> << >>] \in [value : Nat, waiters : Seq(Threads)]
      OBVIOUS
    <3> QED BY <1>1, <1>5, <3>1, Records
  <2>2. sched' \in SchedState
    BY <1>6 DEF SchedInv, SchedCore
  <2>3. irq' \in BOOLEAN
    BY DEF DiskIntr
  <2> QED BY <1>1, <1>5, <2>1, <2>2, <2>3 DEF TypeOK
<1>9. PlaceInv'
  BY <1>1, <1>5, <1>7 DEF PlaceInv
<1>10. CallInv'
  BY <1>1, <1>5 DEF CallInv, Booting
<1>11. LockInv'
  <2>1. \A u \in Threads :
          (pc[u] = "locking" /\ sched'.status[u] = "BLOCKED")
            <=> (pc[u] = "locking" /\ sched.status[u] = "BLOCKED")
    BY <1>3, <1>7
  <2>2. chan'.lock = chan.lock
    BY <1>5
  <2> QED BY <1>1, <1>5, <2>1, <2>2 DEF LockInv, Booting
<1>12. DriveInv'
  <2>1. \A u \in Threads : pc'[u] \in Inside => u = t
    BY <1>2, <1>5, OnlyOne
  <2>2. Aimed(t)' /\ disk'.owner = t
    BY <1>2, <1>3, <1>5 DEF Aimed, SecsOp, Driving
  <2>3. /\ chan'.done.value = 1 /\ chan'.done.waiters = << >>
        /\ ~chan'.expecting
    BY <1>5
  <2>4. Signal(t)'
    BY <1>3, <1>5, <2>3 DEF Signal
  <2>5. Driving(t)'
    BY <1>3, <1>5, <1>7, <2>2, <2>3, <2>4 DEF Driving
  <2> QED BY <1>2, <1>5, <2>1, <2>5 DEF DriveInv
<1>13. limit' >= 1
  BY <1>1, <1>5
<1> QED BY <1>6, <1>8, <1>9, <1>10, <1>11, <1>12, <1>13 DEF DiskInv, RunInv

-----------------------------------------------------------------------------
\* The lock

\* A step of a thread outside changes nothing for the one inside.
LEMMA OthersDrive ==
    ASSUME RunInv, NEW t \in Threads, pc[t] \notin Inside, pc'[t] \notin Inside,
           \A u \in Threads \ {t} : pc'[u] = pc[u] /\ call'[u] = call[u],
           \A u \in Threads : pc[u] \in Inside =>
             (sched'.status[u] = "BLOCKED" <=> sched.status[u] = "BLOCKED"),
           chan'.done = chan.done, chan'.expecting = chan.expecting,
           UNCHANGED <<disk, irq>>
    PROVE  DriveInv'
<1>1. Quiet' <=> Quiet
  BY DEF Quiet
<1>2. ASSUME NEW u \in Threads, pc'[u] \in Inside
      PROVE  Driving(u)'
  <2>1. u # t /\ pc'[u] = pc[u] /\ call'[u] = call[u]
    BY <1>2
  <2>2. /\ Driving(u)
        /\ sched'.status[u] = "BLOCKED" <=> sched.status[u] = "BLOCKED"
    BY <1>2, <2>1 DEF RunInv, DriveInv
  <2>3. /\ Aimed(u)' <=> Aimed(u)
        /\ Signal(u)' <=> Signal(u)
        /\ Polled(u)' <=> Polled(u)
    BY <2>1 DEF Aimed, Signal, Polled, SecsOp
  <2> QED BY <1>1, <2>1, <2>2, <2>3 DEF Driving
<1>3. (\A u \in Threads : pc'[u] \notin Inside) => Quiet'
  BY <1>1 DEF RunInv, DriveInv
<1> QED BY <1>2, <1>3 DEF DriveInv

\* ide_read and ide_write begin.
LEMMA CallStep ==
    ASSUME DiskInv, RunInv, NEW t \in Threads, NEW op \in {"read", "write"},
           NEW n \in 1 .. MaxSectors, Call(t, op, n)
    PROVE  DiskInv'
<1>1. /\ TypeOK /\ limit >= 1 /\ PlaceInv /\ CallInv /\ LockInv
      /\ SchedInv(sched) /\ sched.halt = "no"
  BY DEF DiskInv, RunInv
<1> DEFINE new == [op |-> op, cnt |-> n, done |-> 0]
<1>2. /\ pc[t] = "out" /\ sched.status[t] = "RUNNING" /\ Exists(sched, t)
      /\ t # Idle /\ t # InitProc /\ ~Booting
      /\ call' = [call EXCEPT ![t] = new] /\ pc' = [pc EXCEPT ![t] = "lock"]
      /\ UNCHANGED <<sched, chan, disk, irq, limit, ticked>>
  BY AtFacts DEF Call, Goto
<1>3. /\ new \in [op : {"none", "identify", "read", "write"},
                  cnt : Nat, done : Nat]
      /\ new.op \in {"read", "write"} /\ new.done < new.cnt
      /\ new.cnt <= MaxSectors + 2
  BY MaxSectorsAssumption
<1> HIDE DEF new
<1>4. /\ \A u \in Threads : pc'[u] = IF u = t THEN "lock" ELSE pc[u]
      /\ \A u \in Threads : call'[u] = IF u = t THEN new ELSE call[u]
  BY <1>1, <1>2 DEF TypeOK
<1>5. TypeOK'
  BY <1>1, <1>2, <1>3 DEF TypeOK, Places
<1>6. ~Booting'
  BY <1>2, <1>3, <1>4, ThreadsAssumption DEF Booting
<1>7. PlaceInv'
  BY <1>1, <1>2, <1>4 DEF PlaceInv
<1>8. CallInv'
  BY <1>1, <1>2, <1>3, <1>4, <1>6 DEF CallInv
<1>9. LockInv'
  <2>1. \A u \in Threads :
          /\ pc'[u] \in Inside <=> pc[u] \in Inside
          /\ pc'[u] = "locking" <=> pc[u] = "locking"
    BY <1>2, <1>4 DEF Inside
  <2> QED BY <1>1, <1>2, <1>6, <2>1 DEF LockInv
<1>10. DriveInv'
  <2>1. pc[t] \notin Inside /\ pc'[t] \notin Inside
    BY <1>2, <1>4 DEF Inside
  <2> QED BY <1>2, <1>4, <2>1, OthersDrive
<1> QED BY <1>1, <1>2, <1>5, <1>7, <1>8, <1>9, <1>10 DEF DiskInv, RunInv

\* Who is at lock_acquire, asleep or not, is not inside, and ide_init is over.
LEMMA LockingFacts ==
    ASSUME DiskInv, RunInv, NEW t \in Threads, At(t, "lock") \/ At(t, "locking")
    PROVE  /\ sched.cur = t /\ sched.status[t] = "RUNNING"
           /\ Exists(sched, t) /\ t # Idle /\ t # InitProc
           /\ pc[t] \in {"lock", "locking"} /\ pc[t] \notin Inside
           /\ call[t].op \notin {"none", "identify"}
           /\ ~Booting
<1>1. /\ sched.cur = t /\ sched.status[t] = "RUNNING"
      /\ Exists(sched, t) /\ t # Idle /\ t # InitProc
      /\ pc[t] \in {"lock", "locking"} /\ pc[t] \notin Inside
  BY AtFacts DEF Inside
<1>2. ~Booting
  BY <1>1 DEF RunInv, CallInv, LockInv
<1>3. call[t].op # "identify" /\ call[t].op # "none"
  BY <1>1, <1>2 DEF RunInv, CallInv, Booting
<1> QED BY <1>1, <1>2, <1>3

\* lock_acquire of a lock that is held.
LEMMA LockSleepStep ==
    ASSUME DiskInv, RunInv, NEW t \in Threads, LockSleep(t)
    PROVE  DiskInv'
<1>1. /\ TypeOK /\ limit >= 1 /\ PlaceInv /\ CallInv /\ LockInv
      /\ SchedInv(sched) /\ sched.halt = "no"
  BY DEF DiskInv, RunInv
<1>2. /\ sched.cur = t /\ sched.status[t] = "RUNNING"
      /\ Exists(sched, t) /\ t # Idle /\ t # InitProc
      /\ pc[t] \in {"lock", "locking"} /\ pc[t] \notin Inside
      /\ call[t].op \notin {"none", "identify"} /\ ~Booting
  <2>1. At(t, "lock") \/ At(t, "locking")
    BY DEF LockSleep
  <2> QED BY <2>1, LockingFacts
<1> DEFINE m == chan.lock
           w == Append(m.waiters, t)
<1>3. m \in LockState /\ m.waiters \in Seq(Threads)
      /\ ~Contains(m.waiters, t) /\ IsInjective(m.waiters)
  BY <1>1, <1>2, Records DEF LockInv, LockState
<1>4. /\ w \in Seq(Threads) /\ IsInjective(w)
      /\ \A u : Contains(w, u) <=> Contains(m.waiters, u) \/ u = t
  BY <1>3, AppendFacts
<1> DEFINE new == [holder |-> m.holder, repeat |-> m.repeat,
                   value |-> m.value, waiters |-> w]
<1>5. /\ chan' = [lock |-> new, done |-> chan.done,
                  expecting |-> chan.expecting]
      /\ pc' = [pc EXCEPT ![t] = "locking"]
      /\ UNCHANGED <<disk, irq, call, limit, ticked>>
  <2>1. DownQueues(sched, chan.lock) = new
    BY <1>2, <1>3, LockRecords
  <2>2. chan' = [chan EXCEPT !.lock = DownQueues(sched, chan.lock)]
    BY DEF LockSleep
  <2> HIDE DEF new
  <2>3. chan' = [chan EXCEPT !.lock = new]
    BY <2>1, <2>2
  <2> QED BY <1>1, <2>3, Records DEF LockSleep, Goto
<1>6. /\ new \in LockState /\ new.holder = m.holder /\ new.repeat = m.repeat
      /\ new.value = m.value /\ new.waiters = w
  BY <1>3, <1>4 DEF LockState
<1>7. sched' = Block(sched, "BLOCKED") /\ "BLOCKED" \in Sleeping
  BY <1>2, <1>3 DEF LockSleep, DownWaits, Sleeping
<1> HIDE DEF new, w
<1>8. SchedInv(sched') /\ sched'.halt = "no"
  BY <1>1, <1>7, BlockFacts
<1>9. \A u \in Threads \ {Idle} :
        IF u = t THEN sched'.status[u] = "BLOCKED"
        ELSE IF sched.status[u] \in {"READY", "RUNNING"}
        THEN sched'.status[u] \in {"READY", "RUNNING"}
        ELSE sched'.status[u] = sched.status[u]
  BY <1>1, <1>2, <1>7, BlockStatus
<1>10. /\ sched'.status[t] = "BLOCKED"
       /\ \A u \in Threads \ {Idle} : Exists(sched, u) => Exists(sched', u)
       /\ \A u \in Threads \ {Idle, t} :
            sched'.status[u] = "BLOCKED" <=> sched.status[u] = "BLOCKED"
  BY <1>2, <1>9 DEF Exists
<1>11. \A u \in Threads : pc'[u] = IF u = t THEN "locking" ELSE pc[u]
  BY <1>1, <1>5 DEF TypeOK
<1>12. TypeOK'
  <2>1. chan' \in [lock : LockState,
                   done : [value : Nat, waiters : Seq(Threads)],
                   expecting : BOOLEAN]
    BY <1>1, <1>5, <1>6, Records DEF SemaState
  <2>2. sched' \in SchedState
    BY <1>8 DEF SchedInv, SchedCore
  <2> QED BY <1>1, <1>5, <2>1, <2>2 DEF TypeOK, Places
<1>13. PlaceInv'
  BY <1>1, <1>2, <1>10, <1>11 DEF PlaceInv
<1>14. CallInv'
  BY <1>1, <1>2, <1>5, <1>11 DEF CallInv, Booting
<1>15. LockInv'
  <2>1. \A u \in Threads : pc'[u] \in Inside <=> pc[u] \in Inside
    BY <1>2, <1>11 DEF Inside
  <2>2. chan'.lock = new
    BY <1>5
  <2>3. \A u \in Threads \ {t} : pc[u] = "locking" =>
          (sched'.status[u] = "BLOCKED" <=> sched.status[u] = "BLOCKED")
    BY <1>1, <1>10 DEF PlaceInv
  <2>4. \A u \in Threads : Contains(w, u)
          <=> pc'[u] = "locking" /\ sched'.status[u] = "BLOCKED"
    BY <1>1, <1>4, <1>10, <1>11, <2>3 DEF LockInv
  <2>5. Booting' <=> Booting
    BY <1>5 DEF Booting
  <2> QED BY <1>1, <1>4, <1>6, <2>1, <2>2, <2>4, <2>5 DEF LockInv
<1>16. DriveInv'
  <2>1. /\ pc'[t] \notin Inside
        /\ \A u \in Threads \ {t} : pc'[u] = pc[u] /\ call'[u] = call[u]
        /\ chan'.done = chan.done /\ chan'.expecting = chan.expecting
    BY <1>5, <1>11 DEF Inside
  <2>2. \A u \in Threads : pc[u] \in Inside =>
          (sched'.status[u] = "BLOCKED" <=> sched.status[u] = "BLOCKED")
    BY <1>1, <1>2, <1>10 DEF PlaceInv, Inside
  <2> QED BY <1>2, <1>5, <2>1, <2>2, OthersDrive
<1>17. limit' >= 1
  BY <1>1, <1>5
<1> QED BY <1>8, <1>12, <1>13, <1>14, <1>15, <1>16, <1>17 DEF DiskInv, RunInv

\* lock_acquire of a free lock: the channel is quiet.
LEMMA LockTakeStep ==
    ASSUME DiskInv, RunInv, NEW t \in Threads, LockTake(t)
    PROVE  DiskInv'
<1>1. /\ TypeOK /\ limit >= 1 /\ PlaceInv /\ CallInv /\ LockInv
      /\ SchedInv(sched) /\ sched.halt = "no"
  BY DEF DiskInv, RunInv
<1>2. /\ sched.cur = t /\ sched.status[t] = "RUNNING"
      /\ Exists(sched, t) /\ t # Idle /\ t # InitProc
      /\ pc[t] \in {"lock", "locking"} /\ pc[t] \notin Inside
      /\ call[t].op \notin {"none", "identify"} /\ ~Booting
  <2>1. At(t, "lock") \/ At(t, "locking")
    BY DEF LockTake
  <2> QED BY <2>1, LockingFacts
<1> DEFINE m == chan.lock
<1>3. /\ m \in LockState /\ m.value = 1 /\ m.repeat = 0 /\ m.holder = NoThread
      /\ \A u \in Threads : pc[u] \notin Inside
  BY <1>1, <1>2, Records, NoThreadAssumption DEF LockTake, AcquirePasses, LockInv
<1>4. Quiet
  BY <1>3 DEF RunInv, DriveInv
<1> DEFINE new == [holder |-> t, repeat |-> 1, value |-> 0,
                   waiters |-> m.waiters]
<1>5. /\ chan' = [lock |-> new, done |-> chan.done,
                  expecting |-> chan.expecting]
      /\ sched' = sched /\ pc' = [pc EXCEPT ![t] = "select"]
      /\ UNCHANGED <<disk, irq, call, limit, ticked>>
  <2>1. Acquired(sched, chan.lock) = new
    <3>1. Acquired(sched, chan.lock) =
            [holder |-> sched.cur, repeat |-> 1, value |-> m.value - 1,
             waiters |-> m.waiters]
      BY <1>3, LockRecords
    <3>2. m.value - 1 = 0
      BY <1>3
    <3> QED BY <1>2, <3>1, <3>2
  <2>2. chan' = [chan EXCEPT !.lock = Acquired(sched, chan.lock)]
    BY DEF LockTake
  <2> HIDE DEF new
  <2>3. chan' = [chan EXCEPT !.lock = new]
    BY <2>1, <2>2
  <2> QED BY <1>1, <1>3, <2>3, Records DEF LockTake, Goto, AcquireChecks
<1>6. /\ new \in LockState /\ new.holder = t /\ new.repeat = 1
      /\ new.value = 0 /\ new.waiters = m.waiters
  BY <1>3 DEF LockState
<1> HIDE DEF new
<1>7. \A u \in Threads : pc'[u] = IF u = t THEN "select" ELSE pc[u]
  BY <1>1, <1>5 DEF TypeOK
<1>8. TypeOK'
  <2>1. chan' \in [lock : LockState,
                   done : [value : Nat, waiters : Seq(Threads)],
                   expecting : BOOLEAN]
    BY <1>1, <1>5, <1>6, Records DEF SemaState
  <2> QED BY <1>1, <1>5, <2>1 DEF TypeOK, Places
<1>9. PlaceInv'
  BY <1>1, <1>2, <1>5, <1>7 DEF PlaceInv
<1>10. CallInv'
  BY <1>1, <1>2, <1>5, <1>7 DEF CallInv, Booting
<1>11. LockInv'
  <2>1. \A u \in Threads : pc'[u] \in Inside <=> u = t
    BY <1>3, <1>7 DEF Inside
  <2>2. chan'.lock = new /\ ~Booting' /\ t # NoThread
    BY <1>2, <1>5, NoThreadAssumption DEF Booting
  <2>3. \A u \in Threads :
          (pc'[u] = "locking" /\ sched'.status[u] = "BLOCKED")
            <=> (pc[u] = "locking" /\ sched.status[u] = "BLOCKED")
    BY <1>2, <1>5, <1>7
  <2>4. /\ IsInjective(m.waiters)
        /\ \A u \in Threads : Contains(m.waiters, u)
             <=> pc'[u] = "locking" /\ sched'.status[u] = "BLOCKED"
    BY <1>1, <2>3 DEF LockInv
  <2> QED BY <1>6, <2>1, <2>2, <2>4 DEF LockInv
<1>12. DriveInv'
  <2>1. Quiet'
    BY <1>4, <1>5 DEF Quiet
  <2>2. Driving(t)'
    BY <1>7, <2>1 DEF Driving
  <2> QED BY <1>3, <1>7, <2>1, <2>2 DEF DriveInv
<1> QED BY <1>1, <1>5, <1>8, <1>9, <1>10, <1>11, <1>12 DEF DiskInv, RunInv

\* lock_release: the holder leaves a quiet channel and wakes the first waiter.
LEMMA ReleaseStep ==
    ASSUME DiskInv, RunInv, NEW t \in Threads, Release(t)
    PROVE  DiskInv'
<1>1. /\ TypeOK /\ limit >= 1 /\ PlaceInv /\ CallInv /\ LockInv
      /\ SchedInv(sched) /\ sched.halt = "no"
  BY DEF DiskInv, RunInv
<1>2. /\ sched.cur = t /\ sched.status[t] = "RUNNING"
      /\ pc[t] = "release" /\ pc[t] \in Inside
  BY AtFacts DEF Release, Inside
<1>3. /\ call[t].op = "none" /\ Quiet
      /\ \A u \in Threads : pc[u] \in Inside => u = t
  BY <1>1, <1>2, OnlyOne DEF CallInv, RunInv, DriveInv, Driving
<1> DEFINE m == chan.lock
           rest == IF m.waiters = << >> THEN << >> ELSE Tail(m.waiters)
           first == Head(m.waiters)
<1>4. /\ m \in LockState /\ m.holder = t /\ m.value = 0 /\ m.repeat = 1
      /\ m.waiters \in Seq(Threads) /\ IsInjective(m.waiters) /\ ~Booting
  <2>1. ~Booting
    BY <1>1, <1>2, <1>3 DEF LockInv, CallInv, Booting
  <2> QED BY <1>1, <1>2, <2>1, Records, NoThreadAssumption DEF LockInv, LockState
<1>5. /\ rest \in Seq(Threads) /\ IsInjective(rest)
      /\ \A u : Contains(rest, u) <=>
           Contains(m.waiters, u) /\ (m.waiters # << >> => u # first)
      /\ m.waiters # << >> => first \in Threads /\ Contains(m.waiters, first)
  <2>1. CASE m.waiters = << >>
    <3>1. IsInjective(<< >>) /\ \A u : ~Contains(<< >>, u)
      BY DEF IsInjective, Contains
    <3> QED BY <2>1, <3>1
  <2>2. CASE m.waiters # << >>
    BY <1>4, <2>2, PopFacts
  <2> QED BY <2>1, <2>2
<1> DEFINE new == [holder |-> NoThread, repeat |-> 0, value |-> 1,
                   waiters |-> rest]
<1>6. /\ chan' = [lock |-> new, done |-> chan.done,
                  expecting |-> chan.expecting]
      /\ pc' = [pc EXCEPT ![t] = "out"]
      /\ UNCHANGED <<disk, irq, call, limit, ticked>>
  <2>1. Released(chan.lock) = new
    <3>1. Released(chan.lock) =
            [holder |-> NoThread, repeat |-> 0, value |-> m.value + 1,
             waiters |-> rest]
      BY <1>4, LockRecords
    <3>2. m.value + 1 = 1
      BY <1>4
    <3> QED BY <3>1, <3>2
  <2>2. chan' = [chan EXCEPT !.lock = Released(chan.lock)]
    BY DEF Release
  <2> HIDE DEF new
  <2>3. chan' = [chan EXCEPT !.lock = new]
    BY <2>1, <2>2
  <2> QED BY <1>1, <2>3, Records DEF Release, Goto
<1>7. /\ new \in LockState /\ new.holder = NoThread /\ new.repeat = 0
      /\ new.value = 1 /\ new.waiters = rest
  BY <1>5 DEF LockState
<1>8. /\ SchedInv(sched') /\ sched'.halt = "no"
      /\ \A u \in Threads : sched'.status[u] =
           IF m.waiters # << >> /\ u = first THEN "READY" ELSE sched.status[u]
  <2>1. sched' = UpWakes(sched, m)
    BY <1>2, <1>4 DEF Release, ReleaseWakes
  <2>2. CASE m.waiters = << >>
    <3>1. sched' = sched
      BY <1>4, <2>1, <2>2 DEF UpWakes
    <3> QED BY <1>1, <2>2, <3>1
  <2>3. CASE m.waiters # << >>
    <3>1. sched' = Unblock(sched, first) /\ first \in Threads
      BY <1>4, <1>5, <2>1, <2>3 DEF UpWakes
    <3>2. sched.status[first] \in Sleeping
      BY <1>1, <1>5, <2>3 DEF LockInv, Sleeping
    <3> HIDE DEF first
    <3> QED BY <1>1, <2>3, <3>1, <3>2, WakeFacts
  <2> QED BY <2>2, <2>3
<1>9. \A u \in Threads : Contains(m.waiters, u)
        <=> pc[u] = "locking" /\ sched.status[u] = "BLOCKED"
  BY <1>1 DEF LockInv
<1> HIDE DEF new, rest, first
<1>10. \A u \in Threads :
         /\ Exists(sched, u) => Exists(sched', u)
         /\ sched'.status[u] = "BLOCKED" <=>
              sched.status[u] = "BLOCKED" /\ ~(m.waiters # << >> /\ u = first)
  BY <1>5, <1>8, <1>9 DEF Exists
<1>11. \A u \in Threads : pc'[u] = IF u = t THEN "out" ELSE pc[u]
  BY <1>1, <1>6 DEF TypeOK
<1>12. TypeOK'
  <2>1. chan' \in [lock : LockState,
                   done : [value : Nat, waiters : Seq(Threads)],
                   expecting : BOOLEAN]
    BY <1>1, <1>6, <1>7, Records DEF SemaState
  <2>2. sched' \in SchedState
    BY <1>8 DEF SchedInv, SchedCore
  <2> QED BY <1>1, <1>6, <2>1, <2>2 DEF TypeOK, Places
<1>13. PlaceInv'
  BY <1>1, <1>2, <1>10, <1>11 DEF PlaceInv
<1>14. CallInv'
  BY <1>1, <1>2, <1>3, <1>6, <1>11 DEF CallInv, Booting
<1>15. LockInv'
  <2>1. \A u \in Threads : pc'[u] \notin Inside
    BY <1>3, <1>11 DEF Inside
  <2>2. chan'.lock = new /\ ~Booting'
    BY <1>4, <1>6 DEF Booting
  <2>3. \A u \in Threads : Contains(rest, u)
          <=> pc'[u] = "locking" /\ sched'.status[u] = "BLOCKED"
    BY <1>2, <1>5, <1>9, <1>10, <1>11
  <2> QED BY <1>5, <1>7, <2>1, <2>2, <2>3, NoThreadAssumption DEF LockInv
<1>16. DriveInv'
  <2>1. Quiet'
    BY <1>3, <1>6 DEF Quiet
  <2> QED BY <1>3, <1>11, <2>1 DEF DriveInv, Inside
<1>17. limit' >= 1
  BY <1>1, <1>6
<1> QED BY <1>8, <1>12, <1>13, <1>14, <1>15, <1>16, <1>17 DEF DiskInv, RunInv

-----------------------------------------------------------------------------
\* The invariant is inductive.

LEMMA Stutters ==
    ASSUME DiskInv, UNCHANGED vars
    PROVE  DiskInv'
<1>1. TypeOK'
  BY DEF DiskInv, TypeOK, vars
<1>2. ASSUME RunInv PROVE RunInv'
  <2>1. PlaceInv' /\ CallInv' /\ LockInv'
    BY <1>2 DEF RunInv, PlaceInv, CallInv, LockInv, Booting, vars
  <2>2. DriveInv'
    BY <1>2 DEF RunInv, DriveInv, Driving, Quiet, Aimed, Signal, Polled,
                SecsOp, vars
  <2> QED BY <1>2, <2>1, <2>2 DEF RunInv, vars
<1>3. ASSUME HaltInv PROVE HaltInv'
  BY <1>3 DEF HaltInv, OwnCommand, QuietWhenFree, DoneNotMissed, SecsOp,
              Booting, vars
<1> QED BY <1>1, <1>2, <1>3 DEF DiskInv

LEMMA DriverStepInv ==
    ASSUME DiskInv, RunInv, NEW t \in Threads, DriverStep(t)
    PROVE  DiskInv'
  BY LockSleepStep, LockTakeStep, SelectStep, CommandStep, DoneSleepStep,
     DoneTakeStep, BusyWaitStep, SleepYieldStep, SleepEndsStep, TransferStep,
     ReleaseStep
     DEF DriverStep

LEMMA StepKeepsInv ==
    ASSUME DiskInv, [Next]_vars
    PROVE  DiskInv'
<1>1. CASE UNCHANGED vars
  BY <1>1, Stutters
<1>2. CASE ~Running /\ ~UNCHANGED vars
  <2>1. FALSE
    BY <1>2 DEF Next, Call, DriverStep, LockSleep, LockTake, Select, Command,
                DoneSleep, DoneTake, BusyWait, SleepYield, SleepEnds, Transfer,
                Release, DiskWorks, DiskIntr, Tick, IdleLoop, InitWaits,
                WakeInit, MainExit, Spin, Fork, At
  <2> QED BY <2>1
<1>3. CASE Running
  <2>1. RunInv
    BY <1>3 DEF Running, DiskInv, HaltInv
  <2>2. ASSUME NEW t \in Threads, NEW op \in {"read", "write"},
               NEW n \in 1 .. MaxSectors, Call(t, op, n)
        PROVE  DiskInv'
    BY <2>1, <2>2, CallStep
  <2>3. ASSUME NEW t \in Threads, DriverStep(t)
        PROVE  DiskInv'
    BY <2>1, <2>3, DriverStepInv
  <2>4. ASSUME NEW t \in Threads, NEW p \in Pids, Fork(t, p)
        PROVE  DiskInv'
    BY <2>1, <2>4, ForkStep
  <2>5. ASSUME DiskWorks \/ DiskIntr \/ Tick \/ IdleLoop \/ InitWaits
                 \/ WakeInit \/ MainExit
        PROVE  DiskInv'
    BY <2>1, <2>5, DiskWorksStep, DiskIntrStep, TickStep, IdleLoopStep,
       InitWaitsStep, WakeInitStep, MainExitStep
  <2> QED BY <1>3, <2>2, <2>3, <2>4, <2>5, Stutters DEF Next, Spin
<1> QED BY <1>1, <1>2, <1>3

-----------------------------------------------------------------------------
\* The theorems

LEMMA InvHolds == Spec => []DiskInv
  BY InitHolds, StepKeepsInv, PTL DEF Spec

\* The kernel stops in the driver only when busy_wait's time_limit ran out: no
\* ASSERT of the lock, of disk_done or of thread.c fails, and busy_wait never
\* sees a disk that is neither busy nor ready with data.
THEOREM PanicsOnlyOnTimeout == Spec => []PanicOnlyOnTimeout
<1>1. DiskInv => PanicOnlyOnTimeout
  BY InvImplies
<1> QED BY <1>1, InvHolds, PTL

\* A thread that waits for the disk or moves its data does so for its own
\* command, with as many sectors in the 8-bit register as it counts itself.
THEOREM CommandsAreOwn == Spec => []OwnCommand
<1>1. DiskInv => OwnCommand
  BY InvImplies
<1> QED BY <1>1, InvHolds, PTL

\* A free lock means a channel without a trace of earlier commands: every
\* interrupt was expected, taken and counted once, and used up.
THEOREM FreeIsQuiet == Spec => []QuietWhenFree
<1>1. DiskInv => QuietWhenFree
  BY InvImplies
<1> QED BY <1>1, InvHolds, PTL

\* Who sleeps for disk_done is in its list while the interrupt is still on its
\* way and expected: intr_hd_handler wakes it.
THEOREM DoneIsNotMissed == Spec => []DoneNotMissed
<1>1. DiskInv => DoneNotMissed
  BY InvImplies
<1> QED BY <1>1, InvHolds, PTL
=============================================================================
