------------------------------ MODULE Scheduler ------------------------------
(***************************************************************************)
(* The round-robin scheduler driven by everything that calls it: the timer *)
(* interrupt, threads that yield, sleep, wake others and create threads,   *)
(* the parent that reaps a HANGING child, and the boot thread, which ends  *)
(* with thread_exit(running_thread(), true).                               *)
(* Who sleeps on what is left open here: any thread may sleep, any sleeper *)
(* may be woken.  Sync, IOQueue and WaitExit close it.                     *)
(***************************************************************************)
EXTENDS ThreadOps

VARIABLE sched

vars == <<sched>>

Running == sched.halt = "no"

Init == sched = BootState

-----------------------------------------------------------------------------
\* The PIT interrupt.
Tick ==
    /\ Running
    /\ sched' = TimerTick(sched)

\* thread_yield, called by a thread that polls (ticks_to_sleep).
YieldStep ==
    /\ Running
    /\ sched.cur # Idle
    /\ sched' = Yield(sched)

\* idle: thread_block(TASK_BLOCKED); sti; hlt; and again.
IdleLoop ==
    /\ Running
    /\ sched.cur = Idle
    /\ sched' = Block(sched, "BLOCKED")

\* A thread sleeps for a lock, a buffer or the disk.
BlockStep ==
    /\ Running
    /\ sched.cur # Idle
    /\ sched' = Block(sched, "BLOCKED")

\* A parent sleeps in sys_wait.
WaitStep ==
    /\ Running
    /\ sched.cur \notin {Idle, Main}
    /\ sched' = Block(sched, "WAITING")

\* A process ends in sys_exit; init never does.
HangStep ==
    /\ Running
    /\ sched.cur \notin {Idle, Main, InitProc}
    /\ sched' = Block(sched, "HANGING")

\* sema_up, wakeup and sys_exit, from the running thread or from an interrupt
\* handler on its stack.  They wake threads found in a waiter list, a waiter
\* slot or in state WAITING: never idle, which only schedule wakes.
UnblockStep(t) ==
    /\ Running
    /\ t # Idle
    /\ sched.status[t] \in {"BLOCKED", "WAITING"}
    /\ sched' = Unblock(sched, t)

\* thread_start, process_execute, sys_fork by the running thread.
StartStep(t, p) ==
    /\ Running
    /\ sched.cur # Idle
    /\ sched.status[t] = "FREE"
    /\ LowestFreePid(sched, p)
    /\ sched' = ThreadStart(sched, t, p)

\* sys_wait reaps t: thread_exit(t, false).  release_pid reads t's pid after
\* t's page was unmapped; invlpg is given the address of a local variable, so
\* the read finds the old translation in the TLB, or faults.  The fault stops the
\* machine inside thread_exit, before the pid is released; as with Panic, what
\* thread_exit has done until then is not looked at.
ReapStep(t) ==
    /\ Running
    /\ sched.cur \notin {Idle, Main}
    /\ t # sched.cur
    /\ sched.status[t] = "HANGING"
    /\ \/ sched' = ThreadExit(sched, t)
       \/ sched' = [sched EXCEPT !.halt = "fault"]

\* The end of main: thread_exit(running_thread(), true); its PCB stays mapped.
MainExit ==
    /\ Running
    /\ sched.cur = Main
    /\ sched' = Schedule(ThreadExit(sched, Main))

\* panic_spin and general_intr_handler end in while (1).
Spin ==
    /\ ~Running
    /\ UNCHANGED sched

Next ==
    \/ Tick
    \/ YieldStep
    \/ IdleLoop
    \/ BlockStep
    \/ WaitStep
    \/ HangStep
    \/ \E t \in Threads : UnblockStep(t)
    \/ \E t \in Threads, p \in Pids : StartStep(t, p)
    \/ \E t \in Threads : ReapStep(t)
    \/ MainExit
    \/ Spin

Spec == Init /\ [][Next]_vars

\* The PIT keeps interrupting whatever the threads do.
FairSpec == Spec /\ WF_vars(Tick)

-----------------------------------------------------------------------------
TypeOK == sched \in SchedState

\* No ASSERT or PANIC of thread.c fires, whatever the order of calls: no
\* thread is queued twice, only sleepers are woken, and idle is asleep
\* whenever schedule finds the ready list empty.
NoPanic == sched.halt # "panic"

\* A thread is READY exactly when it is in the ready list, once, and RUNNING
\* exactly when it owns the processor: nobody is lost by a reschedule and nobody
\* is scheduled twice.
ReadyListExact ==
    /\ ReadyExact(sched)
    /\ \A t \in Threads : sched.status[t] = "RUNNING" <=> t = sched.cur

\* thread_all_list holds every living thread once, and the pid pool exactly
\* their pids, all different: sys_wait's and sys_exit's searches by pid find the
\* thread they mean.
PidsExact == AllExact(sched) /\ PidExact(sched)

Precedes(list, t, u) ==
    \E i, j \in DOMAIN list : i < j /\ list[i] = t /\ list[j] = u

\* Only a thread that is woken passes others in the queue: preempted, yielding
\* and new threads queue up behind everybody, and nobody changes places.
QueueOrderKept ==
    [][\A t, u \in Threads :
         (Contains(sched.ready, u) /\ Precedes(sched'.ready, t, u))
           => Precedes(sched.ready, t, u) \/ sched.status[t] \in Sleeping]_vars

\* A READY thread gets the processor although woken threads are put before it
\* and yield keeps the caller's slice: what is left of the others' slices only
\* shrinks until each of them is queued behind it.
ReadyRuns ==
    \A t \in Threads :
      (sched.status[t] = "READY")
        ~> (sched.status[t] = "RUNNING" \/ sched.halt # "no")
=============================================================================
