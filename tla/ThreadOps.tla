------------------------------ MODULE ThreadOps ------------------------------
(***************************************************************************)
(* The thread layer of the kernel (kernel/thread.c, lib/kernel/list.c) as  *)
(* operators on one record s, the scheduler's state:                       *)
(*   cur     the thread whose PCB holds the stack pointer (running_thread) *)
(*   ready   thread_ready_list, head first                                 *)
(*   all     thread_all_list, head first                                   *)
(*   status  task_struct.status; "FREE" is a page that holds no PCB        *)
(*   ticks   task_struct.ticks, what is left of the time slice             *)
(*   pid     task_struct.pid                                               *)
(*   pids    the pids whose bit is set in pid_pool                         *)
(*   halt    "no", "panic" after a failed ASSERT or a PANIC, "fault" after *)
(*           an exception, "name" after the ASSERT of sys_fork on a name   *)
(*           too long; all spin for ever with interrupts off               *)
(* Every operator below runs with interrupts off in the code, from the     *)
(* first read to the last write, so it is one value-to-value function and  *)
(* the modules that use it compose calls as they follow each other.        *)
(***************************************************************************)
EXTENDS Integers, Sequences, FiniteSets, SequencesExt

CONSTANTS Threads,   \* the pages that can hold a PCB
          InitProc,  \* the PCB of the user process init, pid 1
          Main,      \* the PCB of the boot thread
          Idle,      \* the PCB of the idle thread
          Prio,      \* task_struct.priority of the thread in each page
          MaxPid     \* number of bits in pid_bitmap (1024 in the code)

ASSUME ThreadsAssumption ==
    /\ {InitProc, Main, Idle} \subseteq Threads
    /\ InitProc # Main /\ InitProc # Idle /\ Main # Idle

ASSUME PrioAssumption == Prio \in [Threads -> Nat]

ASSUME MaxPidAssumption == MaxPid \in Nat /\ MaxPid >= 3

\* allocate_pid never meets a full pool (bitmap_scan would return -1 and
\* bitmap_set fail its ASSERT): a process takes some 26 of the 3840 pages of the
\* kernel's pool, so the pages for PCBs run out long before the 1024 pids.
ASSUME PidsSuffice == IsFiniteSet(Threads) /\ Cardinality(Threads) <= MaxPid

Sleeping == {"BLOCKED", "WAITING", "HANGING"}

Statuses == {"FREE", "RUNNING", "READY", "DIED"} \cup Sleeping

Pids == 1 .. MaxPid

SchedState ==
    [cur    : Threads,
     ready  : Seq(Threads),
     all    : Seq(Threads),
     status : [Threads -> Statuses],
     ticks  : [Threads -> Nat],
     pid    : [Threads -> Pids \cup {0}],
     pids   : SUBSET Pids,
     halt   : {"no", "panic", "fault", "name"}]

Exists(s, t) == s.status[t] \notin {"FREE", "DIED"}

-----------------------------------------------------------------------------
\* A failed ASSERT and PANIC: panic_spin never returns, so what follows a failed
\* assertion is not executed; the state it leaves behind is not looked at.
Panic(s) == [s EXCEPT !.halt = "panic"]

\* list_remove of an element that is in the list.
ListRemove(list, t) == RemoveAt(list, CHOOSE i \in DOMAIN list : list[i] = t)

\* Mutant of Unblock: the woken thread is queued and its status forgotten.
UnblockKeepsStatus(s, t) == [s EXCEPT !.ready = Cons(t, s.ready)]

\* thread_unblock: the woken thread goes to the HEAD of the ready list.
Unblock(s, t) ==
    IF s.status[t] \in Sleeping /\ ~Contains(s.ready, t)
    THEN [s EXCEPT !.ready = Cons(t, s.ready), !.status[t] = "READY"]
    ELSE Panic(s)

\* Mutant of Requeue: the preempted thread goes to the head of the list.
RequeueFirst(s) ==
    IF s.status[s.cur] = "RUNNING"
    THEN [s EXCEPT !.ready = Cons(s.cur, s.ready),
                   !.ticks[s.cur] = Prio[s.cur],
                   !.status[s.cur] = "READY"]
    ELSE s

\* schedule, first half: a thread that is still RUNNING used up its slice.
Requeue(s) ==
    IF s.status[s.cur] = "RUNNING"
    THEN IF Contains(s.ready, s.cur)
         THEN Panic(s)
         ELSE [s EXCEPT !.ready = Append(s.ready, s.cur),
                        !.ticks[s.cur] = Prio[s.cur],
                        !.status[s.cur] = "READY"]
    ELSE s

\* schedule, middle: with nobody ready, idle_thread is woken.
WakeIdle(s) == IF s.ready = << >> THEN Unblock(s, Idle) ELSE s

\* schedule, second half: the head of the ready list gets the processor.
Dispatch(s) ==
    IF s.ready = << >>
    THEN Panic(s)
    ELSE [s EXCEPT !.cur = Head(s.ready),
                   !.ready = Tail(s.ready),
                   !.status[Head(s.ready)] = "RUNNING"]

\* A failed assertion in one part ends the whole call.
Schedule(s) ==
    LET a == Requeue(s)
        b == WakeIdle(a)
    IN  IF a.halt # "no" THEN a ELSE IF b.halt # "no" THEN b ELSE Dispatch(b)

\* Mutant of Yield: the caller stays RUNNING, and schedule queues it again.
YieldKeepsStatus(s) == Schedule([s EXCEPT !.ready = Append(s.ready, s.cur)])

\* thread_yield: cur is appended before schedule, so schedule finds it READY
\* and does not refill its slice.
Yield(s) ==
    IF Contains(s.ready, s.cur)
    THEN Panic(s)
    ELSE Schedule([s EXCEPT !.ready = Append(s.ready, s.cur),
                            !.status[s.cur] = "READY"])

\* thread_block: the caller sleeps in state stat.
Block(s, stat) ==
    IF stat \in Sleeping
    THEN Schedule([s EXCEPT !.status[s.cur] = stat])
    ELSE Panic(s)

\* Mutant of TimerTick: the slice is lowered without a look at 0.
TickUnderflows(s) == [s EXCEPT !.ticks[s.cur] = @ - 1]

\* intr_timer_handler.
TimerTick(s) ==
    IF s.ticks[s.cur] = 0
    THEN Schedule(s)
    ELSE [s EXCEPT !.ticks[s.cur] = @ - 1]

\* allocate_pid: bitmap_scan takes the lowest clear bit.  There is one for a
\* thread in a FREE page, by PidsSuffice.
LowestFreePid(s, p) ==
    /\ p \in Pids \ s.pids
    /\ \A q \in Pids \ s.pids : p <= q

\* Mutant of ThreadStart: list_push in the place of list_append.
StartFirst(s, t, p) ==
    [s EXCEPT !.status[t] = "READY",
              !.ticks[t]  = Prio[t],
              !.pid[t]    = p,
              !.pids      = @ \cup {p},
              !.ready     = Cons(t, @),
              !.all       = Append(@, t)]

\* thread_start, process_execute and the end of sys_fork: a PCB in page t, with
\* pid p and a full slice, is appended to both lists.
ThreadStart(s, t, p) ==
    IF Contains(s.ready, t) \/ Contains(s.all, t)
    THEN Panic(s)
    ELSE [s EXCEPT !.status[t] = "READY",
                   !.ticks[t]  = Prio[t],
                   !.pid[t]    = p,
                   !.pids      = @ \cup {p},
                   !.ready     = Append(@, t),
                   !.all       = Append(@, t)]

\* Mutant of ThreadExit: release_pid is forgotten.
ExitKeepsPid(s, t) ==
    [s EXCEPT !.status[t] = IF t = Main THEN "DIED" ELSE "FREE",
              !.ready = IF Contains(@, t) THEN ListRemove(@, t) ELSE @,
              !.all   = ListRemove(@, t),
              !.ticks[t] = 0,
              !.pid[t] = 0]

\* thread_exit up to release_pid: t leaves both lists, its page is freed unless
\* it is the boot thread's, and its pid is returned to the pool. What is left in
\* a PCB nobody reaches any more is not looked at and is recorded as 0.
ThreadExit(s, t) ==
    [s EXCEPT !.status[t] = IF t = Main THEN "DIED" ELSE "FREE",
              !.ready = IF Contains(@, t) THEN ListRemove(@, t) ELSE @,
              !.all   = ListRemove(@, t),
              !.pids  = @ \ {s.pid[t]},
              !.ticks[t] = 0,
              !.pid[t] = 0]

\* thread_init: init, main and idle are created in this order, with the boot
\* thread on the processor.
BootState ==
    [cur    |-> Main,
     ready  |-> <<InitProc, Idle>>,
     all    |-> <<InitProc, Main, Idle>>,
     status |-> [t \in Threads |-> IF t = Main THEN "RUNNING"
                                   ELSE IF t \in {InitProc, Idle}
                                   THEN "READY" ELSE "FREE"],
     ticks  |-> [t \in Threads |-> IF t \in {InitProc, Main, Idle}
                                   THEN Prio[t] ELSE 0],
     pid    |-> [t \in Threads |-> IF t = InitProc THEN 1
                                   ELSE IF t = Main THEN 2
                                   ELSE IF t = Idle THEN 3 ELSE 0],
     pids   |-> 1 .. 3,
     halt   |-> "no"]

-----------------------------------------------------------------------------
\* What holds of the scheduler's record between any two of the calls above.

Alive(s) == {t \in Threads : Exists(s, t)}

\* The ready list holds the READY threads, each once.
ReadyExact(s) ==
    /\ IsInjective(s.ready)
    /\ \A t \in Threads : Contains(s.ready, t) <=> s.status[t] = "READY"

\* thread_all_list holds the living threads, each once.
AllExact(s) ==
    /\ IsInjective(s.all)
    /\ \A t \in Threads : Contains(s.all, t) <=> t \in Alive(s)

\* pid_pool holds the pids of the living threads, which are all different.
PidExact(s) ==
    /\ s.pids = {s.pid[t] : t \in Alive(s)}
    /\ \A t, u \in Alive(s) : s.pid[t] = s.pid[u] => t = u

\* idle never sleeps for anything but its own loop, and never ends.
IdleExact(s) == s.status[Idle] \in {"RUNNING", "READY", "BLOCKED"}

\* Only the boot thread leaves a PCB behind.
DiedExact(s) == \A t \in Threads : s.status[t] = "DIED" => t = Main

\* Only the owner of the processor is RUNNING; between thread_block's
\* assignment and the end of schedule it need not be.
SchedCore(s) ==
    /\ s \in SchedState
    /\ s.halt # "panic"
    /\ ReadyExact(s)
    /\ AllExact(s)
    /\ PidExact(s)
    /\ IdleExact(s)
    /\ DiedExact(s)
    /\ \A t \in Threads : s.status[t] = "RUNNING" => t = s.cur

SchedInv(s) == SchedCore(s) /\ s.status[s.cur] = "RUNNING"
=============================================================================
