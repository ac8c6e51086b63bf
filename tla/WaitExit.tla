------------------------------ MODULE WaitExit -------------------------------
(***************************************************************************)
(* The life of processes: sys_fork (user/fork.c), sys_wait and sys_exit    *)
(* (user/wait_exit.c), over the scheduler, the list of all threads and the *)
(* pid pool.  Parents are known by pid only, and pids are used again.      *)
(* System calls run with interrupts off; sys_exit may sleep while it gives *)
(* back memory and files (release_prog_resource takes locks), sys_wait     *)
(* sleeps for a child.                                                     *)
(***************************************************************************)
EXTENDS ThreadOps

CONSTANT MaxAlive   \* bound: nobody forks beside this many living threads

ASSUME MaxAliveAssumption == MaxAlive \in Nat

VARIABLES
    sched,    \* the scheduler, see ThreadOps
    ppid,     \* task_struct.parent_pid
    pc,       \* where each thread is
    asleep,   \* threads that sleep inside release_prog_resource
    father    \* who forked each process, or init once it was adopted: not in
              \* the code, which has to find this thread again by ppid

vars == <<sched, ppid, pc, asleep, father>>

NoPid == -1

Places == {"user", "wait", "release", "gone"}

Running == sched.halt = "no"

At(t, place) == Running /\ sched.cur = t /\ pc[t] = place

InterruptsOn == pc[sched.cur] = "user"

IsProcess(t) == t \notin {Main, Idle} /\ Exists(sched, t)

\* list_traversal with find_hanging_child and fine_child.
Children(t) ==
    {c \in Threads : Contains(sched.all, c) /\ ppid[c] = sched.pid[t]}

HangingChildren(t) == {c \in Children(t) : sched.status[c] = "HANGING"}

\* pid_to_thread.
HasPid(t, p) == Contains(sched.all, t) /\ sched.pid[t] = p

\* The search runs along thread_all_list and takes the first.
FirstOf(set, t) ==
    \E i \in DOMAIN sched.all :
      /\ sched.all[i] = t
      /\ t \in set
      /\ \A j \in 1 .. i - 1 : sched.all[j] \notin set

Init ==
    /\ sched = BootState
    /\ ppid = [t \in Threads |-> NoPid]
    /\ pc = [t \in Threads |-> "user"]
    /\ asleep = {}
    /\ father = [t \in Threads |-> t]

-----------------------------------------------------------------------------
\* sys_fork gets a page for the child's PCB.  get_kernel_pages takes the first
\* free page, so there is no choice of t.
ForkGetsPage(t) ==
    /\ At(sched.cur, "user")
    /\ IsProcess(sched.cur)
    /\ Cardinality(Alive(sched)) < MaxAlive
    /\ sched.status[t] = "FREE"
    /\ t = CHOOSE u \in Threads : sched.status[u] = "FREE"

\* Mutant of Fork: the copied PCB keeps the parent's own parent_pid.
ForkCopiesParent(t, p) ==
    /\ ForkGetsPage(t)
    /\ LowestFreePid(sched, p)
    /\ sched' = ThreadStart(sched, t, p)
    /\ ppid' = [ppid EXCEPT ![t] = ppid[sched.cur]]
    /\ father' = [father EXCEPT ![t] = sched.cur]
    /\ pc' = [pc EXCEPT ![t] = "user"]
    /\ UNCHANGED asleep

\* sys_fork: the child's PCB is a copy of the parent's with a pid of its own, a
\* full slice and parent_pid set, queued on both lists.
Fork(t, p) ==
    /\ ForkGetsPage(t)
    /\ LowestFreePid(sched, p)
    /\ sched' = ThreadStart(sched, t, p)
    /\ ppid' = [ppid EXCEPT ![t] = sched.pid[sched.cur]]
    /\ father' = [father EXCEPT ![t] = sched.cur]
    /\ pc' = [pc EXCEPT ![t] = "user"]
    /\ UNCHANGED asleep

\* copy_pcb_vaddrbitmap_stack appends "_fork" to the name and fails its ASSERT
\* if the name has more than 10 letters.  The name is not kept here: sys_execv
\* gives the caller that of the program, so any process but init, which never
\* calls it, forks with a name short enough or too long.
ForkNameTooLong(t) ==
    /\ ForkGetsPage(t)
    /\ sched.cur # InitProc
    /\ sched' = [sched EXCEPT !.halt = "name"]
    /\ UNCHANGED <<ppid, pc, asleep, father>>

-----------------------------------------------------------------------------
\* sys_wait

CallWait(t) ==
    /\ At(t, "user")
    /\ IsProcess(t)
    /\ pc' = [pc EXCEPT ![t] = "wait"]
    /\ UNCHANGED <<sched, ppid, asleep, father>>

\* A HANGING child is reaped with thread_exit(child, false) and its pid returned.
WaitReaps(t, c) ==
    /\ At(t, "wait")
    /\ FirstOf(HangingChildren(t), c)
    /\ sched' = ThreadExit(sched, c)
    /\ ppid' = [ppid EXCEPT ![c] = NoPid]
    /\ father' = [father EXCEPT ![c] = c]
    /\ pc' = [pc EXCEPT ![t] = "user"]
    /\ UNCHANGED asleep

\* Or thread_exit, which reads the pid from the unmapped page, faults: see
\* Scheduler!ReapStep.
WaitFaults(t) ==
    /\ At(t, "wait")
    /\ HangingChildren(t) # {}
    /\ sched' = [sched EXCEPT !.halt = "fault"]
    /\ UNCHANGED <<ppid, pc, asleep, father>>

\* No child at all: return -1.
WaitFails(t) ==
    /\ At(t, "wait")
    /\ Children(t) = {}
    /\ pc' = [pc EXCEPT ![t] = "user"]
    /\ UNCHANGED <<sched, ppid, asleep, father>>

\* Living children only: sleep, and search again when woken.
WaitSleeps(t) ==
    /\ At(t, "wait")
    /\ HangingChildren(t) = {}
    /\ Children(t) # {}
    /\ sched' = Block(sched, "WAITING")
    /\ UNCHANGED <<ppid, pc, asleep, father>>

-----------------------------------------------------------------------------
\* sys_exit

\* init_adopt_a_child: parent_pid of every child becomes 1, whatever state the
\* child is in, and init is left as it is.
AdoptedPpid(t) ==
    [c \in Threads |-> IF c \in Children(t) THEN 1 ELSE ppid[c]]

\* init itself loops in wait for ever.
CallExit(t) ==
    /\ At(t, "user")
    /\ IsProcess(t)
    /\ t # InitProc
    /\ IF ppid[t] = NoPid
       THEN sched' = Panic(sched) /\ UNCHANGED <<ppid, father>>
       ELSE /\ ppid' = AdoptedPpid(t)
            /\ father' = [c \in Threads |->
                            IF c \in Children(t) THEN InitProc ELSE father[c]]
            /\ UNCHANGED sched
    /\ pc' = [pc EXCEPT ![t] = "release"]
    /\ UNCHANGED asleep

\* release_prog_resource meets a lock (sys_free's, under inode_close) that the
\* boot thread, preempted, holds; processes never lose the processor with it.
ReleaseSleeps(t) ==
    /\ At(t, "release")
    /\ Exists(sched, Main)
    /\ sched' = Block(sched, "BLOCKED")
    /\ asleep' = asleep \cup {t}
    /\ UNCHANGED <<ppid, pc, father>>

\* The boot thread releases that lock.
LockFreed(t) ==
    /\ Running
    /\ sched.cur = Main
    /\ t \in asleep
    /\ sched' = Unblock(sched, t)
    /\ asleep' = asleep \ {t}
    /\ UNCHANGED <<ppid, pc, father>>

\* Mutant of WakeParent: the parent is not woken.
ParentLeftAsleep(t) == sched

\* The parent is looked up by pid and woken if it waits; then the process hangs.
\* A failed look-up is a NULL dereference.
WakeParent(t) ==
    IF \E u \in Threads : HasPid(u, ppid[t])
    THEN LET parent == CHOOSE u \in Threads : HasPid(u, ppid[t])
         IN  IF sched.status[parent] = "WAITING"
             THEN Unblock(sched, parent)
             ELSE sched
    ELSE Panic(sched)

\* Mutant of ExitHangs: the process sleeps in the wrong state.
ExitWaits(t) ==
    /\ At(t, "release")
    /\ sched' = Block(WakeParent(t), "WAITING")
    /\ pc' = [pc EXCEPT ![t] = "gone"]
    /\ UNCHANGED <<ppid, asleep, father>>

ExitHangs(t) ==
    /\ At(t, "release")
    /\ sched' = LET s == WakeParent(t)
                IN  IF s.halt = "no" THEN Block(s, "HANGING") ELSE s
    /\ pc' = [pc EXCEPT ![t] = "gone"]
    /\ UNCHANGED <<ppid, asleep, father>>

-----------------------------------------------------------------------------
\* The rest of the system

Tick ==
    /\ Running
    /\ InterruptsOn
    /\ sched' = TimerTick(sched)
    /\ UNCHANGED <<ppid, pc, asleep, father>>

IdleLoop ==
    /\ At(Idle, "user")
    /\ sched' = Block(sched, "BLOCKED")
    /\ UNCHANGED <<ppid, pc, asleep, father>>

\* The boot thread ends, and its pid is free for a process; not before the
\* locks it holds are released.
MainExit ==
    /\ At(Main, "user")
    /\ asleep = {}
    /\ sched' = Schedule(ThreadExit(sched, Main))
    /\ UNCHANGED <<ppid, pc, asleep, father>>

Spin ==
    /\ ~Running
    /\ UNCHANGED vars

SysCall(t) ==
    \/ \E c \in Threads : WaitReaps(t, c)
    \/ WaitFaults(t)
    \/ WaitFails(t)
    \/ WaitSleeps(t)
    \/ ExitHangs(t)

Next ==
    \/ \E t \in Threads, p \in Pids : Fork(t, p)
    \/ \E t \in Threads : ForkNameTooLong(t)
    \/ \E t \in Threads : CallWait(t) \/ CallExit(t)
    \/ \E t \in Threads : SysCall(t)
    \/ \E t \in Threads : ReleaseSleeps(t) \/ LockFreed(t)
    \/ Tick
    \/ IdleLoop
    \/ MainExit
    \/ Spin

Spec == Init /\ [][Next]_vars

\* System calls run on; the PIT keeps interrupting, and the PIC keeps a timer
\* interrupt pending until interrupts are on, so it is delivered even if they are
\* on only now and then; a lock is not held for ever; and init calls wait
\* whenever it runs (the loop of init in main.c).
Fairness ==
    /\ WF_vars(\E t \in Threads : SysCall(t))
    /\ SF_vars(Tick)
    /\ SF_vars(\E t \in Threads : LockFreed(t))
    /\ SF_vars(CallWait(InitProc))

FairSpec == Spec /\ Fairness

-----------------------------------------------------------------------------
TypeOK ==
    /\ sched \in SchedState
    /\ ppid \in [Threads -> Pids \cup {NoPid}]
    /\ pc \in [Threads -> Places]
    /\ asleep \in SUBSET Threads
    /\ father \in [Threads -> Threads]

\* No ASSERT or PANIC fires but that of sys_fork on a name too long, and no
\* look-up of a parent fails.
NoPanic == sched.halt # "panic"

\* parent_pid leads back to the process it was set for, although pids are used
\* again: that process still lives, has not begun to exit, and no other thread
\* has its pid.
ParentExact ==
    \A t \in Threads \ {InitProc} :
      IsProcess(t) =>
        /\ IsProcess(father[t]) /\ pc[father[t]] \in {"user", "wait"}
        /\ \A u \in Threads : HasPid(u, ppid[t]) <=> u = father[t]

\* A parent other than init never sleeps in sys_wait beside a child that has
\* already exited, and never without a child that will wake it.
WaitNotMissed ==
    \A t \in Threads \ {InitProc} :
      sched.status[t] = "WAITING" =>
        Children(t) # {} /\ HangingChildren(t) = {}

\* WAITING and HANGING mean what sys_wait and sys_exit make of them: nobody else
\* is in these states, so thread_exit never frees the PCB of a live process.
SleepStatesExact ==
    /\ \A t \in Threads : sched.status[t] = "WAITING" => pc[t] = "wait"
    /\ \A t \in Threads : sched.status[t] = "HANGING" <=> (pc[t] = "gone" /\ Exists(sched, t))
    /\ \A t \in Threads : sched.status[t] = "BLOCKED" => t = Idle \/ t \in asleep

\* A process in sys_wait with a child that exited gets it.
WaitReturns ==
    \A t \in Threads \ {InitProc, Main, Idle} :
      (pc[t] = "wait" /\ HangingChildren(t) # {})
        ~> (pc[t] # "wait" \/ sched.halt # "no")

\* The comment in init: it reaps the zombies handed over to it.
InitReaps ==
    \A t \in Threads :
      (sched.status[t] = "HANGING" /\ father[t] = InitProc)
        ~> (sched.status[t] # "HANGING" \/ sched.halt # "no")
=============================================================================
