-------------------------------- MODULE Sync ---------------------------------
(***************************************************************************)
(* One struct lock (kernel/sync.c) used by every thread of the system.     *)
(* Interrupts are off inside sema_down and sema_up, but lock_acquire and   *)
(* lock_release touch holder and holder_repeat_nr outside of them: a kernel*)
(* thread can be preempted between any two of those statements.  User      *)
(* processes enter the kernel through an interrupt gate and run there with *)
(* interrupts off; they lose the processor only where they sleep.          *)
(***************************************************************************)
EXTENDS SyncOps

CONSTANTS KThreads,  \* threads whose kernel code runs with interrupts on
          MaxNest    \* bound: how often one thread nests lock_acquire

ASSUME KThreadsAssumption == KThreads \subseteq Threads

ASSUME MaxNestAssumption == MaxNest \in Nat \ {0}

VARIABLES
    sched,   \* the scheduler, see ThreadOps
    lock,    \* the lock, see SyncOps
    pc,      \* where each thread is
    nest,    \* how many lock_acquire of each thread have no lock_release yet
    asleep   \* threads that sleep for something else (the disk, a buffer)

vars == <<sched, lock, pc, nest, asleep>>

Places == {"out",      \* outside lock_acquire and lock_release, nest = 0
           "acquire",  \* before the test of holder
           "down",     \* before the loop of sema_down
           "woken",    \* in that loop after thread_block, interrupts off
           "took",     \* behind sema_down, holder not written yet
           "owner",    \* holder written, holder_repeat_nr not yet
           "in",       \* outside, nest > 0
           "cleared",  \* holder = NULL written, holder_repeat_nr not yet
           "up"}       \* before sema_up

Running == sched.halt = "no"

At(t, place) == Running /\ sched.cur = t /\ pc[t] = place

InterruptsOn ==
    \/ pc[sched.cur] = "out"
    \/ sched.cur \in KThreads /\ pc[sched.cur] # "woken"

Init ==
    /\ sched = BootState
    /\ lock = LockInit
    /\ pc = [t \in Threads |-> "out"]
    /\ nest = [t \in Threads |-> 0]
    /\ asleep = {}

-----------------------------------------------------------------------------
\* lock_acquire and the semaphore under it

CallAcquire(t) ==
    /\ At(t, "out") \/ (At(t, "in") /\ nest[t] < MaxNest)
    /\ t # Idle
    /\ pc' = [pc EXCEPT ![t] = "acquire"]
    /\ UNCHANGED <<sched, lock, nest, asleep>>

\* Mutant of TestHolder: the nested call is not counted.
NestingUncounted(t) ==
    /\ At(t, "acquire")
    /\ pc' = [pc EXCEPT ![t] = IF lock.holder # t THEN "down" ELSE "in"]
    /\ nest' = [nest EXCEPT ![t] = IF lock.holder # t THEN @ ELSE @ + 1]
    /\ UNCHANGED <<sched, lock, asleep>>

\* if (plock->holder != running_thread()) ... else holder_repeat_nr++
TestHolder(t) ==
    /\ At(t, "acquire")
    /\ IF lock.holder # t
       THEN /\ pc' = [pc EXCEPT ![t] = "down"]
            /\ UNCHANGED <<lock, nest>>
       ELSE /\ lock' = [lock EXCEPT !.repeat = @ + 1]
            /\ nest' = [nest EXCEPT ![t] = @ + 1]
            /\ pc' = [pc EXCEPT ![t] = "in"]
    /\ UNCHANGED <<sched, asleep>>

\* sema_down finds value 0.
DownSleep(t) ==
    /\ At(t, "down") \/ At(t, "woken")
    /\ lock.value = 0
    /\ sched' = DownWaits(sched, lock)
    /\ lock' = DownQueues(sched, lock)
    /\ pc' = [pc EXCEPT ![t] = "woken"]
    /\ UNCHANGED <<nest, asleep>>

\* Mutant of DownTake: an if in the place of sema_down's while.
DownTakeIf(t) ==
    /\ (At(t, "down") /\ lock.value # 0) \/ At(t, "woken")
    /\ lock' = DownLowers(lock)
    /\ pc' = [pc EXCEPT ![t] = "took"]
    /\ UNCHANGED <<sched, nest, asleep>>

\* sema_down leaves its loop.
DownTake(t) ==
    /\ At(t, "down") \/ At(t, "woken")
    /\ lock.value # 0
    /\ sched' = DownTakes(sched, lock)
    /\ lock' = DownLowers(lock)
    /\ pc' = [pc EXCEPT ![t] = "took"]
    /\ UNCHANGED <<nest, asleep>>

SetHolder(t) ==
    /\ At(t, "took")
    /\ lock' = [lock EXCEPT !.holder = t]
    /\ pc' = [pc EXCEPT ![t] = "owner"]
    /\ UNCHANGED <<sched, nest, asleep>>

\* ASSERT(holder_repeat_nr == 0); holder_repeat_nr = 1
SetRepeat(t) ==
    /\ At(t, "owner")
    /\ sched' = IF lock.repeat = 0 THEN sched ELSE Panic(sched)
    /\ lock' = [lock EXCEPT !.repeat = 1]
    /\ nest' = [nest EXCEPT ![t] = 1]
    /\ pc' = [pc EXCEPT ![t] = "in"]
    /\ UNCHANGED asleep

-----------------------------------------------------------------------------
\* lock_release

\* holder_repeat_nr > 1: one level less.
ReleaseInner(t) ==
    /\ At(t, "in")
    /\ lock.repeat > 1
    /\ sched' = IF lock.holder = t THEN sched ELSE Panic(sched)
    /\ lock' = [lock EXCEPT !.repeat = @ - 1]
    /\ nest' = [nest EXCEPT ![t] = @ - 1]
    /\ UNCHANGED <<pc, asleep>>

\* Mutant of ReleaseOuter: holder is not cleared.
ReleaseKeepsHolder(t) ==
    /\ At(t, "in")
    /\ ~(lock.repeat > 1)
    /\ pc' = [pc EXCEPT ![t] = "cleared"]
    /\ UNCHANGED <<sched, lock, nest, asleep>>

\* The last level: the assertions, then holder = NULL.
ReleaseOuter(t) ==
    /\ At(t, "in")
    /\ ~(lock.repeat > 1)
    /\ sched' = IF lock.holder = t /\ lock.repeat = 1
                THEN sched ELSE Panic(sched)
    /\ lock' = [lock EXCEPT !.holder = NoThread]
    /\ pc' = [pc EXCEPT ![t] = "cleared"]
    /\ UNCHANGED <<nest, asleep>>

ClearRepeat(t) ==
    /\ At(t, "cleared")
    /\ lock' = [lock EXCEPT !.repeat = 0]
    /\ pc' = [pc EXCEPT ![t] = "up"]
    /\ UNCHANGED <<sched, nest, asleep>>

Up(t) ==
    /\ At(t, "up")
    /\ sched' = UpWakes(sched, lock)
    /\ lock' = UpRaises(lock)
    /\ nest' = [nest EXCEPT ![t] = 0]
    /\ pc' = [pc EXCEPT ![t] = "out"]
    /\ UNCHANGED asleep

-----------------------------------------------------------------------------
\* What else happens to the threads meanwhile

\* A thread, with or without the lock, sleeps for the disk or a buffer.
SleepElsewhere(t) ==
    /\ At(t, "out") \/ At(t, "in")
    /\ t # Idle
    /\ sched' = Block(sched, "BLOCKED")
    /\ asleep' = asleep \cup {t}
    /\ UNCHANGED <<lock, pc, nest>>

\* The interrupt handler of what it slept for.
WakeElsewhere(t) ==
    /\ Running
    /\ InterruptsOn
    /\ t \in asleep
    /\ sched' = Unblock(sched, t)
    /\ asleep' = asleep \ {t}
    /\ UNCHANGED <<lock, pc, nest>>

Tick ==
    /\ Running
    /\ InterruptsOn
    /\ sched' = TimerTick(sched)
    /\ UNCHANGED <<lock, pc, nest, asleep>>

IdleLoop ==
    /\ At(Idle, "out")
    /\ sched' = Block(sched, "BLOCKED")
    /\ UNCHANGED <<lock, pc, nest, asleep>>

\* sys_fork by the running process.
Fork(t, p) ==
    /\ At(sched.cur, "out")
    /\ sched.cur \notin {Idle, Main}
    /\ sched.status[t] = "FREE"
    /\ LowestFreePid(sched, p)
    /\ sched' = ThreadStart(sched, t, p)
    /\ UNCHANGED <<lock, pc, nest, asleep>>

LockStep(t) ==
    \/ TestHolder(t)
    \/ DownSleep(t)
    \/ DownTake(t)
    \/ SetHolder(t)
    \/ SetRepeat(t)
    \/ ClearRepeat(t)
    \/ Up(t)

Next ==
    \/ \E t \in Threads : CallAcquire(t)
    \/ \E t \in Threads : LockStep(t)
    \/ \E t \in Threads : ReleaseInner(t) \/ ReleaseOuter(t)
    \/ \E t \in Threads : SleepElsewhere(t) \/ WakeElsewhere(t)
    \/ Tick
    \/ IdleLoop
    \/ \E t \in Threads, p \in Pids : Fork(t, p)

Spec == Init /\ [][Next]_vars

\* Code inside the lock functions runs on, and the PIT keeps interrupting.
FairSpec ==
    /\ Spec
    /\ WF_vars(\E t \in Threads : LockStep(t))
    /\ WF_vars(Tick)

-----------------------------------------------------------------------------
Owns(t) == nest[t] > 0 \/ pc[t] \in {"took", "owner"}

TypeOK ==
    /\ sched \in SchedState
    /\ lock \in LockState
    /\ pc \in [Threads -> Places]
    /\ nest \in [Threads -> Nat]
    /\ asleep \in SUBSET Threads

\* Two threads are never both between sema_down and sema_up of the lock, even
\* though the fast path decides on a holder read with interrupts on.
MutualExclusion == \A t, u \in Threads : Owns(t) /\ Owns(u) => t = u

\* No ASSERT of sync.c or thread.c fires: value stays 0 or 1, nobody queues
\* twice, holder_repeat_nr is 0 for a new holder and 1 at the last release.
NoPanic == sched.halt # "panic"

\* A thread that holds the lock finds holder and holder_repeat_nr to be its own,
\* so its nested calls neither block on itself nor release too early.
HolderExact ==
    /\ \A t \in Threads :
         (nest[t] > 0 /\ pc[t] \in {"acquire", "in"})
           => lock.holder = t /\ lock.repeat = nest[t]
    /\ \A t \in Threads : lock.holder = t => Owns(t)
    /\ lock.value = (IF \E t \in Threads : Owns(t) THEN 0 ELSE 1)

\* general_tag is in one list only: the waiters are exactly the threads asleep
\* in sema_down, and none of them is in the ready list.
WaitersExact ==
    /\ IsInjective(lock.waiters)
    /\ \A t \in Threads :
         Contains(lock.waiters, t)
           <=> pc[t] = "woken" /\ sched.status[t] = "BLOCKED"
    /\ \A t \in Threads : ~(Contains(lock.waiters, t) /\ Contains(sched.ready, t))

\* No lost wakeup: if the lock is free and threads sleep on it, another one was
\* woken for it and has not passed sema_down's loop yet.
NoLostWakeup ==
    (lock.value = 1 /\ lock.waiters # << >>)
      => \E t \in Threads : /\ pc[t] = "woken"
                            /\ sched.status[t] \in {"READY", "RUNNING"}

\* The owner a caller sees: from the return of its first lock_acquire to the end
\* of its last lock_release.
AbstractOwner ==
    IF \E t \in Threads : nest[t] > 0
    THEN CHOOSE t \in Threads : nest[t] > 0
    ELSE NoThread

AbstractCount == IF AbstractOwner = NoThread THEN 0 ELSE nest[AbstractOwner]

Abstract == INSTANCE LockSpec WITH owner <- AbstractOwner,
                                   count <- AbstractCount

\* The semaphore with its two extra fields implements the lock of LockSpec.
ImplementsLock == Abstract!Spec

\* A free lock with sleepers is taken again: the woken thread, or one that came
\* before it, gets it.
FreeLockTaken ==
    (lock.value = 1 /\ lock.waiters # << >>)
      ~> (lock.value = 0 \/ sched.halt # "no")
=============================================================================
