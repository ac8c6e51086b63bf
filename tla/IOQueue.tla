------------------------------- MODULE IOQueue -------------------------------
(***************************************************************************)
(* struct ioqueue (device/ioqueue.c), the ring buffer behind the keyboard  *)
(* and behind every pipe, with the threads that read and write it.  Both   *)
(* users of it are processes inside a system call (interrupts off) or an   *)
(* interrupt handler, so the processor changes hands only where a thread   *)
(* sleeps: in lock_acquire or in ioq_wait.  Note that lock_acquire is      *)
(* called after the test for empty or full, and that the thread sleeps in  *)
(* ioq_wait with the lock held.                                            *)
(*                                                                         *)
(* Characters are numbered 0, 1, ... modulo CharCount as they are written: *)
(* nextIn is the next to write, nextOut the next a reader has to see.      *)
(***************************************************************************)
EXTENDS SyncOps

CONSTANT BufSize     \* bufsize, 2048 in the code; one slot always stays free

ASSUME BufSizeAssumption == BufSize \in Nat /\ BufSize >= 2

CharCount == BufSize + 1

VARIABLES
    sched,     \* the scheduler, see ThreadOps
    ioq,       \* the queue: lock, producer, consumer, buf, head, tail
    pc,        \* where each thread is
    left,      \* characters still to move in the thread's system call
    nextIn, nextOut

vars == <<sched, ioq, pc, left, nextIn, nextOut>>

Places == {"user",       \* outside the kernel
           "get",        \* ioq_get_char, before the test for empty
           "getLock",    \* asleep or just woken in its lock_acquire
           "getWait",    \* asleep or just woken in its ioq_wait
           "put", "putLock", "putWait"}

Slots == 0 .. BufSize - 1

Running == sched.halt = "no"

At(t, place) == Running /\ sched.cur = t /\ pc[t] = place

InterruptsOn == pc[sched.cur] = "user"

-----------------------------------------------------------------------------
\* ioqueue_init, next_pos, ioq_full, ioq_empty, ioq_length

QueueInit ==
    [lock |-> LockInit, producer |-> NoThread, consumer |-> NoThread,
     buf |-> [i \in Slots |-> 0], head |-> 0, tail |-> 0]

NextPos(pos) == (pos + 1) % BufSize

\* Mutant of Full: the wrap-around is forgotten in the test.
FullIgnoresWrap == ioq.head + 1 = ioq.tail

Full == NextPos(ioq.head) = ioq.tail

Empty == ioq.head = ioq.tail

Length ==
    IF ioq.head >= ioq.tail
    THEN ioq.head - ioq.tail
    ELSE BufSize - (ioq.tail - ioq.head)

Init ==
    /\ sched = BootState
    /\ ioq = QueueInit
    /\ pc = [t \in Threads |-> "user"]
    /\ left = [t \in Threads |-> 0]
    /\ nextIn = 0
    /\ nextOut = 0

-----------------------------------------------------------------------------
\* ioq_get_char

\* lock_acquire finds the lock taken: sleep in sema_down.
GetLockSleep(t) ==
    /\ (At(t, "get") /\ Empty) \/ At(t, "getLock")
    /\ ~AcquirePasses(ioq.lock)
    /\ sched' = DownWaits(sched, ioq.lock)
    /\ ioq' = [ioq EXCEPT !.lock = DownQueues(sched, @)]
    /\ pc' = [pc EXCEPT ![t] = "getLock"]
    /\ UNCHANGED <<left, nextIn, nextOut>>

\* Mutant of GetWait: the sleeper is not recorded in ioq->consumer.
GetWaitUnrecorded(t) ==
    /\ (At(t, "get") /\ Empty) \/ At(t, "getLock")
    /\ AcquirePasses(ioq.lock)
    /\ sched' = Block(AcquireChecks(sched, ioq.lock), "BLOCKED")
    /\ ioq' = [ioq EXCEPT !.lock = Acquired(sched, @)]
    /\ pc' = [pc EXCEPT ![t] = "getWait"]
    /\ UNCHANGED <<left, nextIn, nextOut>>

\* lock_acquire passes and ioq_wait follows at once, without a new test.
GetWait(t) ==
    /\ (At(t, "get") /\ Empty) \/ At(t, "getLock")
    /\ AcquirePasses(ioq.lock)
    /\ sched' = IF ioq.consumer = NoThread
                THEN Block(AcquireChecks(sched, ioq.lock), "BLOCKED")
                ELSE Panic(sched)
    /\ ioq' = [ioq EXCEPT !.lock = Acquired(sched, @), !.consumer = t]
    /\ pc' = [pc EXCEPT ![t] = "getWait"]
    /\ UNCHANGED <<left, nextIn, nextOut>>

\* Back from ioq_wait: lock_release, then the test again.
GetResume(t) ==
    /\ At(t, "getWait")
    /\ sched' = ReleaseWakes(sched, ioq.lock)
    /\ ioq' = [ioq EXCEPT !.lock = Released(@)]
    /\ pc' = [pc EXCEPT ![t] = "get"]
    /\ UNCHANGED <<left, nextIn, nextOut>>

\* Mutants of GetTake: the producer is woken and its slot not cleared, or the
\* slot is cleared and nobody woken.
TakeKeepsProducer(t) ==
    /\ At(t, "get")
    /\ ~Empty
    /\ ioq' = [ioq EXCEPT !.tail = NextPos(@)]
    /\ sched' = IF ioq.producer = NoThread THEN sched
                ELSE Unblock(sched, ioq.producer)
    /\ nextOut' = (nextOut + 1) % CharCount
    /\ left' = [left EXCEPT ![t] = @ - 1]
    /\ pc' = [pc EXCEPT ![t] = IF left[t] = 1 THEN "user" ELSE "get"]
    /\ UNCHANGED nextIn

TakeWakesNobody(t) ==
    /\ At(t, "get")
    /\ ~Empty
    /\ ioq' = [ioq EXCEPT !.tail = NextPos(@), !.producer = NoThread]
    /\ nextOut' = (nextOut + 1) % CharCount
    /\ left' = [left EXCEPT ![t] = @ - 1]
    /\ pc' = [pc EXCEPT ![t] = IF left[t] = 1 THEN "user" ELSE "get"]
    /\ UNCHANGED <<sched, nextIn>>

\* The character is taken and a sleeping producer is woken.  The caller's loop
\* (sys_read, pipe_read) ends after its last character.
GetTake(t) ==
    /\ At(t, "get")
    /\ ~Empty
    /\ ioq' = [ioq EXCEPT !.tail = NextPos(@), !.producer = NoThread]
    /\ sched' = IF ioq.producer = NoThread THEN sched
                ELSE Unblock(sched, ioq.producer)
    /\ nextOut' = (nextOut + 1) % CharCount
    /\ left' = [left EXCEPT ![t] = @ - 1]
    /\ pc' = [pc EXCEPT ![t] = IF left[t] = 1 THEN "user" ELSE "get"]
    /\ UNCHANGED nextIn

GetStep(t) == GetLockSleep(t) \/ GetWait(t) \/ GetResume(t) \/ GetTake(t)

-----------------------------------------------------------------------------
\* ioq_put_char

PutLockSleep(t) ==
    /\ (At(t, "put") /\ Full) \/ At(t, "putLock")
    /\ ~AcquirePasses(ioq.lock)
    /\ sched' = DownWaits(sched, ioq.lock)
    /\ ioq' = [ioq EXCEPT !.lock = DownQueues(sched, @)]
    /\ pc' = [pc EXCEPT ![t] = "putLock"]
    /\ UNCHANGED <<left, nextIn, nextOut>>

PutWait(t) ==
    /\ (At(t, "put") /\ Full) \/ At(t, "putLock")
    /\ AcquirePasses(ioq.lock)
    /\ sched' = IF ioq.producer = NoThread
                THEN Block(AcquireChecks(sched, ioq.lock), "BLOCKED")
                ELSE Panic(sched)
    /\ ioq' = [ioq EXCEPT !.lock = Acquired(sched, @), !.producer = t]
    /\ pc' = [pc EXCEPT ![t] = "putWait"]
    /\ UNCHANGED <<left, nextIn, nextOut>>

PutResume(t) ==
    /\ At(t, "putWait")
    /\ sched' = ReleaseWakes(sched, ioq.lock)
    /\ ioq' = [ioq EXCEPT !.lock = Released(@)]
    /\ pc' = [pc EXCEPT ![t] = "put"]
    /\ UNCHANGED <<left, nextIn, nextOut>>

\* Mutant of Store: the consumer's slot is cleared and nobody woken.
StoreWakesNobody ==
    /\ ioq' = [ioq EXCEPT !.buf[ioq.head] = nextIn,
                          !.head = NextPos(@),
                          !.consumer = NoThread]
    /\ nextIn' = (nextIn + 1) % CharCount
    /\ UNCHANGED <<sched, nextOut>>

\* The body of ioq_put_char behind its loop.
Store ==
    /\ ioq' = [ioq EXCEPT !.buf[ioq.head] = nextIn,
                          !.head = NextPos(@),
                          !.consumer = NoThread]
    /\ sched' = IF ioq.consumer = NoThread THEN sched
                ELSE Unblock(sched, ioq.consumer)
    /\ nextIn' = (nextIn + 1) % CharCount
    /\ UNCHANGED nextOut

PutStore(t) ==
    /\ At(t, "put")
    /\ ~Full
    /\ Store
    /\ left' = [left EXCEPT ![t] = @ - 1]
    /\ pc' = [pc EXCEPT ![t] = IF left[t] = 1 THEN "user" ELSE "put"]

PutStep(t) == PutLockSleep(t) \/ PutWait(t) \/ PutResume(t) \/ PutStore(t)

-----------------------------------------------------------------------------
\* The rest of the system

Tick ==
    /\ Running
    /\ InterruptsOn
    /\ sched' = TimerTick(sched)
    /\ UNCHANGED <<ioq, pc, left, nextIn, nextOut>>

IdleLoop ==
    /\ At(Idle, "user")
    /\ sched' = Block(sched, "BLOCKED")
    /\ UNCHANGED <<ioq, pc, left, nextIn, nextOut>>

\* sys_fork by the running process.
Fork(t, p) ==
    /\ At(sched.cur, "user")
    /\ sched.cur \notin {Idle, Main}
    /\ sched.status[t] = "FREE"
    /\ LowestFreePid(sched, p)
    /\ sched' = ThreadStart(sched, t, p)
    /\ UNCHANGED <<ioq, pc, left, nextIn, nextOut>>

Others == Tick \/ IdleLoop \/ \E t \in Threads, p \in Pids : Fork(t, p)

-----------------------------------------------------------------------------
TypeOK ==
    /\ sched \in SchedState
    /\ ioq \in [lock : LockState,
                producer : Threads \cup {NoThread},
                consumer : Threads \cup {NoThread},
                buf : [Slots -> 0 .. CharCount - 1],
                head : Slots, tail : Slots]
    /\ pc \in [Threads -> Places]
    /\ left \in [Threads -> Nat]
    /\ nextIn \in 0 .. CharCount - 1
    /\ nextOut \in 0 .. CharCount - 1

AsleepAt(t, place) == pc[t] = place /\ sched.status[t] = "BLOCKED"

\* No ASSERT fires: ioq_wait finds its slot empty, wakeup wakes a sleeper, and
\* the lock's and the scheduler's own assertions hold.
NoPanic == sched.halt # "panic"

\* What is in the ring is what was written and not read yet, in order, across
\* the wrap-around and whatever readers and writers slept in between.
Fifo ==
    /\ \A i \in 0 .. Length - 1 :
         ioq.buf[(ioq.tail + i) % BufSize] = (nextOut + i) % CharCount
    /\ nextIn = (nextOut + Length) % CharCount

\* Nobody sleeps unrecorded: a thread asleep in ioq_wait is the one in the slot
\* its wakeup reads, a thread asleep in lock_acquire is in the lock's list, and
\* then somebody holds the lock or was woken for it.
SleepersRecorded ==
    /\ \A t \in Threads : AsleepAt(t, "getWait") <=> ioq.consumer = t
    /\ \A t \in Threads : AsleepAt(t, "putWait") <=> ioq.producer = t
    /\ \A t \in Threads :
         AsleepAt(t, "getLock") \/ AsleepAt(t, "putLock")
           <=> Contains(ioq.lock.waiters, t)
    /\ (ioq.lock.waiters # << >> /\ ioq.lock.value = 1)
         => \E t \in Threads : /\ pc[t] \in {"getLock", "putLock"}
                               /\ sched.status[t] \in {"READY", "RUNNING"}

\* ioqueue.h on producer: the producer that sleeps here when the buffer is full.
\* TLC refutes it for MCPipe: the second of two writers, woken in lock_acquire,
\* goes on to ioq_wait without looking at the buffer again.
ProducerSleepsOnFull ==
    \A t \in Threads : AsleepAt(t, "putWait") => Full
=============================================================================
