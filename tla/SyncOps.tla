------------------------------- MODULE SyncOps -------------------------------
(***************************************************************************)
(* Semaphores and locks (kernel/sync.c) as operators on the scheduler's    *)
(* record s and a record of the object:                                    *)
(*   m.value, m.waiters   struct semaphore                                 *)
(*   m.holder, m.repeat   what struct lock adds to it                      *)
(* The waiter list links threads through the same general_tag as the       *)
(* ready list, so a thread must never be in both.                          *)
(***************************************************************************)
EXTENDS ThreadOps

CONSTANT NoThread    \* a NULL struct task_struct*

ASSUME NoThreadAssumption == NoThread \notin Threads

LockState ==
    [holder  : Threads \cup {NoThread},
     repeat  : Nat,
     value   : Nat,
     waiters : Seq(Threads)]

\* lock_init: sema_init with value 1.
LockInit == [holder |-> NoThread, repeat |-> 0, value |-> 1, waiters |-> << >>]

-----------------------------------------------------------------------------
\* One pass of the loop of sema_down that finds value 0: the caller queues
\* itself and sleeps.
DownWaits(s, m) ==
    IF Contains(m.waiters, s.cur) THEN Panic(s) ELSE Block(s, "BLOCKED")

DownQueues(s, m) == [m EXCEPT !.waiters = Append(@, s.cur)]

\* The way out of the loop: value-- and its assertion.
DownTakes(s, m) == IF m.value = 1 THEN s ELSE Panic(s)

DownLowers(m) == [m EXCEPT !.value = @ - 1]

\* Mutant of UpWakes: the waiter is taken off the list and not made ready.
UpWakesNobody(s, m) == s

\* sema_up: the first waiter becomes ready; it is not given the semaphore and
\* has to pass the loop of sema_down again.
UpWakes(s, m) ==
    IF m.value # 0 THEN Panic(s)
    ELSE IF m.waiters = << >> THEN s
    ELSE Unblock(s, Head(m.waiters))

\* Mutant of UpRaises: the waiter is woken and left in the list.
UpKeepsWaiter(m) == [m EXCEPT !.value = @ + 1]

UpRaises(m) ==
    [m EXCEPT !.waiters = IF @ = << >> THEN @ ELSE Tail(@),
              !.value = @ + 1]

-----------------------------------------------------------------------------
\* lock_acquire and lock_release by a caller that has interrupts off: nothing
\* comes between their statements.  The caller does not hold the lock yet.
AcquirePasses(m) == m.value # 0

AcquireChecks(s, m) ==
    IF m.value = 1 /\ m.repeat = 0 THEN s ELSE Panic(s)

Acquired(s, m) == [DownLowers(m) EXCEPT !.holder = s.cur, !.repeat = 1]

\* The caller holds the lock once.
ReleaseWakes(s, m) ==
    IF m.holder = s.cur /\ m.repeat = 1 THEN UpWakes(s, m) ELSE Panic(s)

Released(m) == [UpRaises(m) EXCEPT !.holder = NoThread, !.repeat = 0]
=============================================================================
