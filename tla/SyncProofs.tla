----------------------------- MODULE SyncProofs ------------------------------
(***************************************************************************)
(* The lock of Sync for every set of threads, every choice of preemptible  *)
(* threads and every depth of nesting.                                     *)
(* The lock is preempted between any two statements, so the inductive      *)
(* invariant SyncInv says for each place of the owner what it has written  *)
(* to holder and holder_repeat_nr so far; mutual exclusion, the exact list *)
(* of waiters and the kept wakeup are part of it.  The refinement of       *)
(* LockSpec follows action by action from SyncInv.                         *)
(***************************************************************************)
EXTENDS Sync, ThreadOpsProofs

-----------------------------------------------------------------------------
\* The inductive invariant

\* Outside sema_down and sema_up a thread's place tells how often it has the
\* lock; idle never asks for it, and a page without a PCB is at its start.
PlaceInv ==
    /\ \A t \in Threads :
         /\ pc[t] \in {"out", "down", "woken", "took", "owner"} => nest[t] = 0
         /\ pc[t] = "in" => nest[t] > 0
         /\ pc[t] \in {"cleared", "up"} => nest[t] = 1
    /\ pc[Idle] = "out"
    /\ \A t \in Threads : sched.status[t] = "FREE" => pc[t] = "out"

\* What the owner finds in holder and holder_repeat_nr, statement by statement.
HolderAt(t) == IF pc[t] \in {"owner", "in", "acquire"} THEN t ELSE NoThread

RepeatAt(t) == IF pc[t] \in {"in", "acquire", "cleared"} THEN nest[t] ELSE 0

LockInv ==
    /\ \A t \in Threads : Owns(t) => /\ lock.value = 0
                                     /\ lock.holder = HolderAt(t)
                                     /\ lock.repeat = RepeatAt(t)
    /\ (\A t \in Threads : ~Owns(t)) => /\ lock.value = 1
                                        /\ lock.holder = NoThread
                                        /\ lock.repeat = 0

\* A thread that sleeps for something else is not in the lock's code.
AsleepInv ==
    \A t \in asleep : /\ sched.status[t] = "BLOCKED"
                      /\ pc[t] \in {"out", "in"}
                      /\ t # Idle

SyncInv ==
    /\ SchedInv(sched)
    /\ sched.halt = "no"
    /\ TypeOK
    /\ PlaceInv
    /\ MutualExclusion
    /\ LockInv
    /\ AsleepInv
    /\ WaitersExact
    /\ NoLostWakeup

-----------------------------------------------------------------------------
LEMMA InitInv == Init => SyncInv
<1> SUFFICES ASSUME Init PROVE SyncInv
  OBVIOUS
<1>1. SchedInv(sched) /\ sched.halt = "no"
  BY BootFacts DEF Init
<1>2. TypeOK
  BY <1>1, NoThreadAssumption
     DEF Init, TypeOK, SchedInv, SchedCore, LockInit, LockState, Places
<1>3. /\ lock = [holder |-> NoThread, repeat |-> 0, value |-> 1, waiters |-> << >>]
      /\ \A t \in Threads : pc[t] = "out" /\ nest[t] = 0
      /\ asleep = {}
  BY DEF Init, LockInit
<1>4. \A t \in Threads : ~Owns(t)
  BY <1>3 DEF Owns
<1>5. PlaceInv /\ MutualExclusion /\ LockInv /\ AsleepInv
  BY <1>3, <1>4, ThreadsAssumption DEF PlaceInv, MutualExclusion, LockInv, AsleepInv
<1>6. WaitersExact /\ NoLostWakeup
  BY <1>3 DEF WaitersExact, NoLostWakeup, IsInjective, Contains
<1> QED BY <1>1, <1>2, <1>5, <1>6 DEF SyncInv

-----------------------------------------------------------------------------
\* Steps of lock_acquire and lock_release that leave the scheduler alone

\* The running thread t goes to place p, where it has the lock k times.
Moves(t, p, k) ==
    /\ sched.cur = t /\ t # Idle
    /\ sched' = sched /\ asleep' = asleep
    /\ pc' \in [Threads -> Places] /\ nest' \in [Threads -> Nat]
    /\ pc'[t] = p /\ nest'[t] = k
    /\ \A u \in Threads \ {t} : pc'[u] = pc[u] /\ nest'[u] = nest[u]

\* No sleeper is concerned by such a step unless it raises the semaphore.
LEMMA SleepersFrame ==
    ASSUME SyncInv, NEW t \in Threads, NEW p, NEW k, Moves(t, p, k),
           lock'.waiters = lock.waiters,
           lock'.value = 1 => lock.value = 1 /\ pc[t] # "woken"
    PROVE  /\ AsleepInv'
           /\ WaitersExact'
           /\ NoLostWakeup'
<1>1. /\ sched.status[t] = "RUNNING" /\ sched' = sched /\ asleep' = asleep
      /\ asleep \subseteq Threads
      /\ \A u \in Threads \ {t} : pc'[u] = pc[u]
  BY DEF SyncInv, SchedInv, TypeOK, Moves
<1>2. ~Contains(lock.waiters, t) /\ t \notin asleep
  BY <1>1 DEF SyncInv, WaitersExact, AsleepInv
<1>3. AsleepInv'
  BY <1>1, <1>2 DEF SyncInv, AsleepInv
<1>4. WaitersExact'
  BY <1>1, <1>2 DEF SyncInv, WaitersExact
<1>5. NoLostWakeup'
  BY <1>1 DEF SyncInv, NoLostWakeup
<1> QED BY <1>3, <1>4, <1>5

\* The others own what they did.
LEMMA OwnersFrame ==
    ASSUME NEW t \in Threads, NEW p, NEW k, Moves(t, p, k)
    PROVE  /\ \A u \in Threads \ {t} :
                /\ Owns(u)' <=> Owns(u)
                /\ HolderAt(u)' = HolderAt(u) /\ RepeatAt(u)' = RepeatAt(u)
           /\ Owns(t)' <=> k > 0 \/ p \in {"took", "owner"}
  BY DEF Moves, Owns, HolderAt, RepeatAt

\* The running thread goes on without the lock.
LEMMA OutsiderStep ==
    ASSUME SyncInv, NEW t \in Threads, ~Owns(t), pc[t] # "woken",
           NEW p \in {"acquire", "down"}, Moves(t, p, 0), lock' = lock
    PROVE  SyncInv'
<1>1. /\ \A u \in Threads \ {t} :
           /\ Owns(u)' <=> Owns(u)
           /\ HolderAt(u)' = HolderAt(u) /\ RepeatAt(u)' = RepeatAt(u)
      /\ ~Owns(t)'
  BY OwnersFrame
<1>2. AsleepInv' /\ WaitersExact' /\ NoLostWakeup'
  BY SleepersFrame
<1>3. TypeOK' /\ PlaceInv'
  BY ThreadsAssumption DEF SyncInv, SchedInv, TypeOK, PlaceInv, Moves
<1>4. MutualExclusion' /\ LockInv'
  BY <1>1 DEF SyncInv, MutualExclusion, LockInv
<1> QED BY <1>2, <1>3, <1>4 DEF SyncInv, Moves

\* What lock must be when a thread owns it at place p, k times.
OwnedLock(t, p, k) ==
    [holder  |-> IF p \in {"owner", "in", "acquire"} THEN t ELSE NoThread,
     repeat  |-> IF p \in {"in", "acquire", "cleared"} THEN k ELSE 0,
     value   |-> 0,
     waiters |-> lock.waiters]

\* The running thread has the lock behind the step, and had it before or found
\* it free; holder and holder_repeat_nr are as its new place says.
LEMMA OwnerStep ==
    ASSUME SyncInv, NEW t \in Threads, Owns(t) \/ \A u \in Threads : ~Owns(u),
           NEW p, NEW k, Moves(t, p, k), lock' = OwnedLock(t, p, k),
           \/ p \in {"took", "owner"} /\ k = 0
           \/ p \in {"in", "acquire"} /\ k > 0
           \/ p \in {"cleared", "up"} /\ k = 1
    PROVE  SyncInv'
<1>1. /\ \A u \in Threads \ {t} : Owns(u)' <=> Owns(u)
      /\ Owns(t)'
  BY OwnersFrame
<1>2. \A u \in Threads \ {t} : ~Owns(u)
  BY DEF SyncInv, MutualExclusion
<1>3. AsleepInv' /\ WaitersExact' /\ NoLostWakeup'
  <2>1. lock'.waiters = lock.waiters /\ lock'.value # 1
    BY DEF OwnedLock
  <2> QED BY <2>1, SleepersFrame
<1>4. TypeOK'
  <2>1. k \in Nat
    BY DEF Moves
  <2>2. lock' \in LockState
    BY <2>1 DEF SyncInv, TypeOK, LockState, OwnedLock
  <2> QED BY <2>2 DEF SyncInv, TypeOK, Moves
<1>5. PlaceInv'
  BY ThreadsAssumption DEF SyncInv, SchedInv, PlaceInv, Moves
<1>6. MutualExclusion'
  BY <1>1, <1>2 DEF MutualExclusion
<1>7. LockInv'
  <2>1. lock'.holder = HolderAt(t)' /\ lock'.repeat = RepeatAt(t)' /\ lock'.value = 0
    BY DEF HolderAt, RepeatAt, OwnedLock, Moves
  <2> QED BY <1>1, <1>2, <2>1 DEF LockInv
<1> QED BY <1>3, <1>4, <1>5, <1>6, <1>7 DEF SyncInv, Moves

\* The record of the lock, as the invariant knows it while t has it.
LEMMA OwnersLock ==
    ASSUME SyncInv, NEW t \in Threads, Owns(t)
    PROVE  lock = OwnedLock(t, pc[t], nest[t])
  BY DEF SyncInv, LockInv, TypeOK, LockState, OwnedLock, HolderAt, RepeatAt

\* Only an owner finds itself in holder.
LEMMA HolderOwns ==
    ASSUME SyncInv, NEW t \in Threads, lock.holder = t
    PROVE  Owns(t)
<1>1. CASE \E u \in Threads : Owns(u)
  BY <1>1, NoThreadAssumption DEF SyncInv, LockInv, HolderAt
<1>2. CASE \A u \in Threads : ~Owns(u)
  BY <1>2, NoThreadAssumption DEF SyncInv, LockInv
<1> QED BY <1>1, <1>2

LEMMA CallAcquireInv ==
    ASSUME SyncInv, NEW t \in Threads, CallAcquire(t)
    PROVE  SyncInv'
<1>1. pc[t] \in {"out", "in"} /\ lock' = lock /\ Moves(t, "acquire", nest[t])
  BY DEF CallAcquire, At, Moves, SyncInv, TypeOK, Places
<1>2. CASE ~Owns(t)
  <2>1. nest[t] = 0
    BY <1>1, <1>2 DEF SyncInv, TypeOK, Owns
  <2> QED BY <1>1, <1>2, <2>1, OutsiderStep
<1>3. CASE Owns(t)
  <2>1. pc[t] = "in" /\ nest[t] > 0
    BY <1>1, <1>3 DEF SyncInv, PlaceInv, Owns
  <2>2. lock' = OwnedLock(t, "acquire", nest[t])
    BY <1>1, <1>3, <2>1, OwnersLock DEF OwnedLock
  <2> QED BY <1>1, <1>3, <2>1, <2>2, OwnerStep
<1> QED BY <1>2, <1>3

LEMMA TestHolderInv ==
    ASSUME SyncInv, NEW t \in Threads, TestHolder(t)
    PROVE  SyncInv'
<1>1. pc[t] = "acquire" /\ nest[t] \in Nat
  BY DEF TestHolder, At, SyncInv, TypeOK
<1>2. CASE lock.holder # t
  <2>1. ~Owns(t)
    BY <1>1, <1>2 DEF SyncInv, LockInv, HolderAt
  <2>2. nest[t] = 0
    BY <1>1, <2>1 DEF Owns
  <2>3. Moves(t, "down", 0) /\ lock' = lock
    BY <1>1, <1>2, <2>2
       DEF TestHolder, At, Moves, SyncInv, TypeOK, Places, PlaceInv
  <2> QED BY <1>1, <2>1, <2>3, OutsiderStep
<1>3. CASE lock.holder = t
  <2>1. Owns(t) /\ nest[t] > 0
    BY <1>1, <1>3, HolderOwns DEF Owns
  <2>2. Moves(t, "in", nest[t] + 1) /\ nest[t] + 1 > 0
    BY <1>1, <1>3, <2>1
       DEF TestHolder, At, Moves, SyncInv, TypeOK, Places, PlaceInv
  <2>3. lock' = OwnedLock(t, "in", nest[t] + 1)
    <3>1. lock = OwnedLock(t, "acquire", nest[t])
      BY <1>1, <2>1, OwnersLock
    <3> QED BY <1>3, <3>1 DEF TestHolder, OwnedLock
  <2> QED BY <2>1, <2>2, <2>3, OwnerStep
<1> QED BY <1>2, <1>3

LEMMA DownTakeInv ==
    ASSUME SyncInv, NEW t \in Threads, DownTake(t)
    PROVE  SyncInv' /\ sched' = sched
<1>1. pc[t] \in {"down", "woken"} /\ nest[t] = 0 /\ lock.value # 0
  BY DEF DownTake, At, SyncInv, PlaceInv
<1>2. \A u \in Threads : ~Owns(u)
  BY <1>1 DEF SyncInv, LockInv
<1>3. lock.value = 1 /\ lock.holder = NoThread /\ lock.repeat = 0 /\ lock \in LockState
  BY <1>2 DEF SyncInv, LockInv, TypeOK
<1>4. sched' = sched
  BY <1>3 DEF DownTake, DownTakes
<1>5. Moves(t, "took", 0)
  BY <1>1, <1>4 DEF DownTake, At, Moves, SyncInv, TypeOK, Places, PlaceInv
<1>6. lock' = OwnedLock(t, "took", 0)
  BY <1>3 DEF DownTake, DownLowers, LockState, OwnedLock
<1> QED BY <1>2, <1>4, <1>5, <1>6, OwnerStep

LEMMA SetHolderInv ==
    ASSUME SyncInv, NEW t \in Threads, SetHolder(t)
    PROVE  SyncInv'
<1>1. pc[t] = "took" /\ nest[t] = 0 /\ Owns(t)
  BY DEF SetHolder, At, SyncInv, PlaceInv, Owns
<1>2. Moves(t, "owner", 0)
  BY <1>1 DEF SetHolder, At, Moves, SyncInv, TypeOK, Places, PlaceInv
<1>3. lock' = OwnedLock(t, "owner", 0)
  <2>1. lock = OwnedLock(t, "took", 0)
    BY <1>1, OwnersLock
  <2> QED BY <2>1 DEF SetHolder, OwnedLock
<1> QED BY <1>1, <1>2, <1>3, OwnerStep

\* ASSERT(holder_repeat_nr == 0) holds.
LEMMA SetRepeatInv ==
    ASSUME SyncInv, NEW t \in Threads, SetRepeat(t)
    PROVE  SyncInv' /\ sched' = sched
<1>1. pc[t] = "owner" /\ nest[t] = 0 /\ Owns(t)
  BY DEF SetRepeat, At, SyncInv, PlaceInv, Owns
<1>2. lock = OwnedLock(t, "owner", 0)
  BY <1>1, OwnersLock
<1>3. sched' = sched
  BY <1>2 DEF SetRepeat, OwnedLock
<1>4. Moves(t, "in", 1)
  BY <1>1, <1>3 DEF SetRepeat, At, Moves, SyncInv, TypeOK, Places, PlaceInv
<1>5. lock' = OwnedLock(t, "in", 1)
  BY <1>2 DEF SetRepeat, OwnedLock
<1> QED BY <1>1, <1>3, <1>4, <1>5, OwnerStep

\* A caller of lock_release is the holder, as its assertion asks.
LEMMA ReleaseInnerInv ==
    ASSUME SyncInv, NEW t \in Threads, ReleaseInner(t)
    PROVE  SyncInv' /\ sched' = sched
<1>1. pc[t] = "in" /\ nest[t] \in Nat /\ nest[t] > 0 /\ Owns(t)
  BY DEF ReleaseInner, At, SyncInv, TypeOK, PlaceInv, Owns
<1>2. lock = OwnedLock(t, "in", nest[t])
  BY <1>1, OwnersLock
<1>3. sched' = sched /\ nest[t] > 1
  BY <1>2 DEF ReleaseInner, OwnedLock
<1>4. Moves(t, "in", nest[t] - 1) /\ nest[t] - 1 > 0
  BY <1>1, <1>3 DEF ReleaseInner, At, Moves, SyncInv, TypeOK, Places, PlaceInv
<1>5. lock' = OwnedLock(t, "in", nest[t] - 1)
  BY <1>2 DEF ReleaseInner, OwnedLock
<1> QED BY <1>1, <1>3, <1>4, <1>5, OwnerStep

LEMMA ReleaseOuterInv ==
    ASSUME SyncInv, NEW t \in Threads, ReleaseOuter(t)
    PROVE  SyncInv' /\ sched' = sched
<1>1. pc[t] = "in" /\ nest[t] \in Nat /\ nest[t] > 0 /\ Owns(t)
  BY DEF ReleaseOuter, At, SyncInv, TypeOK, PlaceInv, Owns
<1>2. lock = OwnedLock(t, "in", nest[t])
  BY <1>1, OwnersLock
<1>3. sched' = sched /\ nest[t] = 1
  BY <1>1, <1>2 DEF ReleaseOuter, OwnedLock
<1>4. Moves(t, "cleared", 1)
  BY <1>1, <1>3 DEF ReleaseOuter, At, Moves, SyncInv, TypeOK, Places, PlaceInv
<1>5. lock' = OwnedLock(t, "cleared", 1)
  BY <1>2, <1>3 DEF ReleaseOuter, OwnedLock
<1> QED BY <1>1, <1>3, <1>4, <1>5, OwnerStep

LEMMA ClearRepeatInv ==
    ASSUME SyncInv, NEW t \in Threads, ClearRepeat(t)
    PROVE  SyncInv'
<1>1. pc[t] = "cleared" /\ nest[t] = 1 /\ Owns(t)
  BY DEF ClearRepeat, At, SyncInv, PlaceInv, Owns
<1>2. Moves(t, "up", 1)
  BY <1>1 DEF ClearRepeat, At, Moves, SyncInv, TypeOK, Places, PlaceInv
<1>3. lock' = OwnedLock(t, "up", 1)
  <2>1. lock = OwnedLock(t, "cleared", 1)
    BY <1>1, OwnersLock
  <2> QED BY <2>1 DEF ClearRepeat, OwnedLock
<1> QED BY <1>1, <1>2, <1>3, OwnerStep

-----------------------------------------------------------------------------
\* Steps that change the scheduler's record

\* Code outside the lock: the lock and the places stay, and a thread in
\* sema_down's loop neither falls asleep nor wakes up.
LEMMA OutsideStep ==
    ASSUME SyncInv, UNCHANGED <<lock, pc, nest>>,
           SchedInv(sched'), sched'.halt = "no",
           asleep' \subseteq Threads, AsleepInv',
           \A u \in Threads : pc[u] = "woken" =>
             IF sched.status[u] \in {"READY", "RUNNING"}
             THEN sched'.status[u] \in {"READY", "RUNNING"}
             ELSE sched'.status[u] = sched.status[u],
           \A u \in Threads : sched'.status[u] = "FREE" => sched.status[u] = "FREE"
    PROVE  SyncInv'
<1>1. TypeOK'
  BY DEF SyncInv, TypeOK, SchedInv, SchedCore
<1>2. PlaceInv' /\ MutualExclusion' /\ LockInv'
  BY DEF SyncInv, PlaceInv, MutualExclusion, LockInv, Owns, HolderAt, RepeatAt
<1>3. WaitersExact'
  <2>1. \A u \in Threads : Contains(lock'.waiters, u)
                             <=> pc'[u] = "woken" /\ sched'.status[u] = "BLOCKED"
    BY DEF SyncInv, WaitersExact
  <2>2. \A u \in Threads : ~(Contains(lock'.waiters, u) /\ Contains(sched'.ready, u))
    BY <2>1 DEF SchedInv, SchedCore, ReadyExact
  <2> QED BY <2>1, <2>2 DEF SyncInv, WaitersExact
<1>4. NoLostWakeup'
  BY DEF SyncInv, NoLostWakeup
<1> QED BY <1>1, <1>2, <1>3, <1>4 DEF SyncInv

LEMMA SleepElsewhereInv ==
    ASSUME SyncInv, NEW t \in Threads, SleepElsewhere(t)
    PROVE  SyncInv'
<1>1. /\ sched.cur = t /\ t # Idle /\ pc[t] \in {"out", "in"}
      /\ sched' = Block(sched, "BLOCKED") /\ asleep' = asleep \cup {t}
      /\ SchedInv(sched) /\ sched.halt = "no" /\ asleep \subseteq Threads
      /\ pc[Idle] = "out" /\ UNCHANGED <<lock, pc, nest>>
  BY DEF SleepElsewhere, At, SyncInv, TypeOK, PlaceInv
<1>2. /\ SchedInv(sched') /\ sched'.halt = "no"
      /\ \A u \in Threads \ {Idle} :
           IF u = sched.cur THEN sched'.status[u] = "BLOCKED"
           ELSE IF sched.status[u] \in {"READY", "RUNNING"}
           THEN sched'.status[u] \in {"READY", "RUNNING"}
           ELSE sched'.status[u] = sched.status[u]
  BY <1>1, BlockFacts, BlockStatus DEF Sleeping
<1>3. AsleepInv' /\ sched'.status[Idle] # "FREE"
  BY <1>1, <1>2 DEF SyncInv, AsleepInv, SchedInv, SchedCore, IdleExact
<1> QED BY <1>1, <1>2, <1>3, OutsideStep

LEMMA WakeElsewhereInv ==
    ASSUME SyncInv, NEW t \in Threads, WakeElsewhere(t)
    PROVE  SyncInv'
<1>1. /\ SchedInv(sched) /\ sched.halt = "no" /\ asleep \subseteq Threads
      /\ sched' = Unblock(sched, t) /\ asleep' = asleep \ {t}
      /\ sched.status[t] = "BLOCKED" /\ pc[t] \in {"out", "in"}
      /\ UNCHANGED <<lock, pc, nest>>
  BY DEF WakeElsewhere, SyncInv, TypeOK, AsleepInv
<1>2. /\ SchedInv(sched') /\ sched'.halt = "no"
      /\ \A u \in Threads : sched'.status[u] =
                              IF u = t THEN "READY" ELSE sched.status[u]
  BY <1>1, WakeFacts DEF Sleeping
<1>3. AsleepInv'
  BY <1>1, <1>2 DEF SyncInv, AsleepInv
<1> QED BY <1>1, <1>2, <1>3, OutsideStep

\* What schedule does for the timer and for idle.
LEMMA ScheduledInv ==
    ASSUME SyncInv, UNCHANGED <<lock, pc, nest, asleep>>,
           SchedInv(sched'), sched'.halt = "no",
           \A u \in Threads \ {Idle} :
             IF sched.status[u] \in {"READY", "RUNNING"}
             THEN sched'.status[u] \in {"READY", "RUNNING"}
             ELSE sched'.status[u] = sched.status[u]
    PROVE  SyncInv'
<1>1. asleep \subseteq Threads /\ pc[Idle] = "out"
  BY DEF SyncInv, TypeOK, PlaceInv
<1>2. AsleepInv' /\ sched'.status[Idle] # "FREE"
  BY <1>1 DEF SyncInv, AsleepInv, SchedInv, SchedCore, IdleExact
<1> QED BY <1>1, <1>2, OutsideStep

LEMMA TickInv == ASSUME SyncInv, Tick PROVE SyncInv'
<1>1. SchedInv(sched) /\ sched.halt = "no" /\ sched' = TimerTick(sched)
  BY DEF SyncInv, Tick
<1>2. SchedInv(sched') /\ sched'.halt = "no" /\ Kept(sched, sched')
  BY <1>1, TickFacts
<1> QED BY <1>2, ScheduledInv DEF Tick, Kept

LEMMA IdleLoopInv == ASSUME SyncInv, IdleLoop PROVE SyncInv'
<1>1. /\ SchedInv(sched) /\ sched.halt = "no" /\ sched.cur = Idle
      /\ sched' = Block(sched, "BLOCKED") /\ "BLOCKED" \in Sleeping
  BY DEF SyncInv, IdleLoop, At, Sleeping
<1>2. SchedInv(sched') /\ sched'.halt = "no"
  BY <1>1, BlockFacts
<1>3. \A u \in Threads \ {Idle} :
        IF u = sched.cur THEN sched'.status[u] = "BLOCKED"
        ELSE IF sched.status[u] \in {"READY", "RUNNING"}
        THEN sched'.status[u] \in {"READY", "RUNNING"}
        ELSE sched'.status[u] = sched.status[u]
  BY <1>1, BlockStatus
<1> QED BY <1>1, <1>2, <1>3, ScheduledInv DEF IdleLoop

\* A page without a PCB is nowhere in the lock's code.
LEMMA ForkInv ==
    ASSUME SyncInv, NEW t \in Threads, NEW p \in Pids, Fork(t, p)
    PROVE  SyncInv'
<1>1. /\ SchedInv(sched) /\ sched.halt = "no" /\ sched.status[t] = "FREE"
      /\ sched' = ThreadStart(sched, t, p) /\ p \in Pids \ sched.pids
      /\ UNCHANGED <<lock, pc, nest, asleep>> /\ asleep \subseteq Threads
      /\ pc[t] = "out"
  BY DEF Fork, LowestFreePid, SyncInv, TypeOK, PlaceInv
<1>2. /\ SchedInv(sched') /\ sched'.halt = "no"
      /\ \A u \in Threads : sched'.status[u] =
                              IF u = t THEN "READY" ELSE sched.status[u]
  BY <1>1, StartFacts
<1>3. AsleepInv'
  BY <1>1, <1>2 DEF SyncInv, AsleepInv
<1> QED BY <1>1, <1>2, <1>3, OutsideStep

\* sema_down puts its caller behind the other waiters, who are not disturbed.
LEMMA DownSleepInv ==
    ASSUME SyncInv, NEW t \in Threads, DownSleep(t)
    PROVE  SyncInv'
<1>1. /\ sched.cur = t /\ pc[t] \in {"down", "woken"} /\ nest[t] = 0 /\ t # Idle
      /\ SchedInv(sched) /\ sched.halt = "no" /\ sched.status[t] = "RUNNING"
      /\ lock \in LockState /\ lock.value = 0 /\ pc \in [Threads -> Places]
      /\ asleep \subseteq Threads /\ nest \in [Threads -> Nat]
  BY DEF DownSleep, At, SyncInv, SchedInv, TypeOK, PlaceInv
<1>2. ~Contains(lock.waiters, t) /\ t \notin asleep
  BY <1>1 DEF SyncInv, WaitersExact, AsleepInv
<1>3. sched' = Block(sched, "BLOCKED") /\ asleep' = asleep
  BY <1>1, <1>2 DEF DownSleep, DownWaits
<1>4. /\ SchedInv(sched') /\ sched'.halt = "no"
      /\ \A u \in Threads \ {Idle} :
           IF u = sched.cur THEN sched'.status[u] = "BLOCKED"
           ELSE IF sched.status[u] \in {"READY", "RUNNING"}
           THEN sched'.status[u] \in {"READY", "RUNNING"}
           ELSE sched'.status[u] = sched.status[u]
  BY <1>1, <1>3, BlockFacts, BlockStatus DEF Sleeping
<1>5. sched'.status[Idle] # "FREE"
  BY <1>4 DEF SchedInv, SchedCore, IdleExact
<1>6. /\ lock' = [holder |-> lock.holder, repeat |-> lock.repeat, value |-> 0,
                  waiters |-> Append(lock.waiters, t)]
      /\ pc' \in [Threads -> Places] /\ pc'[t] = "woken" /\ nest' = nest
      /\ \A u \in Threads \ {t} : pc'[u] = pc[u]
  BY <1>1 DEF DownSleep, DownQueues, LockState, Places
<1>7. /\ lock'.waiters \in Seq(Threads) /\ IsInjective(lock'.waiters)
      /\ \A u : Contains(lock'.waiters, u) <=> Contains(lock.waiters, u) \/ u = t
  BY <1>1, <1>2, <1>6, AppendFacts DEF SyncInv, WaitersExact, LockState
<1>8. TypeOK'
  BY <1>1, <1>3, <1>4, <1>6, <1>7 DEF TypeOK, LockState, SchedInv, SchedCore
<1>9. PlaceInv' /\ AsleepInv'
  <2>1. PlaceInv'
    BY <1>1, <1>4, <1>5, <1>6, ThreadsAssumption DEF SyncInv, PlaceInv
  <2>2. AsleepInv'
    BY <1>1, <1>2, <1>3, <1>4, <1>6 DEF SyncInv, AsleepInv
  <2> QED BY <2>1, <2>2
<1>10. /\ ~Owns(t) /\ ~Owns(t)'
       /\ \A u \in Threads \ {t} :
            /\ Owns(u)' <=> Owns(u)
            /\ HolderAt(u)' = HolderAt(u) /\ RepeatAt(u)' = RepeatAt(u)
  BY <1>1, <1>6 DEF Owns, HolderAt, RepeatAt
<1>11. MutualExclusion' /\ LockInv'
  BY <1>1, <1>6, <1>10 DEF SyncInv, MutualExclusion, LockInv
<1>12. WaitersExact'
  <2>1. \A u \in Threads : Contains(lock'.waiters, u)
                             <=> pc'[u] = "woken" /\ sched'.status[u] = "BLOCKED"
    <3>1. \A u \in Threads : Contains(lock.waiters, u)
                               <=> pc[u] = "woken" /\ sched.status[u] = "BLOCKED"
      BY DEF SyncInv, WaitersExact
    <3>2. pc[Idle] = "out"
      BY DEF SyncInv, PlaceInv
    <3> QED BY <1>1, <1>4, <1>6, <1>7, <3>1, <3>2
  <2>2. \A u \in Threads : ~(Contains(lock'.waiters, u) /\ Contains(sched'.ready, u))
    BY <1>4, <2>1 DEF SchedInv, SchedCore, ReadyExact
  <2> QED BY <1>7, <2>1, <2>2 DEF WaitersExact
<1>13. NoLostWakeup'
  BY <1>6 DEF NoLostWakeup
<1> QED BY <1>4, <1>8, <1>9, <1>11, <1>12, <1>13 DEF SyncInv

\* What sema_up does to the lock's record.
LEMMA RaiseFacts ==
    ASSUME NEW m \in LockState
    PROVE  UpRaises(m) =
             [holder |-> m.holder, repeat |-> m.repeat, value |-> m.value + 1,
              waiters |-> IF m.waiters = << >> THEN << >> ELSE Tail(m.waiters)]
<1> DEFINE rest == IF m.waiters = << >> THEN << >> ELSE Tail(m.waiters)
<1>1. rest = IF m.waiters = << >> THEN m.waiters ELSE Tail(m.waiters)
  OBVIOUS
<1>2. UpRaises(m) = [m EXCEPT !.waiters = rest, !.value = m.value + 1]
  BY <1>1 DEF UpRaises, LockState
<1> HIDE DEF rest
<1>3. UpRaises(m) = [holder |-> m.holder, repeat |-> m.repeat,
                     value |-> m.value + 1, waiters |-> rest]
  BY <1>2 DEF LockState
<1> QED BY <1>3 DEF rest

\* sema_up's assertion holds, and its first waiter is asleep: it is made ready
\* and is the thread NoLostWakeup asks for.
LEMMA UpInv ==
    ASSUME SyncInv, NEW t \in Threads, Up(t)
    PROVE  SyncInv'
<1>1. /\ sched.cur = t /\ pc[t] = "up" /\ nest[t] = 1 /\ t # Idle /\ Owns(t)
      /\ SchedInv(sched) /\ sched.halt = "no" /\ sched.status[t] = "RUNNING"
      /\ lock \in LockState /\ pc \in [Threads -> Places]
      /\ asleep \subseteq Threads /\ nest \in [Threads -> Nat]
  BY DEF Up, At, SyncInv, SchedInv, TypeOK, PlaceInv, Owns
<1>2. lock.value = 0 /\ lock.holder = NoThread /\ lock.repeat = 0
  BY <1>1, OwnersLock DEF OwnedLock
<1> DEFINE first == Head(lock.waiters)
           rest == IF lock.waiters = << >> THEN << >> ELSE Tail(lock.waiters)
<1>3. /\ lock' = [holder |-> NoThread, repeat |-> 0, value |-> 1, waiters |-> rest]
      /\ pc' \in [Threads -> Places] /\ pc'[t] = "out"
      /\ nest' \in [Threads -> Nat] /\ nest'[t] = 0
      /\ \A u \in Threads \ {t} : pc'[u] = pc[u] /\ nest'[u] = nest[u]
      /\ asleep' = asleep
  <2>1. lock' = [holder |-> NoThread, repeat |-> 0, value |-> 1, waiters |-> rest]
    BY <1>1, <1>2, RaiseFacts DEF Up
  <2> QED BY <1>1, <2>1 DEF Up, Places
<1>4. /\ rest \in Seq(Threads) /\ IsInjective(rest)
      /\ lock.waiters # << >> => first \in Threads /\ Contains(lock.waiters, first)
      /\ \A u : Contains(rest, u)
           <=> Contains(lock.waiters, u) /\ ~(lock.waiters # << >> /\ u = first)
  <2>1. CASE lock.waiters = << >>
    BY <2>1 DEF IsInjective, Contains
  <2>2. CASE lock.waiters # << >>
    BY <1>1, <2>2, PopFacts DEF SyncInv, WaitersExact, LockState
  <2> QED BY <2>1, <2>2
<1>5. lock.waiters # << >> =>
        pc[first] = "woken" /\ sched.status[first] = "BLOCKED" /\ first # t
  BY <1>1, <1>4 DEF SyncInv, WaitersExact
<1>6. /\ SchedInv(sched') /\ sched'.halt = "no"
      /\ \A u \in Threads : sched'.status[u] =
           IF lock.waiters # << >> /\ u = first THEN "READY" ELSE sched.status[u]
  <2>1. CASE lock.waiters = << >>
    BY <1>1, <1>2, <2>1 DEF Up, UpWakes
  <2>2. CASE lock.waiters # << >>
    <3>1. sched' = Unblock(sched, first) /\ sched.status[first] \in Sleeping
      BY <1>2, <1>5, <2>2 DEF Up, UpWakes, Sleeping
    <3> HIDE DEF first
    <3> QED BY <1>1, <1>4, <2>2, <3>1, WakeFacts
  <2> QED BY <2>1, <2>2
<1> HIDE DEF first, rest
<1>7. TypeOK'
  BY <1>1, <1>3, <1>4, <1>6, NoThreadAssumption
     DEF TypeOK, LockState, SchedInv, SchedCore
<1>8. PlaceInv' /\ AsleepInv'
  <2>1. PlaceInv'
    <3>1. \A u \in Threads : sched'.status[u] = "FREE" => pc'[u] = "out"
      BY <1>1, <1>3, <1>6 DEF SyncInv, PlaceInv
    <3> QED BY <1>1, <1>3, <3>1, ThreadsAssumption DEF SyncInv, PlaceInv
  <2>2. AsleepInv'
    BY <1>1, <1>3, <1>5, <1>6 DEF SyncInv, AsleepInv
  <2> QED BY <2>1, <2>2
<1>9. \A u \in Threads : ~Owns(u)'
  BY <1>1, <1>3 DEF Owns, SyncInv, MutualExclusion
<1>10. MutualExclusion' /\ LockInv'
  BY <1>3, <1>9 DEF MutualExclusion, LockInv
<1>11. WaitersExact'
  <2>1. \A u \in Threads : Contains(lock'.waiters, u)
                             <=> pc'[u] = "woken" /\ sched'.status[u] = "BLOCKED"
    <3>1. \A u \in Threads : Contains(lock.waiters, u)
                               <=> pc[u] = "woken" /\ sched.status[u] = "BLOCKED"
      BY DEF SyncInv, WaitersExact
    <3>2. \A u : Contains(lock'.waiters, u)
            <=> Contains(lock.waiters, u) /\ ~(lock.waiters # << >> /\ u = first)
      BY <1>3, <1>4
    <3> QED BY <1>1, <1>3, <1>6, <3>1, <3>2
  <2>2. \A u \in Threads : ~(Contains(lock'.waiters, u) /\ Contains(sched'.ready, u))
    BY <1>6, <2>1 DEF SchedInv, SchedCore, ReadyExact
  <2> QED BY <1>3, <1>4, <2>1, <2>2 DEF WaitersExact
<1>12. NoLostWakeup'
  <2>1. CASE lock.waiters = << >>
    BY <1>3, <2>1 DEF NoLostWakeup, rest
  <2>2. CASE lock.waiters # << >>
    BY <1>3, <1>4, <1>5, <1>6, <2>2 DEF NoLostWakeup
  <2> QED BY <2>1, <2>2
<1> QED BY <1>6, <1>7, <1>8, <1>10, <1>11, <1>12 DEF SyncInv

-----------------------------------------------------------------------------
LEMMA StepInv == SyncInv /\ [Next]_vars => SyncInv'
<1> SUFFICES ASSUME SyncInv, [Next]_vars PROVE SyncInv'
  OBVIOUS
<1>1. ASSUME NEW t \in Threads, LockStep(t) PROVE SyncInv'
  BY <1>1, TestHolderInv, DownSleepInv, DownTakeInv, SetHolderInv, SetRepeatInv,
     ClearRepeatInv, UpInv DEF LockStep
<1>2. ASSUME NEW t \in Threads, CallAcquire(t) PROVE SyncInv'
  BY <1>2, CallAcquireInv
<1>3. ASSUME NEW t \in Threads, ReleaseInner(t) \/ ReleaseOuter(t) PROVE SyncInv'
  BY <1>3, ReleaseInnerInv, ReleaseOuterInv
<1>4. ASSUME NEW t \in Threads, SleepElsewhere(t) \/ WakeElsewhere(t)
      PROVE  SyncInv'
  BY <1>4, SleepElsewhereInv, WakeElsewhereInv
<1>5. CASE Tick \/ IdleLoop
  BY <1>5, TickInv, IdleLoopInv
<1>6. ASSUME NEW t \in Threads, NEW p \in Pids, Fork(t, p) PROVE SyncInv'
  BY <1>6, ForkInv
<1>7. CASE UNCHANGED vars
  BY <1>7 DEF vars, SyncInv, TypeOK, PlaceInv, MutualExclusion, LockInv, AsleepInv,
              WaitersExact, NoLostWakeup, Owns, HolderAt, RepeatAt
<1> QED BY <1>1, <1>2, <1>3, <1>4, <1>5, <1>6, <1>7 DEF Next

LEMMA SpecInv == Spec => []SyncInv
  BY InitInv, StepInv, PTL DEF Spec

LEMMA InvHolder == SyncInv => HolderExact
<1> SUFFICES ASSUME SyncInv PROVE HolderExact
  OBVIOUS
<1>1. ASSUME NEW t \in Threads, nest[t] > 0, pc[t] \in {"acquire", "in"}
      PROVE  lock.holder = t /\ lock.repeat = nest[t]
  <2>1. Owns(t)
    BY <1>1 DEF Owns
  <2> QED BY <1>1, <2>1, OwnersLock DEF OwnedLock
<1>2. lock.value = IF \E t \in Threads : Owns(t) THEN 0 ELSE 1
  BY DEF SyncInv, LockInv
<1> QED BY <1>1, <1>2, HolderOwns DEF HolderExact

\* Between sema_down and sema_up of the lock there is one thread, wherever the
\* timer preempts lock_acquire and lock_release.
THEOREM LockExcludes == Spec => []MutualExclusion
  BY SpecInv, PTL DEF SyncInv

\* No ASSERT of sync.c or of the scheduler under it fires.
THEOREM NeverPanics == Spec => []NoPanic
<1>1. SyncInv => NoPanic
  BY DEF SyncInv, NoPanic
<1> QED BY <1>1, SpecInv, PTL

\* holder and holder_repeat_nr, which lock_acquire reads with interrupts on, are
\* the owner's own whenever it looks at them.
THEOREM HolderIsExact == Spec => []HolderExact
  BY SpecInv, InvHolder, PTL

\* The waiter list holds exactly the threads asleep in sema_down, and none of
\* them is in the ready list.
THEOREM WaitersAreExact == Spec => []WaitersExact
  BY SpecInv, PTL DEF SyncInv

\* sema_up's wakeup is never lost, although it does not hand over the semaphore.
THEOREM WakeupKept == Spec => []NoLostWakeup
  BY SpecInv, PTL DEF SyncInv

-----------------------------------------------------------------------------
\* The refinement of LockSpec

\* The owner of a lock that one thread has.
LEMMA OwnerFacts ==
    ASSUME NEW n \in [Threads -> Nat], NEW t \in Threads, n[t] > 0,
           \A u \in Threads : n[u] > 0 => u = t
    PROVE  (IF \E u \in Threads : n[u] > 0
            THEN CHOOSE u \in Threads : n[u] > 0 ELSE NoThread) = t
  OBVIOUS

\* Who owns the lock and how often is read off nest alone.
LEMMA AbstractFacts ==
    ASSUME SyncInv, NEW t \in Threads
    PROVE  /\ nest[t] > 0 => AbstractOwner = t /\ AbstractCount = nest[t]
           /\ Owns(t) /\ nest[t] = 0 => AbstractOwner = NoThread /\ AbstractCount = 0
<1>1. nest \in [Threads -> Nat] /\ \A u \in Threads : nest[u] > 0 => Owns(u)
  BY DEF SyncInv, TypeOK, Owns
<1>2. ASSUME nest[t] > 0 PROVE AbstractOwner = t /\ AbstractCount = nest[t]
  <2>1. \A u \in Threads : nest[u] > 0 => u = t
    BY <1>1, <1>2 DEF SyncInv, MutualExclusion
  <2>2. AbstractOwner = t
    BY <1>1, <1>2, <2>1, OwnerFacts DEF AbstractOwner
  <2> QED BY <2>2, NoThreadAssumption DEF AbstractCount
<1>3. ASSUME Owns(t), nest[t] = 0
      PROVE  AbstractOwner = NoThread /\ AbstractCount = 0
  <2>1. ~ \E u \in Threads : nest[u] > 0
    BY <1>1, <1>3 DEF SyncInv, MutualExclusion
  <2> QED BY <2>1 DEF AbstractOwner, AbstractCount
<1> QED BY <1>2, <1>3

\* The same behind a step.
LEMMA AbstractNext ==
    ASSUME SyncInv', NEW t \in Threads
    PROVE  /\ nest'[t] > 0 => AbstractOwner' = t /\ AbstractCount' = nest'[t]
           /\ (\A u \in Threads : nest'[u] = 0)
                => AbstractOwner' = NoThread /\ AbstractCount' = 0
<1>1. /\ nest' \in [Threads -> Nat]
      /\ \A u, v \in Threads : nest'[u] > 0 /\ nest'[v] > 0 => u = v
  BY DEF SyncInv, TypeOK, Owns, MutualExclusion
<1>2. ASSUME nest'[t] > 0 PROVE AbstractOwner' = t /\ AbstractCount' = nest'[t]
  <2>1. AbstractOwner' = t
    BY <1>1, <1>2, OwnerFacts DEF AbstractOwner
  <2> QED BY <2>1, NoThreadAssumption DEF AbstractCount
<1>3. ASSUME \A u \in Threads : nest'[u] = 0
      PROVE  AbstractOwner' = NoThread /\ AbstractCount' = 0
  <2>1. ~ \E u \in Threads : nest'[u] > 0
    BY <1>3
  <2> QED BY <2>1 DEF AbstractOwner, AbstractCount
<1> QED BY <1>2, <1>3

\* The return of an outer and of a nested lock_acquire is an Acquire of LockSpec,
\* the nested decrement and sema_up are a Release; no other step shows.
LEMMA StepRefines ==
    SyncInv /\ SyncInv' /\ [Next]_vars => [Abstract!Next]_(Abstract!vars)
<1> SUFFICES ASSUME SyncInv, SyncInv', [Next]_vars
             PROVE  [Abstract!Next]_(Abstract!vars)
  OBVIOUS
<1>1. CASE nest' = nest
  <2>1. AbstractOwner' = AbstractOwner /\ AbstractCount' = AbstractCount
    BY <1>1 DEF AbstractOwner, AbstractCount
  <2> QED BY <2>1 DEF Abstract!vars
<1>2. nest \in [Threads -> Nat]
  BY DEF SyncInv, TypeOK
<1>3. ASSUME NEW t \in Threads, Owns(t), nest'[t] = nest[t] + 1
      PROVE  Abstract!Next
  <2>1. nest[t] \in Nat /\ nest'[t] > 0
    BY <1>2, <1>3
  <2>2. AbstractOwner' = t /\ AbstractCount' = nest[t] + 1
    BY <1>3, <2>1, AbstractNext
  <2>3. AbstractOwner \in {NoThread, t} /\ AbstractCount = nest[t]
    BY <1>3, <2>1, AbstractFacts
  <2> QED BY <2>2, <2>3 DEF Abstract!Next, Abstract!Acquire
<1>4. ASSUME NEW t \in Threads, Owns(t), nest[t] > 0, nest'[t] = nest[t] - 1,
             \A u \in Threads \ {t} : nest'[u] = nest[u]
      PROVE  Abstract!Next
  <2>1. nest[t] \in Nat /\ AbstractOwner = t /\ AbstractCount = nest[t]
    BY <1>2, <1>4, AbstractFacts
  <2>2. CASE nest[t] > 1
    <3>1. AbstractOwner' = t /\ AbstractCount' = nest[t] - 1
      BY <1>4, <2>1, <2>2, AbstractNext
    <3> QED BY <2>1, <2>2, <3>1 DEF Abstract!Next, Abstract!Release
  <2>3. CASE nest[t] = 1
    <3>1. \A u \in Threads : nest'[u] = 0
      BY <1>2, <1>4, <2>3 DEF SyncInv, MutualExclusion, Owns
    <3>2. AbstractOwner' = NoThread /\ AbstractCount' = 0
      BY <3>1, AbstractNext
    <3> QED BY <2>1, <2>3, <3>2 DEF Abstract!Next, Abstract!Release
  <2> QED BY <1>4, <2>1, <2>2, <2>3
<1>5. ASSUME NEW t \in Threads, TestHolder(t)
      PROVE  nest' = nest \/ Abstract!Next
  <2>1. CASE lock.holder = t
    BY <1>2, <1>3, <1>5, <2>1, HolderOwns DEF TestHolder
  <2> QED BY <1>5, <2>1 DEF TestHolder
<1>6. ASSUME NEW t \in Threads, SetRepeat(t) PROVE Abstract!Next
  <2>1. Owns(t) /\ nest[t] = 0 /\ nest'[t] = 1
    BY <1>2, <1>6 DEF SetRepeat, At, Owns, SyncInv, PlaceInv
  <2> QED BY <1>3, <2>1
<1>7. ASSUME NEW t \in Threads, ReleaseInner(t) \/ Up(t) PROVE Abstract!Next
  <2>1. /\ nest[t] > 0 /\ Owns(t)
        /\ Up(t) => nest[t] = 1
    BY <1>7 DEF ReleaseInner, Up, At, SyncInv, PlaceInv, Owns
  <2>2. /\ nest'[t] = nest[t] - 1
        /\ \A u \in Threads \ {t} : nest'[u] = nest[u]
    BY <1>2, <1>7, <2>1 DEF ReleaseInner, Up
  <2> QED BY <1>4, <2>1, <2>2
<1>8. \/ nest' = nest
      \/ \E t \in Threads : TestHolder(t) \/ SetRepeat(t) \/ ReleaseInner(t) \/ Up(t)
  BY DEF Next, vars, LockStep, CallAcquire, DownSleep, DownTake, SetHolder,
         ClearRepeat, ReleaseOuter, SleepElsewhere, WakeElsewhere, Tick, IdleLoop,
         Fork
<1> QED BY <1>1, <1>5, <1>6, <1>7, <1>8

\* struct lock, with its semaphore and the two fields that are written outside of
\* it, implements the lock of LockSpec: one owner at a time, counted nesting.
THEOREM LockImplements == Spec => ImplementsLock
<1>1. Init => Abstract!Init
  <2> SUFFICES ASSUME Init PROVE Abstract!Init
    OBVIOUS
  <2>1. ~ \E t \in Threads : nest[t] > 0
    BY DEF Init
  <2> QED BY <2>1 DEF Abstract!Init, AbstractOwner, AbstractCount
<1> QED BY <1>1, SpecInv, StepRefines, PTL DEF Spec, ImplementsLock, Abstract!Spec
=============================================================================
