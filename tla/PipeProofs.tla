----------------------------- MODULE PipeProofs ------------------------------
(***************************************************************************)
(* The pipe for every set of readers and writers and every size of the     *)
(* ring and of the calls.                                                  *)
(* PipeInv adds to the properties that a call in progress is on the        *)
(* processor, that it has asked for no more than the ring has or takes,    *)
(* but for the one character a writer sleeps with, and that such a writer  *)
(* holds the lock.                                                         *)
(***************************************************************************)
EXTENDS Pipe, ThreadOpsProofs

-----------------------------------------------------------------------------
\* The inductive invariant

\* System calls run with interrupts off: who is inside one and not asleep in it,
\* or just woken, is on the processor.  A reader is never anywhere else.
PlaceInv ==
    \A t \in Threads :
      /\ pc[t] \notin {"getLock", "getWait"}
      /\ pc[t] \in {"get", "put"} => sched.cur = t
      /\ pc[t] # "user" => t # Idle /\ sched.status[t] # "FREE"

\* A reader asked for no more than there is, a writer for one character more
\* than fits, and it sleeps with that one.
CountInv ==
    \A t \in Threads :
      /\ pc[t] = "get" => left[t] \in 1 .. Length
      /\ pc[t] = "put" => left[t] \in 1 .. BufSize - Length
      /\ pc[t] \in {"putLock", "putWait"} => left[t] = 1

\* The lock is held exactly from ioq_wait to the lock_release behind it.
LockInv ==
    /\ \A t, u \in Threads : pc[t] = "putWait" /\ pc[u] = "putWait" => t = u
    /\ \A t \in Threads : pc[t] = "putWait" => /\ ioq.lock.value = 0
                                               /\ ioq.lock.holder = t
                                               /\ ioq.lock.repeat = 1
    /\ (\A t \in Threads : pc[t] # "putWait") => /\ ioq.lock.value = 1
                                                 /\ ioq.lock.holder = NoThread
                                                 /\ ioq.lock.repeat = 0
    /\ IsInjective(ioq.lock.waiters)

PipeInv ==
    /\ SchedInv(sched)
    /\ sched.halt = "no"
    /\ TypeOK
    /\ PlaceInv
    /\ CountInv
    /\ LockInv
    /\ SleepersRecorded
    /\ Fifo

-----------------------------------------------------------------------------
\* The ring, without the threads

RingLength(head, tail) ==
    IF head >= tail THEN head - tail ELSE BufSize - (tail - head)

\* % under a name, which keeps it out of the sight of the arithmetic.
Mod(x, n) == x % n

\* What Fifo says of a ring with this contents.
Holds(buf, head, tail, in, out) ==
    /\ \A i \in 0 .. RingLength(head, tail) - 1 :
         buf[Mod(tail + i, BufSize)] = Mod(out + i, CharCount)
    /\ in = Mod(out + RingLength(head, tail), CharCount)

\* The sums that occur here wrap at most once.
LEMMA Wrap ==
    ASSUME NEW N \in Nat, N > 0, NEW x \in 0 .. 2 * N - 1
    PROVE  Mod(x, N) = IF x < N THEN x ELSE x - N
<1>1. CASE x < N
  BY <1>1, x \in 0 .. N - 1 DEF Mod
<1>2. CASE ~(x < N)
  BY <1>2, x \in N .. 2 * N - 1 DEF Mod
<1> QED BY <1>1, <1>2

LEMMA NextPosFacts ==
    ASSUME NEW pos \in Slots
    PROVE  /\ NextPos(pos) = IF pos + 1 < BufSize THEN pos + 1 ELSE 0
           /\ NextPos(pos) \in Slots
<1>1. pos + 1 \in 0 .. 2 * BufSize - 1 /\ pos \in 0 .. BufSize - 1
  BY BufSizeAssumption DEF Slots
<1>2. NextPos(pos) = Mod(pos + 1, BufSize)
  BY DEF NextPos, Mod
<1>3. NextPos(pos) = IF pos + 1 < BufSize THEN pos + 1 ELSE 0
  BY <1>1, <1>2, Wrap, BufSizeAssumption
<1> QED BY <1>1, <1>3, BufSizeAssumption DEF Slots

LEMMA LengthFacts ==
    ASSUME NEW head \in Slots, NEW tail \in Slots
    PROVE  /\ RingLength(head, tail) \in 0 .. BufSize - 1
           /\ RingLength(head, tail) = 0 <=> head = tail
           /\ RingLength(head, tail) = BufSize - 1 <=> NextPos(head) = tail
           /\ NextPos(head) # tail =>
                RingLength(NextPos(head), tail) = RingLength(head, tail) + 1
           /\ head # tail =>
                RingLength(head, NextPos(tail)) = RingLength(head, tail) - 1
  BY NextPosFacts, BufSizeAssumption DEF RingLength, Slots

\* ioq_put_char behind its loop adds the next character at the end.
LEMMA StoreHolds ==
    ASSUME NEW head \in Slots, NEW tail \in Slots,
           NEW buf \in [Slots -> 0 .. CharCount - 1],
           NEW in \in 0 .. CharCount - 1, NEW out \in 0 .. CharCount - 1,
           Holds(buf, head, tail, in, out), NextPos(head) # tail
    PROVE  /\ Holds([buf EXCEPT ![head] = in], NextPos(head), tail,
                    Mod(in + 1, CharCount), out)
           /\ Mod(in + 1, CharCount) \in 0 .. CharCount - 1
<1> DEFINE n == RingLength(head, tail)
           new == [buf EXCEPT ![head] = in]
<1>0. head \in 0 .. BufSize - 1 /\ tail \in 0 .. BufSize - 1
  BY DEF Slots
<1>1. n \in 0 .. BufSize - 2 /\ RingLength(NextPos(head), tail) = n + 1
  <2>1. n \in 0 .. BufSize - 1 /\ n # BufSize - 1
    BY LengthFacts
  <2> QED BY <2>1, LengthFacts, BufSizeAssumption
<1>2. \A i \in 0 .. n : Mod(tail + i, BufSize) =
        IF tail + i < BufSize THEN tail + i ELSE tail + i - BufSize
  <2> HIDE DEF n
  <2> QED BY <1>0, <1>1, Wrap, BufSizeAssumption
<1>3. /\ Mod(tail + n, BufSize) = head
      /\ \A i \in 0 .. n - 1 : /\ Mod(tail + i, BufSize) \in Slots
                               /\ Mod(tail + i, BufSize) # head
  <2>1. n = IF head >= tail THEN head - tail ELSE BufSize - (tail - head)
    BY DEF RingLength
  <2> HIDE DEF n
  <2>2. Mod(tail + n, BufSize) = head
    BY <1>0, <1>1, <1>2, <2>1, BufSizeAssumption
  <2>3. ASSUME NEW i \in 0 .. n - 1
        PROVE  Mod(tail + i, BufSize) \in Slots /\ Mod(tail + i, BufSize) # head
    <3>1. Mod(tail + i, BufSize) =
            IF tail + i < BufSize THEN tail + i ELSE tail + i - BufSize
      BY <1>1, <1>2
    <3> QED BY <1>0, <1>1, <2>1, <3>1, BufSizeAssumption DEF Slots
  <2> QED BY <2>2, <2>3
<1>4. CharCount \in Nat /\ CharCount = BufSize + 1
  BY BufSizeAssumption DEF CharCount
<1>5. \A i \in 0 .. n - 1 : buf[Mod(tail + i, BufSize)] = Mod(out + i, CharCount)
  BY DEF Holds
<1>6. in = Mod(out + n, CharCount)
  BY DEF Holds
<1>7. Mod(in + 1, CharCount) = Mod(out + (n + 1), CharCount)
  BY <1>1, <1>4, <1>6, Wrap, BufSizeAssumption
<1>8. Mod(in + 1, CharCount) \in 0 .. CharCount - 1
  BY <1>4, Wrap, BufSizeAssumption
<1> HIDE DEF n
<1>9. \A i \in 0 .. n : new[Mod(tail + i, BufSize)] = Mod(out + i, CharCount)
  <2> TAKE i \in 0 .. n
  <2>1. CASE i = n
    BY <2>1, <1>3, <1>6
  <2>2. CASE i # n
    <3>1. i \in 0 .. n - 1
      BY <1>1, <2>2, BufSizeAssumption
    <3> QED BY <3>1, <1>3, <1>5
  <2> QED BY <2>1, <2>2
<1> HIDE DEF new
<1>10. (n + 1) - 1 = n
  BY <1>1
<1>11. Holds(new, NextPos(head), tail, Mod(in + 1, CharCount), out)
  BY <1>1, <1>7, <1>9, <1>10 DEF Holds
<1> QED BY <1>8, <1>11 DEF new

\* ioq_get_char behind its loop takes the oldest one.
LEMMA TakeHolds ==
    ASSUME NEW head \in Slots, NEW tail \in Slots,
           NEW buf \in [Slots -> 0 .. CharCount - 1],
           NEW in \in 0 .. CharCount - 1, NEW out \in 0 .. CharCount - 1,
           Holds(buf, head, tail, in, out), head # tail
    PROVE  /\ Holds(buf, head, NextPos(tail), in, Mod(out + 1, CharCount))
           /\ Mod(out + 1, CharCount) \in 0 .. CharCount - 1
<1> DEFINE n == RingLength(head, tail)
           next == NextPos(tail)
           then == Mod(out + 1, CharCount)
<1>0. head \in 0 .. BufSize - 1 /\ tail \in 0 .. BufSize - 1
  BY DEF Slots
<1>1. n \in 1 .. BufSize - 1 /\ RingLength(head, next) = n - 1
  <2>1. n \in 0 .. BufSize - 1 /\ n # 0
    BY LengthFacts
  <2> QED BY <2>1, LengthFacts, BufSizeAssumption
<1>2. CharCount \in Nat /\ CharCount = BufSize + 1
  BY BufSizeAssumption DEF CharCount
<1>3. /\ next = IF tail + 1 < BufSize THEN tail + 1 ELSE 0
      /\ next \in 0 .. BufSize - 1
  BY NextPosFacts DEF Slots
<1>4. /\ then = IF out + 1 < CharCount THEN out + 1 ELSE out + 1 - CharCount
      /\ then \in 0 .. CharCount - 1
  BY <1>2, Wrap, BufSizeAssumption
<1>5. \A i \in 0 .. n - 1 : buf[Mod(tail + i, BufSize)] = Mod(out + i, CharCount)
  BY DEF Holds
<1>6. in = Mod(out + n, CharCount)
  BY DEF Holds
<1> HIDE DEF n, next, then
<1>7. in = Mod(then + (n - 1), CharCount)
  BY <1>1, <1>2, <1>4, <1>6, Wrap, BufSizeAssumption
<1>8. \A i \in 0 .. (n - 1) - 1 :
        buf[Mod(next + i, BufSize)] = Mod(then + i, CharCount)
  <2> TAKE i \in 0 .. (n - 1) - 1
  <2>1. i + 1 \in 0 .. n - 1
    BY <1>1, BufSizeAssumption
  <2>2. Mod(next + i, BufSize) = Mod(tail + (i + 1), BufSize)
    BY <1>0, <1>1, <1>3, <2>1, Wrap, BufSizeAssumption
  <2>3. Mod(then + i, CharCount) = Mod(out + (i + 1), CharCount)
    BY <1>1, <1>2, <1>4, <2>1, Wrap, BufSizeAssumption
  <2> QED BY <2>1, <2>2, <2>3, <1>5
<1>9. Holds(buf, head, next, in, then)
  BY <1>1, <1>7, <1>8 DEF Holds
<1> QED BY <1>4, <1>9 DEF next, then

-----------------------------------------------------------------------------
\* The threads around the ring

\* Fifo and ioq_length in the words of the lemmas above.
LEMMA RingIs ==
    /\ Length = RingLength(ioq.head, ioq.tail)
    /\ Length' = RingLength(ioq'.head, ioq'.tail)
    /\ Fifo <=> Holds(ioq.buf, ioq.head, ioq.tail, nextIn, nextOut)
    /\ Fifo' <=> Holds(ioq'.buf, ioq'.head, ioq'.tail, nextIn', nextOut')
  BY DEF Length, Fifo, Holds, RingLength, Mod

LEMMA RingFrame ==
    ASSUME ioq'.buf = ioq.buf, ioq'.head = ioq.head, ioq'.tail = ioq.tail,
           UNCHANGED <<nextIn, nextOut>>
    PROVE  Length' = Length /\ (Fifo => Fifo')
  BY RingIs

\* The queue's record, and the fill level, as the invariant knows them.
LEMMA QueueFacts ==
    ASSUME PipeInv
    PROVE  /\ ioq = [lock |-> ioq.lock, producer |-> ioq.producer,
                     consumer |-> ioq.consumer, buf |-> ioq.buf,
                     head |-> ioq.head, tail |-> ioq.tail]
           /\ ioq.lock \in LockState
           /\ ioq.producer \in Threads \cup {NoThread}
           /\ ioq.consumer = NoThread
           /\ ioq.head \in Slots /\ ioq.tail \in Slots
           /\ Length \in 0 .. BufSize - 1
           /\ Full <=> Length = BufSize - 1
           /\ Empty <=> Length = 0
<1>1. /\ ioq \in [lock : LockState, producer : Threads \cup {NoThread},
                  consumer : Threads \cup {NoThread},
                  buf : [Slots -> 0 .. CharCount - 1], head : Slots, tail : Slots]
  BY DEF PipeInv, TypeOK
<1>2. /\ ioq = [lock |-> ioq.lock, producer |-> ioq.producer,
                consumer |-> ioq.consumer, buf |-> ioq.buf,
                head |-> ioq.head, tail |-> ioq.tail]
      /\ ioq.lock \in LockState
      /\ ioq.producer \in Threads \cup {NoThread}
      /\ ioq.consumer \in Threads \cup {NoThread}
      /\ ioq.head \in Slots /\ ioq.tail \in Slots
  BY <1>1
<1>3. ioq.consumer \notin Threads
  BY DEF PipeInv, PlaceInv, SleepersRecorded, AsleepAt
<1>4. /\ Length \in 0 .. BufSize - 1
      /\ Full <=> Length = BufSize - 1
      /\ Empty <=> Length = 0
  BY <1>2, RingIs, LengthFacts DEF Full, Empty
<1> QED BY <1>2, <1>3, <1>4

\* The running thread t goes to place p with k characters left.
Moves(t, p, k) ==
    /\ sched.cur = t /\ sched'.cur = t
    /\ pc' \in [Threads -> Places] /\ left' \in [Threads -> Nat]
    /\ pc'[t] = p /\ left'[t] = k
    /\ \A u \in Threads \ {t} : pc'[u] = pc[u] /\ left'[u] = left[u]

\* A step of a thread that neither sleeps nor holds the lock.  It may wake the
\* producer, whose slot it clears.
LEMMA RunnerStep ==
    ASSUME PipeInv, NEW t \in Threads, t # Idle, NEW k, NEW p \in {"user", "get", "put"},
           Moves(t, p, k), pc[t] \in {"user", "get", "put"},
           SchedInv(sched'), ioq'.lock = ioq.lock, ioq'.consumer = NoThread,
           NEW w, w \in {NoThread, ioq.producer},
           \A u \in Threads :
             sched'.status[u] = IF u = w THEN "READY" ELSE sched.status[u],
           ioq'.producer = IF w = NoThread THEN ioq.producer ELSE NoThread
    PROVE  /\ PlaceInv'
           /\ LockInv'
           /\ SleepersRecorded'
<1>1. /\ sched.status[t] = "RUNNING" /\ sched.cur = t /\ sched'.cur = t
      /\ \A u \in Threads \ {t} : pc'[u] = pc[u]
      /\ pc'[t] = p
  BY DEF PipeInv, SchedInv, Moves
<1>2. /\ \A u \in Threads : AsleepAt(u, "putWait") <=> ioq.producer = u
      /\ \A u \in Threads : pc[u] \notin {"getLock", "getWait"}
  BY DEF PipeInv, SleepersRecorded, PlaceInv
<1>3. t # w
  BY <1>1, <1>2, NoThreadAssumption DEF AsleepAt
<1>4. PlaceInv'
  BY <1>1, <1>3 DEF PipeInv, PlaceInv
<1>5. LockInv'
  BY <1>1 DEF PipeInv, LockInv
<1>6. \A u \in Threads : AsleepAt(u, "getWait")' <=> ioq'.consumer = u
  BY <1>1, <1>2, NoThreadAssumption DEF AsleepAt
<1>7. \A u \in Threads : AsleepAt(u, "putWait")' <=> ioq'.producer = u
  BY <1>1, <1>2, <1>3, NoThreadAssumption DEF AsleepAt
<1>8. \A u \in Threads : AsleepAt(u, "getLock")' \/ AsleepAt(u, "putLock")'
                           <=> Contains(ioq'.lock.waiters, u)
  <2>1. \A u \in Threads : AsleepAt(u, "putLock") <=> Contains(ioq.lock.waiters, u)
    BY <1>2 DEF PipeInv, SleepersRecorded, AsleepAt
  <2>2. \A u \in Threads : u = w => pc[u] = "putWait"
    BY <1>2, NoThreadAssumption DEF AsleepAt
  <2>3. \A u \in Threads : /\ AsleepAt(u, "putLock")' <=> AsleepAt(u, "putLock")
                           /\ ~AsleepAt(u, "getLock")'
    BY <1>1, <1>2, <2>2 DEF AsleepAt
  <2> QED BY <2>1, <2>3
<1>9. (ioq'.lock.waiters # << >> /\ ioq'.lock.value = 1)
        => \E u \in Threads : /\ pc'[u] \in {"getLock", "putLock"}
                              /\ sched'.status[u] \in {"READY", "RUNNING"}
  BY <1>1 DEF PipeInv, SleepersRecorded
<1> QED BY <1>4, <1>5, <1>6, <1>7, <1>8, <1>9 DEF SleepersRecorded

LEMMA PipeReadInv ==
    ASSUME PipeInv, NEW t \in Threads, NEW n \in 1 .. MaxCount, PipeRead(t, n)
    PROVE  PipeInv'
<1> DEFINE k == Smaller(Length, n)
<1>1. /\ sched.cur = t /\ pc[t] = "user" /\ t # Idle /\ Length \in 0 .. BufSize - 1
      /\ Length > 0 /\ UNCHANGED <<sched, ioq, nextIn, nextOut>>
      /\ pc \in [Threads -> Places] /\ left \in [Threads -> Nat]
  BY QueueFacts, PipeEndsAssumption DEF PipeRead, At, PipeInv, TypeOK
<1>2. k \in 1 .. Length /\ k \in Nat
  BY <1>1, MaxCountAssumption DEF Smaller
<1> HIDE DEF k
<1>3. Moves(t, "get", k)
  BY <1>1, <1>2 DEF PipeRead, Moves, Places, k
<1>4. ioq.consumer = NoThread
  BY QueueFacts
<1>5. PlaceInv' /\ LockInv' /\ SleepersRecorded'
  BY <1>1, <1>3, <1>4, NoThreadAssumption, RunnerStep DEF PipeInv
<1>6. Length' = Length /\ Fifo'
  BY <1>1, RingFrame DEF PipeInv
<1>7. TypeOK'
  BY <1>1, <1>3 DEF PipeInv, TypeOK, Moves
<1>8. CountInv'
  BY <1>1, <1>2, <1>3, <1>6 DEF PipeInv, CountInv, Moves
<1> QED BY <1>1, <1>5, <1>6, <1>7, <1>8 DEF PipeInv

LEMMA PipeWriteInv ==
    ASSUME PipeInv, NEW t \in Threads, NEW n \in 1 .. MaxCount, PipeWrite(t, n)
    PROVE  PipeInv'
<1> DEFINE k == Smaller(BufSize - Length, n)
<1>1. /\ sched.cur = t /\ pc[t] = "user" /\ t # Idle /\ Length \in 0 .. BufSize - 1
      /\ UNCHANGED <<sched, ioq, nextIn, nextOut>>
      /\ pc \in [Threads -> Places] /\ left \in [Threads -> Nat]
  BY QueueFacts, PipeEndsAssumption DEF PipeWrite, At, PipeInv, TypeOK
<1>2. k \in 1 .. BufSize - Length /\ k \in Nat
  BY <1>1, MaxCountAssumption, BufSizeAssumption DEF Smaller
<1> HIDE DEF k
<1>3. Moves(t, "put", k)
  BY <1>1, <1>2 DEF PipeWrite, Moves, Places, k
<1>4. ioq.consumer = NoThread
  BY QueueFacts
<1>5. PlaceInv' /\ LockInv' /\ SleepersRecorded'
  BY <1>1, <1>3, <1>4, NoThreadAssumption, RunnerStep DEF PipeInv
<1>6. Length' = Length /\ Fifo'
  BY <1>1, RingFrame DEF PipeInv
<1>7. TypeOK'
  BY <1>1, <1>3 DEF PipeInv, TypeOK, Moves
<1>8. CountInv'
  BY <1>1, <1>2, <1>3, <1>6 DEF PipeInv, CountInv, Moves
<1> QED BY <1>1, <1>5, <1>6, <1>7, <1>8 DEF PipeInv

\* A reader never finds the ring empty, and so never calls lock_acquire.  The
\* producer it wakes is asleep, as thread_unblock's assertion asks.
LEMMA GetStepInv ==
    ASSUME PipeInv, NEW t \in Threads, GetStep(t)
    PROVE  PipeInv'
<1>1. /\ sched.cur = t /\ SchedInv(sched) /\ sched.halt = "no"
      /\ pc \in [Threads -> Places] /\ left \in [Threads -> Nat]
      /\ ioq.buf \in [Slots -> 0 .. CharCount - 1]
      /\ nextIn \in 0 .. CharCount - 1 /\ nextOut \in 0 .. CharCount - 1
  BY DEF GetStep, GetLockSleep, GetWait, GetResume, GetTake, At, PipeInv, TypeOK
<1>2. GetTake(t) /\ pc[t] = "get" /\ left[t] \in 1 .. Length /\ t # Idle
  <2>1. pc[t] = "get"
    BY DEF GetStep, GetLockSleep, GetWait, GetResume, GetTake, At, PipeInv, PlaceInv
  <2>2. left[t] \in 1 .. Length /\ t # Idle
    BY <2>1 DEF PipeInv, CountInv, PlaceInv
  <2>3. ~Empty
    BY <2>2, QueueFacts
  <2> QED BY <2>1, <2>2, <2>3 DEF GetStep, GetLockSleep, GetWait, GetResume, At
<1> DEFINE w == ioq.producer
           k == left[t] - 1
           p == IF left[t] = 1 THEN "user" ELSE "get"
<1>3. w \in Threads => sched.status[w] = "BLOCKED" /\ pc[w] = "putWait"
  BY DEF PipeInv, SleepersRecorded, AsleepAt
<1>4. /\ SchedInv(sched') /\ sched'.halt = "no" /\ sched'.cur = t
      /\ \A u \in Threads :
           sched'.status[u] = IF u = w THEN "READY" ELSE sched.status[u]
  <2>1. CASE w = NoThread
    BY <1>1, <1>2, <2>1, NoThreadAssumption DEF GetTake
  <2>2. CASE w # NoThread
    <3>1. w \in Threads /\ sched' = Unblock(sched, w)
      BY <1>2, <2>2, QueueFacts DEF GetTake
    <3> QED BY <1>1, <1>3, <3>1, WakeFacts DEF Sleeping
  <2> QED BY <2>1, <2>2
<1>5. ioq' = [lock |-> ioq.lock, producer |-> NoThread, consumer |-> NoThread,
              buf |-> ioq.buf, head |-> ioq.head, tail |-> NextPos(ioq.tail)]
  BY <1>2, QueueFacts DEF GetTake
<1>6. left[t] - 1 \in Nat
  BY <1>1, <1>2
<1>7. Moves(t, p, k)
  BY <1>1, <1>2, <1>4, <1>6 DEF GetTake, Moves, Places
<1>8. w \in {NoThread, ioq.producer} /\ p \in {"user", "get", "put"}
  OBVIOUS
<1> HIDE DEF w, k, p
<1>9. PlaceInv' /\ LockInv' /\ SleepersRecorded'
  <2>1. /\ ioq'.lock = ioq.lock /\ ioq'.consumer = NoThread
        /\ ioq'.producer = IF w = NoThread THEN ioq.producer ELSE NoThread
    BY <1>5 DEF w
  <2> QED BY <1>2, <1>4, <1>7, <1>8, <2>1, RunnerStep
<1>10. /\ ioq.head # ioq.tail /\ ioq.head \in Slots /\ ioq.tail \in Slots
       /\ NextPos(ioq.tail) \in Slots
  BY <1>2, QueueFacts, NextPosFacts DEF GetTake, Empty
<1>11. Length' = Length - 1
  BY <1>5, <1>10, RingIs, LengthFacts
<1>12. nextIn' = nextIn /\ nextOut' = Mod(nextOut + 1, CharCount)
  BY <1>2 DEF GetTake, Mod
<1>13. Fifo' /\ nextOut' \in 0 .. CharCount - 1
  <2>1. Holds(ioq.buf, ioq.head, ioq.tail, nextIn, nextOut)
    BY RingIs DEF PipeInv
  <2>2. /\ Holds(ioq.buf, ioq.head, NextPos(ioq.tail), nextIn,
                 Mod(nextOut + 1, CharCount))
        /\ Mod(nextOut + 1, CharCount) \in 0 .. CharCount - 1
    BY <1>1, <1>10, <2>1, TakeHolds
  <2> QED BY <1>5, <1>12, <2>2, RingIs
<1>14. TypeOK'
  <2>1. ioq' \in [lock : LockState, producer : Threads \cup {NoThread},
                  consumer : Threads \cup {NoThread},
                  buf : [Slots -> 0 .. CharCount - 1], head : Slots, tail : Slots]
    BY <1>1, <1>5, <1>10, QueueFacts
  <2> QED BY <1>1, <1>4, <1>7, <1>12, <1>13, <2>1
          DEF TypeOK, Moves, SchedInv, SchedCore
<1>15. CountInv'
  <2>1. Length \in 0 .. BufSize - 1
    BY QueueFacts
  <2>2. \A u \in Threads \ {t} : pc[u] \notin {"get", "put"}
    BY <1>1 DEF PipeInv, PlaceInv
  <2>3. pc'[t] = "get" => left'[t] \in 1 .. Length'
    BY <1>2, <1>7, <1>11, <2>1 DEF Moves, k, p
  <2>4. pc'[t] \notin {"put", "putLock", "putWait"}
    BY <1>7 DEF Moves, p
  <2> QED BY <1>7, <2>2, <2>3, <2>4 DEF Moves, PipeInv, CountInv
<1> QED BY <1>4, <1>9, <1>13, <1>14, <1>15 DEF PipeInv

\* A writer finds nobody in the consumer's slot.
LEMMA PutStoreInv ==
    ASSUME PipeInv, NEW t \in Threads, PutStore(t)
    PROVE  PipeInv'
<1>1. /\ sched.cur = t /\ SchedInv(sched) /\ sched.halt = "no" /\ pc[t] = "put"
      /\ pc \in [Threads -> Places] /\ left \in [Threads -> Nat]
      /\ ioq.buf \in [Slots -> 0 .. CharCount - 1]
      /\ nextIn \in 0 .. CharCount - 1 /\ nextOut \in 0 .. CharCount - 1
      /\ left[t] \in 1 .. BufSize - Length /\ t # Idle
  BY DEF PutStore, At, PipeInv, TypeOK, CountInv, PlaceInv
<1>2. sched' = sched
  BY QueueFacts DEF PutStore, Store
<1> DEFINE k == left[t] - 1
           p == IF left[t] = 1 THEN "user" ELSE "put"
           buf == [ioq.buf EXCEPT ![ioq.head] = nextIn]
<1>3. ioq' = [lock |-> ioq.lock, producer |-> ioq.producer, consumer |-> NoThread,
              buf |-> buf, head |-> NextPos(ioq.head), tail |-> ioq.tail]
  BY QueueFacts DEF PutStore, Store
<1>4. left[t] - 1 \in Nat
  BY <1>1
<1>5. Moves(t, p, k)
  BY <1>1, <1>2, <1>4 DEF PutStore, Moves, Places
<1>6. p \in {"user", "get", "put"}
  OBVIOUS
<1>7. /\ ioq.head \in Slots /\ ioq.tail \in Slots /\ NextPos(ioq.head) \in Slots
      /\ NextPos(ioq.head) # ioq.tail /\ ioq.consumer = NoThread
  BY QueueFacts, NextPosFacts DEF PutStore, Full
<1>8. nextIn' = Mod(nextIn + 1, CharCount) /\ nextOut' = nextOut
  BY DEF PutStore, Store, Mod
<1>9. Fifo' /\ nextIn' \in 0 .. CharCount - 1
  <2>1. Holds(ioq.buf, ioq.head, ioq.tail, nextIn, nextOut)
    BY RingIs DEF PipeInv
  <2>2. /\ Holds(buf, NextPos(ioq.head), ioq.tail, Mod(nextIn + 1, CharCount), nextOut)
        /\ Mod(nextIn + 1, CharCount) \in 0 .. CharCount - 1
    BY <1>1, <1>7, <2>1, StoreHolds
  <2> HIDE DEF buf
  <2> QED BY <1>3, <1>8, <2>2, RingIs
<1>10. buf \in [Slots -> 0 .. CharCount - 1]
  BY <1>1
<1> HIDE DEF k, p, buf
<1>11. PlaceInv' /\ LockInv' /\ SleepersRecorded'
  <2>1. /\ ioq'.lock = ioq.lock /\ ioq'.consumer = NoThread
        /\ ioq'.producer = ioq.producer
    BY <1>3
  <2> QED BY <1>1, <1>2, <1>5, <1>6, <2>1, NoThreadAssumption, RunnerStep
<1>12. Length' = Length + 1
  BY <1>3, <1>7, RingIs, LengthFacts
<1>13. TypeOK'
  <2>1. ioq' \in [lock : LockState, producer : Threads \cup {NoThread},
                  consumer : Threads \cup {NoThread},
                  buf : [Slots -> 0 .. CharCount - 1], head : Slots, tail : Slots]
    BY <1>3, <1>7, <1>10, QueueFacts
  <2> QED BY <1>1, <1>2, <1>5, <1>8, <1>9, <2>1
          DEF TypeOK, Moves, SchedInv, SchedCore
<1>14. CountInv'
  <2>1. Length \in 0 .. BufSize - 1
    BY QueueFacts
  <2>2. \A u \in Threads \ {t} : pc[u] \notin {"get", "put"}
    BY <1>1 DEF PipeInv, PlaceInv
  <2>3. pc'[t] = "put" => left'[t] \in 1 .. BufSize - Length'
    BY <1>1, <1>5, <1>12, <2>1, BufSizeAssumption DEF Moves, k, p
  <2>4. pc'[t] \notin {"get", "putLock", "putWait"}
    BY <1>5 DEF Moves, p
  <2> QED BY <1>5, <2>2, <2>3, <2>4 DEF Moves, PipeInv, CountInv
<1> QED BY <1>1, <1>2, <1>9, <1>11, <1>13, <1>14 DEF PipeInv

\* A writer goes to sleep: it has one character left, and nobody else is inside a
\* call and awake.
LEMMA SleeperStep ==
    ASSUME PipeInv, NEW t \in Threads, sched.cur = t, t # Idle, left[t] = 1,
           NEW p \in {"putLock", "putWait"}, pc' = [pc EXCEPT ![t] = p],
           UNCHANGED <<left, nextIn, nextOut>>,
           ioq'.buf = ioq.buf, ioq'.head = ioq.head, ioq'.tail = ioq.tail,
           sched' = Block(sched, "BLOCKED")
    PROVE  /\ SchedInv(sched') /\ sched'.halt = "no"
           /\ pc' \in [Threads -> Places] /\ pc'[t] = p
           /\ \A u \in Threads \ {t} : pc'[u] = pc[u]
           /\ sched.status[t] = "RUNNING" /\ sched'.status[t] = "BLOCKED"
           /\ \A u \in Threads \ {t, Idle} :
                IF sched.status[u] \in {"READY", "RUNNING"}
                THEN sched'.status[u] \in {"READY", "RUNNING"}
                ELSE sched'.status[u] = sched.status[u]
           /\ pc[Idle] = "user"
           /\ PlaceInv' /\ CountInv' /\ Fifo'
<1>1. /\ SchedInv(sched) /\ sched.halt = "no" /\ pc \in [Threads -> Places]
      /\ sched.status[t] = "RUNNING"
  BY DEF PipeInv, TypeOK, SchedInv
<1>2. "BLOCKED" \in Sleeping
  BY DEF Sleeping
<1>3. SchedInv(sched') /\ sched'.halt = "no"
  BY <1>1, <1>2, BlockFacts
<1>4. \A u \in Threads \ {Idle} :
        IF u = sched.cur THEN sched'.status[u] = "BLOCKED"
        ELSE IF sched.status[u] \in {"READY", "RUNNING"}
        THEN sched'.status[u] \in {"READY", "RUNNING"}
        ELSE sched'.status[u] = sched.status[u]
  BY <1>1, <1>2, BlockStatus
<1>5. /\ pc' \in [Threads -> Places] /\ pc'[t] = p
      /\ \A u \in Threads \ {t} : pc'[u] = pc[u]
  BY <1>1 DEF Places
<1>6. /\ \A u \in Threads \ {t} : pc[u] \notin {"get", "put"}
      /\ pc[Idle] = "user"
  BY ThreadsAssumption DEF PipeInv, PlaceInv
<1>7. PlaceInv'
  BY <1>4, <1>5, <1>6 DEF PipeInv, PlaceInv
<1>8. Fifo' /\ Length' = Length
  BY RingFrame DEF PipeInv
<1>9. CountInv'
  BY <1>5, <1>6 DEF PipeInv, CountInv
<1> QED BY <1>1, <1>3, <1>4, <1>5, <1>6, <1>7, <1>8, <1>9

\* What holds of a writer that calls lock_acquire.
LEMMA WriterFacts ==
    ASSUME PipeInv, NEW t \in Threads,
           (At(t, "put") /\ Full) \/ At(t, "putLock")
    PROVE  /\ sched.cur = t /\ t # Idle /\ left[t] = 1 /\ sched.halt = "no"
           /\ pc[t] \in {"put", "putLock"} /\ sched.status[t] = "RUNNING"
           /\ ~Contains(ioq.lock.waiters, t)
<1>1. /\ sched.cur = t /\ pc[t] \in {"put", "putLock"} /\ sched.halt = "no"
      /\ pc[t] = "put" => Full
  BY DEF At, Running
<1>2. t # Idle /\ sched.status[t] = "RUNNING"
  BY <1>1 DEF PipeInv, PlaceInv, SchedInv
<1>3. left[t] = 1
  <2>1. CASE pc[t] = "putLock"
    BY <2>1 DEF PipeInv, CountInv
  <2>2. CASE pc[t] = "put"
    <3>1. Length = BufSize - 1 /\ left[t] \in 1 .. BufSize - Length
      BY <1>1, <2>2, QueueFacts DEF PipeInv, CountInv
    <3> QED BY <3>1, BufSizeAssumption
  <2> QED BY <1>1, <2>1, <2>2
<1>4. ~Contains(ioq.lock.waiters, t)
  BY <1>1, <1>2 DEF PipeInv, SleepersRecorded, AsleepAt
<1> QED BY <1>1, <1>2, <1>3, <1>4

LEMMA PutLockSleepInv ==
    ASSUME PipeInv, NEW t \in Threads, PutLockSleep(t)
    PROVE  PipeInv'
<1>1. /\ sched.cur = t /\ t # Idle /\ left[t] = 1 /\ pc[t] \in {"put", "putLock"}
      /\ ~Contains(ioq.lock.waiters, t)
  BY WriterFacts DEF PutLockSleep
<1>2. /\ ioq.lock \in LockState /\ ioq.lock.value = 0 /\ ioq.consumer = NoThread
      /\ ioq.lock.waiters \in Seq(Threads) /\ IsInjective(ioq.lock.waiters)
  BY QueueFacts DEF PutLockSleep, AcquirePasses, LockState, PipeInv, LockInv
<1> DEFINE lock == [holder |-> ioq.lock.holder, repeat |-> ioq.lock.repeat,
                    value |-> 0, waiters |-> Append(ioq.lock.waiters, t)]
<1>3. DownQueues(sched, ioq.lock) = lock
  BY <1>1, <1>2, LockRecords
<1>4. ioq' = [lock |-> lock, producer |-> ioq.producer, consumer |-> NoThread,
              buf |-> ioq.buf, head |-> ioq.head, tail |-> ioq.tail]
  <2> HIDE DEF lock
  <2> QED BY <1>3, QueueFacts DEF PutLockSleep
<1>5. /\ lock \in LockState /\ IsInjective(lock.waiters)
      /\ \A u : Contains(lock.waiters, u) <=> Contains(ioq.lock.waiters, u) \/ u = t
  BY <1>1, <1>2, AppendFacts DEF LockState
<1>6. sched' = Block(sched, "BLOCKED")
  BY <1>1 DEF PutLockSleep, DownWaits
<1>7. /\ ioq'.lock.holder = ioq.lock.holder /\ ioq'.lock.repeat = ioq.lock.repeat
      /\ ioq'.lock.value = 0 /\ ioq'.lock = lock
  BY <1>4
<1> HIDE DEF lock
<1>8. /\ SchedInv(sched') /\ sched'.halt = "no"
      /\ pc' \in [Threads -> Places] /\ pc'[t] = "putLock"
      /\ \A u \in Threads \ {t} : pc'[u] = pc[u]
      /\ sched.status[t] = "RUNNING" /\ sched'.status[t] = "BLOCKED"
      /\ \A u \in Threads \ {t, Idle} :
           IF sched.status[u] \in {"READY", "RUNNING"}
           THEN sched'.status[u] \in {"READY", "RUNNING"}
           ELSE sched'.status[u] = sched.status[u]
      /\ pc[Idle] = "user"
      /\ PlaceInv' /\ CountInv' /\ Fifo'
  BY <1>1, <1>4, <1>6, SleeperStep DEF PutLockSleep
<1>9. TypeOK'
  <2>1. ioq' \in [lock : LockState, producer : Threads \cup {NoThread},
                  consumer : Threads \cup {NoThread},
                  buf : [Slots -> 0 .. CharCount - 1], head : Slots, tail : Slots]
    BY <1>4, <1>5, QueueFacts DEF PipeInv, TypeOK
  <2> QED BY <1>8, <2>1
          DEF PutLockSleep, PipeInv, TypeOK, SchedInv, SchedCore
<1>10. LockInv'
  <2>1. \A u \in Threads : pc'[u] = "putWait" <=> pc[u] = "putWait"
    BY <1>1, <1>8
  <2>2. \E u \in Threads : pc[u] = "putWait"
    BY <1>2 DEF PipeInv, LockInv
  <2> QED BY <1>2, <1>5, <1>7, <2>1, <2>2 DEF PipeInv, LockInv
<1>11. \A u \in Threads : \A place \in {"getWait", "putWait"} :
         AsleepAt(u, place)' <=> AsleepAt(u, place)
  BY <1>1, <1>8 DEF AsleepAt
<1>12. \A u \in Threads : AsleepAt(u, "getLock")' \/ AsleepAt(u, "putLock")'
                            <=> Contains(ioq'.lock.waiters, u)
  <2>1. \A u \in Threads : AsleepAt(u, "getLock") \/ AsleepAt(u, "putLock")
                             <=> Contains(ioq.lock.waiters, u)
    BY DEF PipeInv, SleepersRecorded
  <2>2. \A u \in Threads \ {t} : /\ AsleepAt(u, "getLock")' <=> AsleepAt(u, "getLock")
                                 /\ AsleepAt(u, "putLock")' <=> AsleepAt(u, "putLock")
    BY <1>8 DEF AsleepAt
  <2>3. AsleepAt(t, "putLock")'
    BY <1>8 DEF AsleepAt
  <2> QED BY <1>5, <1>7, <2>1, <2>2, <2>3
<1>13. SleepersRecorded'
  <2>1. ioq'.consumer = ioq.consumer /\ ioq'.producer = ioq.producer
    BY <1>2, <1>4
  <2> QED BY <1>7, <1>11, <1>12, <2>1 DEF PipeInv, SleepersRecorded
<1> QED BY <1>8, <1>9, <1>10, <1>13 DEF PipeInv

\* The lock is free, so nobody is in the producer's slot: ioq_wait's assertion and
\* those of lock_acquire hold.
LEMMA PutWaitInv ==
    ASSUME PipeInv, NEW t \in Threads, PutWait(t)
    PROVE  PipeInv'
<1>1. /\ sched.cur = t /\ t # Idle /\ left[t] = 1 /\ pc[t] \in {"put", "putLock"}
      /\ ~Contains(ioq.lock.waiters, t)
  BY WriterFacts DEF PutWait
<1>2. \A u \in Threads : pc[u] # "putWait"
  BY DEF PutWait, AcquirePasses, PipeInv, LockInv
<1>3. /\ ioq.lock \in LockState /\ ioq.lock.value = 1 /\ ioq.lock.repeat = 0
      /\ ioq.producer = NoThread /\ ioq.consumer = NoThread
      /\ ioq.lock.waiters \in Seq(Threads) /\ IsInjective(ioq.lock.waiters)
  BY <1>2, QueueFacts
     DEF PipeInv, LockInv, SleepersRecorded, AsleepAt, LockState
<1>4. sched' = Block(sched, "BLOCKED")
  BY <1>3 DEF PutWait, AcquireChecks
<1> DEFINE lock == [holder |-> t, repeat |-> 1, value |-> 0,
                    waiters |-> ioq.lock.waiters]
<1>5. Acquired(sched, ioq.lock) = lock
  BY <1>1, <1>3, LockRecords
<1>6. ioq' = [lock |-> lock, producer |-> t, consumer |-> NoThread,
              buf |-> ioq.buf, head |-> ioq.head, tail |-> ioq.tail]
  <2> HIDE DEF lock
  <2> QED BY <1>5, QueueFacts DEF PutWait
<1>7. lock \in LockState
  BY <1>3 DEF LockState
<1>8. /\ ioq'.lock.holder = t /\ ioq'.lock.repeat = 1 /\ ioq'.lock.value = 0
      /\ ioq'.lock.waiters = ioq.lock.waiters
  BY <1>6
<1> HIDE DEF lock
<1>9. /\ SchedInv(sched') /\ sched'.halt = "no"
      /\ pc' \in [Threads -> Places] /\ pc'[t] = "putWait"
      /\ \A u \in Threads \ {t} : pc'[u] = pc[u]
      /\ sched.status[t] = "RUNNING" /\ sched'.status[t] = "BLOCKED"
      /\ \A u \in Threads \ {t, Idle} :
           IF sched.status[u] \in {"READY", "RUNNING"}
           THEN sched'.status[u] \in {"READY", "RUNNING"}
           ELSE sched'.status[u] = sched.status[u]
      /\ pc[Idle] = "user"
      /\ PlaceInv' /\ CountInv' /\ Fifo'
  BY <1>1, <1>4, <1>6, SleeperStep DEF PutWait
<1>10. TypeOK'
  <2>1. ioq' \in [lock : LockState, producer : Threads \cup {NoThread},
                  consumer : Threads \cup {NoThread},
                  buf : [Slots -> 0 .. CharCount - 1], head : Slots, tail : Slots]
    BY <1>6, <1>7, QueueFacts DEF PipeInv, TypeOK
  <2> QED BY <1>9, <2>1 DEF PutWait, PipeInv, TypeOK, SchedInv, SchedCore
<1>11. LockInv'
  BY <1>2, <1>3, <1>8, <1>9 DEF LockInv
<1>12. \A u \in Threads :
         /\ AsleepAt(u, "getWait")' <=> AsleepAt(u, "getWait")
         /\ AsleepAt(u, "putWait")' <=> u = t
         /\ AsleepAt(u, "getLock")' <=> AsleepAt(u, "getLock")
         /\ AsleepAt(u, "putLock")' <=> AsleepAt(u, "putLock")
  BY <1>1, <1>2, <1>9 DEF AsleepAt
<1>13. SleepersRecorded'
  <2>1. ioq'.consumer = ioq.consumer /\ ioq'.producer = t
    BY <1>3, <1>6
  <2> QED BY <1>8, <1>12, <2>1 DEF PipeInv, SleepersRecorded
<1> QED BY <1>9, <1>10, <1>11, <1>13 DEF PipeInv

\* Back from ioq_wait the writer is the holder, as lock_release asserts; the first
\* waiter it wakes is asleep, and is the thread SleepersRecorded asks for.
LEMMA PutResumeInv ==
    ASSUME PipeInv, NEW t \in Threads, PutResume(t)
    PROVE  PipeInv'
<1>1. /\ sched.cur = t /\ pc[t] = "putWait" /\ sched.halt = "no" /\ t # Idle
      /\ SchedInv(sched) /\ sched.status[t] = "RUNNING" /\ left[t] = 1
      /\ pc \in [Threads -> Places]
  BY DEF PutResume, At, Running, PipeInv, PlaceInv, CountInv, SchedInv, TypeOK
<1>2. /\ ioq.lock \in LockState /\ ioq.lock.value = 0 /\ ioq.lock.holder = t
      /\ ioq.lock.repeat = 1 /\ ioq.consumer = NoThread
      /\ ioq.lock.waiters \in Seq(Threads) /\ IsInjective(ioq.lock.waiters)
      /\ \A u \in Threads \ {t} : pc[u] # "putWait"
  BY <1>1, QueueFacts DEF PipeInv, LockInv, LockState
<1> DEFINE waiters == ioq.lock.waiters
           first == Head(waiters)
           rest == IF waiters = << >> THEN << >> ELSE Tail(waiters)
           lock == [holder |-> NoThread, repeat |-> 0, value |-> 1,
                    waiters |-> rest]
<1>3. Released(ioq.lock) = lock
  <2>1. Released(ioq.lock) = [holder |-> NoThread, repeat |-> 0,
                              value |-> ioq.lock.value + 1, waiters |-> rest]
    BY <1>2, LockRecords
  <2> HIDE DEF rest
  <2> QED BY <1>2, <2>1
<1>4. /\ rest \in Seq(Threads) /\ IsInjective(rest)
      /\ waiters # << >> => first \in Threads /\ Contains(waiters, first)
      /\ \A u : Contains(rest, u)
                  <=> Contains(waiters, u) /\ ~(waiters # << >> /\ u = first)
  <2>1. CASE waiters = << >>
    BY <2>1 DEF IsInjective, Contains
  <2>2. CASE waiters # << >>
    BY <1>2, <2>2, PopFacts
  <2> QED BY <2>1, <2>2
<1>5. ioq' = [lock |-> lock, producer |-> ioq.producer, consumer |-> NoThread,
              buf |-> ioq.buf, head |-> ioq.head, tail |-> ioq.tail]
  <2> HIDE DEF lock
  <2> QED BY <1>3, QueueFacts DEF PutResume
<1>6. lock \in LockState
  BY <1>4 DEF LockState
<1>7. /\ ioq'.lock.holder = NoThread /\ ioq'.lock.repeat = 0
      /\ ioq'.lock.value = 1 /\ ioq'.lock.waiters = rest
  BY <1>5
<1>8. \A u \in Threads : AsleepAt(u, "putLock") <=> Contains(waiters, u)
  BY DEF PipeInv, SleepersRecorded, PlaceInv, AsleepAt
<1>9. waiters # << >> =>
        pc[first] = "putLock" /\ sched.status[first] = "BLOCKED" /\ first # t
  BY <1>1, <1>4, <1>8 DEF AsleepAt
<1>10. sched' = IF waiters = << >> THEN sched ELSE Unblock(sched, first)
  BY <1>1, <1>2 DEF PutResume, ReleaseWakes, UpWakes
<1> HIDE DEF lock, first, rest
<1>11. /\ SchedInv(sched') /\ sched'.halt = "no" /\ sched'.cur = t
       /\ \A u \in Threads : sched'.status[u] =
            IF waiters # << >> /\ u = first THEN "READY" ELSE sched.status[u]
  <2>1. CASE waiters = << >>
    BY <1>1, <1>10, <2>1
  <2>2. CASE waiters # << >>
    BY <1>1, <1>4, <1>9, <1>10, <2>2, WakeFacts DEF Sleeping
  <2> QED BY <2>1, <2>2
<1>12. /\ pc' \in [Threads -> Places] /\ pc'[t] = "put"
       /\ \A u \in Threads \ {t} : pc'[u] = pc[u]
       /\ UNCHANGED <<left, nextIn, nextOut>>
  BY <1>1 DEF PutResume, Places
<1>13. PlaceInv'
  BY <1>1, <1>11, <1>12 DEF PipeInv, PlaceInv
<1>14. Fifo' /\ Length' = Length
  BY <1>5, <1>12, RingFrame DEF PipeInv
<1>15. CountInv'
  <2>1. Length \in 0 .. BufSize - 1
    BY QueueFacts
  <2>2. left'[t] \in 1 .. BufSize - Length'
    BY <1>1, <1>12, <1>14, <2>1, BufSizeAssumption
  <2> QED BY <1>12, <1>14, <2>2 DEF PipeInv, CountInv
<1>16. TypeOK'
  <2>1. ioq' \in [lock : LockState, producer : Threads \cup {NoThread},
                  consumer : Threads \cup {NoThread},
                  buf : [Slots -> 0 .. CharCount - 1], head : Slots, tail : Slots]
    BY <1>5, <1>6, QueueFacts DEF PipeInv, TypeOK
  <2> QED BY <1>11, <1>12, <2>1 DEF PipeInv, TypeOK, SchedInv, SchedCore
<1>17. LockInv'
  BY <1>2, <1>4, <1>7, <1>12 DEF LockInv
<1>18. \A u \in Threads :
         /\ ~AsleepAt(u, "getWait")' /\ ~AsleepAt(u, "getLock")'
         /\ AsleepAt(u, "putWait")' <=> AsleepAt(u, "putWait")
         /\ AsleepAt(u, "putLock")'
              <=> AsleepAt(u, "putLock") /\ ~(waiters # << >> /\ u = first)
  BY <1>1, <1>2, <1>9, <1>11, <1>12 DEF AsleepAt, PipeInv, PlaceInv
<1>19. \A u \in Threads : AsleepAt(u, "getLock")' \/ AsleepAt(u, "putLock")'
                            <=> Contains(ioq'.lock.waiters, u)
  BY <1>4, <1>7, <1>8, <1>18
<1>20. (ioq'.lock.waiters # << >> /\ ioq'.lock.value = 1)
         => \E u \in Threads : /\ pc'[u] \in {"getLock", "putLock"}
                               /\ sched'.status[u] \in {"READY", "RUNNING"}
  <2>1. CASE waiters = << >>
    BY <1>7, <2>1 DEF rest
  <2>2. CASE waiters # << >>
    BY <1>4, <1>9, <1>11, <1>12, <2>2
  <2> QED BY <2>1, <2>2
<1>21. /\ \A u \in Threads : AsleepAt(u, "getWait")' <=> ioq'.consumer = u
       /\ \A u \in Threads : AsleepAt(u, "putWait")' <=> ioq'.producer = u
  <2>1. ioq'.consumer = NoThread /\ ioq'.producer = ioq.producer
    BY <1>5
  <2> QED BY <1>18, <2>1, NoThreadAssumption DEF PipeInv, SleepersRecorded
<1> QED BY <1>11, <1>13, <1>14, <1>15, <1>16, <1>17, <1>19, <1>20, <1>21
        DEF PipeInv, SleepersRecorded

\* Code outside the pipe, with nobody awake inside it: who is asleep in the pipe
\* stays asleep, who was woken stays awake.
LEMMA OutsideStep ==
    ASSUME PipeInv, UNCHANGED <<ioq, pc, left, nextIn, nextOut>>,
           pc[sched.cur] = "user", SchedInv(sched'), sched'.halt = "no",
           \A u \in Threads : pc[u] # "user" =>
             IF sched.status[u] \in {"READY", "RUNNING"}
             THEN sched'.status[u] \in {"READY", "RUNNING"}
             ELSE sched'.status[u] = sched.status[u]
    PROVE  PipeInv'
<1>1. TypeOK'
  BY DEF PipeInv, TypeOK, SchedInv, SchedCore
<1>2. PlaceInv'
  BY DEF PipeInv, PlaceInv
<1>3. Length' = Length /\ Fifo'
  BY RingFrame DEF PipeInv
<1>4. CountInv' /\ LockInv'
  BY <1>3 DEF PipeInv, CountInv, LockInv
<1>5. \A u \in Threads : \A place \in Places \ {"user"} :
        AsleepAt(u, place)' <=> AsleepAt(u, place)
  BY DEF AsleepAt
<1>6. SleepersRecorded'
  <2>1. \A u \in Threads : /\ AsleepAt(u, "getWait")' <=> AsleepAt(u, "getWait")
                           /\ AsleepAt(u, "putWait")' <=> AsleepAt(u, "putWait")
                           /\ AsleepAt(u, "getLock")' <=> AsleepAt(u, "getLock")
                           /\ AsleepAt(u, "putLock")' <=> AsleepAt(u, "putLock")
    BY <1>5 DEF Places
  <2> QED BY <2>1 DEF PipeInv, SleepersRecorded
<1> QED BY <1>1, <1>2, <1>3, <1>4, <1>6 DEF PipeInv

LEMMA OthersInv == ASSUME PipeInv, Others PROVE PipeInv'
<1>1. /\ SchedInv(sched) /\ sched.halt = "no" /\ "BLOCKED" \in Sleeping
      /\ \A u \in Threads : pc[u] # "user" => u # Idle /\ sched.status[u] # "FREE"
  BY DEF PipeInv, PlaceInv, Sleeping
<1>2. CASE Tick
  <2>1. SchedInv(sched') /\ sched'.halt = "no" /\ Kept(sched, sched')
    BY <1>1, <1>2, TickFacts DEF Tick
  <2> QED BY <1>1, <1>2, <2>1, OutsideStep DEF Tick, InterruptsOn, Kept
<1>3. CASE IdleLoop
  <2>1. sched.cur = Idle /\ sched' = Block(sched, "BLOCKED")
    BY <1>3 DEF IdleLoop, At
  <2>2. SchedInv(sched') /\ sched'.halt = "no"
    BY <1>1, <2>1, BlockFacts
  <2>3. \A u \in Threads \ {Idle} :
          IF u = sched.cur THEN sched'.status[u] = "BLOCKED"
          ELSE IF sched.status[u] \in {"READY", "RUNNING"}
          THEN sched'.status[u] \in {"READY", "RUNNING"}
          ELSE sched'.status[u] = sched.status[u]
    BY <1>1, <2>1, BlockStatus
  <2> QED BY <1>1, <1>3, <2>1, <2>2, <2>3, OutsideStep DEF IdleLoop, At
<1>4. ASSUME NEW t \in Threads, NEW p \in Pids, Fork(t, p) PROVE PipeInv'
  <2>1. /\ sched' = ThreadStart(sched, t, p) /\ sched.status[t] = "FREE"
        /\ p \in Pids \ sched.pids
    BY <1>4 DEF Fork, LowestFreePid
  <2>2. /\ SchedInv(sched') /\ sched'.halt = "no"
        /\ \A u \in Threads : sched'.status[u] =
                                IF u = t THEN "READY" ELSE sched.status[u]
    BY <1>1, <2>1, StartFacts
  <2> QED BY <1>1, <1>4, <2>1, <2>2, OutsideStep DEF Fork, At
<1> QED BY <1>2, <1>3, <1>4 DEF Others

-----------------------------------------------------------------------------
LEMMA InitInv == Init => PipeInv
<1> SUFFICES ASSUME Init PROVE PipeInv
  OBVIOUS
<1>1. SchedInv(sched) /\ sched.halt = "no"
  BY BootFacts DEF Init
<1>2. 0 \in Slots /\ 0 \in 0 .. CharCount - 1
  BY BufSizeAssumption DEF Slots, CharCount
<1>3. LockInit \in LockState
  BY NoThreadAssumption DEF LockInit, LockState
<1>4. ioq \in [lock : LockState, producer : Threads \cup {NoThread},
               consumer : Threads \cup {NoThread},
               buf : [Slots -> 0 .. CharCount - 1], head : Slots, tail : Slots]
  BY <1>2, <1>3 DEF Init, QueueInit
<1>5. /\ ioq.lock = LockInit /\ ioq.producer = NoThread /\ ioq.consumer = NoThread
      /\ ioq.head = 0 /\ ioq.tail = 0 /\ nextIn = 0 /\ nextOut = 0
      /\ \A t \in Threads : pc[t] = "user"
  BY DEF Init, QueueInit
<1>6. TypeOK
  BY <1>1, <1>2, <1>4 DEF Init, TypeOK, SchedInv, SchedCore, Places
<1>7. PlaceInv /\ CountInv
  BY <1>5 DEF PlaceInv, CountInv
<1>8. LockInv /\ SleepersRecorded
  <2>1. /\ LockInit.value = 1 /\ LockInit.holder = NoThread
        /\ LockInit.repeat = 0 /\ LockInit.waiters = << >>
    BY DEF LockInit
  <2>2. IsInjective(<< >>) /\ \A u : ~Contains(<< >>, u)
    BY DEF IsInjective, Contains
  <2> QED BY <1>5, <2>1, <2>2, NoThreadAssumption
          DEF LockInv, SleepersRecorded, AsleepAt
<1>9. Fifo
  <2>1. RingLength(0, 0) = 0 /\ CharCount \in Nat /\ CharCount > 0
    BY BufSizeAssumption DEF RingLength, CharCount
  <2>2. Mod(0, CharCount) = 0
    BY <2>1, Wrap
  <2>3. Holds(ioq.buf, 0, 0, 0, 0)
    BY <2>1, <2>2 DEF Holds
  <2> QED BY <1>5, <2>3, RingIs
<1> QED BY <1>1, <1>6, <1>7, <1>8, <1>9 DEF PipeInv

LEMMA StepInv == PipeInv /\ [Next]_vars => PipeInv'
<1> SUFFICES ASSUME PipeInv, [Next]_vars PROVE PipeInv'
  OBVIOUS
<1>1. ASSUME NEW t \in Threads, PutStep(t) PROVE PipeInv'
  BY <1>1, PutLockSleepInv, PutWaitInv, PutResumeInv, PutStoreInv DEF PutStep
<1>2. CASE UNCHANGED vars
  BY <1>2 DEF vars, PipeInv, TypeOK, PlaceInv, CountInv, LockInv, SleepersRecorded,
              AsleepAt, Fifo, Length
<1> QED
  BY <1>1, <1>2, PipeReadInv, PipeWriteInv, GetStepInv, OthersInv DEF Next

LEMMA SpecInv == Spec => []PipeInv
  BY InitInv, StepInv, PTL DEF Spec

\* No ASSERT fires under any order of readers, writers, ticks and forks: ioq_wait
\* finds its slot empty, wakeup a sleeper, lock_release the holder.
THEOREM NeverPanics == Spec => []NoPanic
<1>1. PipeInv => NoPanic
  BY DEF PipeInv, NoPanic
<1> QED BY <1>1, SpecInv, PTL

\* The ring holds what was written and not read yet, in order, for every size of
\* the ring and however readers and writers slept in between.
THEOREM PipeIsFifo == Spec => []Fifo
  BY SpecInv, PTL DEF PipeInv

\* A thread asleep in the pipe is where its wakeup will look for it, and a waiter
\* for the lock has an owner or a woken thread before it.
THEOREM SleepersAreRecorded == Spec => []SleepersRecorded
  BY SpecInv, PTL DEF PipeInv

\* A reader never sleeps in pipe_read, and a writer only with its last character.
THEOREM SleepsOnlyLast == Spec => []PipeSleeps
<1>1. PipeInv => PipeSleeps
  BY DEF PipeInv, PlaceInv, CountInv, PipeSleeps
<1> QED BY <1>1, SpecInv, PTL
=============================================================================
