--------------------------- MODULE ThreadOpsProofs ---------------------------
(***************************************************************************)
(* Each operation of the thread layer keeps SchedCore, and schedule turns  *)
(* it into SchedInv: no assertion of thread.c fails, whoever calls.  The   *)
(* modules built on ThreadOps cite these lemmas, one per call.  At the end,*)
(* what the calls of sync.c leave in a semaphore and in a lock.            *)
(***************************************************************************)
EXTENDS SyncOps, SequenceTheorems, TLAPS

-----------------------------------------------------------------------------
\* The kernel's lists as sequences

\* list_append adds its element to the list and nothing else.
LEMMA AppendFacts ==
    ASSUME NEW S, NEW list \in Seq(S), NEW e \in S
    PROVE  /\ Append(list, e) \in Seq(S)
           /\ Append(list, e) # << >>
           /\ \A t : Contains(Append(list, e), t) <=> Contains(list, t) \/ t = e
           /\ IsInjective(list) /\ ~Contains(list, e)
                => IsInjective(Append(list, e))
<1> DEFINE new == Append(list, e)
<1>1. /\ new \in Seq(S) /\ new # << >>
      /\ Len(new) = Len(list) + 1 /\ Len(list) \in Nat
      /\ \A i \in 1 .. Len(list) : new[i] = list[i]
      /\ new[Len(list) + 1] = e
  BY AppendProperties, LenProperties
<1>2. DOMAIN new = 1 .. Len(list) + 1 /\ DOMAIN list = 1 .. Len(list)
  BY <1>1, LenProperties
<1> HIDE DEF new
<1>3. \A t : Contains(new, t) <=> Contains(list, t) \/ t = e
  BY <1>1 DEF Contains
<1>4. ASSUME IsInjective(list), ~Contains(list, e) PROVE IsInjective(new)
  BY <1>1, <1>2, <1>4 DEF IsInjective, Contains
<1> QED BY <1>1, <1>3, <1>4 DEF new

\* list_push does too.
LEMMA ConsFacts ==
    ASSUME NEW S, NEW list \in Seq(S), NEW e \in S
    PROVE  /\ Cons(e, list) \in Seq(S)
           /\ Cons(e, list) # << >>
           /\ \A t : Contains(Cons(e, list), t) <=> Contains(list, t) \/ t = e
           /\ IsInjective(list) /\ ~Contains(list, e)
                => IsInjective(Cons(e, list))
<1> DEFINE new == Cons(e, list)
<1>0. <<e>> \in Seq(S) /\ Len(<<e>>) = 1 /\ <<e>>[1] = e
  OBVIOUS
<1>1. /\ new \in Seq(S)
      /\ Len(new) = Len(list) + 1 /\ Len(list) \in Nat
      /\ \A i \in 1 .. Len(list) + 1 :
           new[i] = IF i <= 1 THEN <<e>>[i] ELSE list[i - 1]
  BY <1>0, ConcatProperties, LenProperties DEF Cons
<1>2. DOMAIN new = 1 .. Len(list) + 1 /\ DOMAIN list = 1 .. Len(list)
  BY <1>1, LenProperties
<1> HIDE DEF new
<1>3. /\ new # << >>
      /\ new[1] = e
      /\ \A i \in 2 .. Len(list) + 1 : new[i] = list[i - 1]
      /\ \A i \in 1 .. Len(list) : new[i + 1] = list[i]
  BY <1>0, <1>1
<1>4. \A t : Contains(new, t) <=> Contains(list, t) \/ t = e
  <2> TAKE t
  <2>1. ASSUME NEW i \in 1 .. Len(list), list[i] = t PROVE Contains(new, t)
    BY <2>1, <1>1, <1>3, i + 1 \in 1 .. Len(new) DEF Contains
  <2>2. ASSUME t = e PROVE Contains(new, t)
    BY <2>2, <1>1, <1>3 DEF Contains
  <2>3. ASSUME NEW i \in 1 .. Len(new), new[i] = t
        PROVE  Contains(list, t) \/ t = e
    <3>1. CASE i = 1
      BY <3>1, <2>3, <1>3
    <3>2. CASE i # 1
      BY <3>2, <2>3, <1>1, <1>3, i - 1 \in 1 .. Len(list) DEF Contains
    <3> QED BY <3>1, <3>2
  <2> QED BY <2>1, <2>2, <2>3 DEF Contains
<1>5. ASSUME IsInjective(list), ~Contains(list, e) PROVE IsInjective(new)
  <2>1. SUFFICES ASSUME NEW a \in 1 .. Len(list) + 1,
                        NEW b \in 1 .. Len(list) + 1, new[a] = new[b]
                 PROVE  a = b
    BY <1>2 DEF IsInjective
  <2>2. ASSUME NEW i \in 2 .. Len(list) + 1 PROVE new[i] # e
    BY <1>1, <1>3, <1>5, i - 1 \in 1 .. Len(list) DEF Contains
  <2>3. CASE a = 1 \/ b = 1
    BY <2>1, <2>2, <2>3, <1>1, <1>3
  <2>4. CASE a # 1 /\ b # 1
    <3>1. /\ a - 1 \in 1 .. Len(list) /\ b - 1 \in 1 .. Len(list)
          /\ list[a - 1] = list[b - 1]
      BY <2>1, <2>4, <1>1, <1>3
    <3> QED BY <3>1, <1>1, <1>2, <1>5 DEF IsInjective
  <2> QED BY <2>3, <2>4
<1> QED BY <1>1, <1>3, <1>4, <1>5 DEF new

\* list_pop takes the first element out.
LEMMA PopFacts ==
    ASSUME NEW S, NEW list \in Seq(S), list # << >>
    PROVE  /\ Head(list) \in S
           /\ Tail(list) \in Seq(S)
           /\ Contains(list, Head(list))
           /\ IsInjective(list) =>
                /\ IsInjective(Tail(list))
                /\ \A t : Contains(Tail(list), t)
                            <=> Contains(list, t) /\ t # Head(list)
<1> DEFINE rest == Tail(list)
<1>1. /\ Head(list) \in S /\ rest \in Seq(S)
      /\ Len(rest) = Len(list) - 1
      /\ \A i \in 1 .. Len(rest) : rest[i] = list[i + 1]
      /\ Len(list) \in Nat /\ Len(list) > 0
      /\ Head(list) = list[1]
  BY HeadTailProperties, LenProperties, EmptySeq
<1>2. DOMAIN rest = 1 .. Len(list) - 1 /\ DOMAIN list = 1 .. Len(list)
  BY <1>1, LenProperties
<1> HIDE DEF rest
<1>3. Contains(list, Head(list))
  BY <1>1 DEF Contains
<1>4. ASSUME IsInjective(list) PROVE IsInjective(rest)
  <2>1. SUFFICES ASSUME NEW a \in 1 .. Len(list) - 1,
                        NEW b \in 1 .. Len(list) - 1, rest[a] = rest[b]
                 PROVE  a = b
    BY <1>2 DEF IsInjective
  <2>2. a + 1 \in DOMAIN list /\ b + 1 \in DOMAIN list
    BY <1>1, <1>2
  <2>3. list[a + 1] = list[b + 1]
    BY <2>1, <1>1
  <2>4. a + 1 = b + 1
    BY <2>2, <2>3, <1>4 DEF IsInjective
  <2> QED BY <2>4
<1>5. ASSUME IsInjective(list), NEW t
      PROVE  Contains(rest, t) <=> Contains(list, t) /\ t # Head(list)
  <2>1. ASSUME NEW i \in 1 .. Len(rest), rest[i] = t
        PROVE  Contains(list, t) /\ t # Head(list)
    BY <2>1, <1>1, <1>2, <1>5, i + 1 \in 1 .. Len(list) DEF Contains, IsInjective
  <2>2. ASSUME NEW i \in 1 .. Len(list), list[i] = t, t # Head(list)
        PROVE  Contains(rest, t)
    <3>1. i - 1 \in 1 .. Len(rest) /\ (i - 1) + 1 = i
      BY <2>2, <1>1
    <3>2. rest[i - 1] = t
      BY <3>1, <2>2, <1>1
    <3> QED BY <3>1, <3>2 DEF Contains
  <2> QED BY <2>1, <2>2 DEF Contains
<1> QED BY <1>1, <1>3, <1>4, <1>5 DEF rest

\* list_remove takes its element out and moves what follows up by one.
LEMMA RemovePositions ==
    ASSUME NEW S, NEW list \in Seq(S), NEW e, Contains(list, e)
    PROVE  /\ ListRemove(list, e) \in Seq(S)
           /\ Len(ListRemove(list, e)) = Len(list) - 1
           /\ \E k \in 1 .. Len(list) :
                /\ list[k] = e
                /\ \A i \in 1 .. Len(list) - 1 : ListRemove(list, e)[i] =
                     IF i < k THEN list[i] ELSE list[i + 1]
<1> DEFINE new == ListRemove(list, e)
           k == CHOOSE i \in DOMAIN list : list[i] = e
           n == Len(list)
<1>1. n \in Nat /\ DOMAIN list = 1 .. n /\ list \in [1 .. n -> S]
  BY LenProperties
<1>2. k \in 1 .. n /\ list[k] = e
  BY <1>1 DEF Contains
<1> HIDE DEF k, n
<1>3. new = SubSeq(list, 1, k - 1) \o SubSeq(list, k + 1, n)
  BY DEF ListRemove, RemoveAt, k, n
<1>4. /\ SubSeq(list, 1, k - 1) \in Seq(S)
      /\ Len(SubSeq(list, 1, k - 1)) = k - 1
      /\ \A i \in 1 .. k - 1 : SubSeq(list, 1, k - 1)[i] = list[i]
  <2>1. k - 1 \in Int /\ \A i \in 1 .. k - 1 : list[i] \in S
    BY <1>1, <1>2
  <2> QED BY <1>1, <1>2, <2>1, SubSeqProperties
<1>5. /\ SubSeq(list, k + 1, n) \in Seq(S)
      /\ Len(SubSeq(list, k + 1, n)) = n - k
      /\ \A i \in 1 .. n - k : SubSeq(list, k + 1, n)[i] = list[k + i]
  <2>1. k + 1 \in Int /\ n \in Int /\ \A i \in k + 1 .. n : list[i] \in S
    BY <1>1, <1>2
  <2>2. /\ SubSeq(list, k + 1, n) \in Seq(S)
        /\ Len(SubSeq(list, k + 1, n)) =
             IF k + 1 <= n THEN n - (k + 1) + 1 ELSE 0
        /\ \A i \in 1 .. n - (k + 1) + 1 :
             SubSeq(list, k + 1, n)[i] = list[(k + 1) + i - 1]
    BY <2>1, SubSeqProperties
  <2> QED BY <1>1, <1>2, <2>2
<1> HIDE DEF new
<1>6. /\ new \in Seq(S)
      /\ Len(new) = n - 1
      /\ \A i \in 1 .. n - 1 : new[i] = IF i < k THEN list[i] ELSE list[i + 1]
  <2>1. /\ new \in Seq(S)
        /\ Len(new) = (k - 1) + (n - k)
        /\ \A i \in 1 .. (k - 1) + (n - k) : new[i] =
             IF i <= k - 1 THEN SubSeq(list, 1, k - 1)[i]
             ELSE SubSeq(list, k + 1, n)[i - (k - 1)]
    <3> DEFINE p == SubSeq(list, 1, k - 1)
               q == SubSeq(list, k + 1, n)
    <3>1. p \in Seq(S) /\ q \in Seq(S) /\ new = p \o q
      BY <1>3, <1>4, <1>5
    <3>2. Len(p) = k - 1 /\ Len(q) = n - k
      BY <1>4, <1>5
    <3> HIDE DEF p, q
    <3>3. /\ p \o q \in Seq(S)
          /\ Len(p \o q) = Len(p) + Len(q)
          /\ \A i \in 1 .. Len(p) + Len(q) :
               (p \o q)[i] = IF i <= Len(p) THEN p[i] ELSE q[i - Len(p)]
      BY <3>1, ConcatProperties
    <3>4. /\ new \in Seq(S)
          /\ Len(new) = (k - 1) + (n - k)
          /\ \A i \in 1 .. (k - 1) + (n - k) :
               new[i] = IF i <= k - 1 THEN p[i] ELSE q[i - (k - 1)]
      BY <3>1, <3>2, <3>3
    <3> QED BY <3>4 DEF p, q
  <2> QED BY <1>1, <1>2, <1>4, <1>5, <2>1
<1> QED BY <1>2, <1>6 DEF new, n

\* The element is gone, wherever it was, and nothing else is.
LEMMA RemoveFacts ==
    ASSUME NEW S, NEW list \in Seq(S), NEW e, Contains(list, e),
           IsInjective(list)
    PROVE  /\ ListRemove(list, e) \in Seq(S)
           /\ IsInjective(ListRemove(list, e))
           /\ \A t : Contains(ListRemove(list, e), t)
                       <=> Contains(list, t) /\ t # e
<1> DEFINE new == ListRemove(list, e)
           n == Len(list)
<1>1. n \in Nat /\ DOMAIN list = 1 .. n /\ list \in [1 .. n -> S]
  BY LenProperties
<1> HIDE DEF new, n
<1>2. new \in Seq(S) /\ Len(new) = n - 1
  BY RemovePositions DEF new, n
<1>3. PICK k \in 1 .. n :
        /\ list[k] = e
        /\ \A i \in 1 .. n - 1 : new[i] = IF i < k THEN list[i] ELSE list[i + 1]
  BY RemovePositions DEF new, n
<1>4. DOMAIN new = 1 .. n - 1
  BY <1>2, LenProperties
<1>5. IsInjective(new)
  BY <1>1, <1>3, <1>4 DEF IsInjective
<1>6. ASSUME NEW t PROVE Contains(new, t) <=> Contains(list, t) /\ t # e
  <2>1. ASSUME NEW i \in 1 .. n - 1, new[i] = t
        PROVE  Contains(list, t) /\ t # e
    BY <2>1, <1>1, <1>3 DEF Contains, IsInjective, n
  <2>2. ASSUME NEW i \in 1 .. n, list[i] = t, t # e
        PROVE  Contains(new, t)
    <3>1. CASE i < k
      BY <3>1, <2>2, <1>1, <1>2, <1>3, i \in 1 .. n - 1 DEF Contains
    <3>2. CASE i > k
      <4>1. i - 1 \in 1 .. n - 1 /\ ~(i - 1 < k) /\ (i - 1) + 1 = i
        BY <3>2, <1>1
      <4>2. new[i - 1] = t
        BY <4>1, <2>2, <1>3
      <4> QED BY <4>1, <4>2, <1>2 DEF Contains
    <3> QED BY <3>1, <3>2, <2>2, <1>1, <1>3
  <2> QED BY <2>1, <2>2, <1>2 DEF Contains, n
<1> QED BY <1>2, <1>5, <1>6 DEF new

-----------------------------------------------------------------------------
\* The operations.  Each lemma gives the fields of the result, then what of
\* SchedCore and SchedInv it has.

\* The parts of SchedCore that look only at who is alive.
LEMMA AliveFrame ==
    ASSUME NEW s, NEW n, Alive(n) = Alive(s),
           n.all = s.all, n.pid = s.pid, n.pids = s.pids
    PROVE  /\ AllExact(s) => AllExact(n)
           /\ PidExact(s) => PidExact(n)
  BY DEF AllExact, PidExact

\* thread_unblock of a sleeper passes its assertions.
LEMMA UnblockFacts ==
    ASSUME NEW s, SchedCore(s), NEW t \in Threads, s.status[t] \in Sleeping
    PROVE  /\ SchedCore(Unblock(s, t))
           /\ Unblock(s, t).cur = s.cur
           /\ Unblock(s, t).ready # << >>
           /\ Unblock(s, t).status = [s.status EXCEPT ![t] = "READY"]
           /\ Unblock(s, t).halt = s.halt
           /\ Unblock(s, t).all = s.all
           /\ Unblock(s, t).pid = s.pid
<1> DEFINE n == Unblock(s, t)
<1>1. s \in SchedState /\ ~Contains(s.ready, t)
  BY DEF SchedCore, ReadyExact, Sleeping
<1>2. n = [s EXCEPT !.ready = Cons(t, s.ready), !.status[t] = "READY"]
  BY <1>1 DEF Unblock
<1>3. /\ Cons(t, s.ready) \in Seq(Threads)
      /\ Cons(t, s.ready) # << >>
      /\ \A u : Contains(Cons(t, s.ready), u) <=> Contains(s.ready, u) \/ u = t
      /\ IsInjective(Cons(t, s.ready))
  BY <1>1, ConsFacts DEF SchedState, SchedCore, ReadyExact
<1>4. /\ n.cur = s.cur /\ n.ready = Cons(t, s.ready) /\ n.all = s.all
      /\ n.status = [s.status EXCEPT ![t] = "READY"]
      /\ n.ticks = s.ticks /\ n.pid = s.pid /\ n.pids = s.pids
      /\ n.halt = s.halt
  BY <1>1, <1>2 DEF SchedState
<1>5. n \in SchedState
  <2>1. n = [cur |-> s.cur, ready |-> Cons(t, s.ready), all |-> s.all,
             status |-> [s.status EXCEPT ![t] = "READY"], ticks |-> s.ticks,
             pid |-> s.pid, pids |-> s.pids, halt |-> s.halt]
    BY <1>1, <1>2 DEF SchedState
  <2>2. [s.status EXCEPT ![t] = "READY"] \in [Threads -> Statuses]
    BY <1>1 DEF SchedState, Statuses
  <2> QED BY <1>1, <1>3, <2>1, <2>2 DEF SchedState
<1> HIDE DEF n
<1>6. Alive(n) = Alive(s)
  BY <1>1, <1>4 DEF Alive, Exists, Sleeping, SchedState
<1>7. ReadyExact(n)
  BY <1>1, <1>3, <1>4 DEF ReadyExact, SchedCore, SchedState
<1>8. AllExact(n) /\ PidExact(n)
  BY <1>4, <1>6, AliveFrame DEF SchedCore
<1>9. /\ IdleExact(n) /\ DiedExact(n)
      /\ \A u \in Threads : n.status[u] = "RUNNING" => u = n.cur
  BY <1>1, <1>4, ThreadsAssumption
     DEF IdleExact, DiedExact, SchedCore, SchedState
<1>10. SchedCore(n)
  BY <1>4, <1>5, <1>7, <1>8, <1>9 DEF SchedCore
<1> QED BY <1>3, <1>4, <1>10 DEF n

\* The same for a caller on the processor: it stays there.
LEMMA WakeFacts ==
    ASSUME NEW s, SchedInv(s), NEW t \in Threads, s.status[t] \in Sleeping
    PROVE  /\ SchedInv(Unblock(s, t))
           /\ Unblock(s, t).cur = s.cur
           /\ Unblock(s, t).halt = s.halt
           /\ Unblock(s, t).all = s.all
           /\ Unblock(s, t).pid = s.pid
           /\ \A u \in Threads : Unblock(s, t).status[u] =
                                   IF u = t THEN "READY" ELSE s.status[u]
<1> DEFINE n == Unblock(s, t)
<1>1. /\ SchedCore(s) /\ s.cur \in Threads /\ s.status[s.cur] = "RUNNING"
      /\ s.status \in [Threads -> Statuses]
  BY DEF SchedInv, SchedCore, SchedState
<1>2. /\ SchedCore(n) /\ n.cur = s.cur /\ n.halt = s.halt
      /\ n.all = s.all /\ n.pid = s.pid
      /\ n.status = [s.status EXCEPT ![t] = "READY"]
  BY <1>1, UnblockFacts
<1> HIDE DEF n
<1>3. \A u \in Threads : n.status[u] = IF u = t THEN "READY" ELSE s.status[u]
  BY <1>1, <1>2
<1>4. s.cur # t
  BY <1>1 DEF Sleeping
<1>5. SchedInv(n)
  BY <1>1, <1>2, <1>3, <1>4 DEF SchedInv
<1> QED BY <1>2, <1>3, <1>5 DEF n

\* The first half of schedule leaves nobody RUNNING.
LEMMA RequeueFacts ==
    ASSUME NEW s, SchedCore(s)
    PROVE  /\ SchedCore(Requeue(s))
           /\ \A u \in Threads : Requeue(s).status[u] # "RUNNING"
           /\ Requeue(s).cur = s.cur
           /\ Requeue(s).halt = s.halt
           /\ Requeue(s).all = s.all
           /\ Requeue(s).pid = s.pid
           /\ \A u \in Threads :
                Requeue(s).status[u] = IF s.status[u] = "RUNNING" THEN "READY"
                                       ELSE s.status[u]
           /\ Requeue(s).ready = IF s.status[s.cur] = "RUNNING"
                                 THEN Append(s.ready, s.cur) ELSE s.ready
<1> DEFINE n == Requeue(s)
<1>1. s \in SchedState /\ s.cur \in Threads /\ s.status \in [Threads -> Statuses]
  BY DEF SchedCore, SchedState
<1>2. CASE s.status[s.cur] # "RUNNING"
  <2>1. n = s
    BY <1>2 DEF Requeue
  <2> QED BY <1>2, <2>1 DEF SchedCore
<1>3. CASE s.status[s.cur] = "RUNNING"
  <2> DEFINE new == Append(s.ready, s.cur)
             stats == [s.status EXCEPT ![s.cur] = "READY"]
             slices == [s.ticks EXCEPT ![s.cur] = Prio[s.cur]]
  <2>1. ~Contains(s.ready, s.cur)
    BY <1>1, <1>3 DEF SchedCore, ReadyExact
  <2>2. /\ new \in Seq(Threads) /\ IsInjective(new)
        /\ \A u : Contains(new, u) <=> Contains(s.ready, u) \/ u = s.cur
    BY <1>1, <2>1, AppendFacts DEF SchedCore, ReadyExact, SchedState
  <2>3. stats \in [Threads -> Statuses] /\ slices \in [Threads -> Nat]
    BY <1>1, PrioAssumption DEF Statuses, SchedState
  <2>4. n = [cur |-> s.cur, ready |-> new, all |-> s.all, status |-> stats,
             ticks |-> slices, pid |-> s.pid, pids |-> s.pids, halt |-> s.halt]
    BY <1>1, <1>3, <2>1 DEF Requeue, SchedState
  <2> HIDE DEF n, new, slices
  <2>5. n \in SchedState
    BY <1>1, <2>2, <2>3, <2>4 DEF SchedState
  <2>6. \A u \in Threads :
          n.status[u] = IF s.status[u] = "RUNNING" THEN "READY" ELSE s.status[u]
    BY <1>1, <1>3, <2>4 DEF SchedCore
  <2>7. Alive(n) = Alive(s)
    BY <2>6 DEF Alive, Exists
  <2>8. ReadyExact(n)
    BY <1>1, <1>3, <2>2, <2>4, <2>6 DEF ReadyExact, SchedCore
  <2>9. AllExact(n) /\ PidExact(n)
    BY <2>4, <2>7, AliveFrame DEF SchedCore
  <2>10. IdleExact(n) /\ DiedExact(n)
    BY <2>6, ThreadsAssumption DEF IdleExact, DiedExact, SchedCore
  <2>11. SchedCore(n)
    BY <2>4, <2>5, <2>6, <2>8, <2>9, <2>10 DEF SchedCore
  <2> QED BY <1>3, <2>4, <2>6, <2>11 DEF n, new
<1> QED BY <1>2, <1>3

\* With the ready list empty and nobody RUNNING, idle is asleep: schedule wakes
\* it without failing thread_unblock's assertion.
LEMMA WakeIdleFacts ==
    ASSUME NEW s, SchedCore(s), \A u \in Threads : s.status[u] # "RUNNING"
    PROVE  /\ SchedCore(WakeIdle(s))
           /\ WakeIdle(s).ready # << >>
           /\ \A u \in Threads : WakeIdle(s).status[u] # "RUNNING"
           /\ WakeIdle(s).cur = s.cur
           /\ WakeIdle(s).halt = s.halt
           /\ WakeIdle(s).all = s.all
           /\ WakeIdle(s).pid = s.pid
           /\ \A u \in Threads :
                \/ WakeIdle(s).status[u] = s.status[u]
                \/ u = Idle /\ WakeIdle(s).status[u] = "READY"
<1>1. CASE s.ready # << >>
  BY <1>1 DEF WakeIdle
<1>2. CASE s.ready = << >>
  <2>1. s.status[Idle] = "BLOCKED"
    <3>1. ~Contains(s.ready, Idle)
      BY <1>2 DEF Contains
    <3> QED BY <3>1, ThreadsAssumption DEF SchedCore, ReadyExact, IdleExact
  <2>2. s.status \in [Threads -> Statuses] /\ Idle \in Threads
    BY ThreadsAssumption DEF SchedCore, SchedState
  <2>3. WakeIdle(s) = Unblock(s, Idle)
    BY <1>2 DEF WakeIdle
  <2> DEFINE n == Unblock(s, Idle)
  <2>4. /\ SchedCore(n) /\ n.ready # << >> /\ n.cur = s.cur /\ n.halt = s.halt
        /\ n.all = s.all /\ n.pid = s.pid
        /\ n.status = [s.status EXCEPT ![Idle] = "READY"]
    BY <2>1, <2>2, UnblockFacts DEF Sleeping
  <2> HIDE DEF n
  <2>5. \A u \in Threads :
          n.status[u] = IF u = Idle THEN "READY" ELSE s.status[u]
    BY <2>2, <2>4
  <2> QED BY <2>3, <2>4, <2>5 DEF n
<1> QED BY <1>1, <1>2

\* The second half of schedule gives the processor to the head of the list.
LEMMA DispatchFacts ==
    ASSUME NEW s, SchedCore(s), s.ready # << >>,
           \A u \in Threads : s.status[u] # "RUNNING"
    PROVE  /\ SchedInv(Dispatch(s))
           /\ Dispatch(s).halt = s.halt
           /\ Dispatch(s).all = s.all
           /\ Dispatch(s).pid = s.pid
           /\ \A u \in Threads :
                \/ Dispatch(s).status[u] = s.status[u]
                \/ s.status[u] = "READY" /\ Dispatch(s).status[u] = "RUNNING"
<1> DEFINE n == Dispatch(s)
           next == Head(s.ready)
           stats == [s.status EXCEPT ![next] = "RUNNING"]
<1>1. s \in SchedState /\ s.status \in [Threads -> Statuses]
  BY DEF SchedCore, SchedState
<1>2. /\ next \in Threads /\ Tail(s.ready) \in Seq(Threads)
      /\ IsInjective(Tail(s.ready)) /\ Contains(s.ready, next)
      /\ \A u : Contains(Tail(s.ready), u) <=> Contains(s.ready, u) /\ u # next
  BY <1>1, PopFacts DEF SchedCore, ReadyExact, SchedState
<1>3. s.status[next] = "READY"
  BY <1>2 DEF SchedCore, ReadyExact
<1>4. n = [cur |-> next, ready |-> Tail(s.ready), all |-> s.all,
           status |-> stats, ticks |-> s.ticks, pid |-> s.pid,
           pids |-> s.pids, halt |-> s.halt]
  BY <1>1 DEF Dispatch, SchedState
<1>5. stats \in [Threads -> Statuses]
  BY <1>1 DEF Statuses
<1> HIDE DEF n, next
<1>6. n \in SchedState
  BY <1>1, <1>2, <1>4, <1>5 DEF SchedState
<1>7. \A u \in Threads :
        n.status[u] = IF u = next THEN "RUNNING" ELSE s.status[u]
  BY <1>1, <1>4
<1>8. Alive(n) = Alive(s)
  BY <1>3, <1>7 DEF Alive, Exists
<1>9. ReadyExact(n)
  BY <1>2, <1>4, <1>7 DEF ReadyExact, SchedCore
<1>10. AllExact(n) /\ PidExact(n)
  BY <1>4, <1>8, AliveFrame DEF SchedCore
<1>11. IdleExact(n) /\ DiedExact(n)
  BY <1>7, ThreadsAssumption DEF IdleExact, DiedExact, SchedCore
<1>12. SchedInv(n)
  BY <1>2, <1>4, <1>6, <1>7, <1>9, <1>10, <1>11 DEF SchedInv, SchedCore
<1> QED BY <1>3, <1>4, <1>7, <1>12 DEF n

\* n comes from s by scheduling alone: the lists of threads and the pids are the
\* same, and but for idle nobody goes to sleep, wakes up, is born or dies.
Kept(s, n) ==
    /\ n.all = s.all
    /\ n.pid = s.pid
    /\ \A u \in Threads :
         IF s.status[u] \in {"READY", "RUNNING"}
         THEN n.status[u] \in {"READY", "RUNNING"}
         ELSE u # Idle => n.status[u] = s.status[u]

\* schedule, called in any state SchedCore allows, fails no assertion and leaves
\* exactly the chosen thread RUNNING.
LEMMA ScheduleFacts ==
    ASSUME NEW s, SchedCore(s), s.halt = "no"
    PROVE  /\ SchedInv(Schedule(s))
           /\ Schedule(s).halt = "no"
           /\ Kept(s, Schedule(s))
<1> DEFINE a == Requeue(s)
           b == WakeIdle(a)
           n == Dispatch(b)
<1>1. /\ SchedCore(a) /\ a.halt = "no" /\ a.all = s.all /\ a.pid = s.pid
      /\ \A u \in Threads : a.status[u] # "RUNNING"
      /\ \A u \in Threads :
           a.status[u] = IF s.status[u] = "RUNNING" THEN "READY" ELSE s.status[u]
  BY RequeueFacts
<1> HIDE DEF a
<1>2. /\ SchedCore(b) /\ b.halt = "no" /\ b.all = s.all /\ b.pid = s.pid
      /\ b.ready # << >>
      /\ \A u \in Threads : b.status[u] # "RUNNING"
      /\ \A u \in Threads : \/ b.status[u] = a.status[u]
                            \/ u = Idle /\ b.status[u] = "READY"
  BY <1>1, WakeIdleFacts
<1> HIDE DEF b
<1>3. /\ SchedInv(n) /\ n.halt = "no" /\ n.all = s.all /\ n.pid = s.pid
      /\ \A u \in Threads :
           \/ n.status[u] = b.status[u]
           \/ b.status[u] = "READY" /\ n.status[u] = "RUNNING"
  BY <1>2, DispatchFacts
<1>4. Schedule(s) = n
  BY <1>1, <1>2 DEF Schedule, a, b
<1> HIDE DEF n
<1>5. Kept(s, n)
  BY <1>1, <1>2, <1>3 DEF Kept
<1> QED BY <1>3, <1>4, <1>5

\* A change of one thread's status that keeps SchedCore: it is not queued before
\* or after, stays alive, and idle only ever sleeps BLOCKED.
LEMMA StatusFacts ==
    ASSUME NEW s, SchedCore(s), NEW t \in Threads, NEW stat \in Sleeping,
           s.status[t] = "RUNNING", t = Idle => stat = "BLOCKED"
    PROVE  /\ SchedCore([s EXCEPT !.status[t] = stat])
           /\ [s EXCEPT !.status[t] = stat].halt = s.halt
           /\ [s EXCEPT !.status[t] = stat].all = s.all
           /\ [s EXCEPT !.status[t] = stat].pid = s.pid
           /\ [s EXCEPT !.status[t] = stat].cur = s.cur
           /\ \A u \in Threads : [s EXCEPT !.status[t] = stat].status[u] =
                                   IF u = t THEN stat ELSE s.status[u]
<1> DEFINE n == [s EXCEPT !.status[t] = stat]
           stats == [s.status EXCEPT ![t] = stat]
<1>1. s \in SchedState /\ s.status \in [Threads -> Statuses]
  BY DEF SchedCore, SchedState
<1>2. n = [cur |-> s.cur, ready |-> s.ready, all |-> s.all, status |-> stats,
           ticks |-> s.ticks, pid |-> s.pid, pids |-> s.pids, halt |-> s.halt]
  <2>1. n = [s EXCEPT !.status = stats]
    OBVIOUS
  <2> HIDE DEF stats, n
  <2> QED BY <1>1, <2>1 DEF SchedState
<1>3. stats \in [Threads -> Statuses]
  BY <1>1 DEF Statuses, Sleeping
<1> HIDE DEF n
<1>4. n \in SchedState
  BY <1>1, <1>2, <1>3 DEF SchedState
<1>5. \A u \in Threads : n.status[u] = IF u = t THEN stat ELSE s.status[u]
  BY <1>1, <1>2
<1>6. Alive(n) = Alive(s)
  BY <1>5 DEF Alive, Exists, Sleeping
<1>7. ReadyExact(n)
  BY <1>2, <1>5 DEF ReadyExact, SchedCore, Sleeping
<1>8. AllExact(n) /\ PidExact(n)
  BY <1>2, <1>6, AliveFrame DEF SchedCore
<1>9. /\ IdleExact(n) /\ DiedExact(n)
      /\ \A u \in Threads : n.status[u] = "RUNNING" => u = n.cur
  BY <1>2, <1>5, ThreadsAssumption DEF IdleExact, DiedExact, SchedCore, Sleeping
<1>10. SchedCore(n)
  BY <1>2, <1>4, <1>7, <1>8, <1>9 DEF SchedCore
<1> QED BY <1>2, <1>5, <1>10 DEF n

\* thread_block.
LEMMA BlockFacts ==
    ASSUME NEW s, SchedInv(s), s.halt = "no", NEW stat \in Sleeping,
           s.cur = Idle => stat = "BLOCKED"
    PROVE  /\ SchedInv(Block(s, stat))
           /\ Block(s, stat).halt = "no"
           /\ Kept([s EXCEPT !.status[s.cur] = stat], Block(s, stat))
<1>1. s.cur \in Threads /\ s.status[s.cur] = "RUNNING" /\ SchedCore(s)
  BY DEF SchedInv, SchedCore, SchedState
<1>2. /\ SchedCore([s EXCEPT !.status[s.cur] = stat])
      /\ [s EXCEPT !.status[s.cur] = stat].halt = "no"
  BY <1>1, StatusFacts
<1>3. Block(s, stat) = Schedule([s EXCEPT !.status[s.cur] = stat])
  BY DEF Block
<1> QED BY <1>2, <1>3, ScheduleFacts

\* What a caller of thread_block sees of the others.
LEMMA BlockStatus ==
    ASSUME NEW s, SchedInv(s), s.halt = "no", NEW stat \in Sleeping,
           s.cur = Idle => stat = "BLOCKED"
    PROVE  \A u \in Threads \ {Idle} :
             IF u = s.cur THEN Block(s, stat).status[u] = stat
             ELSE IF s.status[u] \in {"READY", "RUNNING"}
             THEN Block(s, stat).status[u] \in {"READY", "RUNNING"}
             ELSE Block(s, stat).status[u] = s.status[u]
<1> DEFINE m == [s EXCEPT !.status[s.cur] = stat]
           n == Block(s, stat)
<1>1. s.cur \in Threads /\ s.status[s.cur] = "RUNNING" /\ SchedCore(s)
  BY DEF SchedInv, SchedCore, SchedState
<1>2. \A u \in Threads : m.status[u] = IF u = s.cur THEN stat ELSE s.status[u]
  BY <1>1, StatusFacts
<1>3. Kept(m, n)
  BY BlockFacts
<1> HIDE DEF m, n
<1> QED BY <1>2, <1>3 DEF Kept, Sleeping, n

\* intr_timer_handler.
LEMMA TickFacts ==
    ASSUME NEW s, SchedInv(s), s.halt = "no"
    PROVE  /\ SchedInv(TimerTick(s))
           /\ TimerTick(s).halt = "no"
           /\ Kept(s, TimerTick(s))
<1> DEFINE n == TimerTick(s)
<1>1. SchedCore(s) /\ s \in SchedState /\ s.cur \in Threads
  BY DEF SchedInv, SchedCore, SchedState
<1>2. CASE s.ticks[s.cur] = 0
  BY <1>1, <1>2, ScheduleFacts DEF TimerTick
<1>3. CASE s.ticks[s.cur] # 0
  <2> DEFINE slices == [s.ticks EXCEPT ![s.cur] = @ - 1]
  <2>1. n = [cur |-> s.cur, ready |-> s.ready, all |-> s.all,
             status |-> s.status, ticks |-> slices, pid |-> s.pid,
             pids |-> s.pids, halt |-> s.halt]
    BY <1>1, <1>3 DEF TimerTick, SchedState
  <2>2. slices \in [Threads -> Nat]
    BY <1>1, <1>3 DEF SchedState
  <2> HIDE DEF n, slices
  <2>3. n \in SchedState
    BY <1>1, <2>1, <2>2 DEF SchedState
  <2>4. Alive(n) = Alive(s)
    BY <2>1 DEF Alive, Exists
  <2>5. AllExact(n) /\ PidExact(n)
    BY <1>1, <2>1, <2>4, AliveFrame DEF SchedCore
  <2>6. ReadyExact(n) /\ IdleExact(n) /\ DiedExact(n)
    BY <1>1, <2>1 DEF SchedCore, ReadyExact, IdleExact, DiedExact
  <2>7. SchedInv(n)
    BY <1>1, <2>1, <2>3, <2>5, <2>6 DEF SchedInv, SchedCore
  <2>8. Kept(s, n)
    BY <2>1 DEF Kept
  <2> QED BY <2>1, <2>7, <2>8 DEF n
<1> QED BY <1>2, <1>3

\* thread_yield up to its call of schedule.
Yielding(s) ==
    [s EXCEPT !.ready = Append(s.ready, s.cur), !.status[s.cur] = "READY"]

LEMMA YieldingFacts ==
    ASSUME NEW s, SchedInv(s), s.halt = "no"
    PROVE  /\ Yield(s) = Schedule(Yielding(s))
           /\ SchedCore(Yielding(s))
           /\ Yielding(s).halt = "no"
           /\ Yielding(s).ready = Append(s.ready, s.cur)
           /\ Yielding(s).all = s.all
           /\ Yielding(s).pid = s.pid
           /\ \A u \in Threads : Yielding(s).status[u] =
                                   IF u = s.cur THEN "READY" ELSE s.status[u]
<1> DEFINE new == Append(s.ready, s.cur)
           stats == [s.status EXCEPT ![s.cur] = "READY"]
           m == Yielding(s)
<1>1. /\ SchedCore(s) /\ s \in SchedState /\ s.cur \in Threads
      /\ s.status[s.cur] = "RUNNING" /\ s.status \in [Threads -> Statuses]
  BY DEF SchedInv, SchedCore, SchedState
<1>2. ~Contains(s.ready, s.cur)
  BY <1>1 DEF SchedCore, ReadyExact
<1>3. /\ new \in Seq(Threads) /\ IsInjective(new)
      /\ \A u : Contains(new, u) <=> Contains(s.ready, u) \/ u = s.cur
  BY <1>1, <1>2, AppendFacts DEF SchedCore, ReadyExact, SchedState
<1>4. stats \in [Threads -> Statuses]
  BY <1>1 DEF Statuses
<1>5. m = [cur |-> s.cur, ready |-> new, all |-> s.all, status |-> stats,
           ticks |-> s.ticks, pid |-> s.pid, pids |-> s.pids, halt |-> s.halt]
  <2>1. m = [s EXCEPT !.ready = new, !.status = stats]
    BY DEF Yielding
  <2> HIDE DEF m, new, stats
  <2> QED BY <1>1, <2>1 DEF SchedState
<1>6. Yield(s) = Schedule(m)
  BY <1>2 DEF Yield, Yielding
<1> HIDE DEF m, new
<1>7. m \in SchedState
  BY <1>1, <1>3, <1>4, <1>5 DEF SchedState
<1>8. \A u \in Threads :
        m.status[u] = IF u = s.cur THEN "READY" ELSE s.status[u]
  BY <1>1, <1>5
<1>9. Alive(m) = Alive(s)
  BY <1>1, <1>8 DEF Alive, Exists
<1>10. AllExact(m) /\ PidExact(m)
  BY <1>1, <1>5, <1>9, AliveFrame DEF SchedCore
<1>11. /\ ReadyExact(m) /\ IdleExact(m) /\ DiedExact(m)
       /\ \A u \in Threads : m.status[u] = "RUNNING" => u = m.cur
  BY <1>1, <1>3, <1>5, <1>8, ThreadsAssumption
     DEF SchedCore, ReadyExact, IdleExact, DiedExact
<1>12. SchedCore(m) /\ m.halt = "no"
  BY <1>1, <1>5, <1>7, <1>10, <1>11 DEF SchedCore
<1> QED BY <1>5, <1>6, <1>8, <1>12 DEF m, new

LEMMA YieldFacts ==
    ASSUME NEW s, SchedInv(s), s.halt = "no"
    PROVE  /\ SchedInv(Yield(s))
           /\ Yield(s).halt = "no"
           /\ Kept(s, Yield(s))
<1>1. s.cur \in Threads /\ s.status[s.cur] = "RUNNING"
  BY DEF SchedInv, SchedCore, SchedState
<1>2. /\ SchedInv(Yield(s)) /\ Yield(s).halt = "no"
      /\ Kept(Yielding(s), Yield(s))
  BY YieldingFacts, ScheduleFacts
<1>3. Kept(s, Yield(s))
  BY <1>1, <1>2, YieldingFacts DEF Kept
<1> QED BY <1>2, <1>3

\* thread_start, process_execute, sys_fork: the assertions that the new thread
\* is in neither list hold.
LEMMA StartFacts ==
    ASSUME NEW s, SchedInv(s), NEW t \in Threads, s.status[t] = "FREE",
           NEW p \in Pids \ s.pids
    PROVE  /\ SchedInv(ThreadStart(s, t, p))
           /\ ThreadStart(s, t, p).cur = s.cur
           /\ ThreadStart(s, t, p).halt = s.halt
           /\ \A u \in Threads : ThreadStart(s, t, p).status[u] =
                                   IF u = t THEN "READY" ELSE s.status[u]
           /\ \A u \in Threads : ThreadStart(s, t, p).pid[u] =
                                   IF u = t THEN p ELSE s.pid[u]
<1> DEFINE n == ThreadStart(s, t, p)
           ready == Append(s.ready, t)
           all == Append(s.all, t)
           stats == [s.status EXCEPT ![t] = "READY"]
           slices == [s.ticks EXCEPT ![t] = Prio[t]]
           pid == [s.pid EXCEPT ![t] = p]
<1>1. /\ SchedCore(s) /\ s \in SchedState /\ s.cur \in Threads
      /\ s.status[s.cur] = "RUNNING" /\ s.status \in [Threads -> Statuses]
      /\ s.pid \in [Threads -> Pids \cup {0}]
  BY DEF SchedInv, SchedCore, SchedState
<1>2. ~Contains(s.ready, t) /\ ~Contains(s.all, t)
  BY <1>1 DEF SchedCore, ReadyExact, AllExact, Alive, Exists
<1>3. /\ ready \in Seq(Threads) /\ IsInjective(ready)
      /\ \A u : Contains(ready, u) <=> Contains(s.ready, u) \/ u = t
  BY <1>1, <1>2, AppendFacts DEF SchedCore, ReadyExact, SchedState
<1>4. /\ all \in Seq(Threads) /\ IsInjective(all)
      /\ \A u : Contains(all, u) <=> Contains(s.all, u) \/ u = t
  BY <1>1, <1>2, AppendFacts DEF SchedCore, AllExact, SchedState
<1>5. /\ stats \in [Threads -> Statuses] /\ slices \in [Threads -> Nat]
      /\ pid \in [Threads -> Pids \cup {0}] /\ s.pids \cup {p} \in SUBSET Pids
  BY <1>1, PrioAssumption DEF Statuses, SchedState
<1>6. n = [cur |-> s.cur, ready |-> ready, all |-> all, status |-> stats,
           ticks |-> slices, pid |-> pid, pids |-> s.pids \cup {p},
           halt |-> s.halt]
  <2>1. n = [s EXCEPT !.status = stats, !.ticks = slices, !.pid = pid,
                      !.pids = s.pids \cup {p}, !.ready = ready, !.all = all]
    BY <1>1, <1>2 DEF ThreadStart, SchedState
  <2> HIDE DEF n, stats, slices, pid, ready, all
  <2> QED BY <1>1, <2>1 DEF SchedState
<1> HIDE DEF n, ready, all, slices
<1>7. n \in SchedState
  BY <1>1, <1>3, <1>4, <1>5, <1>6 DEF SchedState
<1>8. \A u \in Threads : n.status[u] = IF u = t THEN "READY" ELSE s.status[u]
  BY <1>1, <1>6
<1>9. Alive(n) = Alive(s) \cup {t}
  BY <1>8 DEF Alive, Exists
<1>10. /\ t \notin Alive(s)
       /\ n.pid[t] = p
       /\ \A u \in Alive(s) : n.pid[u] = s.pid[u]
  BY <1>1, <1>6 DEF Alive, Exists
<1>11. PidExact(n)
  <2>1. /\ n.pids = s.pids \cup {p}
        /\ s.pids = {s.pid[u] : u \in Alive(s)}
        /\ \A u, v \in Alive(s) : s.pid[u] = s.pid[v] => u = v
    BY <1>1, <1>6 DEF SchedCore, PidExact
  <2>2. n.pids = {n.pid[u] : u \in Alive(n)}
    BY <1>9, <1>10, <2>1
  <2>3. \A u, v \in Alive(n) : n.pid[u] = n.pid[v] => u = v
    BY <1>9, <1>10, <2>1
  <2> QED BY <2>2, <2>3 DEF PidExact
<1>12. AllExact(n)
  BY <1>1, <1>4, <1>6, <1>9 DEF AllExact, SchedCore
<1>13. /\ ReadyExact(n) /\ IdleExact(n) /\ DiedExact(n)
       /\ \A u \in Threads : n.status[u] = "RUNNING" => u = n.cur
  BY <1>1, <1>3, <1>6, <1>8, ThreadsAssumption
     DEF SchedCore, ReadyExact, IdleExact, DiedExact
<1>14. SchedInv(n)
  BY <1>1, <1>6, <1>7, <1>8, <1>11, <1>12, <1>13 DEF SchedInv, SchedCore
<1>15. \A u \in Threads : n.pid[u] = IF u = t THEN p ELSE s.pid[u]
  BY <1>1, <1>6
<1> QED BY <1>6, <1>8, <1>14, <1>15 DEF n

\* thread_exit takes a living thread out of everything that knows it.
LEMMA ExitFacts ==
    ASSUME NEW s, SchedCore(s), NEW t \in Threads, t # Idle, Exists(s, t)
    PROVE  /\ SchedCore(ThreadExit(s, t))
           /\ ThreadExit(s, t).cur = s.cur
           /\ ThreadExit(s, t).halt = s.halt
           /\ \A u \in Threads : ThreadExit(s, t).status[u] =
                IF u = t THEN IF t = Main THEN "DIED" ELSE "FREE"
                ELSE s.status[u]
           /\ \A u \in Threads : ThreadExit(s, t).pid[u] =
                                   IF u = t THEN 0 ELSE s.pid[u]
<1> DEFINE n == ThreadExit(s, t)
           ready == IF Contains(s.ready, t) THEN ListRemove(s.ready, t)
                    ELSE s.ready
           all == ListRemove(s.all, t)
           end == IF t = Main THEN "DIED" ELSE "FREE"
           stats == [s.status EXCEPT ![t] = end]
           slices == [s.ticks EXCEPT ![t] = 0]
           pid == [s.pid EXCEPT ![t] = 0]
           left == s.pids \ {s.pid[t]}
<1>1. /\ s \in SchedState /\ s.cur \in Threads
      /\ s.status \in [Threads -> Statuses]
      /\ s.pid \in [Threads -> Pids \cup {0}]
  BY DEF SchedCore, SchedState
<1>2. Contains(s.all, t)
  BY DEF SchedCore, AllExact, Alive
<1>3. /\ ready \in Seq(Threads) /\ IsInjective(ready)
      /\ \A u : Contains(ready, u) <=> Contains(s.ready, u) /\ u # t
  <2>1. s.ready \in Seq(Threads) /\ IsInjective(s.ready)
    BY <1>1 DEF SchedCore, ReadyExact, SchedState
  <2>2. CASE Contains(s.ready, t)
    BY <2>1, <2>2, RemoveFacts
  <2>3. CASE ~Contains(s.ready, t)
    BY <2>1, <2>3
  <2> QED BY <2>2, <2>3
<1>4. /\ all \in Seq(Threads) /\ IsInjective(all)
      /\ \A u : Contains(all, u) <=> Contains(s.all, u) /\ u # t
  BY <1>1, <1>2, RemoveFacts DEF SchedCore, AllExact, SchedState
<1>5. /\ stats \in [Threads -> Statuses] /\ slices \in [Threads -> Nat]
      /\ pid \in [Threads -> Pids \cup {0}] /\ left \in SUBSET Pids
  BY <1>1 DEF Statuses, SchedState
<1>6. n = [cur |-> s.cur, ready |-> ready, all |-> all, status |-> stats,
           ticks |-> slices, pid |-> pid, pids |-> left, halt |-> s.halt]
  <2>1. n = [s EXCEPT !.status = stats, !.ready = ready, !.all = all,
                      !.pids = left, !.ticks = slices, !.pid = pid]
    BY <1>1 DEF ThreadExit, SchedState
  <2> HIDE DEF n, stats, slices, pid, ready, all, left
  <2> QED BY <1>1, <2>1 DEF SchedState
<1> HIDE DEF n, ready, all, slices
<1>7. n \in SchedState
  BY <1>1, <1>3, <1>4, <1>5, <1>6 DEF SchedState
<1>8. \A u \in Threads : n.status[u] = IF u = t THEN end ELSE s.status[u]
  BY <1>1, <1>6
<1>9. Alive(n) = Alive(s) \ {t} /\ t \in Alive(s)
  BY <1>8 DEF Alive, Exists
<1>10. \A u \in Alive(n) : n.pid[u] = s.pid[u]
  BY <1>1, <1>6, <1>9 DEF Alive
<1>11. PidExact(n)
  <2>1. /\ n.pids = s.pids \ {s.pid[t]}
        /\ s.pids = {s.pid[u] : u \in Alive(s)}
        /\ \A u, v \in Alive(s) : s.pid[u] = s.pid[v] => u = v
    BY <1>6 DEF SchedCore, PidExact
  <2>2. n.pids = {n.pid[u] : u \in Alive(n)}
    BY <1>9, <1>10, <2>1
  <2>3. \A u, v \in Alive(n) : n.pid[u] = n.pid[v] => u = v
    BY <1>9, <1>10, <2>1
  <2> QED BY <2>2, <2>3 DEF PidExact
<1>12. AllExact(n)
  BY <1>4, <1>6, <1>9 DEF AllExact, SchedCore
<1>13. /\ ReadyExact(n) /\ IdleExact(n) /\ DiedExact(n)
       /\ \A u \in Threads : n.status[u] = "RUNNING" => u = n.cur
  BY <1>3, <1>6, <1>8, ThreadsAssumption
     DEF SchedCore, ReadyExact, IdleExact, DiedExact
<1>14. SchedCore(n)
  BY <1>6, <1>7, <1>11, <1>12, <1>13 DEF SchedCore
<1>15. \A u \in Threads : n.pid[u] = IF u = t THEN 0 ELSE s.pid[u]
  BY <1>1, <1>6
<1> QED BY <1>6, <1>8, <1>14, <1>15 DEF n

\* thread_init builds a state in which everything above holds.
LEMMA BootFacts == SchedInv(BootState) /\ BootState.halt = "no"
<1> DEFINE n == BootState
           ready == <<InitProc, Idle>>
           all == <<InitProc, Main, Idle>>
<1>1. /\ ready \in Seq(Threads) /\ IsInjective(ready)
      /\ \A u : Contains(ready, u) <=> u = InitProc \/ u = Idle
  BY ThreadsAssumption DEF IsInjective, Contains
<1>2. /\ all \in Seq(Threads) /\ IsInjective(all)
      /\ \A u : Contains(all, u) <=> u = InitProc \/ u = Main \/ u = Idle
  BY ThreadsAssumption DEF IsInjective, Contains
<1>3. /\ n.cur = Main /\ n.ready = ready /\ n.all = all
      /\ n.pids = 1 .. 3 /\ n.halt = "no"
      /\ \A u \in Threads :
           n.status[u] = IF u = Main THEN "RUNNING"
                         ELSE IF u \in {InitProc, Idle} THEN "READY" ELSE "FREE"
      /\ \A u \in Threads :
           n.pid[u] = IF u = InitProc THEN 1 ELSE IF u = Main THEN 2
                      ELSE IF u = Idle THEN 3 ELSE 0
  BY Zenon DEF BootState
<1>4. n \in SchedState
  BY <1>1, <1>2, ThreadsAssumption, PrioAssumption, MaxPidAssumption
     DEF BootState, SchedState, Statuses, Pids
<1> HIDE DEF n, ready, all
<1>5. Alive(n) = {InitProc, Main, Idle}
  BY <1>3, ThreadsAssumption DEF Alive, Exists
<1>6. ReadyExact(n)
  BY <1>1, <1>3, ThreadsAssumption DEF ReadyExact
<1>7. AllExact(n)
  BY <1>2, <1>3, <1>5, ThreadsAssumption DEF AllExact
<1>8. PidExact(n)
  BY <1>3, <1>5, ThreadsAssumption DEF PidExact
<1>9. /\ IdleExact(n) /\ DiedExact(n)
      /\ \A u \in Threads : n.status[u] = "RUNNING" => u = n.cur
      /\ n.status[n.cur] = "RUNNING"
  BY <1>3, ThreadsAssumption DEF IdleExact, DiedExact
<1> QED BY <1>3, <1>4, <1>6, <1>7, <1>8, <1>9 DEF SchedInv, SchedCore, n

\* A reaper's page fault, or a name too long to fork with, stops the machine in
\* an otherwise sound state.
LEMMA StopFacts ==
    ASSUME NEW s, SchedInv(s), NEW why \in {"fault", "name"}
    PROVE  /\ SchedInv([s EXCEPT !.halt = why])
           /\ [s EXCEPT !.halt = why].status = s.status
           /\ [s EXCEPT !.halt = why].pid = s.pid
<1> DEFINE n == [s EXCEPT !.halt = why]
<1>1. SchedCore(s) /\ s \in SchedState
  BY DEF SchedInv, SchedCore
<1>2. n = [cur |-> s.cur, ready |-> s.ready, all |-> s.all, status |-> s.status,
           ticks |-> s.ticks, pid |-> s.pid, pids |-> s.pids, halt |-> why]
  <2>1. s = [cur |-> s.cur, ready |-> s.ready, all |-> s.all,
             status |-> s.status, ticks |-> s.ticks, pid |-> s.pid,
             pids |-> s.pids, halt |-> s.halt]
    BY <1>1 DEF SchedState
  <2> QED BY <2>1
<1> HIDE DEF n
<1>3. n \in SchedState
  BY <1>1, <1>2 DEF SchedState
<1>4. Alive(n) = Alive(s)
  BY <1>2 DEF Alive, Exists
<1>5. AllExact(n) /\ PidExact(n)
  BY <1>1, <1>2, <1>4, AliveFrame DEF SchedCore
<1>6. ReadyExact(n) /\ IdleExact(n) /\ DiedExact(n)
  BY <1>1, <1>2 DEF SchedCore, ReadyExact, IdleExact, DiedExact
<1>7. SchedInv(n)
  BY <1>1, <1>2, <1>3, <1>5, <1>6 DEF SchedInv, SchedCore
<1> QED BY <1>2, <1>7 DEF n

-----------------------------------------------------------------------------
\* Semaphores and locks

\* What the calls of sync.c leave in the lock's record.
LEMMA LockRecords ==
    ASSUME NEW s, NEW m \in LockState
    PROVE  /\ DownQueues(s, m) =
                [holder |-> m.holder, repeat |-> m.repeat, value |-> m.value,
                 waiters |-> Append(m.waiters, s.cur)]
           /\ Acquired(s, m) =
                [holder |-> s.cur, repeat |-> 1, value |-> m.value - 1,
                 waiters |-> m.waiters]
           /\ Released(m) =
                [holder |-> NoThread, repeat |-> 0, value |-> m.value + 1,
                 waiters |-> IF m.waiters = << >> THEN << >> ELSE Tail(m.waiters)]
<1>1. m = [holder |-> m.holder, repeat |-> m.repeat, value |-> m.value,
           waiters |-> m.waiters]
  BY DEF LockState
<1> DEFINE rest == IF m.waiters = << >> THEN << >> ELSE Tail(m.waiters)
           less == m.value - 1
           more == m.value + 1
           longer == Append(m.waiters, s.cur)
<1>2. /\ DownQueues(s, m) = [m EXCEPT !.waiters = longer]
      /\ DownLowers(m) = [m EXCEPT !.value = less]
      /\ UpRaises(m) = [m EXCEPT !.waiters = rest, !.value = more]
  <2>1. rest = IF m.waiters = << >> THEN m.waiters ELSE Tail(m.waiters)
    OBVIOUS
  <2> QED BY <1>1, <2>1 DEF DownQueues, DownLowers, UpRaises
<1> HIDE DEF rest, less, more, longer
<1>3. /\ DownQueues(s, m) = [holder |-> m.holder, repeat |-> m.repeat,
                             value |-> m.value, waiters |-> longer]
      /\ DownLowers(m) = [holder |-> m.holder, repeat |-> m.repeat,
                          value |-> less, waiters |-> m.waiters]
      /\ UpRaises(m) = [holder |-> m.holder, repeat |-> m.repeat,
                        value |-> more, waiters |-> rest]
  BY <1>2 DEF LockState
<1>4. /\ Acquired(s, m) = [holder |-> s.cur, repeat |-> 1, value |-> less,
                           waiters |-> m.waiters]
      /\ Released(m) = [holder |-> NoThread, repeat |-> 0, value |-> more,
                        waiters |-> rest]
  <2> DEFINE lowered == DownLowers(m)
             raised == UpRaises(m)
  <2>1. /\ Acquired(s, m) = [lowered EXCEPT !.holder = s.cur, !.repeat = 1]
        /\ Released(m) = [raised EXCEPT !.holder = NoThread, !.repeat = 0]
    BY DEF Acquired, Released
  <2>2. /\ lowered = [holder |-> m.holder, repeat |-> m.repeat,
                      value |-> less, waiters |-> m.waiters]
        /\ raised = [holder |-> m.holder, repeat |-> m.repeat,
                     value |-> more, waiters |-> rest]
    BY <1>3
  <2> HIDE DEF lowered, raised
  <2>3. Acquired(s, m) = [holder |-> s.cur, repeat |-> 1, value |-> less,
                          waiters |-> m.waiters]
    BY <2>1, <2>2
  <2>4. Released(m) = [holder |-> NoThread, repeat |-> 0, value |-> more,
                       waiters |-> rest]
    BY <2>1, <2>2
  <2> QED BY <2>3, <2>4
<1> QED BY <1>3, <1>4 DEF rest, less, more, longer

SemaState == [value : Nat, waiters : Seq(Threads)]

\* The same for a semaphore that is no lock.
LEMMA SemaRecords ==
    ASSUME NEW s, NEW m \in SemaState
    PROVE  /\ DownQueues(s, m) =
                [value |-> m.value, waiters |-> Append(m.waiters, s.cur)]
           /\ DownLowers(m) = [value |-> m.value - 1, waiters |-> m.waiters]
           /\ UpRaises(m) =
                [value |-> m.value + 1,
                 waiters |-> IF m.waiters = << >> THEN << >> ELSE Tail(m.waiters)]
<1>1. m = [value |-> m.value, waiters |-> m.waiters]
  BY DEF SemaState
<1> DEFINE rest == IF m.waiters = << >> THEN << >> ELSE Tail(m.waiters)
           less == m.value - 1
           more == m.value + 1
           longer == Append(m.waiters, s.cur)
<1>2. /\ DownQueues(s, m) = [m EXCEPT !.waiters = longer]
      /\ DownLowers(m) = [m EXCEPT !.value = less]
      /\ UpRaises(m) = [m EXCEPT !.waiters = rest, !.value = more]
  <2>1. rest = IF m.waiters = << >> THEN m.waiters ELSE Tail(m.waiters)
    OBVIOUS
  <2> QED BY <1>1, <2>1 DEF DownQueues, DownLowers, UpRaises
<1> HIDE DEF rest, less, more, longer
<1>3. /\ DownQueues(s, m) = [value |-> m.value, waiters |-> longer]
      /\ DownLowers(m) = [value |-> less, waiters |-> m.waiters]
      /\ UpRaises(m) = [value |-> more, waiters |-> rest]
  BY <1>2 DEF SemaState
<1> QED BY <1>3 DEF rest, less, more, longer
=============================================================================
