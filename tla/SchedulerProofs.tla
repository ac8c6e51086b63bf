--------------------------- MODULE SchedulerProofs ---------------------------
(***************************************************************************)
(* The invariants of Scheduler for every set of threads, every assignment  *)
(* of priorities and every size of the pid pool.  The inductive invariant  *)
(* is SchedInv of ThreadOps: none of the properties is inductive by        *)
(* itself, since that no assertion fires needs the ready list to be exact, *)
(* that needs one RUNNING thread, and that the pids are exact needs to     *)
(* know which threads live.                                                *)
(***************************************************************************)
EXTENDS Scheduler, ThreadOpsProofs

IInv == SchedInv(sched)

LEMMA InitInv == Init => IInv
  BY BootFacts DEF Init, IInv

LEMMA StepInv == IInv /\ [Next]_vars => IInv'
<1> SUFFICES ASSUME SchedInv(sched), [Next]_vars
             PROVE  SchedInv(sched)'
  BY DEF IInv
<1>0. /\ SchedCore(sched) /\ sched.status[sched.cur] = "RUNNING"
      /\ sched.cur \in Threads
  BY DEF SchedInv, SchedCore, SchedState
<1>1. CASE Tick
  BY <1>1, TickFacts DEF Tick, Running
<1>2. CASE YieldStep
  BY <1>2, YieldFacts DEF YieldStep, Running
<1>3. CASE IdleLoop
  BY <1>3, BlockFacts DEF IdleLoop, Running, Sleeping
<1>4. CASE BlockStep
  BY <1>4, BlockFacts DEF BlockStep, Running, Sleeping
<1>5. CASE WaitStep
  BY <1>5, BlockFacts DEF WaitStep, Running, Sleeping
<1>6. CASE HangStep
  BY <1>6, BlockFacts DEF HangStep, Running, Sleeping
<1>7. ASSUME NEW t \in Threads, UnblockStep(t)
      PROVE  SchedInv(sched)'
  BY <1>7, WakeFacts DEF UnblockStep, Sleeping
<1>8. ASSUME NEW t \in Threads, NEW p \in Pids, StartStep(t, p)
      PROVE  SchedInv(sched)'
  BY <1>8, StartFacts DEF StartStep, LowestFreePid
<1>9. ASSUME NEW t \in Threads, ReapStep(t)
      PROVE  SchedInv(sched)'
  <2> DEFINE n == ThreadExit(sched, t)
  <2>1. t # Idle /\ t # sched.cur /\ Exists(sched, t)
    BY <1>0, <1>9 DEF ReapStep, Exists, SchedCore, IdleExact
  <2>2. /\ SchedCore(n) /\ n.cur = sched.cur
        /\ n.status[sched.cur] = "RUNNING"
    BY <1>0, <2>1, ExitFacts
  <2>3. SchedInv(n)
    BY <2>2 DEF SchedInv
  <2>4. SchedInv([sched EXCEPT !.halt = "fault"])
    BY StopFacts
  <2>5. sched' = n \/ sched' = [sched EXCEPT !.halt = "fault"]
    BY <1>9 DEF ReapStep
  <2> QED BY <2>3, <2>4, <2>5
<1>10. CASE MainExit
  <2>1. /\ Exists(sched, Main) /\ Main # Idle /\ sched.halt = "no"
        /\ sched' = Schedule(ThreadExit(sched, Main)) /\ Main \in Threads
    BY <1>0, <1>10, ThreadsAssumption DEF MainExit, Running, Exists
  <2>2. /\ SchedCore(ThreadExit(sched, Main))
        /\ ThreadExit(sched, Main).halt = "no"
    BY <1>0, <2>1, ExitFacts
  <2> QED BY <2>1, <2>2, ScheduleFacts
<1>11. CASE Spin \/ UNCHANGED vars
  BY <1>11 DEF Spin, vars
<1> QED
  BY <1>1, <1>2, <1>3, <1>4, <1>5, <1>6, <1>7, <1>8, <1>9, <1>10, <1>11
     DEF Next

\* IInv implies each of the properties the runs check.
LEMMA InvImplies ==
    IInv => TypeOK /\ NoPanic /\ ReadyListExact /\ PidsExact
  BY DEF IInv, SchedInv, SchedCore, SchedState, TypeOK, NoPanic,
         ReadyListExact, PidsExact

LEMMA SpecInv == Spec => []IInv
  BY InitInv, StepInv, PTL DEF Spec

-----------------------------------------------------------------------------
\* The scheduler's record keeps its type through every order of interrupts,
\* yields, sleeps, wake-ups, thread creations and exits.
THEOREM TypeCorrect == Spec => []TypeOK
  BY SpecInv, InvImplies, PTL

\* No ASSERT of schedule, thread_block, thread_unblock, thread_yield or
\* thread_start ever fires; in particular idle is asleep whenever schedule finds
\* the ready list empty, so thread_unblock(idle_thread) is legal.
THEOREM NeverPanics == Spec => []NoPanic
  BY SpecInv, InvImplies, PTL

\* thread_ready_list holds exactly the READY threads, each once, and exactly the
\* owner of the processor is RUNNING.
THEOREM ReadyListIsExact == Spec => []ReadyListExact
  BY SpecInv, InvImplies, PTL

\* thread_all_list and pid_pool describe exactly the living threads, with
\* unique pids, although pids and pages are reused.
THEOREM PidsAreExact == Spec => []PidsExact
  BY SpecInv, InvImplies, PTL

-----------------------------------------------------------------------------
\* The order of the ready list

\* list_append behind everybody changes no order among those who were there.
LEMMA AppendOrder ==
    ASSUME NEW S, NEW list \in Seq(S), NEW e \in S, ~Contains(list, e),
           NEW t, NEW u, Contains(list, u), Precedes(Append(list, e), t, u)
    PROVE  Precedes(list, t, u)
<1> DEFINE new == Append(list, e)
<1>1. /\ Len(list) \in Nat /\ DOMAIN list = 1 .. Len(list)
      /\ DOMAIN new = 1 .. Len(list) + 1
      /\ \A i \in 1 .. Len(list) : new[i] = list[i]
      /\ new[Len(list) + 1] = e
  BY AppendProperties, LenProperties
<1> HIDE DEF new
<1>2. PICK i, j \in 1 .. Len(list) + 1 : i < j /\ new[i] = t /\ new[j] = u
  BY <1>1 DEF Precedes, new
<1>3. j # Len(list) + 1
  BY <1>1, <1>2
<1>4. i \in 1 .. Len(list) /\ j \in 1 .. Len(list)
  BY <1>1, <1>2, <1>3
<1> QED BY <1>1, <1>2, <1>4 DEF Precedes

\* list_push lets its element alone pass the others.
LEMMA ConsOrder ==
    ASSUME NEW S, NEW list \in Seq(S), NEW e \in S,
           NEW t, NEW u, Precedes(Cons(e, list), t, u), t # e
    PROVE  Precedes(list, t, u)
<1> DEFINE new == Cons(e, list)
<1>1. <<e>> \in Seq(S) /\ Len(<<e>>) = 1 /\ <<e>>[1] = e
  OBVIOUS
<1>2. /\ Len(list) \in Nat /\ DOMAIN list = 1 .. Len(list)
      /\ new \in Seq(S) /\ Len(new) = Len(list) + 1
      /\ \A i \in 1 .. Len(list) + 1 :
           new[i] = IF i <= 1 THEN <<e>>[i] ELSE list[i - 1]
  BY <1>1, ConcatProperties, LenProperties DEF Cons
<1>3. DOMAIN new = 1 .. Len(list) + 1
  BY <1>2, LenProperties
<1> HIDE DEF new
<1>4. PICK i, j \in 1 .. Len(list) + 1 : i < j /\ new[i] = t /\ new[j] = u
  BY <1>3 DEF Precedes, new
<1>5. i # 1
  BY <1>1, <1>2, <1>4
<1>6. i - 1 \in 1 .. Len(list) /\ j - 1 \in 1 .. Len(list) /\ i - 1 < j - 1
  BY <1>2, <1>4, <1>5
<1>7. list[i - 1] = t /\ list[j - 1] = u
  BY <1>2, <1>4, <1>5
<1> QED BY <1>2, <1>6, <1>7 DEF Precedes

\* list_pop and list_remove let nobody pass.
LEMMA PopOrder ==
    ASSUME NEW S, NEW list \in Seq(S), list # << >>,
           NEW t, NEW u, Precedes(Tail(list), t, u)
    PROVE  Precedes(list, t, u)
<1> DEFINE rest == Tail(list)
<1>1. /\ Len(list) \in Nat /\ DOMAIN list = 1 .. Len(list)
      /\ DOMAIN rest = 1 .. Len(list) - 1
      /\ \A i \in 1 .. Len(list) - 1 : rest[i] = list[i + 1]
  BY HeadTailProperties, LenProperties, EmptySeq
<1> HIDE DEF rest
<1>2. PICK i, j \in 1 .. Len(list) - 1 : i < j /\ rest[i] = t /\ rest[j] = u
  BY <1>1 DEF Precedes, rest
<1>3. i + 1 \in 1 .. Len(list) /\ j + 1 \in 1 .. Len(list) /\ i + 1 < j + 1
  BY <1>1, <1>2
<1>4. list[i + 1] = t /\ list[j + 1] = u
  BY <1>1, <1>2
<1> QED BY <1>1, <1>3, <1>4 DEF Precedes

LEMMA RemoveOrder ==
    ASSUME NEW S, NEW list \in Seq(S), NEW e, Contains(list, e),
           NEW t, NEW u, Precedes(ListRemove(list, e), t, u)
    PROVE  Precedes(list, t, u)
<1> DEFINE new == ListRemove(list, e)
           n == Len(list)
<1>1. n \in Nat /\ DOMAIN list = 1 .. n
  BY LenProperties
<1>2. DOMAIN new = 1 .. n - 1
  BY RemovePositions, LenProperties
<1> HIDE DEF new, n
<1>3. PICK k \in 1 .. n :
        \A i \in 1 .. n - 1 : new[i] = IF i < k THEN list[i] ELSE list[i + 1]
  BY RemovePositions DEF new, n
<1>4. PICK i, j \in 1 .. n - 1 : i < j /\ new[i] = t /\ new[j] = u
  BY <1>2 DEF Precedes, new
<1> DEFINE a == IF i < k THEN i ELSE i + 1
           b == IF j < k THEN j ELSE j + 1
<1>5. a \in 1 .. n /\ b \in 1 .. n /\ a < b
  BY <1>1, <1>3, <1>4
<1>6. list[a] = t /\ list[b] = u
  BY <1>3, <1>4
<1> HIDE DEF a, b
<1> QED BY <1>1, <1>5, <1>6 DEF Precedes

\* Nobody in list a is passed on the way to list b.
KeepsOrder(a, b) ==
    \A t, u \in Threads : Contains(a, u) /\ Precedes(b, t, u) => Precedes(a, t, u)

\* schedule: the caller goes to the end, the head leaves, and idle is pushed on
\* an empty list only.
LEMMA ScheduleOrder ==
    ASSUME NEW s, SchedCore(s), s.halt = "no"
    PROVE  KeepsOrder(s.ready, Schedule(s).ready)
<1> DEFINE a == Requeue(s)
           b == WakeIdle(a)
           n == Dispatch(b)
<1>1. s \in SchedState /\ s.ready \in Seq(Threads) /\ s.cur \in Threads
  BY DEF SchedCore, SchedState
<1>2. SchedCore(a) /\ a.halt = "no" /\ \A u \in Threads : a.status[u] # "RUNNING"
  BY RequeueFacts
<1>3. \/ a.ready = s.ready
      \/ a.ready = Append(s.ready, s.cur) /\ ~Contains(s.ready, s.cur)
  <2>1. CASE s.status[s.cur] = "RUNNING"
    <3>1. ~Contains(s.ready, s.cur)
      BY <1>1, <2>1 DEF SchedCore, ReadyExact
    <3>2. a.ready = Append(s.ready, s.cur)
      BY <2>1, RequeueFacts
    <3> QED BY <3>1, <3>2
  <2>2. CASE s.status[s.cur] # "RUNNING"
    BY <2>2, RequeueFacts
  <2> QED BY <2>1, <2>2
<1> HIDE DEF a
<1>4. SchedCore(b) /\ b.halt = "no" /\ b.ready # << >>
  BY <1>2, WakeIdleFacts
<1>5. b.ready = a.ready \/ Len(b.ready) = 1
  <2>1. CASE a.ready # << >>
    BY <2>1 DEF WakeIdle
  <2>2. CASE a.ready = << >>
    <3>1. b = Unblock(a, Idle)
      BY <2>2 DEF WakeIdle
    <3>2. b.halt # "panic" /\ a \in SchedState
      BY <1>2, <1>4 DEF SchedCore
    <3>3. b.ready = Cons(Idle, << >>)
      BY <2>2, <3>1, <3>2 DEF Unblock, Panic, SchedState
    <3> QED BY <3>3 DEF Cons
  <2> QED BY <2>1, <2>2
<1> HIDE DEF b
<1>6. n.ready = Tail(b.ready) /\ b.ready \in Seq(Threads)
  BY <1>4 DEF Dispatch, SchedCore, SchedState
<1>7. Schedule(s) = n
  BY <1>2, <1>4 DEF Schedule, a, b
<1> HIDE DEF n
<1>8. SUFFICES ASSUME NEW t \in Threads, NEW u \in Threads,
                      Contains(s.ready, u), Precedes(n.ready, t, u)
               PROVE  Precedes(s.ready, t, u)
  BY <1>7 DEF KeepsOrder
<1>9. Precedes(b.ready, t, u)
  BY <1>4, <1>6, <1>8, PopOrder
<1>10. Len(b.ready) # 1
  BY <1>6, <1>9, LenProperties DEF Precedes
<1>11. Precedes(a.ready, t, u)
  BY <1>5, <1>9, <1>10
<1> QED BY <1>1, <1>3, <1>8, <1>11, AppendOrder

\* thread_block and the timer call schedule with the list as it is.
LEMMA BlockOrder ==
    ASSUME NEW s, SchedInv(s), s.halt = "no", NEW stat \in Sleeping,
           s.cur = Idle => stat = "BLOCKED"
    PROVE  KeepsOrder(s.ready, Block(s, stat).ready)
<1> DEFINE m == [s EXCEPT !.status[s.cur] = stat]
<1>1. s.cur \in Threads /\ s.status[s.cur] = "RUNNING" /\ SchedCore(s)
  BY DEF SchedInv, SchedCore, SchedState
<1>2. SchedCore(m) /\ m.halt = "no"
  BY <1>1, StatusFacts
<1>3. m.ready = s.ready
  BY <1>1 DEF SchedCore, SchedState
<1>4. Block(s, stat) = Schedule(m)
  BY DEF Block
<1> HIDE DEF m
<1> QED BY <1>2, <1>3, <1>4, ScheduleOrder

LEMMA TickOrder ==
    ASSUME NEW s, SchedInv(s), s.halt = "no"
    PROVE  KeepsOrder(s.ready, TimerTick(s).ready)
<1>1. SchedCore(s) /\ s \in SchedState
  BY DEF SchedInv, SchedCore
<1>2. CASE s.ticks[s.cur] = 0
  BY <1>1, <1>2, ScheduleOrder DEF TimerTick
<1>3. CASE s.ticks[s.cur] # 0
  BY <1>1, <1>3 DEF TimerTick, KeepsOrder, SchedState
<1> QED BY <1>2, <1>3

\* thread_yield queues the caller itself, at the end too.
LEMMA YieldOrder ==
    ASSUME NEW s, SchedInv(s), s.halt = "no"
    PROVE  KeepsOrder(s.ready, Yield(s).ready)
<1>1. /\ s.cur \in Threads /\ s.ready \in Seq(Threads) /\ ~Contains(s.ready, s.cur)
  BY DEF SchedInv, SchedCore, SchedState, ReadyExact
<1>2. KeepsOrder(Append(s.ready, s.cur), Yield(s).ready)
  <2> DEFINE m == Yielding(s)
  <2>1. /\ Yield(s) = Schedule(m) /\ SchedCore(m) /\ m.halt = "no"
        /\ m.ready = Append(s.ready, s.cur)
    BY YieldingFacts
  <2> HIDE DEF m
  <2>2. KeepsOrder(m.ready, Schedule(m).ready)
    BY <2>1, ScheduleOrder
  <2> QED BY <2>1, <2>2
<1>3. SUFFICES ASSUME NEW t \in Threads, NEW u \in Threads,
                      Contains(s.ready, u), Precedes(Yield(s).ready, t, u)
               PROVE  Precedes(s.ready, t, u)
  BY DEF KeepsOrder
<1>4. Contains(Append(s.ready, s.cur), u)
  BY <1>1, <1>3, AppendFacts
<1>5. Precedes(Append(s.ready, s.cur), t, u)
  BY <1>2, <1>3, <1>4 DEF KeepsOrder
<1> QED BY <1>1, <1>3, <1>5, AppendOrder

\* The step QueueOrderKept allows.
OrderStep ==
    \A t, u \in Threads :
      (Contains(sched.ready, u) /\ Precedes(sched'.ready, t, u))
        => Precedes(sched.ready, t, u) \/ sched.status[t] \in Sleeping

LEMMA StepOrder == IInv /\ [Next]_vars => [OrderStep]_vars
<1> SUFFICES ASSUME SchedInv(sched), Next PROVE OrderStep
  BY DEF IInv
<1>0. /\ SchedCore(sched) /\ sched.status[sched.cur] = "RUNNING"
      /\ sched \in SchedState /\ sched.cur \in Threads /\ sched.ready \in Seq(Threads)
  BY DEF SchedInv, SchedCore, SchedState
<1>1. CASE KeepsOrder(sched.ready, sched'.ready)
  BY <1>1 DEF KeepsOrder, OrderStep
<1>2. CASE Tick
  BY <1>1, <1>2, TickOrder DEF Tick, Running
<1>3. CASE YieldStep
  BY <1>1, <1>3, YieldOrder DEF YieldStep, Running
<1>4. CASE IdleLoop \/ BlockStep
  BY <1>1, <1>4, BlockOrder DEF IdleLoop, BlockStep, Running, Sleeping
<1>5. CASE WaitStep \/ HangStep
  BY <1>1, <1>5, BlockOrder DEF WaitStep, HangStep, Running, Sleeping
<1>6. ASSUME NEW v \in Threads, UnblockStep(v) PROVE OrderStep
  <2>1. sched.status[v] \in Sleeping /\ ~Contains(sched.ready, v)
    BY <1>0, <1>6 DEF UnblockStep, Sleeping, SchedCore, ReadyExact
  <2>2. sched'.ready = Cons(v, sched.ready)
    BY <1>0, <1>6, <2>1 DEF UnblockStep, Unblock, SchedState
  <2> QED BY <1>0, <2>1, <2>2, ConsOrder DEF OrderStep
<1>7. ASSUME NEW v \in Threads, NEW p \in Pids, StartStep(v, p) PROVE OrderStep
  <2>1. ~Contains(sched.ready, v) /\ ~Contains(sched.all, v)
    BY <1>0, <1>7 DEF StartStep, SchedCore, ReadyExact, AllExact, Alive, Exists
  <2>2. sched'.ready = Append(sched.ready, v)
    BY <1>0, <1>7, <2>1 DEF StartStep, ThreadStart, SchedState
  <2> QED BY <1>0, <2>1, <2>2, AppendOrder DEF OrderStep
<1>8. ASSUME NEW v \in Threads, ReapStep(v) PROVE OrderStep
  <2>1. \/ sched'.ready = sched.ready
        \/ /\ sched'.ready = ListRemove(sched.ready, v)
           /\ Contains(sched.ready, v)
    BY <1>0, <1>8 DEF ReapStep, ThreadExit, SchedState
  <2> QED BY <1>0, <2>1, RemoveOrder DEF OrderStep
<1>9. CASE MainExit
  <2> DEFINE m == ThreadExit(sched, Main)
  <2>1. /\ Exists(sched, Main) /\ Main # Idle /\ sched.halt = "no"
        /\ sched' = Schedule(m) /\ Main \in Threads /\ sched.cur = Main
    BY <1>0, <1>9, ThreadsAssumption DEF MainExit, Running, Exists
  <2>2. SchedCore(m) /\ m.halt = "no"
    BY <1>0, <2>1, ExitFacts
  <2>3. ~Contains(sched.ready, Main)
    BY <1>0, <2>1 DEF SchedCore, ReadyExact
  <2>4. m.ready = sched.ready
    BY <1>0, <2>3 DEF ThreadExit, SchedState
  <2> HIDE DEF m
  <2> QED BY <1>1, <2>1, <2>2, <2>4, ScheduleOrder
<1>10. CASE Spin
  BY <1>1, <1>10 DEF Spin, KeepsOrder
<1> QED
  BY <1>2, <1>3, <1>4, <1>5, <1>6, <1>7, <1>8, <1>9, <1>10 DEF Next

\* Only a thread that is woken passes others in the ready list: preempted,
\* yielding and new threads queue up behind everybody.
THEOREM OrderIsKept == Spec => QueueOrderKept
<1>1. Spec => [][OrderStep]_vars
  BY SpecInv, StepOrder, PTL DEF Spec
<1> QED BY <1>1, PTL DEF OrderStep, QueueOrderKept
=============================================================================
