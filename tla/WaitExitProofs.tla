--------------------------- MODULE WaitExitProofs ----------------------------
(***************************************************************************)
(* ParentExact, WaitNotMissed, SleepStatesExact and NoPanic hold of every  *)
(* behaviour of WaitExit, whatever the set of pages and of pids.  The      *)
(* three depend on each other: a pid in parent_pid cannot be used again    *)
(* because the parent still exists, the parent still exists because        *)
(* whoever reaps it finds it HANGING, and a HANGING process has no         *)
(* children left since sys_exit gave them to init before it hung.  So they *)
(* are proved as one inductive invariant, WaitExitInv, in which children   *)
(* are told by father and not by pid; ChildrenByFather joins the two.      *)
(***************************************************************************)
EXTENDS WaitExit, ThreadOpsProofs, TLAPS

\* Where the three threads of the kernel and the sleepers are. init is never
\* reaped and keeps pid 1, to which init_adopt_a_child sends the orphans.
PlaceInv ==
    /\ pc[Main] = "user" /\ pc[Idle] = "user"
    /\ pc[InitProc] \in {"user", "wait"}
    /\ Exists(sched, InitProc) /\ sched.pid[InitProc] = 1
    /\ sched.status[Main] # "FREE"
    /\ \A t \in Threads : pc[t] \in {"wait", "release"} => Exists(sched, t)
    /\ \A t \in asleep : pc[t] = "release" /\ sched.status[t] = "BLOCKED"

\* parent_pid is the pid of the father, who has not begun to exit.
FatherInv ==
    /\ ppid[Main] = NoPid /\ ppid[Idle] = NoPid /\ ppid[InitProc] = NoPid
    /\ \A t \in Threads \ {InitProc} :
         IsProcess(t) =>
           /\ IsProcess(father[t]) /\ pc[father[t]] \in {"user", "wait"}
           /\ ppid[t] = sched.pid[father[t]]

\* WaitNotMissed with the children told by father.
WaitInv ==
    \A t \in Threads \ {InitProc} :
      sched.status[t] = "WAITING" =>
        /\ \E c \in Threads \ {InitProc} : IsProcess(c) /\ father[c] = t
        /\ \A c \in Threads \ {InitProc} :
             father[c] = t => sched.status[c] # "HANGING"

WaitExitInv ==
    /\ TypeOK
    /\ SchedInv(sched)
    /\ PlaceInv
    /\ SleepStatesExact
    /\ FatherInv
    /\ WaitInv

-----------------------------------------------------------------------------
\* Facts about a state in which the invariant holds.

\* pids of living threads are different and never 0 or NoPid.
LEMMA PidFacts ==
    ASSUME SchedInv(sched)
    PROVE  /\ \A t \in Threads : Contains(sched.all, t) <=> Exists(sched, t)
           /\ \A t \in Threads : Exists(sched, t) => sched.pid[t] \in Pids
           /\ \A t, u \in Threads : Exists(sched, t) /\ Exists(sched, u)
                /\ sched.pid[t] = sched.pid[u] => t = u
<1>1. AllExact(sched) /\ PidExact(sched) /\ sched.pids \in SUBSET Pids
  BY DEF SchedInv, SchedCore, SchedState
<1>2. \A t \in Threads : t \in Alive(sched) <=> Exists(sched, t)
  BY DEF Alive
<1> QED BY <1>1, <1>2 DEF AllExact, PidExact

\* NoPid is no pid, and 1 is one.
LEMMA NoPidFacts == NoPid \notin Pids /\ 1 \in Pids /\ 0 \notin Pids
  BY MaxPidAssumption DEF NoPid, Pids

\* The owner of the processor, and idle.
LEMMA CurFacts ==
    ASSUME NEW s, SchedInv(s)
    PROVE  /\ s.cur \in Threads
           /\ s.status[s.cur] = "RUNNING"
           /\ Exists(s, s.cur)
           /\ Exists(s, Idle)
           /\ s.status[Idle] \notin {"WAITING", "HANGING"}
           /\ s.status \in [Threads -> Statuses]
           /\ s \in SchedState
           /\ s.halt # "panic"
  BY DEF SchedInv, SchedCore, SchedState, IdleExact, Exists

\* What list_traversal finds by parent_pid are the processes the caller forked
\* or, if it is init, adopted.
LEMMA ChildrenByFather ==
    ASSUME WaitExitInv, NEW t \in Threads, Exists(sched, t)
    PROVE  \A c \in Threads :
             c \in Children(t) <=> c # InitProc /\ IsProcess(c) /\ father[c] = t
<1> SUFFICES ASSUME NEW c \in Threads
             PROVE  c \in Children(t)
                      <=> c # InitProc /\ IsProcess(c) /\ father[c] = t
  OBVIOUS
<1>1. sched.pid[t] \in Pids /\ father[c] \in Threads
  BY PidFacts DEF WaitExitInv, TypeOK
<1>2. c \in Children(t) <=> Exists(sched, c) /\ ppid[c] = sched.pid[t]
  BY PidFacts DEF Children, WaitExitInv
<1>3. c \in {Main, Idle, InitProc} => ppid[c] # sched.pid[t]
  BY <1>1, NoPidFacts DEF WaitExitInv, FatherInv
<1>4. c # InitProc /\ IsProcess(c)
        => Exists(sched, father[c]) /\ ppid[c] = sched.pid[father[c]]
  BY DEF WaitExitInv, FatherInv, IsProcess
<1>5. c # InitProc /\ IsProcess(c)
        => (ppid[c] = sched.pid[t] <=> father[c] = t)
  BY <1>1, <1>4, PidFacts DEF WaitExitInv
<1> QED BY <1>2, <1>3, <1>5 DEF IsProcess

-----------------------------------------------------------------------------
\* The invariant says what the runs check.

LEMMA InvImplies ==
    ASSUME WaitExitInv
    PROVE  ParentExact /\ WaitNotMissed /\ SleepStatesExact /\ NoPanic
<1>1. ParentExact
  <2> SUFFICES ASSUME NEW t \in Threads \ {InitProc}, IsProcess(t)
               PROVE  /\ IsProcess(father[t])
                      /\ pc[father[t]] \in {"user", "wait"}
                      /\ \A u \in Threads : HasPid(u, ppid[t]) <=> u = father[t]
    BY DEF ParentExact
  <2>1. /\ IsProcess(father[t]) /\ pc[father[t]] \in {"user", "wait"}
        /\ ppid[t] = sched.pid[father[t]] /\ father[t] \in Threads
        /\ Exists(sched, father[t])
    BY DEF WaitExitInv, FatherInv, TypeOK, IsProcess
  <2>2. \A u \in Threads : HasPid(u, ppid[t]) <=> u = father[t]
    BY <2>1, PidFacts DEF HasPid, WaitExitInv
  <2> QED BY <2>1, <2>2
<1>2. WaitNotMissed
  <2> SUFFICES ASSUME NEW t \in Threads \ {InitProc},
                      sched.status[t] = "WAITING"
               PROVE  Children(t) # {} /\ HangingChildren(t) = {}
    BY DEF WaitNotMissed
  <2>1. \A c \in Threads :
          c \in Children(t) <=> c # InitProc /\ IsProcess(c) /\ father[c] = t
    BY ChildrenByFather DEF Exists
  <2>2. /\ \E c \in Threads \ {InitProc} : IsProcess(c) /\ father[c] = t
        /\ \A c \in Threads \ {InitProc} :
             father[c] = t => sched.status[c] # "HANGING"
    BY DEF WaitExitInv, WaitInv
  <2>3. Children(t) # {}
    BY <2>1, <2>2
  <2>4. \A c \in Children(t) : c \in Threads /\ sched.status[c] # "HANGING"
    BY <2>1, <2>2 DEF Children
  <2> QED BY <2>3, <2>4 DEF HangingChildren
<1>3. SleepStatesExact /\ NoPanic
  BY CurFacts DEF WaitExitInv, NoPanic
<1> QED BY <1>1, <1>2, <1>3

LEMMA InitHolds == Init => WaitExitInv
<1> SUFFICES ASSUME Init PROVE WaitExitInv
  OBVIOUS
<1>1. SchedInv(sched) /\ sched \in SchedState
  BY BootFacts DEF Init, SchedInv, SchedCore
<1>2. /\ \A t \in Threads : sched.status[t] =
            IF t = Main THEN "RUNNING"
            ELSE IF t \in {InitProc, Idle} THEN "READY" ELSE "FREE"
      /\ sched.pid[InitProc] = 1
  BY ThreadsAssumption DEF Init, BootState
<1>3. TypeOK
  BY <1>1 DEF Init, TypeOK, Places
<1>4. PlaceInv
  BY <1>2, ThreadsAssumption DEF Init, PlaceInv, Exists
<1>5. SleepStatesExact
  BY <1>2 DEF Init, SleepStatesExact
<1>6. FatherInv
  BY <1>2, ThreadsAssumption DEF Init, FatherInv, IsProcess, Exists
<1>7. WaitInv
  BY <1>2 DEF WaitInv
<1> QED BY <1>1, <1>3, <1>4, <1>5, <1>6, <1>7 DEF WaitExitInv

-----------------------------------------------------------------------------
\* Scheduling: what happens to everybody but idle when nobody goes to sleep, and
\* when t goes to sleep in state stat.

Calm(s, n) ==
    /\ n.pid = s.pid
    /\ \A u \in Threads \ {Idle} :
         IF s.status[u] \in {"READY", "RUNNING"}
         THEN n.status[u] \in {"READY", "RUNNING"}
         ELSE n.status[u] = s.status[u]

Became(s, n, t, stat) ==
    /\ n.pid = s.pid
    /\ \A u \in Threads \ {Idle} :
         IF u = t THEN n.status[u] = stat
         ELSE IF s.status[u] \in {"READY", "RUNNING"}
         THEN n.status[u] \in {"READY", "RUNNING"}
         ELSE n.status[u] = s.status[u]

LEMMA CalmTick ==
    ASSUME NEW s, SchedInv(s), s.halt = "no"
    PROVE  SchedInv(TimerTick(s)) /\ Calm(s, TimerTick(s))
<1>1. SchedInv(TimerTick(s)) /\ Kept(s, TimerTick(s))
  BY TickFacts
<1> QED BY <1>1 DEF Kept, Calm

LEMMA BlockBecomes ==
    ASSUME NEW s, SchedInv(s), s.halt = "no", NEW stat \in Sleeping,
           s.cur = Idle => stat = "BLOCKED"
    PROVE  SchedInv(Block(s, stat)) /\ Became(s, Block(s, stat), s.cur, stat)
<1> DEFINE n == Block(s, stat)
           m == [s EXCEPT !.status[s.cur] = stat]
<1>1. SchedInv(n) /\ Kept(m, n)
  BY BlockFacts
<1>2. s.cur \in Threads /\ s.status[s.cur] = "RUNNING" /\ SchedCore(s)
  BY DEF SchedInv, SchedCore, SchedState
<1>3. m.pid = s.pid
  BY <1>2, StatusFacts
<1>4. \A u \in Threads \ {Idle} :
        IF u = s.cur THEN n.status[u] = stat
        ELSE IF s.status[u] \in {"READY", "RUNNING"}
        THEN n.status[u] \in {"READY", "RUNNING"}
        ELSE n.status[u] = s.status[u]
  BY BlockStatus
<1>5. n.pid = s.pid
  BY <1>1, <1>3 DEF Kept
<1> HIDE DEF n
<1>6. Became(s, n, s.cur, stat)
  BY <1>4, <1>5 DEF Became
<1> QED BY <1>1, <1>6 DEF n

\* A step that only schedules disturbs nothing.
LEMMA CalmKeepsInv ==
    ASSUME WaitExitInv, SchedInv(sched'), Calm(sched, sched'),
           UNCHANGED <<ppid, pc, asleep, father>>
    PROVE  WaitExitInv'
<1>1. /\ TypeOK /\ SchedInv(sched) /\ PlaceInv /\ SleepStatesExact
      /\ FatherInv /\ WaitInv
  BY DEF WaitExitInv
<1>2. /\ sched'.pid = sched.pid
      /\ \A u \in Threads \ {Idle} :
           /\ Exists(sched', u) <=> Exists(sched, u)
           /\ sched'.status[u] = "FREE" <=> sched.status[u] = "FREE"
           /\ \A stat \in Sleeping :
                sched'.status[u] = stat <=> sched.status[u] = stat
  BY DEF Calm, Exists, Sleeping
<1>3. /\ Exists(sched, Idle) /\ Exists(sched', Idle)
      /\ sched.status[Idle] \notin {"WAITING", "HANGING"}
      /\ sched'.status[Idle] \notin {"WAITING", "HANGING"}
      /\ sched' \in SchedState
  BY <1>1, CurFacts
<1>4. \A u \in Threads : IsProcess(u)' <=> IsProcess(u)
  BY <1>2 DEF IsProcess
<1>5. /\ \A u \in Threads : Exists(sched', u) <=> Exists(sched, u)
      /\ \A u \in Threads, stat \in {"WAITING", "HANGING"} :
           sched'.status[u] = stat <=> sched.status[u] = stat
      /\ \A u \in Threads \ {Idle} :
           sched'.status[u] = "BLOCKED" <=> sched.status[u] = "BLOCKED"
  BY <1>2, <1>3 DEF Sleeping
<1>6. TypeOK'
  BY <1>1, <1>3 DEF TypeOK
<1>7. PlaceInv'
  BY <1>1, <1>2, <1>5, ThreadsAssumption DEF PlaceInv, TypeOK
<1>8. SleepStatesExact'
  BY <1>1, <1>5 DEF SleepStatesExact
<1>9. FatherInv'
  BY <1>1, <1>2, <1>4 DEF FatherInv, TypeOK
<1>10. WaitInv'
  BY <1>1, <1>4, <1>5 DEF WaitInv
<1> QED BY <1>6, <1>7, <1>8, <1>9, <1>10 DEF WaitExitInv

-----------------------------------------------------------------------------
\* One lemma per action.

\* The caller of a system call, or the boot thread.
LEMMA AtFacts ==
    ASSUME WaitExitInv, NEW t \in Threads, NEW place, At(t, place)
    PROVE  /\ sched.cur = t /\ pc[t] = place /\ sched.halt = "no"
           /\ sched.status[t] = "RUNNING" /\ Exists(sched, t)
           /\ place \in {"wait", "release"} => IsProcess(t)
<1>1. /\ sched.cur = t /\ pc[t] = place /\ sched.halt = "no"
      /\ sched.status[t] = "RUNNING" /\ Exists(sched, t)
  BY CurFacts DEF WaitExitInv, At, Running
<1>2. pc[Main] = "user" /\ pc[Idle] = "user"
  BY DEF WaitExitInv, PlaceInv
<1> QED BY <1>1, <1>2 DEF IsProcess

\* sys_wait begins, or finds no child and returns.
LEMMA CallKeepsInv ==
    ASSUME WaitExitInv, NEW t \in Threads, IsProcess(t),
           sched.status[t] = "RUNNING", pc[t] \in {"user", "wait"},
           NEW place \in {"user", "wait"}, pc' = [pc EXCEPT ![t] = place],
           UNCHANGED <<sched, ppid, asleep, father>>
    PROVE  WaitExitInv'
<1>1. /\ TypeOK /\ SchedInv(sched) /\ PlaceInv /\ SleepStatesExact
      /\ FatherInv /\ WaitInv
  BY DEF WaitExitInv
<1>2. \A u \in Threads : pc'[u] = IF u = t THEN place ELSE pc[u]
  BY <1>1 DEF TypeOK
<1>3. \A u \in Threads : IsProcess(u)' <=> IsProcess(u)
  BY DEF IsProcess
<1>4. TypeOK' /\ SchedInv(sched')
  BY <1>1 DEF TypeOK, Places
<1>5. PlaceInv'
  BY <1>1, <1>2, ThreadsAssumption DEF PlaceInv, TypeOK, IsProcess
<1>6. SleepStatesExact'
  BY <1>1, <1>2 DEF SleepStatesExact
<1>7. FatherInv'
  BY <1>1, <1>2, <1>3 DEF FatherInv, TypeOK
<1>8. WaitInv'
  BY <1>1, <1>3 DEF WaitInv
<1> QED BY <1>4, <1>5, <1>6, <1>7, <1>8 DEF WaitExitInv

LEMMA CallWaitStep ==
    ASSUME WaitExitInv, NEW t \in Threads, CallWait(t)
    PROVE  WaitExitInv'
<1>1. At(t, "user") /\ IsProcess(t)
  BY DEF CallWait
<1>2. pc[t] = "user" /\ sched.status[t] = "RUNNING"
  BY <1>1, AtFacts
<1> QED BY <1>1, <1>2, CallKeepsInv DEF CallWait

LEMMA WaitFailsStep ==
    ASSUME WaitExitInv, NEW t \in Threads, WaitFails(t)
    PROVE  WaitExitInv'
<1>1. At(t, "wait")
  BY DEF WaitFails
<1>2. pc[t] = "wait" /\ sched.status[t] = "RUNNING" /\ IsProcess(t)
  BY <1>1, AtFacts
<1> QED BY <1>2, CallKeepsInv DEF WaitFails

\* sys_wait sleeps: it has children and has just seen that none is HANGING.
LEMMA WaitSleepsStep ==
    ASSUME WaitExitInv, NEW t \in Threads, WaitSleeps(t)
    PROVE  WaitExitInv'
<1>1. /\ TypeOK /\ SchedInv(sched) /\ PlaceInv /\ SleepStatesExact
      /\ FatherInv /\ WaitInv
  BY DEF WaitExitInv
<1>2. /\ sched.cur = t /\ pc[t] = "wait" /\ sched.halt = "no"
      /\ sched.status[t] = "RUNNING" /\ Exists(sched, t) /\ IsProcess(t)
  BY AtFacts DEF WaitSleeps
<1>3. SchedInv(sched') /\ Became(sched, sched', t, "WAITING")
  <2>1. sched' = Block(sched, "WAITING") /\ "WAITING" \in Sleeping /\ t # Idle
    BY <1>2 DEF WaitSleeps, Sleeping, IsProcess
  <2> QED BY <1>1, <1>2, <2>1, BlockBecomes
<1>4. /\ sched'.pid = sched.pid /\ t # Idle
      /\ \A u \in Threads \ {Idle} :
           /\ Exists(sched', u) <=> Exists(sched, u)
           /\ sched'.status[u] = "FREE" <=> sched.status[u] = "FREE"
           /\ sched'.status[u] = "WAITING"
                <=> sched.status[u] = "WAITING" \/ u = t
           /\ sched'.status[u] = "HANGING" <=> sched.status[u] = "HANGING"
           /\ sched'.status[u] = "BLOCKED" <=> sched.status[u] = "BLOCKED"
  BY <1>2, <1>3 DEF Became, Exists, IsProcess
<1>5. /\ Exists(sched, Idle) /\ Exists(sched', Idle)
      /\ sched.status[Idle] \notin {"WAITING", "HANGING"}
      /\ sched'.status[Idle] \notin {"WAITING", "HANGING"}
      /\ sched' \in SchedState
  BY <1>1, <1>3, CurFacts
<1>6. \A u \in Threads : IsProcess(u)' <=> IsProcess(u)
  BY <1>4 DEF IsProcess
<1>7. UNCHANGED <<ppid, pc, asleep, father>>
  BY DEF WaitSleeps
<1>8. TypeOK'
  BY <1>1, <1>5, <1>7 DEF TypeOK
<1>9. PlaceInv'
  BY <1>1, <1>4, <1>5, <1>7, ThreadsAssumption DEF PlaceInv, TypeOK
<1>10. SleepStatesExact'
  BY <1>1, <1>2, <1>4, <1>5, <1>7 DEF SleepStatesExact
<1>11. FatherInv'
  BY <1>1, <1>4, <1>6, <1>7 DEF FatherInv, TypeOK
<1>12. WaitInv'
  <2>1. /\ \E c \in Threads \ {InitProc} : IsProcess(c) /\ father[c] = t
        /\ \A c \in Threads \ {InitProc} :
             father[c] = t => sched.status[c] # "HANGING"
    <3>1. \A c \in Threads :
            c \in Children(t) <=> c # InitProc /\ IsProcess(c) /\ father[c] = t
      BY <1>2, ChildrenByFather
    <3>2. /\ \E c \in Threads : c \in Children(t)
          /\ \A c \in Children(t) : sched.status[c] # "HANGING"
      BY DEF WaitSleeps, HangingChildren, Children
    <3>3. \A c \in Threads : sched.status[c] = "HANGING" => IsProcess(c)
      BY <1>1, <1>5 DEF SleepStatesExact, PlaceInv, IsProcess
    <3> QED BY <3>1, <3>2, <3>3
  <2>2. \A u \in Threads : /\ sched'.status[u] = "HANGING" <=> sched.status[u] = "HANGING"
                           /\ sched'.status[u] = "WAITING"
                                <=> sched.status[u] = "WAITING" \/ u = t
    BY <1>4, <1>5
  <2> QED BY <1>1, <1>6, <1>7, <2>1, <2>2 DEF WaitInv
<1> QED BY <1>3, <1>8, <1>9, <1>10, <1>11, <1>12 DEF WaitExitInv

\* sys_exit sleeps for a lock on its way out.
LEMMA ReleaseSleepsStep ==
    ASSUME WaitExitInv, NEW t \in Threads, ReleaseSleeps(t)
    PROVE  WaitExitInv'
<1>1. /\ TypeOK /\ SchedInv(sched) /\ PlaceInv /\ SleepStatesExact
      /\ FatherInv /\ WaitInv
  BY DEF WaitExitInv
<1>2. /\ sched.cur = t /\ pc[t] = "release" /\ sched.halt = "no"
      /\ sched.status[t] = "RUNNING" /\ Exists(sched, t) /\ IsProcess(t)
  BY AtFacts DEF ReleaseSleeps
<1>3. SchedInv(sched') /\ Became(sched, sched', t, "BLOCKED")
  <2>1. sched' = Block(sched, "BLOCKED") /\ "BLOCKED" \in Sleeping
    BY DEF ReleaseSleeps, Sleeping
  <2> QED BY <1>1, <1>2, <2>1, BlockBecomes
<1>4. /\ sched'.pid = sched.pid /\ t # Idle
      /\ \A u \in Threads \ {Idle} :
           /\ Exists(sched', u) <=> Exists(sched, u)
           /\ sched'.status[u] = "FREE" <=> sched.status[u] = "FREE"
           /\ sched'.status[u] = "WAITING" <=> sched.status[u] = "WAITING"
           /\ sched'.status[u] = "HANGING" <=> sched.status[u] = "HANGING"
           /\ sched'.status[u] = "BLOCKED"
                <=> sched.status[u] = "BLOCKED" \/ u = t
  BY <1>2, <1>3 DEF Became, Exists, IsProcess
<1>5. /\ Exists(sched, Idle) /\ Exists(sched', Idle)
      /\ sched.status[Idle] \notin {"WAITING", "HANGING"}
      /\ sched'.status[Idle] \notin {"WAITING", "HANGING"}
      /\ sched' \in SchedState
  BY <1>1, <1>3, CurFacts
<1>6. \A u \in Threads : IsProcess(u)' <=> IsProcess(u)
  BY <1>4 DEF IsProcess
<1>7. UNCHANGED <<ppid, pc, father>> /\ asleep' = asleep \cup {t}
  BY DEF ReleaseSleeps
<1>8. TypeOK'
  BY <1>1, <1>5, <1>7 DEF TypeOK
<1>9. PlaceInv'
  BY <1>1, <1>2, <1>4, <1>5, <1>7, ThreadsAssumption DEF PlaceInv, TypeOK
<1>10. SleepStatesExact'
  BY <1>1, <1>2, <1>4, <1>5, <1>7 DEF SleepStatesExact
<1>11. FatherInv'
  BY <1>1, <1>4, <1>6, <1>7 DEF FatherInv, TypeOK
<1>12. WaitInv'
  BY <1>1, <1>4, <1>5, <1>6, <1>7 DEF WaitInv
<1> QED BY <1>3, <1>8, <1>9, <1>10, <1>11, <1>12 DEF WaitExitInv

\* The boot thread lets it go on.
LEMMA LockFreedStep ==
    ASSUME WaitExitInv, NEW t \in Threads, LockFreed(t)
    PROVE  WaitExitInv'
<1>1. /\ TypeOK /\ SchedInv(sched) /\ PlaceInv /\ SleepStatesExact
      /\ FatherInv /\ WaitInv
  BY DEF WaitExitInv
<1>2. /\ sched' = Unblock(sched, t) /\ asleep' = asleep \ {t} /\ t \in asleep
      /\ UNCHANGED <<ppid, pc, father>>
  BY DEF LockFreed
<1>3. pc[t] = "release" /\ sched.status[t] = "BLOCKED" /\ t # Idle
  BY <1>1, <1>2 DEF PlaceInv
<1>4. /\ SchedInv(sched') /\ sched'.pid = sched.pid
      /\ \A u \in Threads : sched'.status[u] =
                              IF u = t THEN "READY" ELSE sched.status[u]
  <2>1. sched.status[t] \in Sleeping
    BY <1>3 DEF Sleeping
  <2> QED BY <1>1, <1>2, <2>1, WakeFacts
<1>5. \A u \in Threads :
           /\ Exists(sched', u) <=> Exists(sched, u)
           /\ sched'.status[u] = "FREE" <=> sched.status[u] = "FREE"
           /\ sched'.status[u] = "WAITING" <=> sched.status[u] = "WAITING"
           /\ sched'.status[u] = "HANGING" <=> sched.status[u] = "HANGING"
           /\ sched'.status[u] = "BLOCKED"
                <=> sched.status[u] = "BLOCKED" /\ u # t
  BY <1>3, <1>4 DEF Exists
<1>6. \A u \in Threads : IsProcess(u)' <=> IsProcess(u)
  BY <1>5 DEF IsProcess
<1>7. sched' \in SchedState
  BY <1>4, CurFacts
<1>8. TypeOK'
  BY <1>1, <1>2, <1>7 DEF TypeOK
<1>9. PlaceInv'
  BY <1>1, <1>2, <1>4, <1>5, ThreadsAssumption DEF PlaceInv, TypeOK
<1>10. SleepStatesExact'
  BY <1>1, <1>2, <1>5 DEF SleepStatesExact
<1>11. FatherInv'
  BY <1>1, <1>2, <1>4, <1>6 DEF FatherInv, TypeOK
<1>12. WaitInv'
  BY <1>1, <1>2, <1>5, <1>6 DEF WaitInv
<1> QED BY <1>4, <1>8, <1>9, <1>10, <1>11, <1>12 DEF WaitExitInv

\* sys_exit finds its parent and wakes it if it sleeps in sys_wait.
LEMMA WakeParentFacts ==
    ASSUME WaitExitInv, NEW t \in Threads, At(t, "release")
    PROVE  /\ SchedInv(WakeParent(t))
           /\ WakeParent(t).cur = t
           /\ WakeParent(t).halt = "no"
           /\ WakeParent(t).pid = sched.pid
           /\ \A u \in Threads : WakeParent(t).status[u] =
                IF u = father[t] /\ sched.status[u] = "WAITING"
                THEN "READY" ELSE sched.status[u]
<1>1. /\ SchedInv(sched) /\ PlaceInv /\ TypeOK
  BY DEF WaitExitInv
<1>2. /\ sched.cur = t /\ pc[t] = "release" /\ sched.halt = "no"
      /\ sched.status[t] = "RUNNING" /\ IsProcess(t)
  BY AtFacts
<1>3. t # InitProc
  BY <1>1, <1>2 DEF PlaceInv
<1>4. /\ \A u \in Threads : HasPid(u, ppid[t]) <=> u = father[t]
      /\ father[t] \in Threads
  BY <1>1, <1>2, <1>3, InvImplies DEF ParentExact, TypeOK
<1>5. WakeParent(t) = IF sched.status[father[t]] = "WAITING"
                      THEN Unblock(sched, father[t]) ELSE sched
  <2>1. \E u \in Threads : HasPid(u, ppid[t])
    BY <1>4
  <2>2. (CHOOSE u \in Threads : HasPid(u, ppid[t])) = father[t]
    BY <1>4
  <2> QED BY <2>1, <2>2 DEF WakeParent
<1>6. CASE sched.status[father[t]] = "WAITING"
  <2>1. sched.status[father[t]] \in Sleeping
    BY <1>6 DEF Sleeping
  <2> QED BY <1>1, <1>2, <1>4, <1>5, <1>6, <2>1, WakeFacts
<1>7. CASE sched.status[father[t]] # "WAITING"
  BY <1>1, <1>2, <1>4, <1>5, <1>7
<1> QED BY <1>6, <1>7

\* sys_exit ends: the parent was woken, and the process hangs.
LEMMA ExitHangsStep ==
    ASSUME WaitExitInv, NEW t \in Threads, ExitHangs(t)
    PROVE  WaitExitInv'
<1> DEFINE s == WakeParent(t)
<1>1. /\ TypeOK /\ SchedInv(sched) /\ PlaceInv /\ SleepStatesExact
      /\ FatherInv /\ WaitInv
  BY DEF WaitExitInv
<1>2. /\ sched.cur = t /\ pc[t] = "release" /\ sched.halt = "no"
      /\ sched.status[t] = "RUNNING" /\ Exists(sched, t) /\ IsProcess(t)
  BY AtFacts DEF ExitHangs
<1>3. /\ SchedInv(s) /\ s.cur = t /\ s.halt = "no" /\ s.pid = sched.pid
      /\ \A u \in Threads : s.status[u] =
           IF u = father[t] /\ sched.status[u] = "WAITING"
           THEN "READY" ELSE sched.status[u]
  BY WakeParentFacts DEF ExitHangs
<1>4. SchedInv(sched') /\ Became(s, sched', t, "HANGING")
  <2>1. sched' = Block(s, "HANGING") /\ "HANGING" \in Sleeping /\ t # Idle
    BY <1>2, <1>3 DEF ExitHangs, Sleeping, IsProcess
  <2> HIDE DEF s
  <2> QED BY <1>3, <2>1, BlockBecomes
<1> HIDE DEF s
<1>5. /\ sched'.pid = sched.pid /\ t # Idle /\ t # Main
      /\ \A u \in Threads \ {Idle} :
           /\ Exists(sched', u) <=> Exists(sched, u)
           /\ sched'.status[u] = "FREE" <=> sched.status[u] = "FREE"
           /\ sched'.status[u] = "WAITING"
                => sched.status[u] = "WAITING" /\ u # father[t]
           /\ sched'.status[u] = "HANGING"
                <=> sched.status[u] = "HANGING" \/ u = t
           /\ sched'.status[u] = "BLOCKED" <=> sched.status[u] = "BLOCKED"
  BY <1>2, <1>3, <1>4 DEF Became, Exists, IsProcess
<1>6. /\ Exists(sched, Idle) /\ Exists(sched', Idle)
      /\ sched.status[Idle] \notin {"WAITING", "HANGING"}
      /\ sched'.status[Idle] \notin {"WAITING", "HANGING"}
      /\ sched' \in SchedState
  BY <1>1, <1>4, CurFacts
<1>7. \A u \in Threads : IsProcess(u)' <=> IsProcess(u)
  BY <1>5 DEF IsProcess
<1>8. UNCHANGED <<ppid, asleep, father>> /\ pc' = [pc EXCEPT ![t] = "gone"]
  BY DEF ExitHangs
<1>9. \A u \in Threads : pc'[u] = IF u = t THEN "gone" ELSE pc[u]
  BY <1>1, <1>8 DEF TypeOK
<1>10. TypeOK'
  BY <1>1, <1>6, <1>8 DEF TypeOK, Places
<1>11. PlaceInv'
  <2>1. t # InitProc /\ t \notin asleep
    BY <1>1, <1>2 DEF PlaceInv
  <2>2. asleep \in SUBSET (Threads \ {Idle})
    BY <1>1 DEF TypeOK, PlaceInv
  <2>3. /\ pc'[Main] = "user" /\ pc'[Idle] = "user"
        /\ pc'[InitProc] \in {"user", "wait"}
        /\ Exists(sched', InitProc) /\ sched'.pid[InitProc] = 1
        /\ sched'.status[Main] # "FREE"
    BY <1>1, <1>5, <1>9, <2>1, ThreadsAssumption DEF PlaceInv
  <2>4. \A u \in Threads : pc'[u] \in {"wait", "release"} => Exists(sched', u)
    BY <1>1, <1>5, <1>6, <1>9 DEF PlaceInv
  <2>5. \A u \in asleep' : pc'[u] = "release" /\ sched'.status[u] = "BLOCKED"
    BY <1>1, <1>5, <1>8, <1>9, <2>1, <2>2 DEF PlaceInv
  <2> QED BY <2>3, <2>4, <2>5 DEF PlaceInv
<1>12. SleepStatesExact'
  BY <1>1, <1>2, <1>5, <1>6, <1>8, <1>9 DEF SleepStatesExact
<1>13. FatherInv'
  BY <1>1, <1>2, <1>5, <1>7, <1>8, <1>9 DEF FatherInv, TypeOK
<1>14. WaitInv'
  BY <1>1, <1>5, <1>6, <1>7, <1>8 DEF WaitInv
<1> QED BY <1>4, <1>10, <1>11, <1>12, <1>13, <1>14 DEF WaitExitInv

\* sys_fork: the new process is a child of its caller, who is in no sleep.
LEMMA ForkStep ==
    ASSUME WaitExitInv, NEW t \in Threads, NEW p \in Pids, Fork(t, p)
    PROVE  WaitExitInv'
<1>1. /\ TypeOK /\ SchedInv(sched) /\ PlaceInv /\ SleepStatesExact
      /\ FatherInv /\ WaitInv
  BY DEF WaitExitInv
<1>0. PICK me \in Threads : me = sched.cur
  BY <1>1, CurFacts
<1>2. /\ sched.status[me] = "RUNNING" /\ Exists(sched, me)
      /\ sched.pid[me] \in Pids
  BY <1>1, <1>0, CurFacts, PidFacts
<1>3. /\ pc[me] = "user" /\ IsProcess(me) /\ sched.status[t] = "FREE"
      /\ t # me /\ t # InitProc /\ t # Main /\ p \in Pids \ sched.pids
      /\ sched' = ThreadStart(sched, t, p)
      /\ ppid' = [ppid EXCEPT ![t] = sched.pid[me]]
      /\ father' = [father EXCEPT ![t] = me]
      /\ pc' = [pc EXCEPT ![t] = "user"]
      /\ asleep' = asleep
  BY <1>1, <1>0, <1>2 DEF Fork, ForkGetsPage, At, LowestFreePid, PlaceInv, Exists
<1>4. /\ SchedInv(sched')
      /\ \A u \in Threads : sched'.status[u] =
                              IF u = t THEN "READY" ELSE sched.status[u]
      /\ \A u \in Threads : sched'.pid[u] = IF u = t THEN p ELSE sched.pid[u]
  BY <1>1, <1>3, StartFacts
<1>5. /\ \A u \in Threads : pc'[u] = IF u = t THEN "user" ELSE pc[u]
      /\ \A u \in Threads : ppid'[u] = IF u = t THEN sched.pid[me] ELSE ppid[u]
      /\ \A u \in Threads : father'[u] = IF u = t THEN me ELSE father[u]
  BY <1>1, <1>3 DEF TypeOK
<1>6. \A u \in Threads :
        /\ u # t => (Exists(sched', u) <=> Exists(sched, u))
        /\ u # t => (sched'.status[u] = "FREE" <=> sched.status[u] = "FREE")
        /\ Exists(sched', t) /\ ~Exists(sched, t)
        /\ sched'.status[u] = "WAITING" <=> sched.status[u] = "WAITING"
        /\ sched'.status[u] = "HANGING" <=> sched.status[u] = "HANGING"
        /\ sched'.status[u] = "BLOCKED" <=> sched.status[u] = "BLOCKED"
  BY <1>3, <1>4 DEF Exists
<1>7. /\ Exists(sched, Idle) /\ sched' \in SchedState
      /\ sched.status[Idle] \notin {"WAITING", "HANGING"}
  BY <1>1, <1>4, CurFacts
<1>8. \A u \in Threads : u # t => (IsProcess(u)' <=> IsProcess(u))
  BY <1>6 DEF IsProcess
<1>9. TypeOK'
  BY <1>1, <1>2, <1>3, <1>7 DEF TypeOK, Places
<1>10. PlaceInv'
  <2>1. asleep \in SUBSET Threads /\ t \notin asleep /\ t # Idle
    BY <1>1, <1>3, <1>6, <1>7 DEF TypeOK, PlaceInv
  <2>2. /\ pc'[Main] = "user" /\ pc'[Idle] = "user"
        /\ pc'[InitProc] \in {"user", "wait"}
        /\ Exists(sched', InitProc) /\ sched'.pid[InitProc] = 1
        /\ sched'.status[Main] # "FREE"
    BY <1>1, <1>3, <1>4, <1>5, <1>6, ThreadsAssumption DEF PlaceInv
  <2>3. \A u \in Threads : pc'[u] \in {"wait", "release"} => Exists(sched', u)
    BY <1>1, <1>5, <1>6 DEF PlaceInv
  <2>4. \A u \in asleep' : pc'[u] = "release" /\ sched'.status[u] = "BLOCKED"
    BY <1>1, <1>3, <1>5, <1>6, <2>1 DEF PlaceInv
  <2> QED BY <2>2, <2>3, <2>4 DEF PlaceInv
<1>11. SleepStatesExact'
  BY <1>1, <1>3, <1>4, <1>5, <1>6 DEF SleepStatesExact
<1>12. FatherInv'
  <2>1. /\ ppid'[Main] = NoPid /\ ppid'[Idle] = NoPid
        /\ ppid'[InitProc] = NoPid
    BY <1>1, <1>3, <1>5, <1>6, <1>7, ThreadsAssumption DEF FatherInv
  <2>2. ASSUME NEW u \in Threads \ {InitProc}, IsProcess(u)'
        PROVE  /\ IsProcess(father[u])' /\ pc'[father'[u]] \in {"user", "wait"}
               /\ ppid'[u] = sched'.pid[father'[u]]
    <3>1. CASE u = t
      <4>1. father'[u] = me /\ IsProcess(me)'
        BY <1>2, <1>3, <1>5, <1>8, <3>1
      <4> QED BY <1>2, <1>3, <1>4, <1>5, <3>1, <4>1
    <3>2. CASE u # t
      <4>1. /\ IsProcess(father[u]) /\ pc[father[u]] \in {"user", "wait"}
            /\ ppid[u] = sched.pid[father[u]] /\ father[u] \in Threads
        BY <1>1, <1>8, <2>2, <3>2 DEF FatherInv, TypeOK
      <4>2. father[u] # t /\ father'[u] = father[u]
        BY <1>5, <1>6, <3>2, <4>1 DEF IsProcess
      <4>3. IsProcess(father[u])'
        BY <1>8, <4>1, <4>2 DEF IsProcess
      <4> QED BY <1>4, <1>5, <3>2, <4>1, <4>2, <4>3
    <3> QED BY <3>1, <3>2
  <2> QED BY <2>1, <2>2 DEF FatherInv
<1>13. WaitInv'
  <2>1. \A c \in Threads : IsProcess(c) => c # t /\ IsProcess(c)'
    BY <1>6, <1>8 DEF IsProcess
  <2>2. sched.status[me] # "WAITING" /\ sched.status[t] # "WAITING"
    BY <1>2, <1>3
  <2> QED BY <1>1, <1>5, <1>6, <2>1, <2>2 DEF WaitInv
<1> QED BY <1>4, <1>9, <1>10, <1>11, <1>12, <1>13 DEF WaitExitInv

\* sys_wait reaps a child that hangs. Nobody has that child for a father any
\* more, so its pid may be used again.
LEMMA WaitReapsStep ==
    ASSUME WaitExitInv, NEW t \in Threads, NEW c \in Threads, WaitReaps(t, c)
    PROVE  WaitExitInv'
<1> DEFINE n == ThreadExit(sched, c)
<1>1. /\ TypeOK /\ SchedInv(sched) /\ PlaceInv /\ SleepStatesExact
      /\ FatherInv /\ WaitInv
  BY DEF WaitExitInv
<1>2. /\ sched.cur = t /\ pc[t] = "wait" /\ sched.halt = "no"
      /\ sched.status[t] = "RUNNING" /\ Exists(sched, t) /\ IsProcess(t)
  BY AtFacts DEF WaitReaps
<1>3. c \in Children(t) /\ sched.status[c] = "HANGING"
  BY DEF WaitReaps, FirstOf, HangingChildren
<1>4. /\ Exists(sched, c) /\ pc[c] = "gone" /\ c # t
      /\ c # InitProc /\ c # Main /\ c # Idle
  BY <1>1, <1>2, <1>3 DEF SleepStatesExact, PlaceInv, Exists
<1>5. /\ SchedInv(n)
      /\ \A u \in Threads : n.status[u] =
                              IF u = c THEN "FREE" ELSE sched.status[u]
      /\ \A u \in Threads : n.pid[u] = IF u = c THEN 0 ELSE sched.pid[u]
  <2>1. SchedCore(sched) /\ sched.cur \in Threads
    BY <1>1, CurFacts DEF SchedInv
  <2> QED BY <1>2, <1>4, <2>1, ExitFacts DEF SchedInv
<1>6. /\ SchedInv(sched')
      /\ sched'.status = n.status /\ sched'.pid = n.pid
  BY <1>5 DEF WaitReaps
<1> HIDE DEF n
<1>7. \A u \in Threads :
        /\ Exists(sched', u) <=> Exists(sched, u) /\ u # c
        /\ u # c => sched'.status[u] = sched.status[u]
        /\ u # c => sched'.pid[u] = sched.pid[u]
  BY <1>5, <1>6 DEF Exists
<1>8. ~Exists(sched', c) /\ sched'.status[c] = "FREE" /\ sched' \in SchedState
  BY <1>5, <1>6, CurFacts DEF Exists
<1>9. /\ UNCHANGED asleep
      /\ \A u \in Threads : pc'[u] = IF u = t THEN "user" ELSE pc[u]
      /\ \A u \in Threads : ppid'[u] = IF u = c THEN NoPid ELSE ppid[u]
      /\ \A u \in Threads : father'[u] = IF u = c THEN c ELSE father[u]
  BY <1>1 DEF WaitReaps, TypeOK
<1>10. \A u \in Threads : IsProcess(u)' <=> IsProcess(u) /\ u # c
  BY <1>7 DEF IsProcess
<1>11. TypeOK'
  BY <1>1, <1>8 DEF WaitReaps, TypeOK, Places
<1>12. PlaceInv'
  <2>1. asleep \in SUBSET Threads /\ c \notin asleep /\ t \notin asleep
    BY <1>1, <1>2, <1>4 DEF TypeOK, PlaceInv
  <2>2. /\ pc'[Main] = "user" /\ pc'[Idle] = "user"
        /\ pc'[InitProc] \in {"user", "wait"}
        /\ Exists(sched', InitProc) /\ sched'.pid[InitProc] = 1
        /\ sched'.status[Main] # "FREE"
    BY <1>1, <1>4, <1>7, <1>9, ThreadsAssumption DEF PlaceInv
  <2>3. \A u \in Threads : pc'[u] \in {"wait", "release"} => Exists(sched', u)
    BY <1>1, <1>4, <1>7, <1>9 DEF PlaceInv
  <2>4. \A u \in asleep' : pc'[u] = "release" /\ sched'.status[u] = "BLOCKED"
    BY <1>1, <1>7, <1>9, <2>1 DEF PlaceInv
  <2> QED BY <2>2, <2>3, <2>4 DEF PlaceInv
<1>13. SleepStatesExact'
  BY <1>1, <1>2, <1>4, <1>7, <1>8, <1>9 DEF SleepStatesExact
<1>14. FatherInv'
  <2>1. /\ ppid'[Main] = NoPid /\ ppid'[Idle] = NoPid
        /\ ppid'[InitProc] = NoPid
    BY <1>1, <1>4, <1>9, ThreadsAssumption DEF FatherInv
  <2>2. ASSUME NEW u \in Threads \ {InitProc}, IsProcess(u)'
        PROVE  /\ IsProcess(father[u])' /\ pc'[father'[u]] \in {"user", "wait"}
               /\ ppid'[u] = sched'.pid[father'[u]]
    <3>1. u # c /\ IsProcess(u)
      BY <1>10, <2>2
    <3>2. /\ IsProcess(father[u]) /\ pc[father[u]] \in {"user", "wait"}
          /\ ppid[u] = sched.pid[father[u]] /\ father[u] \in Threads
      BY <1>1, <3>1 DEF FatherInv, TypeOK
    <3>3. father[u] # c /\ father'[u] = father[u]
      BY <1>4, <1>9, <3>1, <3>2
    <3>4. IsProcess(father[u])'
      BY <1>10, <3>2, <3>3 DEF IsProcess
    <3> QED BY <1>7, <1>9, <3>1, <3>2, <3>3, <3>4
  <2> QED BY <2>1, <2>2 DEF FatherInv
<1>15. WaitInv'
  <2>1. father[c] = t
    BY <1>2, <1>3, ChildrenByFather
  <2>2. sched.status[t] # "WAITING" /\ sched'.status[t] # "WAITING"
    BY <1>2, <1>4, <1>7
  <2> QED BY <1>1, <1>7, <1>8, <1>9, <1>10, <2>1, <2>2 DEF WaitInv
<1> QED BY <1>6, <1>11, <1>12, <1>13, <1>14, <1>15 DEF WaitExitInv

\* sys_exit begins: the ASSERT on parent_pid holds, and the children go to init.
LEMMA CallExitStep ==
    ASSUME WaitExitInv, NEW t \in Threads, CallExit(t)
    PROVE  WaitExitInv'
<1>1. /\ TypeOK /\ SchedInv(sched) /\ PlaceInv /\ SleepStatesExact
      /\ FatherInv /\ WaitInv
  BY DEF WaitExitInv
<1>2. At(t, "user") /\ IsProcess(t) /\ t # InitProc
  BY DEF CallExit
<1>3. /\ pc[t] = "user" /\ sched.status[t] = "RUNNING" /\ Exists(sched, t)
  BY <1>2, AtFacts
<1>4. ppid[t] # NoPid
  BY <1>1, <1>2, PidFacts, NoPidFacts DEF FatherInv, TypeOK, IsProcess
<1>5. /\ UNCHANGED <<sched, asleep>>
      /\ ppid' = AdoptedPpid(t)
      /\ father' = [c \in Threads |->
                      IF c \in Children(t) THEN InitProc ELSE father[c]]
      /\ pc' = [pc EXCEPT ![t] = "release"]
  BY <1>4 DEF CallExit
<1>6. \A c \in Threads :
        c \in Children(t) <=> c # InitProc /\ IsProcess(c) /\ father[c] = t
  BY <1>3, ChildrenByFather
<1>7. /\ \A u \in Threads : pc'[u] = IF u = t THEN "release" ELSE pc[u]
      /\ \A u \in Threads :
           ppid'[u] = IF u \in Children(t) THEN 1 ELSE ppid[u]
      /\ \A u \in Threads :
           father'[u] = IF u \in Children(t) THEN InitProc ELSE father[u]
  BY <1>1, <1>5 DEF TypeOK, AdoptedPpid
<1>8. \A u \in Threads : IsProcess(u)' <=> IsProcess(u)
  BY <1>5 DEF IsProcess
<1>9. TypeOK'
  <2>1. AdoptedPpid(t) \in [Threads -> Pids \cup {NoPid}]
    BY <1>1, NoPidFacts DEF TypeOK, AdoptedPpid
  <2>2. father' \in [Threads -> Threads]
    BY <1>1, <1>5, ThreadsAssumption DEF TypeOK
  <2> QED BY <1>1, <1>5, <2>1, <2>2 DEF TypeOK, Places
<1>10. PlaceInv'
  BY <1>1, <1>2, <1>3, <1>5, <1>7, ThreadsAssumption
     DEF PlaceInv, TypeOK, IsProcess
<1>11. SleepStatesExact'
  BY <1>1, <1>3, <1>5, <1>7 DEF SleepStatesExact
<1>12. FatherInv'
  <2>1. /\ ppid'[Main] = NoPid /\ ppid'[Idle] = NoPid
        /\ ppid'[InitProc] = NoPid
    BY <1>1, <1>6, <1>7, ThreadsAssumption DEF FatherInv, IsProcess
  <2>2. ASSUME NEW u \in Threads \ {InitProc}, IsProcess(u)'
        PROVE  /\ IsProcess(father[u])' /\ pc'[father'[u]] \in {"user", "wait"}
               /\ ppid'[u] = sched'.pid[father'[u]]
    <3>1. IsProcess(u)
      BY <1>8, <2>2
    <3>2. CASE u \in Children(t)
      <4>1. father'[u] = InitProc /\ ppid'[u] = 1
        BY <1>7, <3>2
      <4>2. IsProcess(InitProc) /\ InitProc \in Threads
        BY <1>1, ThreadsAssumption DEF PlaceInv, IsProcess
      <4>3. IsProcess(father[u])'
        BY <1>5, <4>1, <4>2 DEF IsProcess
      <4> QED BY <1>1, <1>2, <1>5, <1>7, <4>1, <4>2, <4>3 DEF PlaceInv
    <3>3. CASE u \notin Children(t)
      <4>1. /\ IsProcess(father[u]) /\ pc[father[u]] \in {"user", "wait"}
            /\ ppid[u] = sched.pid[father[u]] /\ father[u] \in Threads
        BY <1>1, <3>1 DEF FatherInv, TypeOK
      <4>2. father[u] # t /\ father'[u] = father[u] /\ ppid'[u] = ppid[u]
        BY <1>6, <1>7, <3>1, <3>3
      <4>3. IsProcess(father[u])'
        BY <1>5, <4>1, <4>2 DEF IsProcess
      <4> QED BY <1>5, <1>7, <4>1, <4>2, <4>3
    <3> QED BY <3>2, <3>3
  <2> QED BY <2>1, <2>2 DEF FatherInv
<1>13. WaitInv'
  <2> SUFFICES ASSUME NEW u \in Threads \ {InitProc},
                      sched.status[u] = "WAITING"
               PROVE  /\ \E c \in Threads \ {InitProc} :
                           IsProcess(c)' /\ father'[c] = u
                      /\ \A c \in Threads \ {InitProc} :
                           father'[c] = u => sched.status[c] # "HANGING"
    BY <1>5 DEF WaitInv
  <2>1. u # t
    BY <1>3
  <2>2. \A c \in Threads \ {InitProc} : father'[c] = u => father[c] = u
    BY <1>7
  <2>3. \A c \in Threads : father[c] = u => father'[c] = u
    BY <1>6, <1>7, <2>1
  <2> QED BY <1>1, <1>8, <2>2, <2>3 DEF WaitInv
<1> QED BY <1>1, <1>5, <1>9, <1>10, <1>11, <1>12, <1>13 DEF WaitExitInv

\* The machine stops, at a name too long or at the reaper's page fault.
LEMMA StopStep ==
    ASSUME WaitExitInv, NEW why \in {"fault", "name"},
           sched' = [sched EXCEPT !.halt = why],
           UNCHANGED <<ppid, pc, asleep, father>>
    PROVE  WaitExitInv'
<1>1. SchedInv(sched)
  BY DEF WaitExitInv
<1>2. SchedInv(sched') /\ sched'.status = sched.status /\ sched'.pid = sched.pid
  BY <1>1, StopFacts
<1>3. Calm(sched, sched')
  BY <1>2 DEF Calm
<1> QED BY <1>2, <1>3, CalmKeepsInv

\* idle goes to sleep.
LEMMA IdleLoopStep ==
    ASSUME WaitExitInv, IdleLoop
    PROVE  WaitExitInv'
<1>1. SchedInv(sched) /\ Idle \in Threads
  BY ThreadsAssumption DEF WaitExitInv
<1>2. /\ sched.cur = Idle /\ sched.halt = "no"
      /\ sched' = Block(sched, "BLOCKED") /\ "BLOCKED" \in Sleeping
      /\ UNCHANGED <<ppid, pc, asleep, father>>
  BY DEF IdleLoop, At, Running, Sleeping
<1>3. SchedInv(sched') /\ Became(sched, sched', Idle, "BLOCKED")
  BY <1>1, <1>2, BlockBecomes
<1>4. Calm(sched, sched')
  BY <1>3 DEF Became, Calm
<1> QED BY <1>2, <1>3, <1>4, CalmKeepsInv

\* The boot thread ends: it is nobody's father and nobody's child.
LEMMA MainExitStep ==
    ASSUME WaitExitInv, MainExit
    PROVE  WaitExitInv'
<1> DEFINE n == ThreadExit(sched, Main)
<1>1. /\ TypeOK /\ SchedInv(sched) /\ PlaceInv /\ SleepStatesExact
      /\ FatherInv /\ WaitInv
  BY DEF WaitExitInv
<1>2. /\ Main \in Threads /\ Main # Idle /\ Main # InitProc
      /\ Exists(sched, Main) /\ sched.halt = "no"
      /\ sched.status[Main] = "RUNNING"
  BY AtFacts, ThreadsAssumption DEF MainExit
<1>3. UNCHANGED <<ppid, pc, asleep, father>>
  BY DEF MainExit
<1>4. /\ SchedCore(n) /\ n.halt = "no"
      /\ \A u \in Threads : n.status[u] =
                              IF u = Main THEN "DIED" ELSE sched.status[u]
      /\ \A u \in Threads : n.pid[u] = IF u = Main THEN 0 ELSE sched.pid[u]
  <2>1. SchedCore(sched)
    BY <1>1 DEF SchedInv
  <2> QED BY <1>2, <2>1, ExitFacts
<1>5. SchedInv(sched') /\ Kept(n, sched')
  <2>1. sched' = Schedule(n)
    BY DEF MainExit
  <2> HIDE DEF n
  <2> QED BY <1>4, <2>1, ScheduleFacts
<1> HIDE DEF n
<1>6. \A u \in Threads \ {Main} : sched'.pid[u] = sched.pid[u]
  BY <1>4, <1>5 DEF Kept
<1>7. /\ sched'.status[Main] = "DIED"
      /\ \A u \in Threads \ {Main, Idle} :
           /\ Exists(sched', u) <=> Exists(sched, u)
           /\ sched'.status[u] = "WAITING" <=> sched.status[u] = "WAITING"
           /\ sched'.status[u] = "HANGING" <=> sched.status[u] = "HANGING"
           /\ sched'.status[u] = "BLOCKED" <=> sched.status[u] = "BLOCKED"
  BY <1>2, <1>4, <1>5 DEF Kept, Exists
<1>8. /\ Exists(sched, Idle) /\ Exists(sched', Idle)
      /\ sched.status[Idle] \notin {"WAITING", "HANGING"}
      /\ sched'.status[Idle] \notin {"WAITING", "HANGING"}
      /\ sched' \in SchedState
  BY <1>1, <1>5, CurFacts
<1>9. \A u \in Threads : IsProcess(u)' <=> IsProcess(u)
  BY <1>7 DEF IsProcess
<1>10. TypeOK'
  BY <1>1, <1>3, <1>8 DEF TypeOK
<1>11. PlaceInv'
  <2>1. /\ asleep \in SUBSET (Threads \ {Main, Idle})
        /\ \A u \in Threads : pc[u] \in {"wait", "release"} => u # Main
    BY <1>1 DEF TypeOK, PlaceInv
  <2>2. \A u \in Threads : pc[u] \in {"wait", "release"} => Exists(sched', u)
    BY <1>1, <1>7, <1>8, <2>1 DEF PlaceInv
  <2> QED BY <1>1, <1>2, <1>3, <1>6, <1>7, <2>1, <2>2, ThreadsAssumption
          DEF PlaceInv
<1>12. SleepStatesExact'
  <2>1. pc[Main] = "user" /\ pc[Idle] = "user"
    BY <1>1 DEF PlaceInv
  <2> QED BY <1>1, <1>3, <1>7, <1>8, <2>1 DEF SleepStatesExact
<1>13. FatherInv'
  <2>1. \A u \in Threads : IsProcess(u) => u # Main
    BY DEF IsProcess
  <2> QED BY <1>1, <1>3, <1>6, <1>9, <2>1 DEF FatherInv, TypeOK
<1>14. WaitInv'
  BY <1>1, <1>2, <1>3, <1>7, <1>8, <1>9 DEF WaitInv
<1> QED BY <1>5, <1>10, <1>11, <1>12, <1>13, <1>14 DEF WaitExitInv

\* The invariant is inductive.
LEMMA StepKeepsInv ==
    ASSUME WaitExitInv, [Next]_vars
    PROVE  WaitExitInv'
<1>1. ASSUME NEW t \in Threads, NEW p \in Pids, Fork(t, p)
      PROVE  WaitExitInv'
  BY <1>1, ForkStep
<1>2. ASSUME NEW t \in Threads, CallWait(t) \/ CallExit(t)
      PROVE  WaitExitInv'
  BY <1>2, CallWaitStep, CallExitStep
<1>3. ASSUME NEW t \in Threads, SysCall(t)
      PROVE  WaitExitInv'
  <2>1. ASSUME NEW c \in Threads, WaitReaps(t, c) PROVE WaitExitInv'
    BY <2>1, WaitReapsStep
  <2>2. ASSUME WaitFails(t) \/ WaitSleeps(t) \/ ExitHangs(t) PROVE WaitExitInv'
    BY <2>2, WaitFailsStep, WaitSleepsStep, ExitHangsStep
  <2>3. ASSUME WaitFaults(t) PROVE WaitExitInv'
    BY <2>3, StopStep DEF WaitFaults
  <2> QED BY <1>3, <2>1, <2>2, <2>3 DEF SysCall
<1>4. ASSUME NEW t \in Threads, ReleaseSleeps(t) \/ LockFreed(t)
      PROVE  WaitExitInv'
  BY <1>4, ReleaseSleepsStep, LockFreedStep
<1>5. ASSUME Tick PROVE WaitExitInv'
  <2>1. SchedInv(sched') /\ Calm(sched, sched')
    BY <1>5, CalmTick DEF Tick, Running, WaitExitInv
  <2> QED BY <1>5, <2>1, CalmKeepsInv DEF Tick
<1>6. ASSUME UNCHANGED vars PROVE WaitExitInv'
  BY <1>6 DEF vars, WaitExitInv, TypeOK, PlaceInv, SleepStatesExact, FatherInv,
              WaitInv, IsProcess
<1>7. ASSUME NEW t \in Threads, ForkNameTooLong(t) PROVE WaitExitInv'
  BY <1>7, StopStep DEF ForkNameTooLong
<1> QED BY <1>1, <1>2, <1>3, <1>4, <1>5, <1>6, <1>7, IdleLoopStep, MainExitStep
        DEF Next, Spin

-----------------------------------------------------------------------------
\* The theorems.

LEMMA InvHolds == Spec => []WaitExitInv
  BY InitHolds, StepKeepsInv, PTL DEF Spec

\* The parent_pid of every process but init leads pid_to_thread to the process
\* that forked it or to init, alive and not yet exiting, and to no other thread:
\* sys_exit wakes the right parent although pids are used again.
THEOREM ParentsAreExact == Spec => []ParentExact
<1>1. WaitExitInv => ParentExact
  BY InvImplies
<1> QED BY <1>1, InvHolds, PTL

\* No parent but init sleeps in sys_wait while a child hangs, or without any
\* child: the test of sys_wait and the wake-up of sys_exit leave no gap.
THEOREM WaitIsNotMissed == Spec => []WaitNotMissed
<1>1. WaitExitInv => WaitNotMissed
  BY InvImplies
<1> QED BY <1>1, InvHolds, PTL

\* TASK_WAITING and TASK_HANGING are used by sys_wait and sys_exit alone, so
\* thread_exit only frees the PCB of a process that called sys_exit.
THEOREM SleepStatesAreExact == Spec => []SleepStatesExact
<1>1. WaitExitInv => SleepStatesExact
  BY InvImplies
<1> QED BY <1>1, InvHolds, PTL

\* No assertion of the thread layer or of sys_exit fails, and sys_exit never
\* follows the NULL of a parent it does not find.
THEOREM NeverPanics == Spec => []NoPanic
<1>1. WaitExitInv => NoPanic
  BY InvImplies
<1> QED BY <1>1, InvHolds, PTL
=============================================================================
