-------------------------------- MODULE Pipe ---------------------------------
(***************************************************************************)
(* A pipe (user/pipe.c): a ring buffer whose readers and writers are       *)
(* processes.  Both calls look at the fill level once, choose how many     *)
(* characters to move, and then move them one by one.                      *)
(***************************************************************************)
EXTENDS IOQueue

CONSTANTS Readers,   \* processes that read the pipe
          Writers,   \* processes that write it
          MaxCount   \* bound: characters one call asks for

ASSUME PipeEndsAssumption ==
    Readers \cup Writers \subseteq Threads \ {Idle, Main}

ASSUME MaxCountAssumption == MaxCount \in Nat

Smaller(a, b) == IF a > b THEN b ELSE a

\* Mutant of PipeRead: the size asked for is not cut to what is there.
ReadUncapped(t, n) ==
    /\ At(t, "user")
    /\ t \in Readers
    /\ Length > 0
    /\ left' = [left EXCEPT ![t] = n]
    /\ pc' = [pc EXCEPT ![t] = "get"]
    /\ UNCHANGED <<sched, ioq, nextIn, nextOut>>

\* pipe_read: what is there, at most n; nothing is there: return 0 at once.
PipeRead(t, n) ==
    /\ At(t, "user")
    /\ t \in Readers
    /\ Length > 0
    /\ left' = [left EXCEPT ![t] = Smaller(Length, n)]
    /\ pc' = [pc EXCEPT ![t] = "get"]
    /\ UNCHANGED <<sched, ioq, nextIn, nextOut>>

\* pipe_write: what fits in bufsize - ioq_length, at most n.  The ring holds one
\* character less than that.
PipeWrite(t, n) ==
    /\ At(t, "user")
    /\ t \in Writers
    /\ left' = [left EXCEPT ![t] = Smaller(BufSize - Length, n)]
    /\ pc' = [pc EXCEPT ![t] = "put"]
    /\ UNCHANGED <<sched, ioq, nextIn, nextOut>>

Next ==
    \/ \E t \in Threads, n \in 1 .. MaxCount : PipeRead(t, n)
    \/ \E t \in Threads, n \in 1 .. MaxCount : PipeWrite(t, n)
    \/ \E t \in Threads : GetStep(t)
    \/ \E t \in Threads : PutStep(t)
    \/ Others

Spec == Init /\ [][Next]_vars

\* System calls run on, the PIT keeps interrupting, and every reader calls
\* pipe_read again and again.
FairSpec ==
    /\ Spec
    /\ WF_vars(\E t \in Threads : GetStep(t) \/ PutStep(t))
    /\ WF_vars(Tick)
    /\ \A t \in Readers :
         SF_vars(\E n \in 1 .. MaxCount : PipeRead(t, n))

-----------------------------------------------------------------------------
\* pipe_write's comment: the smaller size is chosen so as not to block.  TLC
\* refutes it for MCPipe with a write of BufSize characters.
WriteNeverSleeps ==
    \A t \in Threads : pc[t] \notin {"putLock", "putWait"}

\* Who may sleep in a pipe: never a reader, since nothing can empty the buffer
\* between its look at the fill level and its last ioq_get_char; and a writer at
\* its last character only.
PipeSleeps ==
    \A t \in Threads :
      /\ pc[t] \notin {"getLock", "getWait"}
      /\ pc[t] \in {"putLock", "putWait"} => left[t] = 1

\* A write by the only process that writes returns if the pipe is read again and
\* again.
WriteReturns ==
    \A t \in Writers :
      [](\A u \in Writers \ {t} : pc[u] \notin {"put", "putLock", "putWait"})
        => ((pc[t] # "user") ~> (pc[t] = "user"))
=============================================================================
