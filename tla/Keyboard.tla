------------------------------ MODULE Keyboard -------------------------------
(***************************************************************************)
(* kbd_buf: the keyboard interrupt writes it, processes that read standard *)
(* input drain it (device/keyboard.c, sys_read in fs/fs.c).                *)
(***************************************************************************)
EXTENDS IOQueue

CONSTANTS Readers,   \* the processes that read standard input
          MaxCount   \* bound: characters one sys_read asks for

ASSUME ReadersAssumption == Readers \subseteq Threads \ {Idle, Main}

\* intr_keyboard_handler on a key that stands for a character: dropped when the
\* buffer is full, so the handler never sleeps.
KeyPress ==
    /\ Running
    /\ InterruptsOn
    /\ IF Full THEN UNCHANGED <<sched, ioq, nextIn, nextOut>> ELSE Store
    /\ UNCHANGED <<pc, left>>

\* sys_read(stdin_no, buf, n)
SysRead(t, n) ==
    /\ At(t, "user")
    /\ t \in Readers
    /\ left' = [left EXCEPT ![t] = n]
    /\ pc' = [pc EXCEPT ![t] = "get"]
    /\ UNCHANGED <<sched, ioq, nextIn, nextOut>>

Next ==
    \/ KeyPress
    \/ \E t \in Threads, n \in 1 .. MaxCount : SysRead(t, n)
    \/ \E t \in Threads : GetStep(t)
    \/ Others

Spec == Init /\ [][Next]_vars

\* Somebody keeps typing, system calls run on, and the PIT keeps interrupting.
FairSpec ==
    /\ Spec
    /\ WF_vars(KeyPress)
    /\ WF_vars(\E t \in Threads : GetStep(t))
    /\ WF_vars(Tick)

\* A process that asks for characters and is the only one to do so gets all of
\* them: it is woken by the key that ends its wait, however the interrupts fall.
ReadReturns ==
    \A t \in Readers :
      [](\A u \in Readers \ {t} : pc[u] = "user")
        => ((pc[t] # "user") ~> (pc[t] = "user"))
=============================================================================
