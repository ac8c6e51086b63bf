----------------------------- MODULE MCWaitExit ------------------------------
\* WaitExit with three pages for processes beside the boot threads.
EXTENDS WaitExit

\* Every tick ends a slice: the most preemptive choice.
MCPrio == [t \in Threads |-> 0]

\* The liveness runs that need three processes start where the boot thread has
\* ended: a state Spec reaches in one step.
BootedSpec ==
    /\ sched = Schedule(ThreadExit(BootState, Main))
    /\ ppid = [t \in Threads |-> NoPid]
    /\ pc = [t \in Threads |-> "user"]
    /\ asleep = {}
    /\ father = [t \in Threads |-> t]
    /\ [][Next]_vars
    /\ Fairness
=============================================================================
