------------------------------- MODULE MCSync --------------------------------
\* Sync with the boot thread as the preemptible kernel thread and processes.
EXTENDS Sync

\* Every tick ends a slice: the most preemptive choice.
MCPrio == [t \in Threads |-> 0]
=============================================================================
