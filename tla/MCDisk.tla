------------------------------- MODULE MCDisk --------------------------------
\* Disk with a sector count register that counts to 2.
EXTENDS Disk

\* Every tick ends a slice: the most preemptive choice.
MCPrio == [t \in Threads |-> 0]
=============================================================================
