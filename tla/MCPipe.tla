------------------------------- MODULE MCPipe --------------------------------
\* Pipe with a short ring.
EXTENDS Pipe

\* Every tick ends a slice: the most preemptive choice.
MCPrio == [t \in Threads |-> 0]
=============================================================================
