----------------------------- MODULE MCKeyboard ------------------------------
\* Keyboard with a short ring.
EXTENDS Keyboard

\* Every tick ends a slice: the most preemptive choice.
MCPrio == [t \in Threads |-> 0]
=============================================================================
