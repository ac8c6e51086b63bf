----------------------------- MODULE MCScheduler -----------------------------
\* Scheduler on the three boot threads and pages for the processes init creates.
EXTENDS Scheduler

\* Slices of one or two ticks: the idle thread has the shorter one.
MCPrio == [t \in Threads |-> IF t = Idle THEN 0 ELSE 1]
=============================================================================
