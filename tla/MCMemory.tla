------------------------------ MODULE MCMemory -------------------------------
\* Memory with pools of a few pages and one descriptor of two blocks an arena.
EXTENDS Memory

MCText == {0}
=============================================================================
