---------------------------- MODULE MCFileTable ------------------------------
\* FileTable with a file_table and descriptors that run out.
EXTENDS FileTable, TLC

Symmetric == Permutations(Procs) \cup Permutations(Names)
=============================================================================
