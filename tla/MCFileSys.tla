----------------------------- MODULE MCFileSys -------------------------------
\* FileSys with a file in the root and one in a directory, for the runs about what
\* is in files, and with directories in directories, for those about names.
EXTENDS FileSys

MCFiles == {<<"a">>, <<"d", "x">>}
MCDirs == {<< >>, <<"d">>}
MCNested == {<< >>, <<"d">>, <<"d", "e">>, <<"f">>}
=============================================================================
