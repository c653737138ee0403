---------------------------- MODULE MCCommandLine ----------------------------
EXTENDS CommandLine

\* The shell's answer to a line: a new row, a message and another new row.
MCMessages == {<<"newline", "!", "newline">>}
=============================================================================
