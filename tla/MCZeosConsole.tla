---------------------------- MODULE MCZeosConsole ----------------------------
(***************************************************************************)
(* Instance of ZeosConsole for TLC.                                        *)
(***************************************************************************)
EXTENDS ZeosConsole

\* Both sides of the table of system calls, and an unused entry.
MCNumbers == {-1, 0, 40, 41}

\* A cell of the first row in which text is printed too.
MCClockCells == {<<1, 0>>}
=============================================================================
