----------------------------- MODULE MCConsole -----------------------------
(***************************************************************************)
(* Lines of three characters, a history of one.  Of the files one is the   *)
(* beginning of the other.  A line of three and the space a completion     *)
(* draws after it reach the end of the row.                                *)
(***************************************************************************)
EXTENDS Console

MCCommands == {<<"a">>}
MCFiles    == {<<"a">>, <<"a", "a">>}
=============================================================================
