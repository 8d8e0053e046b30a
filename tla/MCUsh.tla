------------------------------- MODULE MCUsh -------------------------------
(* The shell and three more processes: a pipeline and a job beside it. *)
EXTENDS Ush
=============================================================================
