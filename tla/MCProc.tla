------------------------------- MODULE MCProc -------------------------------
(* Small instances of Proc for TLC. *)
EXTENDS Proc

\* The pids kill() is called with: never init's (killing init is a panic).
MCKill == 2 .. MaxPid
=============================================================================
