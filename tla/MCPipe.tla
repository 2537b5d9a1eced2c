------------------------------- MODULE MCPipe -------------------------------
(* A small instance of Pipe for TLC. *)
EXTENDS Pipe

CONSTANTS r1, r2, w1

MCReaders == {r1, r2}
MCWriters == {w1}
MCCounts == {0, 1, 3}
=============================================================================
