------------------------------- MODULE MCDisk -------------------------------
(* Small instances of Disk for TLC. *)
EXTENDS Disk, TLC

CONSTANTS p1, p2, p3, v0, v1

MCProcs3 == {p1, p2, p3}
MCVals == {v0, v1}
Sym == Permutations(Procs) \cup Permutations(Vals)
=============================================================================
