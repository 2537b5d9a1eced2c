--------------------------------- MODULE MCVm ---------------------------------
(* Small instances of Vm for TLC. *)
EXTENDS Vm, TLC

CONSTANTS p1, p2, p3

MCProcs3 == {p1, p2, p3}
MCSizes == {2, 3, 5, 8}
Sym == Permutations(Procs \ {Init0})
==============================================================================
