-------------------------------- MODULE MCTree --------------------------------
(* Small instances of Tree for TLC. *)
EXTENDS Tree, TLC

CONSTANTS p1, n1, n2

MCProcs == {p1}
MCNames == {n1, n2}
Sym == Permutations(Names)
==============================================================================
