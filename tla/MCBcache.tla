------------------------------ MODULE MCBcache ------------------------------
(* Small instances of Bcache for TLC. *)
EXTENDS Bcache, TLC

CONSTANTS p1, p2, b1, b2, b3, b4, v1, v2

MCProcs2 == {p1, p2}
MCBlocks4 == {b1, b2, b3, b4}
MCVals == {v1, v2}

\* A log block, an indirect block, and others.
MCLevel == (b1 :> 0) @@ (b2 :> 1) @@ (b3 :> 2) @@ (b4 :> 2)
Sym == Permutations(Procs) \cup Permutations({b3, b4}) \cup Permutations(Vals)
=============================================================================
