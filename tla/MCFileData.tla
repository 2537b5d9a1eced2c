------------------------------ MODULE MCFileData ------------------------------
(* Small instances of FileData for TLC. *)
EXTENDS Mkfs, TLC

CONSTANTS root, f1, v1, v2

MCFiles == {root, f1}
MCVals == {v1, v2}
Sym == Permutations(Vals)
==============================================================================
