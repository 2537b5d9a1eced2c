------------------------------- MODULE MCInode -------------------------------
(***************************************************************************)
(* Model checking of Inode.                                                *)
(***************************************************************************)
EXTENDS Inode, TLC

Symmetry == Permutations(Procs) \cup Permutations(Names)
==============================================================================
