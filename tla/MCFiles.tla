------------------------------- MODULE MCFiles -------------------------------
(* Small instance of Files for TLC. *)
EXTENDS Files
==============================================================================
