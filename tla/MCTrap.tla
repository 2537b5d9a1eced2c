-------------------------------- MODULE MCTrap --------------------------------
(* A small instance of Trap for TLC. *)
EXTENDS Trap

CONSTANTS c1, c2, p1, p2

MCProcTable == <<p1, p2>>
MCCPUs == {c1, c2}
MCMachines == {<<{c1}, 2>>, <<{c1, c2}, 1>>}
===============================================================================
