SPECIFICATION Spec
CONSTANTS
  c1 = c1
  c2 = c2
  p1 = p1
  p2 = p2
  CPUs <- MCCPUs
  Boot = c1
  Machines <- MCMachines
  ProcTable <- MCProcTable
INVARIANTS NoffExact IntrRestored TrapsReturn TickWakes
