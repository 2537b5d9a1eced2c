SPECIFICATION Spec
CONSTANTS
  NPROC = 3
  NCPU = 2
  MaxPid = 4
  KillArgs <- MCKill
INVARIANTS SchedLocks StackSafe NoLostWakeup ParentAlive
