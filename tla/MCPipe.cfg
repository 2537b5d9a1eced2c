SPECIFICATION FairSpec
CONSTANTS
  r1 = r1
  r2 = r2
  w1 = w1
  Readers <- MCReaders
  Writers <- MCWriters
  PIPESIZE = 2
  UintMod = 4
  Counts <- MCCounts
CHECK_DEADLOCK FALSE
INVARIANTS NoLostWakeup FreedUnused
PROPERTIES Fifo WriteEnds
