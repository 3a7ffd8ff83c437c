SPECIFICATION FairSpec

CONSTANTS
  Arm = 2
  Window = 5
  Stale = 4
  Hold = 1
  Blk8Hold = 2
  ProbeEvery = 2
  MaxRecov = 2
  TwdtTrip = 2
  TwdtMax = 2
  ProbeCap = 2
  ProbeMax = 2
  LifeMax = 2
  HeapLevels <- OneLevel
  Garbage <- Cleared
  Faults <- NetFaults

INVARIANTS
  FlapsBounded

PROPERTIES
  CraterIsContinuous
  WedgeIsCaught
  CraterIsCaught
