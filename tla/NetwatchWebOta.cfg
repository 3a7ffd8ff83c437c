SPECIFICATION Spec

CONSTANTS
  Arm = 2
  Window = 6
  Stale = 3
  Hold = 1
  Blk8Hold = 2
  ProbeEvery = 1
  MaxRecov = 2
  TwdtTrip = 2
  TwdtMax = 2
  ProbeCap = 2
  ProbeMax = 2
  LifeMax = 1
  HeapLevels <- OneLevel
  Garbage <- Cleared
  Faults <- WebOtaFaults

PROPERTIES
  OtaNotInterrupted
