SPECIFICATION ViewSpec

CONSTANTS
  p1 = p1
  p2 = p2
  CAP = 2
  CountMod = 16
  CanStarve = TRUE
  Labels <- TwoLabels
  Faults <- EveryFault
  MaxCount = 1
  MaxEra = 1
  Pages <- TwoPages
  Mishaps = {}
  MaxActs = 3
  PAGES <- ThreeScreens
  return_timeout = 2
  dim_timeout = 1
  Target <- HalfSeconds
  MaxPresses = 0

PROPERTIES
  OthersStandDown
CHECK_DEADLOCK FALSE
