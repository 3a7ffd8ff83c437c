SPECIFICATION ViewSpec

CONSTANTS
  p1 = p1
  p2 = p2
  CAP = 2
  CountMod = 16
  CanStarve = TRUE
  Labels <- TwoLabels
  Faults <- EveryFault
  MaxCount = 3
  MaxEra = 1
  Pages <- TwoPages
  Mishaps <- LostOrRestart
  MaxActs = 5
  PAGES <- ThreeScreens
  return_timeout = 2
  dim_timeout = 1
  Target <- HalfSeconds
  MaxPresses = 2

INVARIANTS
  ViewTypeOK
  SlotIsTail
  NewestIsAwake
  MenuIsInView
  FaultWasShown
  FreedIsNotLoaded
PROPERTIES
  CardFollows
  OneKeepsTheStream
  HoldIsDeliberate
CHECK_DEADLOCK FALSE
