SPECIFICATION WebSpec

CONSTANTS
  v1 = v1
  v2 = v2
  s1 = s1
  c1 = c1
  c2 = c2
  x1 = x1
  x2 = x2
  None = None
  Viewers <- TwoViewers
  Sources <- OneSource
  MaxViewers = 1
  MaxFails = 2
  MaxChanges = 2
  NumFields = 2
  MaxPosts = 2
  Chargers <- TwoChargers
  Strangers <- TwoStrangers
  MAX_DEVICES = 3
  ListCap = 2
  MaxAge = 1
  Window = 3

INVARIANTS
  WebTypeOK
  VectorHoldsTheAlive
  CapHolds
  CaughtUp
  SeedIsWhole
  PostsAreApplied
PROPERTIES
  StreamsSettle
  SeedFollows
  ChargerIsListed
CHECK_DEADLOCK FALSE
