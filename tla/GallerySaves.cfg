SPECIFICATION FairSpec

CONSTANTS
  v1 = v1
  v2 = v2
  NoSave = NoSave
  NumSlots = 2
  Saves <- TwoSaves
  Requests <- SelectAndDelete
  OneAtATime = TRUE
  HasDisplay = TRUE
  HasSaver = FALSE
  MaxCrashes = 1

ACTION_CONSTRAINT PostsInOrder
INVARIANTS
  SelectionIsLive
PROPERTIES
  IsBannerStore
  ScreenFollows
  DeletedIsReleased
