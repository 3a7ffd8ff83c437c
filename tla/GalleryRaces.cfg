SPECIFICATION Spec

CONSTANTS
  v1 = v1
  v2 = v2
  NoSave = NoSave
  NumSlots = 1
  Saves <- TwoSaves
  Requests <- DeleteCommitAndPreset
  OneAtATime = FALSE
  HasDisplay = TRUE
  HasSaver = FALSE
  MaxCrashes = 0

SYMMETRY Interchangeable
INVARIANTS
  TypeOK
  EraseIsSafe
  CommittedIsComplete
  MappedIsIntact
