SPECIFICATION Spec

CONSTANTS
  v1 = v1
  v2 = v2
  NoSave = NoSave
  NumSlots = 2
  Saves <- TwoSaves
  Requests <- SelectAndStray
  OneAtATime = TRUE
  HasDisplay = TRUE
  HasSaver = TRUE
  MaxCrashes = 0

SYMMETRY Interchangeable
PROPERTIES
  SaverInSync
