SPECIFICATION Spec

CONSTANTS
  v1 = v1
  v2 = v2
  NoSave = NoSave
  NumSlots = 1
  Saves <- TwoSaves
  Requests <- DeleteAndPreset
  OneAtATime = TRUE
  HasDisplay = FALSE
  HasSaver = FALSE
  MaxCrashes = 0

PROPERTIES
  DeleteSparesBaked
