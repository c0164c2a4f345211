CONSTANTS
  Chords <- MCChords
  Ids <- MCIds
  MaxMsg = 2
  MaxCount = 2
  MaxKeys = 3
  MaxLinks = 1
  MaxSleeps = 1
SPECIFICATION Spec
CHECK_DEADLOCK FALSE
INVARIANTS TypeOK KeysEnd
PROPERTIES ModesEnd CallsEnd
