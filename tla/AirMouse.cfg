CONSTANTS
  Chords <- MCChords
  QueueLen = 2
  MaxEvents = 3
SPECIFICATION Spec
CHECK_DEADLOCK FALSE
INVARIANTS UnpairedIsSilent LightMeansSearching KeysEnd
PROPERTIES PointerComesBack
