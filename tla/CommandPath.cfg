SPECIFICATION CommandSpec
CONSTANTS
  Sent <- MCSent
  Noise <- MCNoise
  Bursts <- MCBursts
  RX_BUF_SIZE = 4
  MaxHeard = 7
INVARIANTS
  CommandTypeOK
  ObeysWhatWasAsked
  FrameIsPiece
  FrameIsNew
PROPERTY
  BufferIsTaken
CHECK_DEADLOCK FALSE
