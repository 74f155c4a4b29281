\* A refused header is the end of a parse.
SPECIFICATION Spec
CONSTANTS
  Base = 3
  Magic = 5
  ChunkDz = 4
  Headers <- Sound
  Streams <- NoStreams
  LimitSets <- RoomyOnly
  NewNames <- PlainNames
  FromNames <- NulNames
INVARIANTS
  NamesReadBack
CHECK_DEADLOCK FALSE
