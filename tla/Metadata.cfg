\* A refused header is the end of a parse.
SPECIFICATION Spec
CONSTANTS
  Base = 3
  Magic = 5
  ChunkDz = 4
  Headers <- SomeHeaders
  Streams <- SomeStreams
  LimitSets <- SomeLimits
  NewNames <- PlainNames
  FromNames <- NoNames
INVARIANTS
  TypeOK
  HeldWithinLimits
  AcceptedIsSound
  AccountedExactly
  Lossless
  ReadsBack
CHECK_DEADLOCK FALSE
