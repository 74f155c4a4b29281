\* A decoded chunk is the end.
SPECIFICATION ArchiveSpec
CONSTANTS
  Jobs <- SomeJobs
  Settings <- SomeSettings
  MaxMatch = 4
  Archives <- SomeArchives
  MaxCommon = 4
  Stray = {"fails", "garbles"}
INVARIANTS
  HandsOverSoundJobs
  ParserFollows
  InLockstep
  RightAttemptRoundTrip
CHECK_DEADLOCK FALSE
