\* A decoded chunk is the end.
SPECIFICATION Spec
CONSTANTS
  Jobs <- UntrimmedJobs
  Settings <- SomeSettings
  MaxMatch = 4
  Stray = {"fails"}
INVARIANTS
  RoundTrip
CHECK_DEADLOCK FALSE
