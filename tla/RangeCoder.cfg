\* A decoded stream is the end.
SPECIFICATION Spec
CONSTANTS
  FrequencyModulus = 16
  ModelMaxTotal = 16
  Base = 4
  Models <- SomeModels
  Tails <- SomeTails
  MaxSymbols = 4
INVARIANTS
  ModelsSound
  RoundTrip
  InLockstep
  FinishesAtTheEnd
CHECK_DEADLOCK FALSE
