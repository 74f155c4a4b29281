SPECIFICATION Spec
CONSTANTS
  MaxU32 = 400
  MaxVolume = 2
  MaxU16 = 5
  MaxSource = 3
  BatchSizes = {1, 2, 3}
  Files = {1, 2, 3, 4}
  Jobs <- SmallJobs
INVARIANTS
  TypeOK
  HeaderFits
  ChunkIdsBelowTerminator
  ReadsBack
  LayoutDeterministic
  RefusalTouchesNothing
PROPERTIES
  BuildReturns
CHECK_DEADLOCK FALSE
