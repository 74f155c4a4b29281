SPECIFICATION Spec
CONSTANTS
  MaxU32 = 9
  MaxVolume = 2
  Archives <- SmallArchives
INVARIANTS
  TypeOK
  ResolvedAgrees
  RecordedVolumesWithinLimits
  WorkspaceAccounted
  DictionaryWhole
  PayloadPrepared
  DeliveredInOrder
PROPERTIES
  ResolutionIsFinal
  CallsReturn
  ImplementsEntryStore
CHECK_DEADLOCK FALSE
