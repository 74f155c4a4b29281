SPECIFICATION Spec
CONSTANTS
  Archives <- MCArchives
  Paths <- MCPaths
  Occupied <- MCOccupied
INVARIANTS
  TypeOK
  ExtractedInOrder
PROPERTIES
  LeavesOthersAlone
