SPECIFICATION Spec
CONSTANTS
  p1 = p1
  p2 = p2
  p3 = p3
  two = two
  twice = twice
  self = self
  bad = bad
  short = short
  aux = aux
  torn = torn
  Paths <- MCPaths
  Bytes <- MCBytes
  NamesIn <- MCNamesIn
  Declared <- MCDeclared
  Holds <- MCHolds
  Images <- MCImages
  PathOf <- MCPathOf
  Torn = torn
  Absent = Absent
  Nowhere = Nowhere
PROPERTIES
  WritesEveryVolume
