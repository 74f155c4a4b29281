SPECIFICATION Spec
CONSTANTS
  FrequencyModulus = 65536
  ModelMaxTotal = 65536
  Settle = 2
INVARIANTS
  SignStaysCodable
