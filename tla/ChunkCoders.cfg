SPECIFICATION Spec
CONSTANTS
  ByteBits = 4
  MaxInputSize = 41
  MaxOutputSize = 23
  Jobs <- ChunkJobs
  GzipHeaders <- Headers
  DynamicTrees <- Trees
INVARIANTS
  OutcomesAsPromised
  NeverOtherBytes
  InLockstep
  RangeCoderSound
