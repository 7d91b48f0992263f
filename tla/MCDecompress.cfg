SPECIFICATION FairSpec
CONSTANTS
  a = a
  b = b
  Old = Old
  Chars <- MCChars
  Offsets <- MCOffsets
  Lengths <- MCLengths
  DstSizes <- MCDstSizes
  SrcSizes <- MCSrcSizes
  BlockSizes <- MCBlockSizes
  UsizeValues = 16
CHECK_DEADLOCK FALSE
INVARIANTS WritesExpansion OkMeansAll OutOfBoundsOnlyIfEmpty
PROPERTY Terminates
