SPECIFICATION Spec
CONSTANTS
  CodeBits = 5
  NumSymbols <- MCNumSymbols
  CountBits <- MCCountBits
  TableBits <- MCTableBits
  LenBits = 2
  ExtraAt = 3
  ExtraBits = 2
  RunBits = 1
  ShortRun = 3
  LongRun = 6
  Literals = 4
  U8Values = 8
  Inputs <- MCInputs
  Stale <- MCStale
INVARIANTS TypeOK ReadsBack TruncatedIsRefused
