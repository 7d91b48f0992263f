SPECIFICATION Spec
CONSTANTS
  CodeBits = 5
  NumSymbols <- MCNumSymbols
  TableBits <- MCTableBits
  Codes <- MCCodes
  OnlySymbols <- MCOnlySymbols
INVARIANTS TypeOK DecodesCanonically
PROPERTY OwnNodesOnly
CHECK_DEADLOCK FALSE
