SPECIFICATION NamesFairSpec
CONSTANTS
  boot = boot
  lang = lang
  time = time
  Empty = Empty
  Unknown = Unknown
  Names <- MCNames
  Rank <- MCRank
  NameLen <- MCNameLen
  MaxChanges = 3
  MaxErrors = 1
CHECK_DEADLOCK FALSE
INVARIANTS VisitedAscending CompleteAtEnd PositionKept BufferHoldsName
PROPERTY IterationEnds
