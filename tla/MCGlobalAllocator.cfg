SPECIFICATION AllocatorSpec
CONSTANTS
  Word = 2
  Layouts <- MCLayouts
  IsizeMax = 40
  MemSize = 22
  Data = Data
INVARIANTS BlocksAreUsable OneBufferPerBlock
