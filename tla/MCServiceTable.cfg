SPECIFICATION ServicesSpec
CONSTANTS
  c1 = c1
  c2 = c2
  c3 = c3
  t1 = t1
  t2 = t2
  Null = Null
  Callers <- MCCallers
  Tables <- MCTables
SYMMETRY Symmetry
CHECK_DEADLOCK FALSE
INVARIANTS OneTableSeen InitializeOnceIfSerial
