SPECIFICATION Spec
CONSTANTS
  h1 = h1
  h2 = h2
  g1 = g1
  g2 = g2
  table = table
  tag = tag
  o1 = o1
  o2 = o2
  o3 = o3
  MaxKeys = 2
  Null = Null
  None = None
  Handles <- MCHandles
  Guids <- MCGuids
  Markers <- MCMarkers
  Tables <- MCTables
  Objects <- MCObjects
SYMMETRY Symmetry
INVARIANTS InstalledNotHeld OneOwner DriverReferencesLive StrandedOnlyIfLost
