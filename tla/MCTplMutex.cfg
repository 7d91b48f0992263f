SPECIFICATION FairSpec
CONSTANTS
  main = main
  timer = timer
  device = device
  state = state
  queue = queue
  NoMutex = NoMutex
  Main <- main
  Callbacks <- MCCallbacks
  Mutexes <- MCMutexes
  Levels <- MCLevels
  Home <- MCHome
  LockLevel <- MCLockLevel
  MaxGuards = 2
INVARIANTS MutualExclusion FlagOwned TplCoversGuards ContentionOnlyInWindows
PROPERTIES HeldOffIsServed ImplementsLock
