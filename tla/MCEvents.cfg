SPECIFICATION EventSpec
CONSTANTS
  main = main
  counter = counter
  registrar = registrar
  state = state
  NoMutex = NoMutex
  Unread = Unread
  Main <- main
  Callbacks <- MCCallbacks
  Mutexes <- MCMutexes
  Levels <- MCLevels
  Home <- MCHome
  LockLevel <- MCLockLevel
  MaxGuards = 2
  Registrars = {registrar}
  KindsOf <- MCKindsOf
  MaxUpdates = 1
INVARIANTS ContextAlive NoLostUpdate RegistrationShielded
CHECK_DEADLOCK FALSE
