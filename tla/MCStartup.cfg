\* Three threads; the reserve may fail, and is large enough for all of them.
CONSTANTS
  Threads = {t1, t2, t3}
  Slots = 5
  MayFail = TRUE
SPECIFICATION StartupSpec
\* The application may stop calling.
CHECK_DEADLOCK FALSE
INVARIANTS
  StartupTypeOK
  AtMostOnce
  MutexesReady
  NoSharedPointer
  LateCallsServed
PROPERTIES
  MallocReturns
  StartupCompletes
