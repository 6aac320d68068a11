\* Liveness: one class, two threads.
CONSTANTS
  Threads = {t1, t2}
  Forkers = {}
  Trim = trim
  None = none
  MaxRuns = 2
  RunIdle = 1
  DirtyIdle = 1
  MaxPass = 1
  kSizes <- MCPageClass
  kRunSize = 64
  kMaxElems = 2
  PageSize = 4
  RunHdr = 1
  WordBits = 64
  WordBytes = 1
SPECIFICATION FairSpec
INVARIANT
  NoCircularWait
PROPERTIES
  FreeRunsReturned
  FreePagesReturned
