\* fork meets a malloc that needs a new run.
CONSTANTS
  Threads = {t1, t2}
  Forkers = {t1}
  Trim = trim
  None = none
  MaxRuns = 2
  RunIdle = 2
  DirtyIdle = 1
  MaxPass = 1
  kSizes <- MCOneClass
  kRunSize = 64
  kMaxElems = 2
  PageSize = 4
  RunHdr = 1
  WordBits = 64
  WordBytes = 1
SPECIFICATION Spec
INVARIANT
  NoCircularWait
