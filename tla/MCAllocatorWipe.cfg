\* Blocks of 3 units on pages of 4: most blocks straddle two pages.
CONSTANTS
  Threads = {t1}
  Forkers = {}
  Trim = trim
  None = none
  MaxRuns = 1
  RunIdle = 1
  DirtyIdle = 1
  MaxPass = 1
  kSizes <- MCStraddle
  kRunSize = 64
  kMaxElems = 4
  PageSize = 4
  RunHdr = 1
  WordBits = 64
  WordBytes = 1
SPECIFICATION Spec
INVARIANT
  NoLiveDataWiped
