\* Runs shorter and longer than kRunSize, large objects between them, a libc pointer.
CONSTANTS
  kSizes <- MCSizes
  kRunSize = 16
  kMaxElems = 2
  PageSize = 2
  RunHdr = 7
  WordBits = 64
  WordBytes = 1
  Reserved = TRUE
  ResStart = 18
  ResEnd = 92
  WordMod = 1024
  LargeHdr = 1
  PtrSize = 1
  Requests = {1, 5, 9}
  Aligns = {4}
  Foreign = {4}
  MaxBump = 88
  Null = Null
SPECIFICATION AddrSpec
\* A crash ends the process.
CHECK_DEADLOCK FALSE
INVARIANTS
  AddrTypeOK
  LiveFits
  FreeHitsOwner
  BlocksFound
