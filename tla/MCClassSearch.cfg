\* The 68 classes of preload.cpp, every boundary request.
CONSTANTS
  kSizes <- MCSizes
  Requests <- MCRequests
  kLargeMin = 2097153
  kRunSize = 2097152
  kMaxElems = 65536
  PageSize = 4096
  RunHdr = 56
  WordBits = 64
  WordBytes = 8
SPECIFICATION FairSearchSpec
INVARIANTS
  SmallestFittingClass
PROPERTY
  SearchEnds
\* The search stops when it has found the class.
CHECK_DEADLOCK FALSE
