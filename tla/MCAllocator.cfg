\* Two threads that may fork and the trim thread, two classes: blocks that fit in
\* pages, and blocks that cross from one page to the next.  The behaviour follows
\* the parent or the child of a fork.
CONSTANTS
  Threads = {t1, t2}
  Forkers = {t1, t2}
  Trim = trim
  None = none
  MaxRuns = 2
  RunIdle = 2
  DirtyIdle = 1
  MaxPass = 1
  kSizes <- MCTwoClasses
  kRunSize = 8
  kMaxElems = 3
  PageSize = 4
  RunHdr = 1
  WordBits = 64
  WordBytes = 1
SPECIFICATION Spec
SYMMETRY MCSymmetry
INVARIANTS
  TypeOK
  HeapSafe
  OnlyStraddlersWiped
  NoBlockLost
PROPERTY
  ImplementsHeap
\* fork and malloc can block each other for ever.
CHECK_DEADLOCK FALSE
