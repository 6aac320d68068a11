----------------------------- MODULE ClassSearch -----------------------------
(***************************************************************************)
(* class_of: the binary search that maps a request to its size class, as   *)
(* malloc calls it.  lo, hi and mid are indices of the C array, from 0;    *)
(* kSizes[mid + 1] is the entry the code writes kSizes[mid].               *)
(***************************************************************************)
EXTENDS RunGeometry

CONSTANTS
  Requests,    \* the sizes asked of malloc
  kLargeMin    \* from this size on malloc does not search (2097153)

\* The table is sorted, ends just below kLargeMin, and malloc has turned 0 into 1.
ASSUME SearchAssumption ==
  /\ kNumClasses > 0
  /\ \A c, d \in Classes : c < d => kSizes[c] < kSizes[d]
  /\ kLargeMin = kSizes[kNumClasses] + 1
  /\ Requests \subseteq 1 .. kLargeMin - 1

VARIABLES n, lo, hi

svars == <<n, lo, hi>>

SearchInit ==
  /\ n \in Requests
  /\ lo = 0
  /\ hi = kNumClasses

\* MUTANT of Probe: hi moves past the entry it has just compared.
Probe_HiBelowMid ==
  LET mid == (lo + hi) \div 2 IN
  /\ lo < hi
  /\ IF kSizes[mid + 1] < n
     THEN lo' = mid + 1 /\ UNCHANGED hi
     ELSE hi' = (IF mid = 0 THEN 0 ELSE mid - 1) /\ UNCHANGED lo
  /\ UNCHANGED n

\* MUTANT of Probe: lo does not move past the entry it has just compared.
Probe_LoAtMid ==
  LET mid == (lo + hi) \div 2 IN
  /\ lo < hi
  /\ IF kSizes[mid + 1] < n
     THEN lo' = mid /\ UNCHANGED hi
     ELSE hi' = mid /\ UNCHANGED lo
  /\ UNCHANGED n

\* One turn of the loop.
Probe ==
  LET mid == (lo + hi) \div 2 IN
  /\ lo < hi
  /\ IF kSizes[mid + 1] < n
     THEN lo' = mid + 1 /\ UNCHANGED hi
     ELSE hi' = mid /\ UNCHANGED lo
  /\ UNCHANGED n

\* The value returned when the loop ends.
class_of == lo + 1

SearchSpec == SearchInit /\ [][Probe]_svars

FairSearchSpec == SearchSpec /\ WF_svars(Probe)
-----------------------------------------------------------------------------
Fitting == {c \in Classes : kSizes[c] >= n}

\* When the loop ends, class_of is the smallest class whose blocks hold n bytes,
\* for every size malloc searches: the index is within the table and no smaller
\* class would do.
SmallestFittingClass ==
  lo >= hi => class_of \in Fitting /\ \A c \in Fitting : class_of <= c

\* The search ends.
SearchEnds == <>(lo >= hi)

\* The invariant of the loop: everything below lo is too small, everything from hi
\* on is large enough, and there is always a class left.
LoopInv ==
  /\ n \in Requests
  /\ lo \in 0 .. kNumClasses - 1
  /\ hi \in 0 .. kNumClasses
  /\ lo <= hi
  /\ \A c \in Classes : c <= lo => kSizes[c] < n
  /\ \A c \in Classes : c > hi => kSizes[c] >= n
=============================================================================
