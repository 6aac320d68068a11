-------------------------- MODULE ClassSearchProofs --------------------------
(***************************************************************************)
(* class_of is right for every sorted table and every request below        *)
(* kLargeMin.                                                              *)
(***************************************************************************)
EXTENDS ClassSearch, TLAPS

\* The types the arithmetic needs.
LEMMA TableType ==
  /\ kNumClasses \in Nat \ {0}
  /\ \A c \in Classes : kSizes[c] \in Nat
  /\ \A r \in Requests : r \in Nat /\ r <= kSizes[kNumClasses]
<1>1. kNumClasses \in Nat \ {0}
  BY GeometryAssumption, SearchAssumption DEF kNumClasses
<1>2. \A c \in Classes : kSizes[c] \in Nat
  BY GeometryAssumption DEF Classes, kNumClasses
<1>3. kSizes[kNumClasses] \in Nat
  BY <1>1, <1>2 DEF Classes
<1> QED
  BY <1>1, <1>2, <1>3, SearchAssumption

\* The loop starts with nothing decided.
LEMMA LoopInvInit == SearchInit => LoopInv
  BY TableType DEF SearchInit, LoopInv, Classes

\* A turn of the loop keeps its invariant.
LEMMA LoopInvStep == LoopInv /\ [Probe]_svars => LoopInv'
<1> SUFFICES ASSUME LoopInv, [Probe]_svars PROVE LoopInv'
  OBVIOUS
<1>1. CASE UNCHANGED svars
  BY <1>1 DEF svars, LoopInv
<1>2. CASE Probe
  <2> DEFINE mid == (lo + hi) \div 2
  <2>1. /\ mid \in Nat /\ lo <= mid /\ mid < hi /\ hi <= kNumClasses
        /\ lo \in Nat /\ hi \in Nat /\ n \in Requests /\ n' = n
    BY <1>2, TableType DEF Probe, LoopInv
  <2>2. mid + 1 \in Classes /\ kSizes[mid + 1] \in Nat /\ n \in Nat
    BY <2>1, TableType DEF Classes
  <2>3. CASE kSizes[mid + 1] < n
    <3>1. lo' = mid + 1 /\ hi' = hi
      BY <1>2, <2>3 DEF Probe
    <3>2. mid + 1 # kNumClasses
      BY <2>1, <2>2, <2>3, TableType
    <3>3. \A c \in Classes : c <= mid + 1 => kSizes[c] < n
      <4> SUFFICES ASSUME NEW c \in Classes, c <= mid + 1 PROVE kSizes[c] < n
        OBVIOUS
      <4>1. CASE c = mid + 1
        BY <2>3, <4>1
      <4>2. CASE c < mid + 1
        BY <2>2, <2>3, <4>2, SearchAssumption, TableType
      <4> QED
        BY <2>1, <4>1, <4>2 DEF Classes
    <3> QED
      BY <2>1, <3>1, <3>2, <3>3, TableType DEF LoopInv
  <2>4. CASE ~ (kSizes[mid + 1] < n)
    <3>1. lo' = lo /\ hi' = mid
      BY <1>2, <2>4 DEF Probe
    <3>2. \A c \in Classes : c > mid => kSizes[c] >= n
      <4> SUFFICES ASSUME NEW c \in Classes, c > mid PROVE kSizes[c] >= n
        OBVIOUS
      <4>1. CASE c = mid + 1
        BY <2>2, <2>4, <4>1
      <4>2. CASE c > mid + 1
        BY <2>2, <2>4, <4>2, SearchAssumption, TableType
      <4> QED
        BY <2>1, <4>1, <4>2 DEF Classes
    <3> QED
      BY <2>1, <3>1, <3>2, TableType DEF LoopInv
  <2> QED
    BY <2>3, <2>4
<1> QED
  BY <1>1, <1>2

\* When the loop has ended its invariant says what class_of returns.
LEMMA LoopInvResult == LoopInv => SmallestFittingClass
<1> SUFFICES ASSUME LoopInv, lo >= hi
             PROVE  class_of \in Fitting /\ \A c \in Fitting : class_of <= c
  BY DEF SmallestFittingClass
<1>1. lo = hi /\ lo + 1 \in Classes /\ lo \in Nat /\ n \in Nat
  BY TableType DEF LoopInv, Classes
<1>2. lo + 1 \in Fitting
  BY <1>1 DEF Fitting, LoopInv
<1>3. ASSUME NEW c \in Fitting PROVE lo + 1 <= c
  BY <1>1, <1>3, TableType DEF Fitting, LoopInv, Classes
<1> QED
  BY <1>2, <1>3 DEF class_of

\* For every sorted size table and every request malloc searches for, the binary
\* search returns the smallest class that fits, and never a class outside the
\* table.
THEOREM ClassSearchCorrect == SearchSpec => []SmallestFittingClass
<1>1. SearchInit => LoopInv
  BY LoopInvInit
<1>2. LoopInv /\ [Probe]_svars => LoopInv'
  BY LoopInvStep
<1>3. LoopInv => SmallestFittingClass
  BY LoopInvResult
<1> QED
  BY <1>1, <1>2, <1>3, PTL DEF SearchSpec

\* Between lo and hi is what is left of the table.  A turn of the loop leaves at most half
\* of it, so that the table of 68 is searched in 7 turns.
Halves == lo' <= hi' /\ 2 * (hi' - lo') <= hi - lo

\* Every turn of class_of's loop at least halves what is left.  This is the safety half of
\* SearchEnds; that the turns are taken is fairness.
THEOREM ClassSearchHalves == SearchSpec => [][Halves]_svars
<1>1. SearchInit => LoopInv
  BY LoopInvInit
<1>2. LoopInv /\ [Probe]_svars => LoopInv'
  BY LoopInvStep
<1>3. LoopInv /\ [Probe]_svars => [Halves]_svars
  <2> SUFFICES ASSUME LoopInv, Probe PROVE Halves
    OBVIOUS
  <2> DEFINE mid == (lo + hi) \div 2
  <2>1. lo \in Nat /\ hi \in Nat /\ lo < hi
    BY TableType DEF LoopInv, Probe
  <2>2. mid \in Nat /\ 2 * mid <= lo + hi /\ lo + hi <= 2 * mid + 1
    BY <2>1
  <2>3. lo' <= hi'
    BY LoopInvStep DEF LoopInv
  <2>4. (lo' = mid + 1 /\ hi' = hi) \/ (lo' = lo /\ hi' = mid)
    BY DEF Probe
  <2>5. 2 * (hi' - lo') <= hi - lo
    <3> HIDE DEF mid
    <3>1. CASE lo' = mid + 1 /\ hi' = hi
      BY <2>1, <2>2, <3>1
    <3>2. CASE lo' = lo /\ hi' = mid
      BY <2>1, <2>2, <3>2
    <3> QED
      BY <2>4, <3>1, <3>2
  <2> QED
    BY <2>3, <2>5 DEF Halves
<1> QED
  BY <1>1, <1>2, <1>3, PTL DEF SearchSpec
=============================================================================
