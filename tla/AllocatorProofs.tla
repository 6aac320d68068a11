--------------------------- MODULE AllocatorProofs ---------------------------
(***************************************************************************)
(* Machine-checked proofs about Allocator, for every number of threads,    *)
(* classes, runs and blocks and for every delay.                           *)
(***************************************************************************)
EXTENDS Allocator, FiniteSetTheorems, TLAPS

IInv == TypeOK /\ HeapSafe

\* A run has at least one block and at most kMaxElems.
LEMMA ElemsType == \A c \in Classes : Elems(c) \in 1 .. kMaxElems
<1> SUFFICES ASSUME NEW c \in Classes PROVE Elems(c) \in 1 .. kMaxElems
  OBVIOUS
<1>1. kSizes[c] \in Nat \ {0} /\ kSizes[c] <= kRunSize
  BY GeometryAssumption DEF Classes, kNumClasses
<1>2. kRunSize \div kSizes[c] \in Nat /\ kRunSize \div kSizes[c] >= 1
  BY <1>1, GeometryAssumption
<1> QED
  BY <1>2, GeometryAssumption DEF Elems, Elem

\* The indices of a class.
LEMMA IdxType ==
  \A c \in Classes : /\ Idx(c) \subseteq 0 .. kMaxElems - 1
                     /\ 0 \in Idx(c)
                     /\ IsFiniteSet(Idx(c))
<1> SUFFICES ASSUME NEW c \in Classes
             PROVE  /\ Idx(c) \subseteq 0 .. kMaxElems - 1
                    /\ 0 \in Idx(c)
                    /\ IsFiniteSet(Idx(c))
  OBVIOUS
<1>1. Elems(c) \in Nat /\ Elems(c) >= 1 /\ Elems(c) <= kMaxElems
  BY ElemsType, GeometryAssumption
<1>2. IsFiniteSet(0 .. Elems(c) - 1)
  BY <1>1, FS_Interval
<1> QED
  BY <1>1, <1>2, GeometryAssumption DEF Idx

\* The header run_new writes.
LEMMA NewRunType == \A c \in Classes : NewRun(c) \in Run
<1> SUFFICES ASSUME NEW c \in Classes PROVE NewRun(c) \in Run
  OBVIOUS
<1>1. Idx(c) \in SUBSET Nat
  BY IdxType, GeometryAssumption
<1>2. 0 \in {NotFree} \cup (0 .. RunAgeCap) /\ 0 \in 0 .. TouchAgeCap
  BY AllocatorAssumption DEF RunAgeCap, TouchAgeCap
<1> QED
  BY <1>1, <1>2 DEF NewRun, Run

\* There is a first class.
LEMMA FirstClass == 1 \in Classes /\ kNumClasses \in Nat
  BY AllocatorAssumption, GeometryAssumption DEF Classes, kNumClasses

\* The invariant holds initially.
LEMMA InitIInv == Init => IInv
<1> SUFFICES ASSUME Init PROVE IInv
  OBVIOUS
<1>1. 1 \in Classes
  BY AllocatorAssumption, GeometryAssumption DEF Classes, kNumClasses
<1>2. TypeOK
  BY <1>1, NewRunType, AllocatorAssumption DEF Init, NoReg, TypeOK, AppPCs, RunIds
<1>3. HeapSafe
  BY <1>1, AllocatorAssumption DEF Init, HeapSafe, LocksMatchOwners, HeldBlocksTaken,
     BlocksInFreeTaken, ChosenBlockFree, UsedCountsBlocks, InClass, InSlot, Giving
<1> QED
  BY <1>2, <1>3 DEF IInv
-----------------------------------------------------------------------------
(* Steps that touch no run: only program counters, registers and mutexes.  *)

\* A step that changes no run and no block keeps the invariant if every thread
\* that is in free(), or about to take a block, was already there.
LEMMA ControlStep ==
  ASSUME IInv, TypeOK', LocksMatchOwners',
         UNCHANGED <<held, mapped, run>>,
         \A u \in Threads : Giving(u)' => Giving(u) /\ reg'[u] = reg[u],
         \A u \in Threads : pc'[u] = "m_take" => pc[u] = "m_take" /\ reg'[u] = reg[u]
  PROVE  IInv'
<1> USE DEF IInv, HeapSafe
<1>1. HeldBlocksTaken'
  BY DEF HeldBlocksTaken, Taken
<1>2. BlocksInFreeTaken'
  BY DEF BlocksInFreeTaken, Taken
<1>3. ChosenBlockFree'
  BY DEF ChosenBlockFree
<1>4. UsedCountsBlocks'
  BY DEF UsedCountsBlocks
<1> QED
  BY <1>1, <1>2, <1>3, <1>4

\* The invariant is kept by calling malloc.
LEMMA MallocCallIInv ==
  ASSUME IInv, NEW t \in Threads, NEW c \in Classes, MallocCall(t, c)
  PROVE  IInv'
<1> USE DEF IInv, HeapSafe
<1>1. TypeOK'
  BY FirstClass, AllocatorAssumption DEF TypeOK, AppPCs, MallocCall, Goto
<1>2. LocksMatchOwners'
  BY FirstClass, AllocatorAssumption
  DEF TypeOK, LocksMatchOwners, InClass, InSlot, MallocCall, Goto
<1> QED
  BY <1>1, <1>2, ControlStep DEF TypeOK, Giving, MallocCall, Goto

\* The invariant is kept by locking a class in malloc.
LEMMA MallocLockIInv ==
  ASSUME IInv, NEW t \in Threads, MallocLock(t)
  PROVE  IInv'
<1> USE DEF IInv, HeapSafe
<1>1. TypeOK'
  BY FirstClass, AllocatorAssumption DEF TypeOK, AppPCs, MallocLock, Goto
<1>2. LocksMatchOwners'
  BY FirstClass, AllocatorAssumption
  DEF TypeOK, LocksMatchOwners, InClass, InSlot, MallocLock, Goto
<1> QED
  BY <1>1, <1>2, ControlStep DEF TypeOK, Giving, MallocLock, Goto

\* The invariant is kept by finding every run full.
LEMMA MallocFindNoneIInv ==
  ASSUME IInv, NEW t \in Threads, MallocFindNone(t)
  PROVE  IInv'
<1> USE DEF IInv, HeapSafe
<1>1. TypeOK'
  BY FirstClass, AllocatorAssumption DEF TypeOK, AppPCs, MallocFindNone, Goto
<1>2. LocksMatchOwners'
  BY FirstClass, AllocatorAssumption
  DEF TypeOK, LocksMatchOwners, InClass, InSlot, MallocFindNone, Goto
<1> QED
  BY <1>1, <1>2, ControlStep DEF TypeOK, Giving, MallocFindNone, Goto

\* The invariant is kept by locking g_slot_mu in run_new.
LEMMA SlotLockIInv ==
  ASSUME IInv, NEW t \in Threads, SlotLock(t)
  PROVE  IInv'
<1> USE DEF IInv, HeapSafe
<1>1. TypeOK'
  BY FirstClass, AllocatorAssumption DEF TypeOK, AppPCs, SlotLock, Goto
<1>2. LocksMatchOwners'
  BY FirstClass, AllocatorAssumption
  DEF TypeOK, LocksMatchOwners, InClass, InSlot, SlotLock, Goto
<1> QED
  BY <1>1, <1>2, ControlStep DEF TypeOK, Giving, SlotLock, Goto

\* The invariant is kept by a failing run_new.
LEMMA RunNewFailsIInv ==
  ASSUME IInv, NEW t \in Threads, RunNewFails(t)
  PROVE  IInv'
<1> USE DEF IInv, HeapSafe
<1>1. TypeOK'
  BY FirstClass, AllocatorAssumption DEF TypeOK, AppPCs, RunNewFails, Leave, NoReg, Goto
<1>2. LocksMatchOwners'
  BY FirstClass, AllocatorAssumption
  DEF TypeOK, LocksMatchOwners, InClass, InSlot, RunNewFails, Leave, Goto
<1> QED
  BY <1>1, <1>2, ControlStep DEF TypeOK, Giving, RunNewFails, Leave, Goto

\* The invariant is kept by locking a class in free.
LEMMA FreeLockIInv ==
  ASSUME IInv, NEW t \in Threads, FreeLock(t)
  PROVE  IInv'
<1> USE DEF IInv, HeapSafe
<1>1. TypeOK'
  BY FirstClass, AllocatorAssumption DEF TypeOK, AppPCs, FreeLock, Goto
<1>2. LocksMatchOwners'
  BY FirstClass, AllocatorAssumption
  DEF TypeOK, LocksMatchOwners, InClass, InSlot, FreeLock, Goto
<1> QED
  BY <1>1, <1>2, ControlStep DEF TypeOK, Giving, FreeLock, Goto

\* The invariant is kept by the start of a trim pass.
LEMMA TrimWakeIInv ==
  ASSUME IInv, TrimWake
  PROVE  IInv'
<1> USE DEF IInv, HeapSafe
<1>1. TypeOK'
  BY FirstClass, AllocatorAssumption DEF TypeOK, AppPCs, TrimWake
<1>2. LocksMatchOwners'
  BY FirstClass, AllocatorAssumption
  DEF TypeOK, LocksMatchOwners, InClass, InSlot, TrimWake
<1> QED
  BY <1>1, <1>2, ControlStep DEF TypeOK, Giving, TrimWake

\* The invariant is kept by locking a class in the trim thread.
LEMMA TrimLockIInv ==
  ASSUME IInv, TrimLock
  PROVE  IInv'
<1> USE DEF IInv, HeapSafe
<1>1. TypeOK'
  BY FirstClass, AllocatorAssumption DEF TypeOK, AppPCs, TrimLock
<1>2. LocksMatchOwners'
  BY FirstClass, AllocatorAssumption
  DEF TypeOK, LocksMatchOwners, InClass, InSlot, TrimLock
<1> QED
  BY <1>1, <1>2, ControlStep DEF TypeOK, Giving, TrimLock

\* The invariant is kept by calling fork.
LEMMA ForkCallIInv ==
  ASSUME IInv, NEW t \in Threads, ForkCall(t)
  PROVE  IInv'
<1> USE DEF IInv, HeapSafe
<1>1. TypeOK'
  BY FirstClass, AllocatorAssumption DEF TypeOK, AppPCs, ForkCall, Goto
<1>2. LocksMatchOwners'
  BY FirstClass, AllocatorAssumption
  DEF TypeOK, LocksMatchOwners, InClass, InSlot, ForkCall, Goto
<1> QED
  BY <1>1, <1>2, ControlStep DEF TypeOK, Giving, ForkCall, Goto

\* The invariant is kept by locking g_slot_mu before a fork.
LEMMA ForkLockSlotIInv ==
  ASSUME IInv, NEW t \in Threads, ForkLockSlot(t)
  PROVE  IInv'
<1> USE DEF IInv, HeapSafe
<1>1. TypeOK'
  BY FirstClass, AllocatorAssumption DEF TypeOK, AppPCs, Classes, ForkLockSlot, Goto
<1>2. LocksMatchOwners'
  BY FirstClass, AllocatorAssumption
  DEF TypeOK, LocksMatchOwners, InClass, InSlot, Classes, ForkLockSlot, Goto
<1> QED
  BY <1>1, <1>2, ControlStep DEF TypeOK, Giving, ForkLockSlot, Goto

\* The invariant is kept by locking a class before a fork.
LEMMA ForkLockClassIInv ==
  ASSUME IInv, NEW t \in Threads, ForkLockClass(t)
  PROVE  IInv'
<1> USE DEF IInv, HeapSafe
<1> DEFINE d == IF reg[t].c < kNumClasses THEN reg[t].c + 1 ELSE reg[t].c
<1>1. TypeOK'
  <2>1. d \in Classes
    BY FirstClass DEF TypeOK, Classes
  <2>2. reg' = [reg EXCEPT ![t].c = d]
    BY DEF ForkLockClass
  <2>3. reg' \in [Threads -> [c : Classes, r : {0} \cup RunIds, i : Nat]]
    BY <2>1, <2>2 DEF TypeOK
  <2> QED
    BY <2>3 DEF TypeOK, AppPCs, ForkLockClass, Goto
<1>2. LocksMatchOwners'
  BY FirstClass, AllocatorAssumption
  DEF TypeOK, LocksMatchOwners, InClass, InSlot, Classes, ForkLockClass, Goto
<1> QED
  BY <1>1, <1>2, ControlStep DEF TypeOK, Giving, ForkLockClass, Goto

\* The invariant is kept by the release in the parent.
LEMMA ForkParentIInv ==
  ASSUME IInv, NEW t \in Threads, ForkParent(t)
  PROVE  IInv'
<1> USE DEF IInv, HeapSafe
<1>1. TypeOK'
  BY FirstClass, AllocatorAssumption DEF TypeOK, AppPCs, ForkParent, AtforkRelease, Leave, NoReg, Goto
<1>2. LocksMatchOwners'
  BY FirstClass, AllocatorAssumption
  DEF TypeOK, LocksMatchOwners, InClass, InSlot, ForkParent, AtforkRelease, Leave, Goto
<1> QED
  BY <1>1, <1>2, ControlStep DEF TypeOK, Giving, ForkParent, AtforkRelease, Leave, Goto

\* The invariant is kept by the release in the child.
LEMMA ForkChildIInv ==
  ASSUME IInv, NEW t \in Threads, ForkChild(t)
  PROVE  IInv'
<1> USE DEF IInv, HeapSafe
<1>1. TypeOK'
  BY FirstClass, AllocatorAssumption DEF TypeOK, AppPCs, ForkChild, NoReg, AtforkRelease
<1>2. LocksMatchOwners'
  BY FirstClass, AllocatorAssumption
  DEF TypeOK, LocksMatchOwners, InClass, InSlot, ForkChild, AtforkRelease
<1> QED
  BY <1>1, <1>2, ControlStep DEF TypeOK, Giving, ForkChild, AtforkRelease

\* A header that agrees with its bitmap.
HeaderOK(h) ==
  /\ h \in Run
  /\ h.free \subseteq Idx(h.cls)
  /\ h.used = Cardinality(Idx(h.cls) \ h.free)
  /\ h.lff = NotFree <=> h.used # 0

\* Taking a free block keeps the header consistent.
LEMMA run_take_OK ==
  ASSUME NEW h, HeaderOK(h), NEW i \in h.free
  PROVE  /\ HeaderOK(run_take(h, i))
         /\ run_take(h, i).cls = h.cls
         /\ run_take(h, i).free = h.free \ {i}
<1> DEFINE n == run_take(h, i)
           S == Idx(h.cls) \ h.free
<1>1. h.cls \in Classes /\ h.used \in Nat /\ i \in Idx(h.cls)
  BY DEF HeaderOK, Run
<1>2. IsFiniteSet(S)
  BY <1>1, IdxType, FS_Subset
<1>3. n.cls = h.cls /\ n.free = h.free \ {i} /\ n.used = h.used + 1
  BY DEF HeaderOK, Run, run_take
<1>4. Idx(n.cls) \ n.free = S \cup {i}
  BY <1>1, <1>3
<1>5. Cardinality(S \cup {i}) = Cardinality(S) + 1
  BY <1>2, FS_AddElement
<1>6. n.lff = NotFree
  BY DEF HeaderOK, Run, run_take
<1>7. {k \in Pages(h.cls) : Overlaps(h.cls, i, k)} \subseteq Nat
  BY DEF Pages
<1>8. n \in Run
  <2>1. n.free \in SUBSET Nat /\ n.used \in Nat
    BY <1>1, <1>3 DEF HeaderOK, Run
  <2>2. n.rss \in SUBSET Nat
    BY <1>7 DEF HeaderOK, Run, run_take
  <2>3. n.touch \in 0 .. TouchAgeCap
    BY AllocatorAssumption DEF run_take, TouchAgeCap
  <2> QED
    BY <1>1, <1>3, <1>6, <2>1, <2>2, <2>3 DEF run_take, Run
<1>9. n.used = Cardinality(Idx(n.cls) \ n.free)
  BY <1>3, <1>4, <1>5 DEF HeaderOK
<1>10. n.free \subseteq Idx(n.cls) /\ n.used # 0
  BY <1>1, <1>3 DEF HeaderOK
<1> HIDE DEF n
<1>11. HeaderOK(n)
  BY <1>6, <1>8, <1>9, <1>10 DEF HeaderOK
<1> QED
  BY <1>3, <1>11 DEF n

\* Giving a taken block back keeps the header consistent.
LEMMA run_give_OK ==
  ASSUME NEW h, HeaderOK(h), NEW i \in Idx(h.cls) \ h.free
  PROVE  /\ HeaderOK(run_give(h, i))
         /\ run_give(h, i).cls = h.cls
         /\ run_give(h, i).free = h.free \cup {i}
<1> DEFINE n == run_give(h, i)
           S == Idx(h.cls) \ h.free
<1>1. h.cls \in Classes /\ h.used \in Nat /\ i \in Nat
  BY IdxType, GeometryAssumption DEF HeaderOK, Run
<1>2. IsFiniteSet(S)
  BY <1>1, IdxType, FS_Subset
<1>3. Cardinality(S \ {i}) = Cardinality(S) - 1
  BY <1>2, FS_RemoveElement
<1>4. h.used # 0
  BY <1>2, FS_EmptySet DEF HeaderOK
<1>5. n.cls = h.cls /\ n.free = h.free \cup {i} /\ n.used = h.used - 1
  BY <1>1, <1>4 DEF HeaderOK, Run, run_give
<1>6. Idx(n.cls) \ n.free = S \ {i}
  BY <1>5
<1>7. n.lff = NotFree <=> n.used # 0
  BY <1>1, <1>4, <1>5 DEF HeaderOK, Run, run_give, NotFree
<1>8. n \in Run
  <2>1. n.free \in SUBSET Nat /\ n.used \in Nat
    BY <1>1, <1>4, <1>5 DEF HeaderOK, Run
  <2>2. n.lff \in {NotFree} \cup (0 .. RunAgeCap)
    BY AllocatorAssumption DEF HeaderOK, Run, run_give, RunAgeCap
  <2>3. n.touch \in 0 .. TouchAgeCap
    BY AllocatorAssumption DEF run_give, TouchAgeCap
  <2>4. n.rss \in SUBSET Nat
    BY DEF HeaderOK, Run, run_give
  <2> QED
    BY <1>1, <1>5, <2>1, <2>2, <2>3, <2>4 DEF run_give, Run
<1> QED
  BY <1>1, <1>3, <1>5, <1>6, <1>7, <1>8 DEF HeaderOK

\* In a state of the invariant, every mapped run has a consistent header.
LEMMA MappedHeaders ==
  ASSUME IInv, NEW q \in mapped
  PROVE  q \in RunIds /\ HeaderOK(run[q])
<1>1. q \in RunIds
  BY AllocatorAssumption DEF IInv, TypeOK, RunIds
<1>2. run[q] \in Run
  BY <1>1 DEF IInv, TypeOK
<1> QED
  BY <1>1, <1>2 DEF IInv, HeapSafe, UsedCountsBlocks, HeaderOK

\* The invariant is kept by run_take, and the unlock that follows.
LEMMA RunTakeIInv ==
  ASSUME IInv, NEW t \in Threads, RunTake(t)
  PROVE  IInv'
<1> USE DEF IInv, HeapSafe
<1> DEFINE r == reg[t].r
           i == reg[t].i
           c == reg[t].c
<1>a. pc[t] = "m_take" /\ c \in Classes /\ i \in Nat
  BY DEF TypeOK, RunTake, Leave, Goto
<1>b. r \in mapped /\ run[r].cls = c /\ i \in run[r].free
  BY <1>a DEF ChosenBlockFree
<1>c. r \in RunIds /\ HeaderOK(run[r])
  BY <1>b, MappedHeaders
<1>d. mu[c] = t
  BY <1>a DEF LocksMatchOwners, InClass
<1> DEFINE n == run_take(run[r], i)
<1>f. HeaderOK(n) /\ n.cls = c /\ n.free = run[r].free \ {i}
  BY <1>b, <1>c, run_take_OK
<1>g. run' = [run EXCEPT ![r] = n] /\ mapped' = mapped
  BY DEF RunTake
<1>h. i \in Idx(c)
  BY <1>b, <1>c DEF HeaderOK
<1> HIDE DEF n
<1>1. TypeOK'
  <2>1. run' \in [RunIds -> Run]
    BY <1>c, <1>f, <1>g DEF TypeOK, HeaderOK
  <2>2. held' \subseteq Blocks /\ wiped' \subseteq held'
    BY <1>a, <1>c, <1>h, IdxType DEF TypeOK, RunTake, Blocks
  <2> QED
    BY <2>1, <2>2, FirstClass DEF TypeOK, RunTake, Leave, NoReg, Goto, AppPCs
<1>2. LocksMatchOwners'
  BY <1>a, <1>d, AllocatorAssumption DEF TypeOK, LocksMatchOwners, RunTake, Leave, Goto, InClass, InSlot
<1>3. HeldBlocksTaken'
  BY <1>b, <1>c, <1>f, <1>g, <1>h DEF TypeOK, HeldBlocksTaken, Taken, RunTake, Blocks
<1>4. BlocksInFreeTaken'
  BY <1>b, <1>c, <1>f, <1>g, <1>h DEF TypeOK, BlocksInFreeTaken, Taken, Giving, RunTake, Leave, Goto
<1>5. ChosenBlockFree'
  BY <1>a, <1>b, <1>c, <1>d, <1>f, <1>g DEF TypeOK, ChosenBlockFree, RunTake, Leave, Goto, LocksMatchOwners, InClass
<1>6. UsedCountsBlocks'
  <2> SUFFICES ASSUME NEW q \in mapped PROVE HeaderOK(run'[q])
    BY <1>g DEF UsedCountsBlocks, HeaderOK
  <2>1. q \in RunIds /\ HeaderOK(run[q])
    BY MappedHeaders
  <2>2. run'[q] = IF q = r THEN n ELSE run[q]
    BY <1>g, <2>1 DEF TypeOK
  <2> QED
    BY <1>f, <2>1, <2>2
<1> QED
  BY <1>1, <1>2, <1>3, <1>4, <1>5, <1>6

\* The invariant is kept by run_give, and the unlock that follows.
LEMMA RunGiveIInv ==
  ASSUME IInv, NEW t \in Threads, RunGive(t)
  PROVE  IInv'
<1> USE DEF IInv, HeapSafe
<1> DEFINE r == reg[t].r
           i == reg[t].i
           c == reg[t].c
<1>a. pc[t] = "f_give" /\ c \in Classes /\ i \in Nat
  BY DEF TypeOK, RunGive, Leave, Goto
<1>b. Taken(r, i) /\ run[r].cls = c /\ <<r, i>> \notin held
  BY <1>a DEF BlocksInFreeTaken, Giving
<1>c. r \in mapped /\ r \in RunIds /\ HeaderOK(run[r]) /\ i \in Idx(c) \ run[r].free
  BY <1>b, MappedHeaders DEF Taken
<1>d. mu[c] = t
  BY <1>a DEF LocksMatchOwners, InClass
<1> DEFINE n == run_give(run[r], i)
<1>f. HeaderOK(n) /\ n.cls = c /\ n.free = run[r].free \cup {i}
  BY <1>b, <1>c, run_give_OK
<1>g. run' = [run EXCEPT ![r] = n] /\ mapped' = mapped
  BY DEF RunGive
<1> HIDE DEF n
<1>1. TypeOK'
  <2>1. run' \in [RunIds -> Run]
    BY <1>c, <1>f, <1>g DEF TypeOK, HeaderOK
  <2> QED
    BY <2>1, FirstClass DEF TypeOK, RunGive, Leave, NoReg, Goto, AppPCs
<1>2. LocksMatchOwners'
  BY <1>a, <1>d, AllocatorAssumption DEF TypeOK, LocksMatchOwners, RunGive, Leave, Goto, InClass, InSlot
<1>3. HeldBlocksTaken'
  BY <1>b, <1>c, <1>f, <1>g DEF TypeOK, HeldBlocksTaken, Taken, RunGive, Blocks
<1>4. BlocksInFreeTaken'
  BY <1>a, <1>b, <1>c, <1>f, <1>g DEF TypeOK, BlocksInFreeTaken, Taken, Giving, RunGive, Leave, Goto
<1>5. ChosenBlockFree'
  BY <1>a, <1>b, <1>c, <1>d, <1>f, <1>g DEF TypeOK, ChosenBlockFree, RunGive, Leave, Goto, LocksMatchOwners, InClass
<1>6. UsedCountsBlocks'
  <2> SUFFICES ASSUME NEW q \in mapped PROVE HeaderOK(run'[q])
    BY <1>g DEF UsedCountsBlocks, HeaderOK
  <2>1. q \in RunIds /\ HeaderOK(run[q])
    BY MappedHeaders
  <2>2. run'[q] = IF q = r THEN n ELSE run[q]
    BY <1>g, <2>1 DEF TypeOK
  <2> QED
    BY <1>f, <2>1, <2>2
<1> QED
  BY <1>1, <1>2, <1>3, <1>4, <1>5, <1>6

\* The invariant is kept by run_new.
LEMMA RunNewIInv ==
  ASSUME IInv, NEW t \in Threads, RunNew(t)
  PROVE  IInv'
<1> USE DEF IInv, HeapSafe
<1> DEFINE r == bump + 1
           c == reg[t].c
           n == NewRun(c)
<1>a. pc[t] = "m_map" /\ c \in Classes /\ slot = t /\ mu[c] = t
  BY DEF TypeOK, RunNew, Goto, LocksMatchOwners, InSlot, InClass
<1>b. r \in RunIds /\ r \notin mapped /\ r > 0
  BY AllocatorAssumption DEF TypeOK, RunNew, RunIds
<1>c. run' = [run EXCEPT ![r] = n] /\ mapped' = mapped \cup {r}
  BY DEF RunNew
<1>d. n \in Run /\ n.cls = c /\ n.free = Idx(c) /\ n.used = 0 /\ n.lff = 0 /\ 0 \in Idx(c)
  BY <1>a, NewRunType, IdxType DEF NewRun
<1>e. HeaderOK(n)
  <2>1. Idx(c) \ n.free = {}
    BY <1>d
  <2> QED
    BY <1>d, <2>1, FS_EmptySet DEF HeaderOK, NotFree
<1>f. \A q \in mapped : q \in RunIds /\ q # r /\ run'[q] = run[q]
  BY <1>b, <1>c, MappedHeaders DEF TypeOK
<1>g. run'[r] = n
  BY <1>b, <1>c DEF TypeOK
<1> HIDE DEF n
<1>1. TypeOK'
  <2>1. run' \in [RunIds -> Run]
    BY <1>b, <1>c, <1>d DEF TypeOK
  <2>2. mapped' \subseteq 1 .. bump' /\ bump' \in 0 .. MaxRuns
    BY <1>b, <1>c, AllocatorAssumption DEF TypeOK, RunNew
  <2>3. reg' \in [Threads -> [c : Classes, r : {0} \cup RunIds, i : Nat]]
    BY <1>a, <1>b DEF TypeOK, RunNew
  <2> QED
    BY <2>1, <2>2, <2>3 DEF TypeOK, RunNew, Goto, AppPCs
<1>2. LocksMatchOwners'
  BY <1>a, AllocatorAssumption DEF TypeOK, LocksMatchOwners, RunNew, Goto, InClass, InSlot
<1>3. HeldBlocksTaken'
  BY <1>c, <1>f DEF TypeOK, HeldBlocksTaken, Taken, RunNew, Blocks
<1>4. BlocksInFreeTaken'
  BY <1>c, <1>f DEF TypeOK, BlocksInFreeTaken, Taken, Giving, RunNew, Goto
<1>5. ChosenBlockFree'
  BY <1>a, <1>c, <1>d, <1>f, <1>g DEF TypeOK, ChosenBlockFree, RunNew, Goto
<1>6. UsedCountsBlocks'
  <2> SUFFICES ASSUME NEW q \in mapped' PROVE HeaderOK(run'[q])
    BY DEF UsedCountsBlocks, HeaderOK
  <2> QED
    BY <1>c, <1>e, <1>f, <1>g, MappedHeaders
<1> QED
  BY <1>1, <1>2, <1>3, <1>4, <1>5, <1>6

\* The invariant is kept by choosing a block.
LEMMA MallocFindIInv ==
  ASSUME IInv, NEW t \in Threads, MallocFind(t)
  PROVE  IInv'
<1> USE DEF IInv, HeapSafe
<1> DEFINE c == reg[t].c
<1>p. PICK r \in Candidates(c) : \E i \in run[r].free :
        reg' = [reg EXCEPT ![t] = [c |-> c, r |-> r, i |-> i]]
  BY DEF MallocFind
<1>a. PICK i \in run[r].free : reg' = [reg EXCEPT ![t] = [c |-> c, r |-> r, i |-> i]]
  BY <1>p
<1>b. /\ r \in mapped /\ run[r].cls = c /\ r \in RunIds
      /\ i \in Nat /\ c \in Classes
  BY <1>a, MappedHeaders DEF Candidates, HeaderOK, Run, TypeOK
<1>c. /\ pc[t] = "m_find" /\ pc' = [pc EXCEPT ![t] = "m_take"]
      /\ UNCHANGED <<mu, slot, held, mapped, run, bump, wiped, trim>>
  BY DEF MallocFind, Goto
<1>1. TypeOK'
  BY <1>a, <1>b, <1>c DEF TypeOK, AppPCs
<1>2. LocksMatchOwners'
  BY <1>a, <1>b, <1>c DEF TypeOK, LocksMatchOwners, InClass, InSlot
<1>3. HeldBlocksTaken'
  BY <1>c DEF HeldBlocksTaken, Taken
<1>4. BlocksInFreeTaken'
  BY <1>a, <1>c DEF TypeOK, BlocksInFreeTaken, Taken, Giving
<1>5. ChosenBlockFree'
  BY <1>a, <1>b, <1>c DEF TypeOK, ChosenBlockFree
<1>6. UsedCountsBlocks'
  BY <1>c DEF UsedCountsBlocks
<1> QED
  BY <1>1, <1>2, <1>3, <1>4, <1>5, <1>6

\* The invariant is kept by calling free.
LEMMA FreeCallIInv ==
  ASSUME IInv, NEW t \in Threads, NEW b \in held, FreeCall(t, b)
  PROVE  IInv'
<1> USE DEF IInv, HeapSafe
<1>a. /\ b \in RunIds \X (0 .. kMaxElems - 1) /\ b = <<b[1], b[2]>>
      /\ Taken(b[1], b[2]) /\ b[2] \in Nat
  BY GeometryAssumption DEF TypeOK, Blocks, HeldBlocksTaken
<1>b. b[1] \in mapped /\ b[1] \in RunIds /\ run[b[1]].cls \in Classes
  BY <1>a, MappedHeaders DEF Taken, HeaderOK, Run
<1>1. TypeOK'
  BY <1>a, <1>b DEF TypeOK, AppPCs, FreeCall, Goto
<1>2. LocksMatchOwners'
  BY DEF TypeOK, LocksMatchOwners, InClass, InSlot, FreeCall, Goto
<1>3. HeldBlocksTaken'
  BY DEF HeldBlocksTaken, Taken, FreeCall
<1>4. BlocksInFreeTaken'
  BY <1>a, <1>b DEF TypeOK, BlocksInFreeTaken, Taken, Giving, FreeCall, Goto
<1>5. ChosenBlockFree'
  BY DEF TypeOK, ChosenBlockFree, FreeCall, Goto
<1>6. UsedCountsBlocks'
  BY DEF UsedCountsBlocks, FreeCall
<1> QED
  BY <1>1, <1>2, <1>3, <1>4, <1>5, <1>6

\* The invariant is kept by a free that does nothing.
LEMMA FreeIgnoredIInv ==
  ASSUME IInv, NEW t \in Threads, NEW b \in held, FreeIgnored(t, b)
  PROVE  IInv'
<1> USE DEF IInv, HeapSafe
<1>1. TypeOK'
  BY DEF TypeOK, FreeIgnored
<1>2. LocksMatchOwners'
  BY DEF LocksMatchOwners, InClass, InSlot, FreeIgnored
<1>3. HeldBlocksTaken'
  BY DEF HeldBlocksTaken, Taken, FreeIgnored
<1>4. BlocksInFreeTaken'
  BY DEF BlocksInFreeTaken, Taken, Giving, FreeIgnored
<1>5. ChosenBlockFree'
  BY DEF ChosenBlockFree, FreeIgnored
<1>6. UsedCountsBlocks'
  BY DEF UsedCountsBlocks, FreeIgnored
<1> QED
  BY <1>1, <1>2, <1>3, <1>4, <1>5, <1>6

\* A step that only changes time stamps and resident pages, and unmaps runs with
\* no taken block that no thread has chosen, keeps what concerns blocks.
LEMMA HeaderStep ==
  ASSUME IInv, UNCHANGED <<pc, reg, held>>, mapped' \subseteq mapped,
         \A q \in mapped' : HeaderOK(run'[q]) /\ run'[q].cls = run[q].cls
                            /\ run'[q].free = run[q].free,
         \A q \in mapped \ mapped' : /\ Idx(run[q].cls) \ run[q].free = {}
                                     /\ \A u \in Threads :
                                          pc[u] = "m_take" => reg[u].r # q
  PROVE  /\ HeldBlocksTaken'
         /\ BlocksInFreeTaken'
         /\ ChosenBlockFree'
         /\ UsedCountsBlocks'
<1> USE DEF IInv, HeapSafe
<1>0. \A q, i : Taken(q, i) => Taken(q, i)'
  BY DEF Taken
<1>1. HeldBlocksTaken'
  BY <1>0 DEF HeldBlocksTaken
<1>2. BlocksInFreeTaken'
  BY <1>0 DEF BlocksInFreeTaken, Giving, Taken
<1>3. ChosenBlockFree'
  BY DEF ChosenBlockFree
<1>4. UsedCountsBlocks'
  BY DEF UsedCountsBlocks, HeaderOK
<1> QED
  BY <1>1, <1>2, <1>3, <1>4

\* The invariant is kept by the clock.
LEMMA TickIInv ==
  ASSUME IInv, Tick
  PROVE  IInv'
<1> USE DEF IInv, HeapSafe
<1>a. ASSUME NEW q \in mapped
      PROVE  /\ q \in RunIds
             /\ run'[q] = [run[q] EXCEPT !.lff = Older(@, RunAgeCap), !.touch = Older(@, TouchAgeCap)]
             /\ HeaderOK(run'[q]) /\ run'[q].cls = run[q].cls /\ run'[q].free = run[q].free
  <2> DEFINE h == run[q]
             n == [h EXCEPT !.lff = Older(@, RunAgeCap), !.touch = Older(@, TouchAgeCap)]
  <2>1. q \in RunIds /\ HeaderOK(h)
    BY MappedHeaders
  <2>2. run'[q] = n
    BY <2>1 DEF Tick
  <2>3. /\ n.cls = h.cls /\ n.free = h.free /\ n.used = h.used /\ n.rss = h.rss
        /\ n.lff = Older(h.lff, RunAgeCap) /\ n.touch = Older(h.touch, TouchAgeCap)
    BY <2>1 DEF HeaderOK, Run
  <2>4. /\ n.lff \in {NotFree} \cup (0 .. RunAgeCap)
        /\ n.touch \in 0 .. TouchAgeCap
        /\ n.lff = NotFree <=> h.lff = NotFree
    BY <2>1, <2>3, AllocatorAssumption DEF HeaderOK, Run, Older, NotFree, RunAgeCap, TouchAgeCap
  <2>5. n \in Run
    BY <2>1, <2>3, <2>4 DEF HeaderOK, Run
  <2> HIDE DEF n
  <2>6. HeaderOK(n)
    BY <2>1, <2>3, <2>4, <2>5 DEF HeaderOK
  <2> QED
    BY <2>1, <2>2, <2>3, <2>6 DEF n
<1>b. UNCHANGED <<mu, slot, pc, reg, held, mapped, bump, wiped>>
  BY DEF Tick
<1>1. TypeOK'
  <2>1. run' \in [RunIds -> Run]
    <3> SUFFICES ASSUME NEW q \in RunIds PROVE run'[q] \in Run
      BY DEF Tick
    <3>1. CASE q \in mapped
      BY <1>a, <3>1 DEF HeaderOK
    <3>2. CASE q \notin mapped
      BY <3>2 DEF Tick, TypeOK
    <3> QED
      BY <3>1, <3>2
  <2>2. trim' \in [pc : {"sleep", "lock", "scan", "gone"}, c : Classes, t : 0 .. MaxPass]
    <3>1. CASE trim.pc \in {"sleep", "gone"}
      BY <3>1 DEF Tick, TypeOK
    <3>2. CASE trim.pc \notin {"sleep", "gone"}
      <4>1. trim.t \in 0 .. MaxPass /\ trim.t < MaxPass
        BY <3>2 DEF Tick, TypeOK
      <4>2. trim.t + 1 \in 0 .. MaxPass
        BY <4>1, AllocatorAssumption
      <4>3. trim' = [trim EXCEPT !.t = @ + 1]
        BY <3>2 DEF Tick
      <4> QED
        BY <4>2, <4>3 DEF TypeOK
    <3> QED
      BY <3>1, <3>2
  <2> QED
    BY <1>b, <2>1, <2>2 DEF TypeOK
<1>2. trim'.pc = trim.pc /\ trim'.c = trim.c
  BY DEF Tick, TypeOK
<1>3. LocksMatchOwners'
  BY <1>b, <1>2 DEF LocksMatchOwners, InClass, InSlot
<1>4. /\ HeldBlocksTaken' /\ BlocksInFreeTaken' /\ ChosenBlockFree' /\ UsedCountsBlocks'
  BY <1>a, <1>b, HeaderStep
<1> QED
  BY <1>1, <1>3, <1>4

\* The invariant is kept by purge_run over a class.
LEMMA TrimScanIInv ==
  ASSUME IInv, TrimScan
  PROVE  IInv'
<1> USE DEF IInv, HeapSafe
<1>a. /\ trim.pc = "scan" /\ trim.c \in Classes /\ mu[trim.c] = Trim
      /\ UNCHANGED <<slot, pc, reg, held, bump>>
      /\ mapped' = {q \in mapped : ~ (run[q].cls = trim.c /\ Expired(q))}
  BY DEF TypeOK, TrimScan, LocksMatchOwners
<1>b. ASSUME NEW q \in mapped'
      PROVE  /\ HeaderOK(run'[q])
             /\ run'[q].cls = run[q].cls
             /\ run'[q].free = run[q].free
  <2> DEFINE h == run[q]
             n == [h EXCEPT !.touch = trim.t, !.rss = @ \ Purged(q)]
  <2>1. q \in mapped /\ q \in RunIds /\ HeaderOK(h)
    BY <1>a, MappedHeaders
  <2>2. run'[q] = h \/ run'[q] = n
    BY <1>a, <2>1 DEF TrimScan
  <2>3. n.cls = h.cls /\ n.free = h.free /\ n.used = h.used /\ n.lff = h.lff
    BY <2>1 DEF HeaderOK, Run
  <2>4. n \in Run
    <3>1. trim.t \in 0 .. TouchAgeCap
      BY AllocatorAssumption DEF TypeOK, TouchAgeCap
    <3> QED
      BY <2>1, <3>1 DEF HeaderOK, Run
  <2> HIDE DEF n
  <2>5. HeaderOK(n)
    BY <2>1, <2>3, <2>4 DEF HeaderOK
  <2> QED
    BY <2>1, <2>2, <2>3, <2>5
<1>c. ASSUME NEW q \in mapped \ mapped'
      PROVE  /\ Idx(run[q].cls) \ run[q].free = {}
             /\ \A u \in Threads : pc[u] = "m_take" => reg[u].r # q
  <2> DEFINE S == Idx(run[q].cls) \ run[q].free
  <2>1. run[q].cls = trim.c /\ run[q].used = 0
    BY <1>a DEF Expired
  <2>2. HeaderOK(run[q]) /\ IsFiniteSet(S)
    BY MappedHeaders, IdxType, FS_Subset DEF HeaderOK, Run
  <2>3. Cardinality(S) = 0
    BY <2>1, <2>2 DEF HeaderOK
  <2>4. S = {}
    BY <2>2, <2>3, FS_EmptySet
  <2>5. ASSUME NEW u \in Threads, pc[u] = "m_take", reg[u].r = q PROVE FALSE
    <3>1. reg[u].c = trim.c
      BY <2>1, <2>5 DEF ChosenBlockFree
    <3>2. mu[trim.c] = u
      BY <1>a, <2>5, <3>1 DEF LocksMatchOwners, InClass
    <3> QED
      BY <1>a, <3>2, AllocatorAssumption
  <2> QED
    BY <2>4, <2>5
<1>1. TypeOK'
  <2>1. run' \in [RunIds -> Run]
    <3> SUFFICES ASSUME NEW q \in RunIds PROVE run'[q] \in Run
      BY DEF TrimScan
    <3>1. CASE q \in mapped'
      BY <1>b, <3>1 DEF HeaderOK
    <3>2. CASE q \notin mapped'
      <4>1. run'[q] = NewRun(1) \/ run'[q] = run[q]
        BY <1>a, <3>2 DEF TrimScan
      <4> QED
        BY <4>1, NewRunType, FirstClass DEF TypeOK
    <3> QED
      BY <3>1, <3>2
  <2>2. trim' \in [pc : {"sleep", "lock", "scan", "gone"}, c : Classes, t : 0 .. MaxPass]
    <3>1. CASE trim.c < kNumClasses
      <4>1. trim.c + 1 \in Classes
        BY <1>a, <3>1, FirstClass DEF Classes
      <4> QED
        BY <3>1, <4>1 DEF TrimScan, TypeOK
    <3>2. CASE ~ trim.c < kNumClasses
      <4>1. trim' = [pc |-> "sleep", c |-> 1, t |-> 0]
        BY <3>2 DEF TrimScan
      <4> QED
        BY <4>1, FirstClass, AllocatorAssumption
    <3> QED
      BY <3>1, <3>2
  <2>3. mapped' \subseteq 1 .. bump'
    BY <1>a DEF TypeOK
  <2>4. wiped' \subseteq held'
    BY <1>a DEF TypeOK, TrimScan
  <2>5. mu' \in [Classes -> Threads \cup {Trim, None}]
    BY DEF TypeOK, TrimScan
  <2> QED
    BY <1>a, <2>1, <2>2, <2>3, <2>4, <2>5 DEF TypeOK
<1>2. LocksMatchOwners'
  <2>1. trim'.pc # "scan"
    BY DEF TypeOK, TrimScan
  <2>2. mu' = [mu EXCEPT ![trim.c] = None]
    BY DEF TrimScan
  <2> QED
    BY <1>a, <2>1, <2>2, AllocatorAssumption DEF TypeOK, LocksMatchOwners, InClass, InSlot
<1>3. /\ HeldBlocksTaken' /\ BlocksInFreeTaken' /\ ChosenBlockFree' /\ UsedCountsBlocks'
  BY <1>a, <1>b, <1>c, HeaderStep
<1> QED
  BY <1>1, <1>2, <1>3

\* The invariant is inductive.
LEMMA NextIInv == IInv /\ [Next]_vars => IInv'
<1> SUFFICES ASSUME IInv, [Next]_vars PROVE IInv'
  OBVIOUS
<1>1. ASSUME NEW t \in Threads, Call(t) PROVE IInv'
  BY <1>1, MallocCallIInv, FreeCallIInv, FreeIgnoredIInv, ForkCallIInv DEF Call
<1>2. ASSUME NEW t \in Threads, Step(t) PROVE IInv'
  BY <1>2, MallocLockIInv, MallocFindIInv, MallocFindNoneIInv, SlotLockIInv, RunNewIInv,
     RunNewFailsIInv, RunTakeIInv, FreeLockIInv, RunGiveIInv, ForkLockSlotIInv,
     ForkLockClassIInv, ForkParentIInv, ForkChildIInv DEF Step
<1>3. ASSUME TrimStep PROVE IInv'
  BY <1>3, TrimWakeIInv, TrimLockIInv, TrimScanIInv DEF TrimStep
<1>4. CASE Tick
  BY <1>4, TickIInv
<1>5. CASE UNCHANGED vars
  <2>1. TypeOK'
    BY <1>5 DEF vars, IInv, TypeOK
  <2>2. LocksMatchOwners'
    BY <1>5 DEF vars, IInv, HeapSafe, LocksMatchOwners, InClass, InSlot
  <2> QED
    BY <1>5, <2>1, <2>2, ControlStep DEF vars, Giving
<1> QED
  BY <1>1, <1>2, <1>3, <1>4, <1>5 DEF Next

\* The state keeps its shape, and the heap is safe in every reachable state:
\* with any number of threads that malloc, free and fork and with the trim thread
\* at work, a block that is held or being freed is never given again and its run
\* is never unmapped, the mutexes belong to the threads in their critical
\* sections, and Run::used counts the taken blocks.
THEOREM AllocatorHeapSafe == Spec => [](TypeOK /\ HeapSafe)
<1>1. Init => IInv
  BY InitIInv
<1>2. IInv /\ [Next]_vars => IInv'
  BY NextIInv
<1>3. IInv => TypeOK /\ HeapSafe
  BY DEF IInv
<1> QED
  BY <1>1, <1>2, <1>3, PTL DEF Spec
-----------------------------------------------------------------------------
(* The page arithmetic of the purge.                                       *)

\* Division rounds down.
LEMMA DivBounds ==
  \A x \in Nat, e \in Nat \ {0} :
    /\ x \div e \in Nat
    /\ (x \div e) * e <= x
    /\ x < (x \div e + 1) * e
  OBVIOUS

\* Multiplication by a positive number reflects the order.
LEMMA MulLess == \A x, y \in Nat, e \in Nat \ {0} : x * e < y * e => x < y
<1> SUFFICES ASSUME NEW x \in Nat, NEW y \in Nat, NEW e \in Nat \ {0}, ~ (x < y)
             PROVE  ~ (x * e < y * e)
  OBVIOUS
<1>1. PICK d \in Nat : x = y + d
  <2>1. x - y \in Nat /\ x = y + (x - y)
    OBVIOUS
  <2> QED
    BY <2>1
<1>2. x * e = y * e + d * e
  BY <1>1
<1>3. d * e \in Nat
  OBVIOUS
<1> QED
  BY <1>2, <1>3

\* Block sizes are positive and no larger than a run.
LEMMA ElemType == \A c \in Classes : Elem(c) \in Nat \ {0} /\ Elem(c) <= kRunSize
  BY GeometryAssumption DEF Classes, kNumClasses, Elem

\* Of the blocks that have bytes on a page, the scan looks at all but the one that
\* continues on the next page: a taken block on a page it drops is that one.
THEOREM PurgedPagesAreFree ==
  ASSUME NEW c \in Classes, NEW free,
         NEW k \in purge_pages(c, free), NEW b \in Idx(c), Overlaps(c, b, k)
  PROVE  b \in free \/ Straddles(c, b)
<1> DEFINE e == Elem(c)
           lo == k * PageSize
           hi == (k + 1) * PageSize
           b0 == lo \div e
           b1 == hi \div e
<1>0. e \in Nat \ {0} /\ PageSize \in Nat \ {0} /\ k \in Nat /\ k \in Pages(c) /\ b \in Nat
  BY ElemType, GeometryAssumption DEF purge_pages, Pages, Idx
<1>1. PageBlocks(c, 0) # {} /\ PageBlocks(c, k) \subseteq free
  BY <1>0 DEF purge_pages
<1>2. Elems(c) \in Int /\ b < Elems(c)
  BY <1>0, GeometryAssumption DEF Elems, Idx
<1>3. ~ (e > PageSize)
  <2> SUFFICES ASSUME e > PageSize PROVE FALSE
    OBVIOUS
  <2>1. (0 * PageSize) \div e = 0 /\ ((0 + 1) * PageSize) \div e = 0
    BY <1>0
  <2>2. PageBlocks(c, 0) = {}
    BY <1>0, <1>2, <2>1 DEF PageBlocks
  <2> QED
    BY <1>1, <2>2
<1>4. lo \in Nat /\ hi \in Nat /\ hi = lo + PageSize
  BY <1>0
<1>5. b * e < hi /\ lo < (b + 1) * e
  BY <1>0 DEF Overlaps
<1>6. /\ b0 \in Nat /\ b0 * e <= lo
      /\ b1 \in Nat /\ hi < (b1 + 1) * e
  BY <1>0, <1>4, DivBounds
<1>7. b0 <= b
  <2>1. b0 * e < (b + 1) * e
    BY <1>0, <1>4, <1>5, <1>6
  <2>2. b0 < b + 1
    BY <1>0, <1>6, <2>1, MulLess
  <2> QED
    BY <1>0, <1>6, <2>2
<1>8. CASE b < b1
  <2>1. b \in PageBlocks(c, k)
    BY <1>0, <1>2, <1>6, <1>7, <1>8 DEF PageBlocks
  <2> QED
    BY <1>1, <2>1
<1>9. CASE ~ (b < b1)
  <2>1. hi < (b + 1) * e
    <3>1. PICK d \in Nat : b = b1 + d
      <4>1. b - b1 \in Nat /\ b = b1 + (b - b1)
        BY <1>0, <1>6, <1>9
      <4> QED
        BY <4>1
    <3>2. (b + 1) * e = (b1 + 1) * e + d * e
      BY <1>0, <1>6, <3>1
    <3>3. d * e \in Nat /\ (b1 + 1) * e \in Nat
      BY <1>0, <1>6
    <3> QED
      BY <1>4, <1>6, <3>2, <3>3
  <2>2. CASE e < PageSize
    BY <1>0, <1>5, <2>1, <2>2 DEF Straddles
  <2>3. CASE e = PageSize
    <3>1. (b + 1) * e <= hi
      <4>1. b < k + 1
        BY <1>0, <1>5, <2>3, MulLess
      <4>2. PICK d \in Nat : k = b + d
        <5>1. k - b \in Nat /\ k = b + (k - b)
          BY <1>0, <4>1
        <5> QED
          BY <5>1
      <4>3. hi = (b + 1) * e + d * e /\ d * e \in Nat /\ (b + 1) * e \in Nat
        BY <1>0, <2>3, <4>2
      <4> QED
        BY <4>3
    <3>2. (b + 1) * e \in Nat
      BY <1>0
    <3> QED
      BY <1>4, <2>1, <3>1, <3>2
  <2> QED
    BY <1>0, <1>3, <2>2, <2>3
<1> QED
  BY <1>8, <1>9
-----------------------------------------------------------------------------
(* Live data and the abstract heap.                                        *)

\* A run keeps its class for as long as it is mapped.
LEMMA ClassStays ==
  ASSUME IInv, [Next]_vars, NEW r \in mapped, r \in mapped'
  PROVE  run'[r].cls = run[r].cls
<1>0. r \in RunIds /\ r <= bump /\ bump \in Int /\ run \in [RunIds -> Run]
  BY AllocatorAssumption DEF IInv, TypeOK, RunIds
<1> DEFINE Header == [cls : Classes, used : Nat, free : SUBSET Nat, lff : Int,
                      touch : Int, rss : SUBSET Nat]
<1>h. run[r] \in Header
  <2>1. Run \subseteq Header
    BY AllocatorAssumption DEF Run, NotFree, RunAgeCap, TouchAgeCap
  <2> QED
    BY <1>0, <2>1
<1>1. CASE TrimScan
  BY <1>0, <1>h, <1>1 DEF TrimScan
<1>2. CASE Tick
  BY <1>0, <1>h, <1>2 DEF Tick
<1>3. CASE TrimWake \/ TrimLock \/ UNCHANGED vars
  BY <1>3 DEF TrimWake, TrimLock, vars
<1>4. ASSUME NEW t \in Threads, Call(t) PROVE run' = run
  BY <1>4 DEF Call, MallocCall, FreeCall, FreeIgnored, ForkCall
<1>5. ASSUME NEW t \in Threads, Step(t) PROVE run'[r].cls = run[r].cls
  <2>1. CASE RunNew(t)
    <3>1. run' = [run EXCEPT ![bump + 1] = NewRun(reg[t].c)] /\ r # bump + 1
      BY <1>0, <2>1 DEF RunNew
    <3> QED
      BY <1>0, <3>1
  <2>2. CASE RunTake(t)
    BY <1>0, <2>2 DEF RunTake, run_take
  <2>3. CASE RunGive(t)
    BY <1>0, <2>3 DEF RunGive, run_give
  <2>4. ASSUME ~ RunNew(t), ~ RunTake(t), ~ RunGive(t) PROVE run' = run
    BY <1>5, <2>4 DEF Step, MallocLock, MallocFind, MallocFindNone, SlotLock, RunNewFails,
       FreeLock, ForkLockSlot, ForkLockClass, ForkParent, ForkChild
  <2> QED
    BY <2>1, <2>2, <2>3, <2>4
<1> QED
  BY <1>1, <1>2, <1>3, <1>4, <1>5 DEF Next, TrimStep

\* What a step adds to the damaged blocks crosses a page boundary.
LEMMA NewlyWiped ==
  ASSUME IInv, [Next]_vars, NEW b \in wiped', b \notin wiped
  PROVE  b \in held /\ Crosses(b)
<1>1. CASE TrimScan
  <2>1. PICK k \in Purged(b[1]) :
          b \in held /\ b[1] \in mapped /\ run[b[1]].cls = trim.c /\ Overlaps(trim.c, b[2], k)
    BY <1>1 DEF TrimScan
  <2>2. b[2] \in Idx(trim.c) /\ b[2] \notin run[b[1]].free
    BY <2>1 DEF IInv, HeapSafe, HeldBlocksTaken, Taken
  <2>3. trim.c \in Classes
    BY DEF IInv, TypeOK
  <2>4. k \in purge_pages(trim.c, run[b[1]].free)
    BY <2>1 DEF Purged
  <2>5. Straddles(trim.c, b[2])
    BY <2>1, <2>2, <2>3, <2>4, PurgedPagesAreFree
  <2> QED
    BY <2>1, <2>5 DEF Crosses
<1>2. CASE Tick \/ TrimWake \/ TrimLock \/ UNCHANGED vars
  BY <1>2 DEF Tick, TrimWake, TrimLock, vars
<1>3. ASSUME NEW t \in Threads, Call(t) PROVE FALSE
  BY <1>3 DEF Call, MallocCall, FreeCall, FreeIgnored, ForkCall
<1>4. ASSUME NEW t \in Threads, Step(t) PROVE FALSE
  BY <1>4 DEF Step, MallocLock, MallocFind, MallocFindNone, SlotLock, RunNew, RunNewFails, RunTake,
     FreeLock, RunGive, ForkLockSlot, ForkLockClass, ForkParent, ForkChild
<1> QED
  BY <1>1, <1>2, <1>3, <1>4 DEF Next, TrimStep

LEMMA NextOnlyStraddlersWiped ==
  ASSUME IInv, IInv', OnlyStraddlersWiped, [Next]_vars
  PROVE  OnlyStraddlersWiped'
<1> SUFFICES ASSUME NEW b \in wiped' PROVE Straddles(run'[b[1]].cls, b[2])
  BY DEF OnlyStraddlersWiped, Crosses
<1>1. b \in held /\ Crosses(b)
  <2>1. CASE b \in wiped
    BY <2>1 DEF OnlyStraddlersWiped, IInv, TypeOK
  <2> QED
    BY <2>1, NewlyWiped
<1>2. b[1] \in mapped
  BY <1>1 DEF IInv, HeapSafe, HeldBlocksTaken, Taken
<1>3. b \in held'
  BY DEF IInv, TypeOK
<1>4. b[1] \in mapped'
  BY <1>3 DEF IInv, HeapSafe, HeldBlocksTaken, Taken
<1>5. run'[b[1]].cls = run[b[1]].cls
  BY <1>2, <1>4, ClassStays
<1> QED
  BY <1>1, <1>5 DEF Crosses

\* For any table of block sizes, the only held blocks whose contents the purge
\* destroys are blocks that cross a page boundary: every other block keeps what
\* the application wrote until it frees it.
THEOREM AllocatorOnlyStraddlersWiped == Spec => []OnlyStraddlersWiped
<1>1. Init => IInv /\ OnlyStraddlersWiped
  BY InitIInv DEF Init, OnlyStraddlersWiped
<1>2. IInv /\ OnlyStraddlersWiped /\ [Next]_vars => (IInv /\ OnlyStraddlersWiped)'
  BY NextIInv, NextOnlyStraddlersWiped
<1> QED
  BY <1>1, <1>2, PTL DEF Spec

\* The damaged blocks, as the abstract heap sees them.
Damaged == {b \in wiped : ~ Crosses(b)} \cup {b \in held : b[1] \notin mapped}

\* A step of the allocator is a step of the abstract heap or changes nothing.
LEMMA NextImplementsHeap ==
  ASSUME IInv, IInv', OnlyStraddlersWiped, OnlyStraddlersWiped', [Next]_vars
  PROVE  [H!Next]_<<held, Damaged>>
<1> DEFINE damaged == Damaged
<1>1. damaged = {} /\ damaged' = {}
  BY DEF Damaged, OnlyStraddlersWiped, IInv, HeapSafe, HeldBlocksTaken, Taken
<1>2. ASSUME NEW t \in Threads, RunTake(t) PROVE H!Next
  <2> DEFINE b == <<reg[t].r, reg[t].i>>
  <2>1. pc[t] = "m_take" /\ held' = held \cup {b}
    BY <1>2 DEF RunTake, Leave, Goto
  <2>2. b \notin held
    BY <2>1 DEF IInv, HeapSafe, HeldBlocksTaken, ChosenBlockFree, Taken
  <2>3. b \in Blocks
    BY <2>1 DEF IInv, TypeOK
  <2> QED
    BY <1>1, <2>1, <2>2, <2>3 DEF H!Next, H!Malloc, Damaged
<1>3. ASSUME NEW t \in Threads, Call(t) PROVE [H!Next]_<<held, damaged>>
  <2>1. ASSUME NEW b \in held, FreeCall(t, b) \/ FreeIgnored(t, b) PROVE H!Next
    <3>1. b \in Blocks /\ held' = held \ {b}
      BY <2>1 DEF IInv, TypeOK, FreeCall, FreeIgnored
    <3> QED
      BY <1>1, <3>1 DEF H!Next, H!Free, Damaged
  <2>2. ASSUME NEW c \in Classes, MallocCall(t, c) PROVE UNCHANGED held
    BY <2>2 DEF MallocCall
  <2>3. ASSUME ForkCall(t) PROVE UNCHANGED held
    BY <2>3 DEF ForkCall
  <2> QED
    BY <1>1, <1>3, <2>1, <2>2, <2>3 DEF Call
<1>4. ASSUME NEW t \in Threads, Step(t), ~ RunTake(t) PROVE UNCHANGED held
  BY <1>4 DEF Step, MallocLock, MallocFind, MallocFindNone, SlotLock, RunNew, RunNewFails,
     FreeLock, RunGive, ForkLockSlot, ForkLockClass, ForkParent, ForkChild
<1>5. ASSUME TrimStep \/ Tick \/ UNCHANGED vars PROVE UNCHANGED held
  BY <1>5 DEF TrimStep, TrimWake, TrimLock, TrimScan, Tick, vars
<1> QED
  BY <1>1, <1>2, <1>3, <1>4, <1>5 DEF Next

\* For any table of block sizes and any number of threads, runs and forks, the
\* allocator implements the abstract heap: every step is a malloc of a block nobody
\* holds, a free of a held block, or invisible to the application; no held block
\* is unmapped, and none loses its contents but those that cross a page boundary.
THEOREM AllocatorImplementsHeap == Spec => ImplementsHeap
<1> DEFINE J == IInv /\ OnlyStraddlersWiped
<1>1. Init => J /\ H!Init
  BY InitIInv DEF Init, H!Init, OnlyStraddlersWiped
<1>2. J /\ [Next]_vars => J'
  BY NextIInv, NextOnlyStraddlersWiped
<1>3. J /\ J' /\ [Next]_vars => [H!Next]_<<held, Damaged>>
  BY NextImplementsHeap
<1> HIDE DEF J
<1> QED
  BY <1>1, <1>2, <1>3, PTL DEF Spec, ImplementsHeap, H!Spec, Damaged
-----------------------------------------------------------------------------
(* The type invariant on its own, the blocks that are out, and waiting.    *)

\* The state keeps its shape, whatever the numbers of threads, classes and runs.
THEOREM AllocatorTypeCorrect == Spec => []TypeOK
  BY InitIInv, NextIInv, PTL DEF Spec, IInv

\* Thread u is, or was when the process forked, giving back block i of run r.
Returns(u, r, i) == (Giving(u) \/ pc[u] = "gone") /\ reg[u].r = r /\ reg[u].i = i

\* Block i of run r is out and free() finds the run it belongs to.
Out(r, i) == Taken(r, i) /\ run_of_finds(run[r].cls, i)

\* NoBlockLost in these words.
LEMMA LostBlocks ==
  NoBlockLost <=>
    \A r, i : Out(r, i) => <<r, i>> \in held \/ \E u \in Threads : Returns(u, r, i)
  BY DEF NoBlockLost, Out, Taken, Returns, run_of_finds

\* A step that takes no block, takes none from the application, and leaves alone the
\* threads that give blocks back.
LEMMA KeepsBlocks ==
  ASSUME NoBlockLost, held \subseteq held',
         \A r, i : Out(r, i)' => Out(r, i),
         \A u \in Threads : \A r, i : Returns(u, r, i) => Returns(u, r, i)'
  PROVE  NoBlockLost'
<1>1. \A r, i : Out(r, i)' => <<r, i>> \in held' \/ \E u \in Threads : Returns(u, r, i)'
  BY LostBlocks
<1> QED
  BY <1>1, LostBlocks DEF NoBlockLost, Out, Taken, Returns, run_of_finds

\* What the application calls.
LEMMA CallNoBlockLost ==
  ASSUME IInv, NoBlockLost, NEW t \in Threads, Call(t)
  PROVE  NoBlockLost'
<1> USE DEF IInv
<1>1. ASSUME NEW c \in Classes, MallocCall(t, c) PROVE NoBlockLost'
  <2>1. held \subseteq held' /\ (\A r, i : Out(r, i)' => Out(r, i))
    BY <1>1 DEF MallocCall, Out, Taken
  <2>2. \A u \in Threads : \A r, i : Returns(u, r, i) => Returns(u, r, i)'
    BY <1>1 DEF MallocCall, Goto, Returns, Giving, TypeOK
  <2> QED
    BY <2>1, <2>2, KeepsBlocks
<1>2. ASSUME ForkCall(t) PROVE NoBlockLost'
  <2>1. held \subseteq held' /\ (\A r, i : Out(r, i)' => Out(r, i))
    BY <1>2 DEF ForkCall, Out, Taken
  <2>2. \A u \in Threads : \A r, i : Returns(u, r, i) => Returns(u, r, i)'
    BY <1>2 DEF ForkCall, Goto, Returns, Giving, TypeOK
  <2> QED
    BY <2>1, <2>2, KeepsBlocks
<1>3. ASSUME NEW b \in held, FreeCall(t, b) PROVE NoBlockLost'
  <2>0. b = <<b[1], b[2]>>
    BY DEF TypeOK, Blocks
  <2>1. \A r, i : Out(r, i)' => Out(r, i)
    BY <1>3 DEF FreeCall, Out, Taken
  <2>2. \A u \in Threads : \A r, i : Returns(u, r, i) => Returns(u, r, i)'
    BY <1>3 DEF FreeCall, Goto, Returns, Giving, TypeOK
  <2>3. Returns(t, b[1], b[2])'
    BY <1>3 DEF FreeCall, Goto, Returns, Giving, TypeOK
  <2>4. \A r, i : <<r, i>> \in held => <<r, i>> \in held' \/ Returns(t, r, i)'
    BY <1>3, <2>0, <2>3 DEF FreeCall
  <2>5. \A r, i : Out(r, i)' => <<r, i>> \in held' \/ \E u \in Threads : Returns(u, r, i)'
    BY <2>1, <2>2, <2>4, LostBlocks
  <2> QED
    BY <2>5 DEF NoBlockLost, Out, Taken, Returns, run_of_finds
<1>4. ASSUME NEW b \in held, FreeIgnored(t, b) PROVE NoBlockLost'
  <2>0. b = <<b[1], b[2]>>
    BY DEF TypeOK, Blocks
  <2>1. \A r, i : Out(r, i)' => Out(r, i)
    BY <1>4 DEF FreeIgnored, Out, Taken
  <2>2. \A u \in Threads : \A r, i : Returns(u, r, i) => Returns(u, r, i)'
    BY <1>4 DEF FreeIgnored, Returns, Giving
  <2>3. \A r, i : <<r, i>> \in held /\ Out(r, i) => <<r, i>> \in held'
    BY <1>4, <2>0 DEF FreeIgnored, Out
  <2>4. \A r, i : Out(r, i)' => <<r, i>> \in held' \/ \E u \in Threads : Returns(u, r, i)'
    BY <2>1, <2>2, <2>3, LostBlocks
  <2> QED
    BY <2>4 DEF NoBlockLost, Out, Taken, Returns, run_of_finds
<1> QED
  BY <1>1, <1>2, <1>3, <1>4 DEF Call

\* What a thread does inside malloc, free and fork.
LEMMA StepNoBlockLost ==
  ASSUME IInv, NoBlockLost, NEW t \in Threads, Step(t)
  PROVE  NoBlockLost'
<1> USE DEF IInv
<1>1. CASE \/ MallocLock(t) \/ MallocFind(t) \/ MallocFindNone(t) \/ SlotLock(t)
           \/ RunNewFails(t) \/ FreeLock(t)
           \/ ForkLockSlot(t) \/ ForkLockClass(t) \/ ForkParent(t) \/ ForkChild(t)
  <2>1. UNCHANGED <<held, mapped, run>>
    BY <1>1 DEF MallocLock, MallocFind, MallocFindNone, SlotLock, RunNewFails, FreeLock,
       ForkLockSlot, ForkLockClass, ForkParent, ForkChild
  <2>2. held \subseteq held' /\ (\A r, i : Out(r, i)' => Out(r, i))
    BY <2>1 DEF Out, Taken
  <2>3. ASSUME NEW u \in Threads, NEW r, NEW i, Returns(u, r, i) PROVE Returns(u, r, i)'
    <3>1. CASE MallocLock(t) \/ MallocFindNone(t) \/ SlotLock(t) \/ FreeLock(t)
      BY <2>3, <3>1 DEF MallocLock, MallocFindNone, SlotLock, FreeLock, Goto, Returns, Giving,
         TypeOK
    <3>2. CASE MallocFind(t) \/ RunNewFails(t)
      BY <2>3, <3>2 DEF MallocFind, RunNewFails, Leave, Goto, Returns, Giving, TypeOK
    <3>3. CASE ForkLockSlot(t) \/ ForkLockClass(t) \/ ForkParent(t)
      BY <2>3, <3>3 DEF ForkLockSlot, ForkLockClass, ForkParent, Leave, Goto, Returns, Giving,
         TypeOK
    <3>4. CASE ForkChild(t)
      BY <2>3, <3>4 DEF ForkChild, Returns, Giving, TypeOK
    <3> QED
      BY <1>1, <3>1, <3>2, <3>3, <3>4
  <2> QED
    BY <2>2, <2>3, KeepsBlocks
<1>2. CASE RunNew(t)
  <2> DEFINE n == bump + 1
  <2>1. /\ n \in RunIds /\ reg[t].c \in Classes
        /\ run' = [run EXCEPT ![n] = NewRun(reg[t].c)]
        /\ mapped' = mapped \cup {n} /\ held' = held
    BY <1>2, AllocatorAssumption DEF RunNew, TypeOK, RunIds
  <2>2. run \in [RunIds -> Run]
    BY DEF TypeOK
  <2>3. ASSUME NEW r, NEW i, Out(r, i)' PROVE Out(r, i)
    <3>1. r # n
      <4>1. Idx(NewRun(reg[t].c).cls) \ NewRun(reg[t].c).free = {}
        BY DEF NewRun
      <4> QED
        BY <2>1, <2>2, <2>3, <4>1 DEF Out, Taken
    <3>2. r \in mapped
      BY <2>1, <2>3, <3>1 DEF Out, Taken
    <3>3. r \in RunIds
      BY <3>2, MappedHeaders
    <3>4. run'[r] = run[r]
      BY <2>1, <2>2, <3>1, <3>3
    <3> QED
      BY <2>3, <3>2, <3>4 DEF Out, Taken
  <2>4. \A u \in Threads : \A r, i : Returns(u, r, i) => Returns(u, r, i)'
    BY <1>2 DEF RunNew, Goto, Returns, Giving, TypeOK
  <2> QED
    BY <2>1, <2>3, <2>4, KeepsBlocks
<1>3. CASE RunTake(t)
  <2> DEFINE q == reg[t].r
             j == reg[t].i
             h == run_take(run[q], j)
  <2>1. pc[t] = "m_take"
    BY <1>3 DEF RunTake, Leave, Goto
  <2>2. q \in mapped /\ j \in run[q].free
    BY <2>1 DEF HeapSafe, ChosenBlockFree
  <2>3. q \in RunIds /\ HeaderOK(run[q])
    BY <2>2, MappedHeaders
  <2>4. h.cls = run[q].cls /\ h.free = run[q].free \ {j}
    BY <2>2, <2>3, run_take_OK
  <2> HIDE DEF h
  <2>5. /\ run' = [run EXCEPT ![q] = h] /\ mapped' = mapped
        /\ held' = held \cup {<<q, j>>}
    BY <1>3 DEF RunTake, h
  <2>6. run \in [RunIds -> Run]
    BY DEF TypeOK
  <2>7. ASSUME NEW r, NEW i, Out(r, i)' PROVE Out(r, i) \/ <<r, i>> = <<q, j>>
    <3>1. CASE r = q
      BY <2>2, <2>3, <2>4, <2>5, <2>6, <2>7, <3>1 DEF Out, Taken
    <3>2. CASE r # q
      <4>1. r \in mapped
        BY <2>5, <2>7 DEF Out, Taken
      <4>2. r \in RunIds
        BY <4>1, MappedHeaders
      <4>3. run'[r] = run[r]
        BY <2>5, <2>6, <3>2, <4>2
      <4> QED
        BY <2>7, <4>1, <4>3 DEF Out, Taken
    <3> QED
      BY <3>1, <3>2
  <2>8. \A u \in Threads : \A r, i : Returns(u, r, i) => Returns(u, r, i)'
    BY <1>3 DEF RunTake, Leave, Goto, Returns, Giving, TypeOK
  <2>9. \A r, i : Out(r, i)' => <<r, i>> \in held' \/ \E u \in Threads : Returns(u, r, i)'
    BY <2>5, <2>7, <2>8, LostBlocks
  <2> QED
    BY <2>9 DEF NoBlockLost, Out, Taken, Returns, run_of_finds
<1>4. CASE RunGive(t)
  <2> DEFINE q == reg[t].r
             j == reg[t].i
             h == run_give(run[q], j)
  <2>1. pc[t] = "f_give"
    BY <1>4 DEF RunGive, Leave, Goto
  <2>2. q \in mapped /\ j \in Idx(run[q].cls) \ run[q].free
    BY <2>1 DEF HeapSafe, BlocksInFreeTaken, Giving, Taken
  <2>3. q \in RunIds /\ HeaderOK(run[q])
    BY <2>2, MappedHeaders
  <2>4. h.cls = run[q].cls /\ h.free = run[q].free \cup {j}
    BY <2>2, <2>3, run_give_OK
  <2> HIDE DEF h
  <2>5. run' = [run EXCEPT ![q] = h] /\ mapped' = mapped /\ held' = held
    BY <1>4 DEF RunGive, h
  <2>6. run \in [RunIds -> Run]
    BY DEF TypeOK
  <2>7. ASSUME NEW r, NEW i, Out(r, i)' PROVE Out(r, i) /\ ~ (r = q /\ i = j)
    <3>1. CASE r = q
      BY <2>2, <2>3, <2>4, <2>5, <2>6, <2>7, <3>1 DEF Out, Taken
    <3>2. CASE r # q
      <4>1. r \in mapped
        BY <2>5, <2>7 DEF Out, Taken
      <4>2. r \in RunIds
        BY <4>1, MappedHeaders
      <4>3. run'[r] = run[r]
        BY <2>5, <2>6, <3>2, <4>2
      <4> QED
        BY <2>7, <3>2, <4>1, <4>3 DEF Out, Taken
    <3> QED
      BY <3>1, <3>2
  <2>8. \A u \in Threads : \A r, i :
          Returns(u, r, i) => Returns(u, r, i)' \/ (r = q /\ i = j)
    BY <1>4 DEF RunGive, Leave, Goto, Returns, Giving, TypeOK
  <2>9. \A r, i : Out(r, i)' => <<r, i>> \in held' \/ \E u \in Threads : Returns(u, r, i)'
    BY <2>5, <2>7, <2>8, LostBlocks
  <2> QED
    BY <2>9 DEF NoBlockLost, Out, Taken, Returns, run_of_finds
<1> QED
  BY <1>1, <1>2, <1>3, <1>4 DEF Step

\* The trim thread and time.
LEMMA TrimNoBlockLost ==
  ASSUME IInv, NoBlockLost, TrimStep \/ Tick \/ UNCHANGED vars
  PROVE  NoBlockLost'
<1> USE DEF IInv
<1>1. UNCHANGED <<pc, reg, held>>
  BY DEF TrimStep, TrimWake, TrimLock, TrimScan, Tick, vars
<1>2. \A u \in Threads : \A r, i : Returns(u, r, i) => Returns(u, r, i)'
  BY <1>1 DEF Returns, Giving
<1>3. ASSUME NEW r \in mapped'
      PROVE  r \in mapped /\ run'[r].cls = run[r].cls /\ run'[r].free = run[r].free
  <2>1. r \in mapped
    BY <1>3 DEF TrimStep, TrimWake, TrimLock, TrimScan, Tick, vars
  <2>2. r \in RunIds /\ run[r] \in Run
    BY <2>1, MappedHeaders DEF HeaderOK
  <2>3. CASE TrimScan
    <3>1. ~ (run[r].cls = trim.c /\ Expired(r))
      BY <1>3, <2>1, <2>3 DEF TrimScan
    <3>2. run'[r] = run[r] \/ run'[r] = [run[r] EXCEPT !.touch = trim.t, !.rss = @ \ Purged(r)]
      BY <2>1, <2>2, <2>3, <3>1 DEF TrimScan
    <3> QED
      BY <2>1, <2>2, <3>2 DEF Run
  <2>4. CASE Tick
    <3>1. run'[r] = [run[r] EXCEPT !.lff = Older(@, RunAgeCap), !.touch = Older(@, TouchAgeCap)]
      BY <2>1, <2>2, <2>4 DEF Tick
    <3> QED
      BY <2>1, <2>2, <3>1 DEF Run
  <2>5. CASE TrimWake \/ TrimLock \/ UNCHANGED vars
    BY <2>1, <2>5 DEF TrimWake, TrimLock, vars
  <2> QED
    BY <2>3, <2>4, <2>5 DEF TrimStep
<1>4. \A r, i : Out(r, i)' => Out(r, i)
  BY <1>3 DEF Out, Taken
<1> QED
  BY <1>1, <1>2, <1>4, KeepsBlocks

\* A pointer given to free is never dropped: a block that is out is held, or is on its
\* way back, or was on its way back in a thread that the child of a fork does not
\* have; the blocks run_of does not find are the only others.
THEOREM AllocatorNoBlockLost == Spec => []NoBlockLost
<1> DEFINE J == IInv /\ NoBlockLost
<1>1. Init => J
  BY InitIInv DEF Init, NoBlockLost
<1>2. J /\ [Next]_vars => J'
  BY NextIInv, CallNoBlockLost, StepNoBlockLost, TrimNoBlockLost DEF Next
<1>3. J => NoBlockLost
  OBVIOUS
<1> HIDE DEF J
<1> QED
  BY <1>1, <1>2, <1>3, PTL DEF Spec

\* No thread is in fork.
NobodyForks == \A t \in Threads : pc[t] \notin {"k_slot", "k_class", "k_fork"}

LEMMA NextNobodyForks ==
  ASSUME Forkers = {}, IInv, NobodyForks, [Next]_vars
  PROVE  NobodyForks'
<1> USE DEF IInv, NobodyForks, Goto, Leave
<1>1. ASSUME NEW t \in Threads, Call(t) PROVE NobodyForks'
  BY <1>1 DEF TypeOK, Call, MallocCall, FreeCall, FreeIgnored
<1>2. ASSUME NEW t \in Threads, Step(t) PROVE NobodyForks'
  BY <1>2 DEF TypeOK, Step, MallocLock, MallocFind, MallocFindNone, SlotLock, RunNew, RunNewFails,
     RunTake, FreeLock, RunGive, ForkLockSlot, ForkLockClass, ForkParent, ForkChild
<1>3. CASE TrimStep \/ Tick \/ UNCHANGED vars
  BY <1>3 DEF TrimStep, TrimWake, TrimLock, TrimScan, Tick, vars
<1> QED
  BY <1>1, <1>2, <1>3 DEF Next

\* A thread that waits for a class mutex waits for one that at most waits for
\* g_slot_mu, whose owner waits for nobody.
LEMMA WaitingEnds ==
  ASSUME IInv, NobodyForks
  PROVE  NoCircularWait
<1> USE DEF IInv
<1> SUFFICES ASSUME NEW S \in SUBSET Threads, \A t \in S : WaitsFor(t) \in S
             PROVE  S = {}
  BY DEF NoCircularWait
<1>0. None \notin S
  BY AllocatorAssumption
<1>1. ASSUME NEW t \in S, pc[t] = "m_slot" PROVE FALSE
  <2>1. WaitsFor(t) = slot /\ slot \in S
    BY <1>1 DEF WaitsFor
  <2>2. pc[slot] = "m_map"
    BY <2>1 DEF HeapSafe, LocksMatchOwners, InSlot, NobodyForks
  <2>3. WaitsFor(slot) = None
    BY <2>2 DEF WaitsFor
  <2> QED
    BY <1>0, <2>1, <2>3
<1>2. ASSUME NEW t \in S, pc[t] \in {"m_lock", "f_lock"} PROVE FALSE
  <2> DEFINE o == mu[reg[t].c]
  <2>1. WaitsFor(t) = o /\ o \in S /\ reg[t].c \in Classes
    BY <1>2 DEF WaitsFor, TypeOK
  <2>2. InClass(o, reg[t].c)
    BY <2>1 DEF HeapSafe, LocksMatchOwners
  <2>3. pc[o] \in {"m_find", "m_slot", "m_map", "m_take", "f_give"}
    BY <2>1, <2>2 DEF InClass, NobodyForks
  <2>4. pc[o] = "m_slot"
    <3>1. WaitsFor(o) # None
      BY <1>0, <2>1
    <3> QED
      BY <2>3, <3>1 DEF WaitsFor
  <2> QED
    BY <1>1, <2>1, <2>4
<1>3. \A t \in S : FALSE
  <2> SUFFICES ASSUME NEW t \in S PROVE FALSE
    OBVIOUS
  <2>1. WaitsFor(t) # None
    BY <1>0
  <2>2. pc[t] \in {"m_lock", "f_lock", "m_slot"}
    BY <2>1 DEF WaitsFor, NobodyForks, TypeOK, AppPCs
  <2> QED
    BY <1>1, <1>2, <2>2
<1> QED
  BY <1>3

\* Without fork the mutexes cannot deadlock: no set of threads, of any size, wait for
\* each other.  (With it they can: atfork_lock takes g_slot_mu first.)
THEOREM AllocatorNoCircularWait ==
  ASSUME Forkers = {}
  PROVE  Spec => []NoCircularWait
<1> DEFINE J == IInv /\ NobodyForks
<1>1. Init => J
  BY InitIInv DEF Init, NobodyForks
<1>2. J /\ [Next]_vars => J'
  BY NextIInv, NextNobodyForks
<1>3. J => NoCircularWait
  BY WaitingEnds
<1> HIDE DEF J
<1> QED
  BY <1>1, <1>2, <1>3, PTL DEF Spec
=============================================================================
