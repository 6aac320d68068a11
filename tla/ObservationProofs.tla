-------------------------- MODULE ObservationProofs --------------------------
(***************************************************************************)
(* Proofs about the fault tracer, about the sampler, and about the two     *)
(* looking at one process: for any mappings and huge pages, any number of  *)
(* tasks, buckets, faults, map entries and address spaces, and reads of    *)
(* any length.                                                             *)
(***************************************************************************)
EXTENDS Observation, FiniteSetTheorems, WellFoundedInduction, TLAPS
-------------------------------------------------------------------------------
(* The tracer alone: a drain only walks an open map, and the faults that   *)
(* meet no reset are in its result, in a counter or on their way, unless a *)
(* count has been overwritten in a bucket of several tasks.                *)

TracerTypes ==
  /\ room \in Nat
  /\ entry \in [Tasks -> 0 .. MaxTask + 1]
  /\ val \in [Elems -> Nat]
  /\ spare \in Elems
  /\ hpc \in [Tasks -> {"idle", "insert", "read", "store"}]
  /\ held \in [Tasks -> 0 .. MaxTask + 1]
  /\ tmp \in [Tasks -> Nat]
  /\ dpc \in {"idle", "loaded", "next", "lookup", "zero", "end"}
  /\ next \in 0 .. MaxTask
  /\ out \in [Tasks -> Nat]
  /\ due \in [Tasks -> Int]
  /\ lost \in [Tasks -> BOOLEAN]
  /\ raced \in [Tasks -> BOOLEAN]

\* What load leaves in g: an object that is open together with its map, or none.
LoadInv ==
  /\ obj \in {"none", "open"}
  /\ ebpf_on_ \in BOOLEAN
  /\ ebpf_on_ <=> obj = "open"
  /\ obj = "open" => map = "open"
  /\ dpc \in {"next", "lookup", "zero"} => obj = "open"

\* No two entries share an element, and none has the one put aside for the next update.
Separate ==
  /\ \A k, u \in Tasks : entry[k] = entry[u] /\ entry[k] # 0 => k = u
  /\ \A k \in Tasks : entry[k] # spare

\* What the program and the drain have looked up is there, and what they have read of an
\* unraced counter is still in it.
Fresh ==
  /\ \A k \in Tasks :
       /\ hpc[k] = "insert" => entry[k] = 0
       /\ hpc[k] \in {"read", "store"} => held[k] # 0
       /\ ~ raced[k] /\ hpc[k] \in {"read", "store"} => held[k] = entry[k]
       /\ ~ raced[k] /\ hpc[k] = "store" => tmp[k] = val[entry[k]]
  /\ dpc \in {"lookup", "zero"} => next # 0 /\ entry[next] # 0
  /\ dpc = "zero" /\ ~ raced[next] => out[next] = val[entry[next]]

\* The faults not yet returned are accounted for.
Owed(k) == ~ raced[k] => due[k] = out[k] + Pending(k) + Running(k)

\* The walk is at a key of a later bucket, or has just dealt with key k.
Past(k) == next # 0 /\ (Bucket[next] > Bucket[k] \/ (next = k /\ dpc # "lookup"))

\* A key without neighbours that is in the result will not be met again in this walk.
Met(k) == dpc = "end" \/ (dpc \in {"next", "lookup", "zero"} /\ Past(k))

\* A key comes before others of its own bucket, and the walk meets a key without
\* neighbours once: as soon as it has a count in the result, the walk is past it.
OnceInv ==
  /\ \A j, k \in Tasks : <<j, k>> \in chain => j # k /\ Bucket[j] = Bucket[k]
  /\ \A k \in Tasks : out[k] # 0 /\ Neighbours(k) = {} => Met(k)
  /\ \A k \in Tasks : lost[k] => Neighbours(k) # {}

\* The inductive invariant of the counters.
CountInv == TracerTypes /\ Separate /\ Fresh /\ (\A k \in Tasks : Owed(k)) /\ OnceInv
-------------------------------------------------------------------------------
(* Facts about sets of numbers.                                            *)

\* A set of natural numbers has a least element, which Min returns.
LEMMA MinIsLeast ==
  ASSUME NEW S \in SUBSET Nat, S # {}
  PROVE  Min(S) \in S /\ \A y \in S : Min(S) <= y
  <1> DEFINE R == OpToRel(<, Nat)
  <1>1. PICK x \in S : \A y \in S : ~ (<<y, x>> \in R)
    <2>1. IsWellFoundedOn(R, Nat)
      BY NatLessThanWellFounded
    <2> HIDE DEF R
    <2> QED
      BY <2>1, WFMin
  <1>2. \A y \in S : ~ (y < x)
    BY <1>1 DEF OpToRel
  <1>3. \A y \in S : x <= y
    BY <1>2
  <1> QED
    BY <1>3 DEF Min

\* For a key without an entry there is an element, beside the one that is put aside.
LEMMA RoomForEntry ==
  ASSUME TracerTypes, NEW k \in Tasks, entry[k] = 0
  PROVE  Min(FreeElems) \in FreeElems /\ Min(FreeElems) \in Elems
  <1> USE TracerAssumption DEF TracerAssumption
  <1> DEFINE Others == Tasks \ {k}
             f == [u \in Others |-> entry[u]]
             Used == {entry[u] : u \in Others}
  <1>1. IsFiniteSet(Others) /\ Cardinality(Others) = MaxTask - 1
    <2>1. IsFiniteSet(Tasks) /\ Cardinality(Tasks) = MaxTask
      BY FS_Interval DEF Tasks
    <2> QED
      BY <2>1, FS_RemoveElement
  <1>2. IsFiniteSet(Used) /\ Cardinality(Used) <= Cardinality(Others)
    <2>1. f \in Surjection(Others, Used)
      BY DEF Surjection
    <2> HIDE DEF f, Used, Others
    <2> QED
      BY <1>1, <2>1, FS_Surjection
  <1>3. Cardinality(Used) \in Nat
    BY <1>2, FS_CardinalityType
  <1>4. IsFiniteSet(Used \cup {spare}) /\ Cardinality(Used \cup {spare}) <= Cardinality(Used) + 1
    <2> HIDE DEF Used, Others
    <2>1. CASE spare \in Used
      <3>1. Used \cup {spare} = Used
        BY <2>1
      <3>2. ASSUME NEW c \in Nat PROVE c <= c + 1
        OBVIOUS
      <3> QED
        BY <1>2, <1>3, <3>1, <3>2, Zenon
    <2>2. CASE spare \notin Used
      <3>1. IsFiniteSet(Used \cup {spare}) /\ Cardinality(Used \cup {spare}) = Cardinality(Used) + 1
        BY <1>2, <2>2, FS_AddElement, Zenon
      <3> QED
        BY <1>3, <3>1
    <2> QED
      BY <2>1, <2>2
  <1>5. Cardinality(Elems) = MaxTask + 1 /\ IsFiniteSet(Elems)
    BY FS_Interval DEF Elems
  <1>6. Cardinality(Used \cup {spare}) \in Nat
    BY <1>4, FS_CardinalityType
  <1>7. ~ (Elems \subseteq Used \cup {spare})
    <2> SUFFICES ASSUME Elems \subseteq Used \cup {spare} PROVE FALSE
      OBVIOUS
    <2> HIDE DEF Used, Others
    <2>1. Cardinality(Elems) <= Cardinality(Used \cup {spare})
      BY <1>4, FS_Subset
    <2> QED
      BY <1>1, <1>2, <1>3, <1>4, <1>5, <1>6, <2>1
  <1>8. FreeElems # {}
    <2>1. PICK e \in Elems : e \notin Used \cup {spare}
      BY <1>7
    <2>2. e # 0
      BY DEF Elems
    <2>3. \A u \in Tasks : entry[u] # e
      BY <2>1, <2>2
    <2> QED
      BY <2>1, <2>3 DEF FreeElems
  <1>9. FreeElems \subseteq Elems /\ FreeElems \in SUBSET Nat
    BY DEF FreeElems, Elems
  <1> QED
    BY <1>8, <1>9, MinIsLeast

\* The new head of a bucket comes before its neighbours, and nothing else has changed.
LEMMA HeadOfBucket ==
  ASSUME OnceInv, NEW k \in Tasks, AddHead(k)
  PROVE  \A j, u \in Tasks : <<j, u>> \in chain' => j # u /\ Bucket[j] = Bucket[u]
  BY DEF OnceInv, AddHead, Neighbours

\* Steps that neither take entries away nor move the walk.
LEMMA OnceKeeps ==
  ASSUME OnceInv, UNCHANGED <<dpc, next, out, lost>>,
         \A u \in Tasks : entry[u] # 0 => entry'[u] # 0,
         \A j, u \in Tasks : <<j, u>> \in chain' => j # u /\ Bucket[j] = Bucket[u]
  PROVE  OnceInv'
  <1>1. \A u \in Tasks : Neighbours(u) \subseteq Neighbours(u)'
    BY DEF Neighbours, Entries
  <1>2. \A u \in Tasks : Past(u)' = Past(u)
    BY DEF Past
  <1>3. ASSUME NEW u \in Tasks, out'[u] # 0, Neighbours(u)' = {}
        PROVE  Met(u)'
    <2>1. out[u] # 0 /\ Neighbours(u) = {}
      BY <1>1, <1>3
    <2>2. Met(u)
      BY <2>1 DEF OnceInv
    <2> QED
      BY <1>2, <2>2 DEF Met
  <1>4. ASSUME NEW u \in Tasks, lost'[u] PROVE Neighbours(u)' # {}
    BY <1>1, <1>4 DEF OnceInv
  <1> QED
    BY <1>3, <1>4 DEF OnceInv
-------------------------------------------------------------------------------
(* The map that is walked is open.                                         *)

LEMMA LoadInit == TracerInit => LoadInv
  BY DEF TracerInit, LoadInv

LEMMA LoadNext == LoadInv /\ [TracerNext]_tvars => LoadInv'
  <1> SUFFICES ASSUME LoadInv, [TracerNext]_tvars PROVE LoadInv'
    OBVIOUS
  <1> USE DEF LoadInv, loading, drain
  <1>1. CASE UNCHANGED tvars
    BY <1>1 DEF tvars
  <1>2. CASE Load
    BY <1>2 DEF Load, LoadOK, LoadFails
  <1>3. CASE ForceCycle \/ DrainEnds \/ Crisis
    BY <1>3 DEF ForceCycle, DrainEnds, Crisis
  <1>4. CASE DrainBegins
    BY <1>4 DEF DrainBegins
  <1>5. CASE DrainNext \/ DrainSkip \/ DrainLookup \/ DrainZero
    BY <1>5 DEF DrainNext, DrainSkip, DrainLookup, DrainZero
  <1>6. ASSUME NEW k \in Tasks, Fault(k) \/ HandlerStep(k) PROVE LoadInv'
    BY <1>6 DEF Fault, HandlerStep, Insert, Drop, Read, Store
  <1> QED
    BY <1>1, <1>2, <1>3, <1>4, <1>5, <1>6 DEF TracerNext, DrainStep
-------------------------------------------------------------------------------
(* The counters.                                                           *)

LEMMA CountInit == TracerInit => CountInv
  <1> SUFFICES ASSUME TracerInit PROVE CountInv
    OBVIOUS
  <1> USE TracerAssumption DEF TracerAssumption, TracerInit
  <1>1. TracerTypes
    BY DEF TracerTypes, Elems
  <1>2. Separate /\ Fresh
    BY DEF Separate, Fresh
  <1>3. \A k \in Tasks : Owed(k)
    BY DEF Owed, Pending, Count, Running
  <1>4. OnceInv
    BY DEF OnceInv
  <1> QED
    BY <1>1, <1>2, <1>3, <1>4 DEF CountInv

\* The steps between two cycles touch no counter.
LEMMA CycleCount ==
  ASSUME CountInv, Load \/ Crisis \/ DrainBegins \/ ForceCycle
  PROVE  CountInv'
  <1>1. /\ UNCHANGED <<room, entry, chain, val, spare, hpc, held, tmp, next, out, due, lost, raced>>
        /\ dpc \in {"idle", "loaded"} /\ dpc' \in {"idle", "loaded", "next", "end"}
    BY DEF Load, Crisis, DrainBegins, ForceCycle, table, prog, history
  <1> USE DEF CountInv
  <1>2. TracerTypes'
    BY <1>1 DEF TracerTypes
  <1>3. Separate' /\ Fresh'
    BY <1>1 DEF Separate, Fresh
  <1>4. \A k \in Tasks : Owed(k)'
    BY <1>1 DEF Owed, Pending, Count, Running
  <1>5. OnceInv'
    <2>1. \A k \in Tasks : Neighbours(k)' = Neighbours(k)
      BY <1>1 DEF Neighbours, Entries
    <2>2. \A k \in Tasks : ~ (out[k] # 0 /\ Neighbours(k) = {})
      BY <1>1 DEF OnceInv, Met
    <2> QED
      BY <1>1, <2>1, <2>2 DEF OnceInv
  <1> QED
    BY <1>2, <1>3, <1>4, <1>5

\* What is returned is owed no longer.
LEMMA EndCount == ASSUME CountInv, DrainEnds PROVE CountInv'
  <1>1. /\ UNCHANGED <<room, entry, chain, val, spare, hpc, held, tmp, next, lost, raced>>
        /\ dpc = "end" /\ dpc' = "idle"
        /\ out' = [k \in Tasks |-> 0]
        /\ due' = [k \in Tasks |-> IF raced[k] THEN 0 ELSE due[k] - out[k]]
    BY DEF DrainEnds, table, prog
  <1> USE DEF CountInv
  <1>2. TracerTypes'
    BY <1>1 DEF TracerTypes
  <1>3. Separate' /\ Fresh'
    BY <1>1 DEF Separate, Fresh
  <1>4. ASSUME NEW k \in Tasks PROVE Owed(k)'
    <2>1. /\ Running(k)' = Running(k) /\ Running(k) \in Int
          /\ Pending(k) = Count(k) /\ Pending(k)' = Count(k) /\ Count(k) \in Int
      BY <1>1 DEF Running, Pending, Count, TracerTypes, Elems
    <2>2. ~ raced[k] => due[k] = out[k] + Count(k) + Running(k)
      BY <2>1 DEF Owed
    <2>3. out'[k] = 0 /\ raced'[k] = raced[k] /\ (~ raced[k] => due'[k] = due[k] - out[k])
      BY <1>1
    <2>4. out[k] \in Int /\ due[k] \in Int
      BY DEF TracerTypes
    <2> QED
      BY <2>1, <2>2, <2>3, <2>4 DEF Owed
  <1>5. OnceInv'
    BY <1>1 DEF OnceInv, Neighbours, Entries
  <1> QED
    BY <1>2, <1>3, <1>4, <1>5

\* The drains owe n faults of task k more, and nothing else of what they owe has changed.
LEMMA OweEffect ==
  ASSUME TracerTypes, NEW k \in Tasks, NEW n \in Int, Owe(k, n)
  PROVE  /\ due' \in [Tasks -> Int]
         /\ ~ raced[k] => due'[k] = due[k] + n
         /\ \A u \in Tasks : u # k => due'[u] = due[u]
  BY DEF Owe, TracerTypes

LEMMA FaultCount == ASSUME CountInv, NEW k \in Tasks, Fault(k) PROVE CountInv'
  <1> USE DEF CountInv
  <1>1. /\ hpc[k] = "idle"
        /\ hpc' = [hpc EXCEPT ![k] = IF entry[k] = 0 THEN "insert" ELSE "read"]
        /\ held' = [held EXCEPT ![k] = entry[k]]
        /\ Owe(k, 1)
        /\ UNCHANGED <<room, entry, chain, val, spare, tmp, dpc, next, out, lost, raced>>
    BY DEF Fault, table, drain
  <1>2. /\ due' \in [Tasks -> Int]
        /\ ~ raced[k] => due'[k] = due[k] + 1
        /\ \A u \in Tasks : u # k => due'[u] = due[u]
    BY <1>1, OweEffect
  <1>3. TracerTypes'
    BY <1>1, <1>2 DEF TracerTypes
  <1>4. Separate'
    BY <1>1 DEF Separate
  <1>5. Fresh'
    BY <1>1 DEF Fresh, TracerTypes
  <1>6. ASSUME NEW u \in Tasks PROVE Owed(u)'
    <2>1. Pending(u)' = Pending(u) /\ Pending(u) \in Int
      BY <1>1 DEF Pending, Count, TracerTypes, Elems
    <2>2. Running(u)' = (IF u = k THEN 1 ELSE Running(u)) /\ Running(u) \in Int /\ Running(k) = 0
      BY <1>1 DEF Running, TracerTypes
    <2>3. out[u] \in Int /\ due[u] \in Int
      BY DEF TracerTypes
    <2> QED
      BY <1>1, <1>2, <2>1, <2>2, <2>3 DEF Owed
  <1>7. OnceInv'
    <2>1. \A j, u \in Tasks : <<j, u>> \in chain' => j # u /\ Bucket[j] = Bucket[u]
      BY <1>1 DEF OnceInv
    <2> QED
      BY <1>1, <2>1, OnceKeeps
  <1> QED
    BY <1>3, <1>4, <1>5, <1>6, <1>7

\* A full map takes the fault back.
LEMMA DropCount == ASSUME CountInv, NEW k \in Tasks, Drop(k) PROVE CountInv'
  <1> USE DEF CountInv
  <1>1. /\ hpc[k] = "insert"
        /\ hpc' = [hpc EXCEPT ![k] = "idle"]
        /\ Owe(k, -1)
        /\ UNCHANGED <<room, entry, chain, val, spare, held, tmp, dpc, next, out, lost, raced>>
    BY DEF Drop, table, drain
  <1>2. /\ due' \in [Tasks -> Int]
        /\ ~ raced[k] => due'[k] = due[k] + (-1)
        /\ \A u \in Tasks : u # k => due'[u] = due[u]
    BY <1>1, OweEffect
  <1>3. TracerTypes'
    BY <1>1, <1>2 DEF TracerTypes
  <1>4. Separate'
    BY <1>1 DEF Separate
  <1>5. Fresh'
    BY <1>1 DEF Fresh, TracerTypes
  <1>6. ASSUME NEW u \in Tasks PROVE Owed(u)'
    <2>1. Pending(u)' = Pending(u) /\ Pending(u) \in Int
      BY <1>1 DEF Pending, Count, TracerTypes, Elems
    <2>2. Running(u)' = (IF u = k THEN 0 ELSE Running(u)) /\ Running(u) \in Int /\ Running(k) = 1
      BY <1>1 DEF Running, TracerTypes
    <2>3. out[u] \in Int /\ due[u] \in Int
      BY DEF TracerTypes
    <2> QED
      BY <1>1, <1>2, <2>1, <2>2, <2>3 DEF Owed
  <1>7. OnceInv'
    <2>1. \A j, u \in Tasks : <<j, u>> \in chain' => j # u /\ Bucket[j] = Bucket[u]
      BY <1>1 DEF OnceInv
    <2> QED
      BY <1>1, <2>1, OnceKeeps
  <1> QED
    BY <1>3, <1>4, <1>5, <1>6, <1>7

\* A new entry starts at 0.
LEMMA InsertCount == ASSUME CountInv, NEW k \in Tasks, Insert(k) PROVE CountInv'
  <1> USE DEF CountInv
  <1> DEFINE e == Min(FreeElems)
  <1>1. hpc[k] = "insert" /\ entry[k] = 0
    BY DEF Insert, Fresh
  <1>2. e \in FreeElems /\ e \in Elems
    BY <1>1, RoomForEntry
  <1>3. /\ entry' = [entry EXCEPT ![k] = e]
        /\ val' = [val EXCEPT ![e] = 0]
        /\ held' = [held EXCEPT ![k] = e]
        /\ hpc' = [hpc EXCEPT ![k] = "read"]
        /\ AddHead(k)
        /\ UNCHANGED <<room, spare, tmp, dpc, next, out, due, lost, raced>>
    BY DEF Insert, drain, history
  <1> HIDE DEF e
  <1>4. e # spare /\ e # 0 /\ e \in 0 .. MaxTask + 1 /\ \A u \in Tasks : entry[u] # e
    BY <1>2, TracerAssumption DEF FreeElems, Elems, TracerAssumption
  <1>5. TracerTypes'
    BY <1>2, <1>3, <1>4 DEF TracerTypes
  <1>6. Separate'
    BY <1>3, <1>4 DEF Separate, TracerTypes
  <1>7. ~ (dpc \in {"lookup", "zero"} /\ next = k)
    BY <1>1 DEF Fresh
  <1>8. \A u \in Tasks : u # k => entry'[u] = entry[u] /\ (entry[u] # 0 => val'[entry[u]] = val[entry[u]])
    BY <1>3, <1>4 DEF TracerTypes, Elems
  <1>9. Fresh'
    <2>1. ASSUME NEW u \in Tasks
          PROVE  /\ hpc'[u] = "insert" => entry'[u] = 0
                 /\ hpc'[u] \in {"read", "store"} => held'[u] # 0
                 /\ ~ raced'[u] /\ hpc'[u] \in {"read", "store"} => held'[u] = entry'[u]
                 /\ ~ raced'[u] /\ hpc'[u] = "store" => tmp'[u] = val'[entry'[u]]
      <3>1. CASE u = k
        BY <1>3, <1>4, <3>1 DEF TracerTypes
      <3>2. CASE u # k
        BY <1>3, <1>8, <3>2 DEF Fresh, TracerTypes
      <3> QED
        BY <3>1, <3>2
    <2>2. dpc' \in {"lookup", "zero"} => next' \in Tasks /\ next' # k
      BY <1>3, <1>7 DEF Fresh, TracerTypes, Tasks
    <2>3. dpc' \in {"lookup", "zero"} => next' # 0 /\ entry'[next'] # 0
      BY <1>3, <1>8, <2>2 DEF Fresh
    <2>4. dpc' = "zero" /\ ~ raced'[next'] => out'[next'] = val'[entry'[next']]
      BY <1>3, <1>8, <2>2 DEF Fresh
    <2> QED
      BY <2>1, <2>3, <2>4 DEF Fresh
  <1>10. ASSUME NEW u \in Tasks PROVE Owed(u)'
    <2>1. CASE u = k
      <3>1. Count(k) = 0 /\ Count(k)' = 0
        BY <1>1, <1>2, <1>3, <1>4 DEF Count, TracerTypes
      <3>2. Pending(k)' = Pending(k)
        BY <1>3, <1>7, <3>1 DEF Pending
      <3>3. Running(k)' = Running(k)
        BY <1>1, <1>3 DEF Running, TracerTypes
      <3> QED
        BY <1>3, <2>1, <3>2, <3>3 DEF Owed
    <2>2. CASE u # k
      <3>1. Count(u)' = Count(u)
        BY <1>8, <2>2 DEF Count
      <3>2. Pending(u)' = Pending(u)
        BY <1>3, <3>1 DEF Pending
      <3>3. Running(u)' = Running(u)
        BY <1>3, <2>2 DEF Running, TracerTypes
      <3> QED
        BY <1>3, <3>2, <3>3 DEF Owed
    <2> QED
      BY <2>1, <2>2
  <1>11. OnceInv'
    <2>1. \A u \in Tasks : entry[u] # 0 => entry'[u] # 0
      BY <1>1, <1>8
    <2>2. \A j, u \in Tasks : <<j, u>> \in chain' => j # u /\ Bucket[j] = Bucket[u]
      BY <1>3, HeadOfBucket
    <2> QED
      BY <1>3, <2>1, <2>2, OnceKeeps
  <1> QED
    BY <1>5, <1>6, <1>9, <1>10, <1>11

LEMMA ReadCount == ASSUME CountInv, NEW k \in Tasks, Read(k) PROVE CountInv'
  <1> USE DEF CountInv
  <1>1. held[k] \in Elems
    BY DEF Read, Fresh, TracerTypes, Elems
  <1>2. /\ hpc[k] = "read"
        /\ hpc' = [hpc EXCEPT ![k] = "store"]
        /\ tmp' = [tmp EXCEPT ![k] = val[held[k]]]
        /\ UNCHANGED <<room, entry, chain, val, spare, held, dpc, next, out, due, lost, raced>>
    BY DEF Read, table, drain, history
  <1>3. TracerTypes'
    BY <1>1, <1>2 DEF TracerTypes
  <1>4. Separate'
    BY <1>2 DEF Separate
  <1>5. Fresh'
    BY <1>1, <1>2 DEF Fresh, TracerTypes
  <1>6. \A u \in Tasks : Running(u)' = Running(u)
    BY <1>2 DEF Running, TracerTypes
  <1>7. \A u \in Tasks : Owed(u)'
    BY <1>2, <1>6 DEF Owed, Pending, Count
  <1>8. OnceInv'
    <2>1. \A j, u \in Tasks : <<j, u>> \in chain' => j # u /\ Bucket[j] = Bucket[u]
      BY <1>2 DEF OnceInv
    <2> QED
      BY <1>2, <2>1, OnceKeeps
  <1> QED
    BY <1>3, <1>4, <1>5, <1>7, <1>8

\* The store: an unraced task adds one to its own counter, and whose counter is written
\* by somebody else is raced.
LEMMA StoreCount == ASSUME CountInv, NEW k \in Tasks, Store(k) PROVE CountInv'
  <1> USE DEF CountInv
  <1>1. hpc[k] = "store" /\ held[k] \in Elems
    BY DEF Store, Fresh, TracerTypes, Elems
  <1>2. /\ hpc' = [hpc EXCEPT ![k] = "idle"]
        /\ val' = [val EXCEPT ![held[k]] = tmp[k] + 1]
        /\ held' = [held EXCEPT ![k] = 0]
        /\ tmp' = [tmp EXCEPT ![k] = 0]
        /\ UNCHANGED <<room, entry, chain, spare, dpc, next, out, lost>>
    BY DEF Store, drain
  <1>3. \A u \in Tasks : ~ raced'[u] =>
          /\ ~ raced[u]
          /\ due'[u] = due[u]
          /\ u # k => entry[u] # held[k]
          /\ u = k => ~ (dpc = "zero" /\ next = k)
    BY DEF Store, Settle
  <1>4. TracerTypes'
    <2>1. raced' \in [Tasks -> BOOLEAN]
      BY DEF Store, TracerTypes
    <2>2. val' \in [Elems -> Nat]
      BY <1>1, <1>2 DEF TracerTypes
    <2>3. hpc' \in [Tasks -> {"idle", "insert", "read", "store"}]
      BY <1>2 DEF TracerTypes
    <2>4. held' \in [Tasks -> 0 .. MaxTask + 1]
      BY <1>2, TracerAssumption DEF TracerTypes, TracerAssumption
    <2>5. tmp' \in [Tasks -> Nat]
      BY <1>2 DEF TracerTypes
    <2>6. due' \in [Tasks -> Int]
      BY DEF Store, Settle, TracerTypes
    <2> QED
      BY <1>2, <2>1, <2>2, <2>3, <2>4, <2>5, <2>6 DEF TracerTypes
  <1>5. Separate'
    BY <1>2 DEF Separate
  <1>6. \A u \in Tasks : ~ raced'[u] /\ u # k /\ entry[u] # 0 => val'[entry[u]] = val[entry[u]]
    BY <1>1, <1>2, <1>3 DEF TracerTypes, Elems
  <1>7. Fresh'
    <2>1. ASSUME NEW u \in Tasks
          PROVE  /\ hpc'[u] = "insert" => entry'[u] = 0
                 /\ hpc'[u] \in {"read", "store"} => held'[u] # 0
                 /\ ~ raced'[u] /\ hpc'[u] \in {"read", "store"} => held'[u] = entry'[u]
                 /\ ~ raced'[u] /\ hpc'[u] = "store" => tmp'[u] = val'[entry'[u]]
      <3>1. CASE u = k
        BY <1>2, <3>1 DEF TracerTypes
      <3>2. CASE u # k
        BY <1>2, <1>3, <1>6, <3>2 DEF Fresh, TracerTypes
      <3> QED
        BY <3>1, <3>2
    <2>2. dpc' \in {"lookup", "zero"} => next' \in Tasks /\ next' # 0 /\ entry'[next'] # 0
      BY <1>2 DEF Fresh, TracerTypes, Tasks
    <2>3. dpc' = "zero" /\ ~ raced'[next'] => out'[next'] = val'[entry'[next']]
      BY <1>2, <1>3, <1>6, <2>2 DEF Fresh
    <2> QED
      BY <2>1, <2>2, <2>3 DEF Fresh
  <1>8. ASSUME NEW u \in Tasks, ~ raced'[u]
        PROVE  due'[u] = out'[u] + Pending(u)' + Running(u)'
    <2>1. due[u] = out[u] + Pending(u) + Running(u) /\ due'[u] = due[u] /\ out'[u] = out[u]
      BY <1>2, <1>3, <1>8 DEF Owed
    <2>2. CASE u = k
      <3>1. held[k] = entry[k] /\ tmp[k] = val[entry[k]] /\ entry[k] # 0
        BY <1>1, <1>3, <1>8, <2>2 DEF Fresh
      <3>2. Count(k) = val[entry[k]] /\ Count(k)' = val[entry[k]] + 1 /\ val[entry[k]] \in Nat
        BY <1>1, <1>2, <3>1 DEF Count, TracerTypes
      <3>3. Pending(k) = Count(k) /\ Pending(k)' = Count(k)'
        <4>1. ~ (dpc = "zero" /\ next = k) /\ ~ (dpc' = "zero" /\ next' = k)
          BY <1>2, <1>3, <1>8, <2>2
        <4> QED
          BY <3>2, <4>1 DEF Pending
      <3>4. Running(k) = 1 /\ Running(k)' = 0
        BY <1>1, <1>2 DEF Running, TracerTypes
      <3>5. out[k] \in Nat
        BY DEF TracerTypes
      <3> QED
        BY <2>1, <2>2, <3>2, <3>3, <3>4, <3>5
    <2>3. CASE u # k
      <3>1. Count(u)' = Count(u)
        BY <1>2, <1>6, <1>8, <2>3 DEF Count
      <3>2. Pending(u)' = Pending(u)
        BY <1>2, <3>1 DEF Pending
      <3>3. Running(u)' = Running(u)
        BY <1>2, <2>3 DEF Running, TracerTypes
      <3> QED
        BY <2>1, <3>2, <3>3
    <2> QED
      BY <2>2, <2>3
  <1>9. \A u \in Tasks : Owed(u)'
    BY <1>8 DEF Owed
  <1>10. OnceInv'
    <2>1. \A j, u \in Tasks : <<j, u>> \in chain' => j # u /\ Bucket[j] = Bucket[u]
      BY <1>2 DEF OnceInv
    <2> QED
      BY <1>2, <2>1, OnceKeeps
  <1> QED
    BY <1>4, <1>5, <1>7, <1>9, <1>10

\* The walk goes to an entry of a later bucket, or to one behind in the same bucket, and
\* ends when there is none: it is past every key that has no neighbours and is in out.
LEMMA DrainNextCount == ASSUME CountInv, DrainNext PROVE CountInv'
  <1> USE DEF CountInv
  <1>1. /\ dpc = "next"
        /\ UNCHANGED <<room, entry, chain, val, spare, hpc, held, tmp, out, due, lost, raced>>
        /\ \/ dpc' = "end" /\ next' = 0
           \/ dpc' = "lookup" /\ next' \in After(next)
    BY DEF DrainNext, table, prog, history
  <1>2. \A j \in After(next) : j \in Tasks /\ entry[j] # 0 /\ j # 0
    BY TracerAssumption DEF After, Entries, Tasks, TracerAssumption
  <1>3. TracerTypes'
    <2>1. dpc' \in {"end", "lookup"} /\ next' \in 0 .. MaxTask
      BY <1>1, <1>2, TracerAssumption DEF Tasks, TracerAssumption
    <2> QED
      BY <1>1, <2>1 DEF TracerTypes
  <1>4. Separate' /\ Fresh'
    BY <1>1, <1>2 DEF Separate, Fresh
  <1>5. ASSUME NEW k \in Tasks PROVE Owed(k)'
    <2>1. Pending(k)' = Pending(k)
      BY <1>1 DEF Pending, Count
    <2> QED
      BY <1>1, <2>1 DEF Owed, Running
  <1>6. \A k \in Tasks : Neighbours(k)' = Neighbours(k)
    BY <1>1 DEF Neighbours, Entries
  <1>7. ASSUME NEW k \in Tasks, out[k] # 0, Neighbours(k) = {}, dpc' = "lookup"
        PROVE  Bucket[next'] > Bucket[k]
    <2>1. next # 0 /\ (Bucket[next] > Bucket[k] \/ next = k)
      BY <1>1, <1>7 DEF OnceInv, Met, Past
    <2>2. next \in Tasks /\ next' \in Tasks /\ entry[next'] # 0
      BY <1>1, <1>2, <1>7, <2>1 DEF TracerTypes, Tasks
    <2>3. <<next, next'>> \in chain \/ Bucket[next'] > Bucket[next]
      BY <1>1, <1>7, <2>1 DEF After
    <2>4. <<next, next'>> \in chain => next # next' /\ Bucket[next] = Bucket[next']
      BY <2>2 DEF OnceInv
    <2>5. Bucket[k] \in Nat /\ Bucket[next] \in Nat /\ Bucket[next'] \in Nat
      BY <2>2, TracerAssumption DEF Tasks, TracerAssumption
    <2>6. CASE next = k
      <3>1. ~ (next' # k /\ Bucket[next'] = Bucket[k])
        BY <1>7, <2>2 DEF Neighbours, Entries
      <3> QED
        BY <2>3, <2>4, <2>6, <3>1
    <2>7. CASE Bucket[next] > Bucket[k]
      BY <2>3, <2>4, <2>5, <2>7
    <2> QED
      BY <2>1, <2>6, <2>7
  <1>8. OnceInv'
    <2>1. ASSUME NEW k \in Tasks, out'[k] # 0, Neighbours(k)' = {}
          PROVE  Met(k)'
      <3>1. out[k] # 0 /\ Neighbours(k) = {}
        BY <1>1, <1>6, <2>1
      <3>2. CASE dpc' = "end"
        BY <3>2 DEF Met
      <3>3. CASE dpc' = "lookup"
        <4>1. next' # 0 /\ Bucket[next'] > Bucket[k]'
          BY <1>1, <1>2, <1>7, <3>1, <3>3
        <4> QED
          BY <3>3, <4>1 DEF Met, Past
      <3> QED
        BY <1>1, <3>2, <3>3
    <2> QED
      BY <1>1, <1>6, <2>1 DEF OnceInv
  <1> QED
    BY <1>3, <1>4, <1>5, <1>8

\* While the walk goes on at the key it is at.
LEMMA StillPast ==
  ASSUME OnceInv, dpc \in {"lookup", "zero"}, dpc' \in {"next", "zero"}, next' = next,
         \A u \in Tasks : Neighbours(u) \subseteq Neighbours(u)',
         \A u \in Tasks : u # next => out'[u] = out[u], next # 0
  PROVE  \A u \in Tasks : out'[u] # 0 /\ Neighbours(u)' = {} => Met(u)'
  <1> SUFFICES ASSUME NEW u \in Tasks, out'[u] # 0, Neighbours(u)' = {} PROVE Past(u)'
    BY DEF Met
  <1>1. CASE u = next
    BY <1>1 DEF Past
  <1>2. CASE u # next
    <2>1. out[u] # 0 /\ Neighbours(u) = {}
      BY <1>2
    <2>2. Past(u)
      BY <2>1 DEF OnceInv, Met
    <2> QED
      BY <1>2, <2>2 DEF Past
  <1> QED
    BY <1>1, <1>2

LEMMA DrainSkipCount == ASSUME CountInv, DrainSkip PROVE CountInv'
  <1> USE DEF CountInv
  <1>1. /\ dpc = "lookup" /\ dpc' = "next" /\ next' = next /\ next # 0
        /\ UNCHANGED <<room, entry, chain, val, spare, hpc, held, tmp, out, due, lost, raced>>
    BY DEF DrainSkip, table, prog, history, Fresh
  <1>2. TracerTypes'
    BY <1>1 DEF TracerTypes
  <1>3. Separate' /\ Fresh'
    BY <1>1 DEF Separate, Fresh
  <1>4. \A k \in Tasks : Owed(k)'
    BY <1>1 DEF Owed, Pending, Count, Running
  <1>5. \A k \in Tasks : Neighbours(k)' = Neighbours(k)
    BY <1>1 DEF Neighbours, Entries
  <1>6. \A u \in Tasks : out'[u] # 0 /\ Neighbours(u)' = {} => Met(u)'
    <2>1. \A u \in Tasks : Neighbours(u) \subseteq Neighbours(u)' /\ out'[u] = out[u]
      BY <1>1, <1>5
    <2> QED
      BY <1>1, <2>1, StillPast
  <1>7. OnceInv'
    BY <1>1, <1>5, <1>6 DEF OnceInv
  <1> QED
    BY <1>2, <1>3, <1>4, <1>7

\* What goes into the result is taken off the counter, now or at the reset; what was there
\* is lost, and the walk was at this key before.
LEMMA DrainLookupCount == ASSUME CountInv, DrainLookup PROVE CountInv'
  <1> USE DEF CountInv
  <1> DEFINE n == val[entry[next]]
  <1>1. dpc = "lookup" /\ next \in Tasks /\ next # 0 /\ entry[next] # 0 /\ n \in Nat
    BY DEF DrainLookup, Fresh, TracerTypes, Tasks, Elems
  <1>2. /\ UNCHANGED <<room, entry, chain, val, spare, hpc, held, tmp, next, raced>>
        /\ dpc' = "zero"
        /\ out' = [out EXCEPT ![next] = n]
        /\ Owe(next, - out[next])
        /\ lost' = [lost EXCEPT ![next] = @ \/ out[next] # 0]
    BY DEF DrainLookup, table, prog
  <1>3. /\ due' \in [Tasks -> Int]
        /\ ~ raced[next] => due'[next] = due[next] + (- out[next])
        /\ \A u \in Tasks : u # next => due'[u] = due[u]
    <2>1. - out[next] \in Int
      BY <1>1 DEF TracerTypes
    <2> QED
      BY <1>1, <1>2, <2>1, OweEffect
  <1>4. TracerTypes'
    <2> HIDE DEF n
    <2>1. lost' \in [Tasks -> BOOLEAN]
      BY <1>2 DEF TracerTypes
    <2>2. out' \in [Tasks -> Nat]
      BY <1>1, <1>2 DEF TracerTypes
    <2> QED
      BY <1>1, <1>2, <1>3, <2>1, <2>2 DEF TracerTypes
  <1>5. Separate'
    BY <1>2 DEF Separate
  <1>6. Fresh'
    BY <1>1, <1>2 DEF Fresh, TracerTypes
  <1>7. ASSUME NEW u \in Tasks, ~ raced'[u]
        PROVE  due'[u] = out'[u] + Pending(u)' + Running(u)'
    <2>1. /\ Count(u)' = Count(u) /\ Count(u) \in Int
          /\ Running(u)' = Running(u) /\ Running(u) \in Int
          /\ Pending(u) = Count(u)
          /\ out[u] \in Int /\ due[u] \in Int
      BY <1>1, <1>2 DEF Count, Running, Pending, TracerTypes, Elems
    <2>2. due[u] = out[u] + Count(u) + Running(u)
      BY <1>2, <1>7, <2>1 DEF Owed
    <2>3. CASE u = next
      <3>1. out'[u] = n /\ Count(u) = n
        BY <1>1, <1>2, <2>3 DEF Count, TracerTypes
      <3>2. Pending(u)' = 0
        BY <1>2, <2>1, <2>3, <3>1 DEF Pending
      <3>3. due'[u] = due[u] + (- out[u])
        BY <1>2, <1>3, <1>7, <2>3
      <3> HIDE DEF n
      <3> QED
        BY <2>1, <2>2, <3>1, <3>2, <3>3
    <2>4. CASE u # next
      <3>1. Pending(u)' = Count(u) /\ out'[u] = out[u] /\ due'[u] = due[u]
        BY <1>2, <1>3, <2>1, <2>4 DEF Pending, TracerTypes
      <3> QED
        BY <2>1, <2>2, <3>1
    <2> QED
      BY <2>3, <2>4
  <1>8. \A u \in Tasks : Owed(u)'
    BY <1>7 DEF Owed
  <1>9. \A k \in Tasks : Neighbours(k)' = Neighbours(k)
    BY <1>2 DEF Neighbours, Entries
  <1>10. \A u \in Tasks : out'[u] # 0 /\ Neighbours(u)' = {} => Met(u)'
    <2>1. \A u \in Tasks : u # next => out'[u] = out[u]
      BY <1>2 DEF TracerTypes
    <2>2. \A u \in Tasks : Neighbours(u) \subseteq Neighbours(u)'
      BY <1>9
    <2> QED
      BY <1>1, <1>2, <2>1, <2>2, StillPast
  <1>11. out[next] # 0 => Neighbours(next) # {}
    <2>1. ~ Met(next)
      BY <1>1, TracerAssumption DEF Met, Past, Tasks, TracerAssumption
    <2> QED
      BY <1>1, <2>1 DEF OnceInv
  <1>12. \A u \in Tasks : lost'[u] => Neighbours(u)' # {}
    <2> SUFFICES ASSUME NEW u \in Tasks, lost'[u] PROVE Neighbours(u) # {}
      BY <1>9
    <2>1. CASE u = next
      <3>1. lost[next] \/ out[next] # 0
        BY <1>1, <1>2, <2>1, Zenon DEF TracerTypes
      <3> QED
        BY <1>1, <1>11, <2>1, <3>1 DEF OnceInv
    <2>2. CASE u # next
      <3>1. lost[u]
        BY <1>2, <2>2, Zenon DEF TracerTypes
      <3> QED
        BY <3>1 DEF OnceInv
    <2> QED
      BY <2>1, <2>2
  <1>13. OnceInv'
    BY <1>2, <1>10, <1>12 DEF OnceInv
  <1> QED
    BY <1>4, <1>5, <1>6, <1>8, <1>13

\* The reset: an unraced task does not hold the element that is taken away.
LEMMA DrainZeroCount == ASSUME CountInv, DrainZero PROVE CountInv'
  <1> USE DEF CountInv
  <1>1. dpc = "zero" /\ next \in Tasks /\ next # 0 /\ entry[next] # 0 /\ entry[next] \in Elems
    BY DEF DrainZero, Fresh, TracerTypes, Tasks, Elems
  <1>2. /\ dpc' = "next"
        /\ val' = [val EXCEPT ![spare] = 0]
        /\ entry' = [entry EXCEPT ![next] = spare]
        /\ spare' = entry[next]
        /\ AddHead(next)
        /\ UNCHANGED <<room, hpc, held, tmp, next, out, lost>>
    BY DEF DrainZero, prog
  <1>3. \A u \in Tasks : ~ raced'[u] =>
          /\ ~ raced[u]
          /\ due'[u] = due[u]
          /\ u = next => hpc[u] \notin {"read", "store"}
    BY DEF DrainZero, Settle, Fresh
  <1>4. spare \in Elems /\ spare # 0 /\ spare \in 0 .. MaxTask + 1
    BY TracerAssumption DEF TracerTypes, Elems, TracerAssumption
  <1>5. TracerTypes'
    <2>1. raced' \in [Tasks -> BOOLEAN]
      BY DEF DrainZero, TracerTypes
    <2>2. due' \in [Tasks -> Int]
      BY DEF DrainZero, Settle, TracerTypes
    <2> QED
      BY <1>1, <1>2, <1>4, <2>1, <2>2 DEF TracerTypes
  <1>6. Separate'
    BY <1>1, <1>2, <1>4 DEF Separate, TracerTypes
  <1>7. \A u \in Tasks : u # next => entry'[u] = entry[u] /\ (entry[u] # 0 => val'[entry[u]] = val[entry[u]])
    BY <1>1, <1>2, <1>4 DEF Separate, TracerTypes, Elems
  <1>8. Fresh'
    <2>1. ASSUME NEW u \in Tasks
          PROVE  /\ hpc'[u] = "insert" => entry'[u] = 0
                 /\ hpc'[u] \in {"read", "store"} => held'[u] # 0
                 /\ ~ raced'[u] /\ hpc'[u] \in {"read", "store"} => held'[u] = entry'[u]
                 /\ ~ raced'[u] /\ hpc'[u] = "store" => tmp'[u] = val'[entry'[u]]
      <3>1. CASE u = next
        BY <1>1, <1>2, <1>3, <3>1 DEF Fresh
      <3>2. CASE u # next
        BY <1>2, <1>3, <1>7, <3>2 DEF Fresh, Separate
      <3> QED
        BY <3>1, <3>2
    <2> QED
      BY <1>2, <2>1 DEF Fresh
  <1>9. ASSUME NEW u \in Tasks, ~ raced'[u]
        PROVE  due'[u] = out'[u] + Pending(u)' + Running(u)'
    <2>1. due[u] = out[u] + Pending(u) + Running(u) /\ due'[u] = due[u] /\ out'[u] = out[u]
      BY <1>2, <1>3, <1>9 DEF Owed
    <2>2. Running(u)' = Running(u)
      BY <1>2 DEF Running
    <2>3. CASE u = next
      <3>1. out[u] = val[entry[u]] /\ val[entry[u]] \in Nat
        BY <1>1, <1>3, <1>9, <2>3 DEF Fresh, TracerTypes
      <3>2. Pending(u) = 0
        BY <1>1, <2>3, <3>1 DEF Pending, Count
      <3>3. Count(u)' = 0
        BY <1>1, <1>2, <1>4, <2>3 DEF Count, TracerTypes
      <3>4. Pending(u)' = 0
        BY <1>2, <3>3 DEF Pending
      <3> QED
        BY <2>1, <2>2, <3>2, <3>4
    <2>4. CASE u # next
      <3>1. Count(u)' = Count(u) /\ Count(u) \in Int
        BY <1>7, <2>4 DEF Count, TracerTypes, Elems
      <3>2. Pending(u) = Count(u) /\ Pending(u)' = Count(u)'
        BY <1>2, <2>4, <3>1 DEF Pending
      <3> QED
        BY <2>1, <2>2, <3>1, <3>2
    <2> QED
      BY <2>3, <2>4
  <1>10. \A u \in Tasks : Owed(u)'
    BY <1>9 DEF Owed
  <1>11. \A u \in Tasks : Neighbours(u) \subseteq Neighbours(u)'
    BY <1>2, <1>4, <1>7 DEF Neighbours, Entries, TracerTypes
  <1>12. \A u \in Tasks : out'[u] # 0 /\ Neighbours(u)' = {} => Met(u)'
    BY <1>1, <1>2, <1>11, StillPast
  <1>13. \A j, u \in Tasks : <<j, u>> \in chain' => j # u /\ Bucket[j] = Bucket[u]
    BY <1>1, <1>2, HeadOfBucket
  <1>14. \A u \in Tasks : lost'[u] => Neighbours(u)' # {}
    BY <1>2, <1>11 DEF OnceInv
  <1>15. OnceInv'
    BY <1>12, <1>13, <1>14 DEF OnceInv
  <1> QED
    BY <1>5, <1>6, <1>8, <1>10, <1>15

LEMMA CountNext == CountInv /\ [TracerNext]_tvars => CountInv'
  <1> SUFFICES ASSUME CountInv, [TracerNext]_tvars PROVE CountInv'
    OBVIOUS
  <1>1. CASE UNCHANGED tvars
    <2>1. UNCHANGED <<room, entry, chain, val, spare, hpc, held, tmp, dpc, next, out, due, lost, raced>>
      BY <1>1 DEF tvars, table, prog, drain, history
    <2>2. TracerTypes' /\ Separate' /\ Fresh'
      BY <2>1 DEF CountInv, TracerTypes, Separate, Fresh
    <2>3. \A k \in Tasks : Owed(k)'
      BY <2>1 DEF CountInv, Owed, Pending, Count, Running
    <2>4. OnceInv'
      <3>1. \A j, u \in Tasks : <<j, u>> \in chain' => j # u /\ Bucket[j] = Bucket[u]
        BY <2>1 DEF CountInv, OnceInv
      <3> QED
        BY <2>1, <3>1, OnceKeeps DEF CountInv
    <2> QED
      BY <2>2, <2>3, <2>4 DEF CountInv
  <1>2. CASE Load \/ Crisis \/ DrainBegins \/ ForceCycle
    BY <1>2, CycleCount
  <1>3. CASE DrainEnds
    BY <1>3, EndCount
  <1>4. CASE DrainNext \/ DrainSkip \/ DrainLookup \/ DrainZero
    BY <1>4, DrainNextCount, DrainSkipCount, DrainLookupCount, DrainZeroCount
  <1>5. ASSUME NEW k \in Tasks, Fault(k) \/ HandlerStep(k) PROVE CountInv'
    BY <1>5, FaultCount, InsertCount, DropCount, ReadCount, StoreCount DEF HandlerStep
  <1> QED
    BY <1>1, <1>2, <1>3, <1>4, <1>5 DEF TracerNext, DrainStep
-------------------------------------------------------------------------------
(* Theorems                                                                *)

\* drain_faults walks only the map of an object that load left open, however many
\* attempts to load failed half-way before.
THEOREM TracerDrainsOpenMap == TracerSpec => []DrainsOpenMap
  <1>1. LoadInv => DrainsOpenMap
    BY DEF LoadInv, DrainsOpenMap
  <1> QED
    BY <1>1, LoadInit, LoadNext, PTL DEF TracerSpec

\* The result of the drain, the counters and the programs on their way account for every
\* fault of a task that met no reset, and a count is only overwritten in a bucket that is
\* shared, for any number of tasks, buckets and faults.
THEOREM TracerFaultsConserved == TracerSpec => []FaultsConserved
  <1>1. CountInv => FaultsConserved
    BY DEF CountInv, OnceInv, Owed, FaultsConserved
  <1> QED
    BY <1>1, CountInit, CountNext, PTL DEF TracerSpec
-------------------------------------------------------------------------------
(* The sampler, with the process it reads.                                 *)

\* The pages that are counted.
Anon == PagesOf(Counted(Vmas))

SamplerTypes ==
  /\ mm \in Nat /\ born \in Nat /\ mm <= born
  /\ pinned \in Nat /\ pinned <= born
  /\ mapped \subseteq Vmas /\ dirty \subseteq PagesOf(mapped)
  /\ spc \in {"idle", "open", "clear", "maps", "pread", "close", "end"}
  /\ vmas \subseteq Counted(Vmas)
  /\ off \in Nat /\ touched \in Nat /\ total \in Nat
  /\ stays \subseteq PagesOf(Vmas)

\* The pages the walk has not come to yet.
Left ==
  IF spc = "pread" THEN (off .. First(vmas).hi) \cup PagesOf(Rest) ELSE {}

\* Where the walk is: on a page of the first of the mappings that are left, all of whose
\* pages are in total already.
WalkInv ==
  /\ spc \in {"maps", "pread", "close"} => pinned # 0
  /\ spc \notin {"pread", "close"} => touched = 0 /\ total = 0
  /\ spc = "pread" => /\ vmas # {} /\ off \in Pages(First(vmas))
                      /\ touched + (First(vmas).hi - off + 1) <= total
  /\ spc = "close" => touched <= total

\* While one address space is walked, the pages that stay dirty are found.
FoundInv ==
  spc \in {"maps", "pread", "close"} /\ pinned = mm =>
    /\ stays \subseteq dirty
    /\ spc # "maps" => Cardinality((stays \cap Anon) \ Left) <= touched

\* A task whose count is sure: no fault of it has met a reset or been overwritten.
Sure(k) == ~ raced[k] /\ ~ lost[k]
Exact == \A k \in Tasks : Sure(k)

\* The faults that are counted, returned or owed, and the tasks whose fault the kernel has
\* still to handle.
Faulted == {f \in Tasks \X (1 .. MaxFaults) : f[2] <= returned[f[1]] + due[f[1]]}
Faulting == {k \in Tasks : at[k] # 0}

FaultInv ==
  /\ at \in [Tasks -> Nat]
  /\ returned \in [Tasks -> Nat]
  /\ window \in BOOLEAN /\ already \in Int /\ kernel \in Nat
  /\ window => obj = "open"

\* The pages that n faults can make dirty, at most.
Worth(n) == HugeSize * n

\* The pages that may be dirty, and those of them that are not yet, or were before.
Credit == Worth(Cardinality(Faulted)) + kernel
Debt == Worth(Cardinality(Faulting)) + Worth(already)

\* What the walk has found, and what is still to be found.
Found == touched + Cardinality(dirty \cap Left)

\* In a window every page that is dirty, or was when it was counted, stands for a fault or
\* for a write of the kernel.
AgreeInv ==
  window /\ Exact =>
    /\ Cardinality(dirty) + Debt <= Credit
    /\ spc \in {"pread", "close"} => Found + Debt <= Credit
-------------------------------------------------------------------------------
(* Sets of pages.                                                          *)

LEMMA VmaType ==
  /\ IsFiniteSet(Vmas)
  /\ \A v \in Vmas : /\ v.lo \in Nat \ {0} /\ v.hi \in Nat /\ v.lo <= v.hi
                     /\ Pages(v) \subseteq Nat \ {0} /\ IsFiniteSet(Pages(v))
                     /\ Cardinality(Pages(v)) = v.hi - v.lo + 1
<1>1. ASSUME NEW v \in Vmas
      PROVE  v.lo \in Nat \ {0} /\ v.hi \in Nat /\ v.lo <= v.hi
  BY SamplerAssumption DEF SamplerAssumption
<1>2. ASSUME NEW v \in Vmas
      PROVE  /\ Pages(v) \subseteq Nat \ {0} /\ IsFiniteSet(Pages(v))
             /\ Cardinality(Pages(v)) = v.hi - v.lo + 1
  <2> DEFINE a == v.lo
             b == v.hi
  <2>1. a \in Int /\ b \in Int /\ a <= b /\ a > 0
    BY <1>1
  <2> HIDE DEF a, b
  <2>2. IsFiniteSet(a .. b) /\ Cardinality(a .. b) = b - a + 1
    BY <2>1, FS_Interval
  <2>3. a .. b \subseteq Nat \ {0}
    BY <2>1
  <2> QED
    BY <2>2, <2>3 DEF Pages, a, b
<1> QED
  BY <1>1, <1>2, SamplerAssumption DEF SamplerAssumption

\* No page is in two mappings.
LEMMA VmasApart ==
  ASSUME NEW v \in Vmas, NEW w \in Vmas, NEW p \in Pages(v), p \in Pages(w)
  PROVE  v = w
<1>1. v # w => v.hi < w.lo \/ w.hi < v.lo
  BY SamplerAssumption DEF SamplerAssumption
<1>2. v.lo \in Nat /\ v.hi \in Nat /\ w.lo \in Nat /\ w.hi \in Nat /\ p \in Nat
  BY VmaType
<1>3. v.lo <= p /\ p <= v.hi /\ w.lo <= p /\ p <= w.hi
  BY <1>2 DEF Pages
<1> QED
  BY <1>1, <1>2, <1>3

LEMMA PagesFinite ==
  ASSUME NEW S \in SUBSET Vmas
  PROVE  IsFiniteSet(PagesOf(S)) /\ PagesOf(S) \subseteq Nat \ {0} /\ PagesOf(S) \subseteq PagesOf(Vmas)
<1> DEFINE f == [v \in S |-> Pages(v)]
           T == {Pages(v) : v \in S}
<1>1. IsFiniteSet(S)
  BY VmaType, FS_Subset
<1>2. f \in Surjection(S, T)
  BY DEF Surjection
<1>3. IsFiniteSet(T)
  <2> HIDE DEF f, T
  <2> QED
    BY <1>1, <1>2, FS_Surjection
<1>4. \A t \in T : IsFiniteSet(t) /\ t \subseteq Nat \ {0}
  BY VmaType
<1>5. IsFiniteSet(UNION T)
  <2> HIDE DEF f, T
  <2> QED
    BY <1>3, <1>4, FS_UNION
<1>6. UNION T \subseteq Nat \ {0}
  BY <1>4
<1>7. PagesOf(S) \subseteq PagesOf(Vmas)
  BY DEF PagesOf
<1> QED
  BY <1>5, <1>6, <1>7 DEF PagesOf

\* What PagesOf contains.
LEMMA InPages == \A S, p : p \in PagesOf(S) <=> \E v \in S : p \in Pages(v)
  BY DEF PagesOf

LEMMA FirstOf ==
  ASSUME NEW S \in SUBSET Vmas, S # {}
  PROVE  First(S) \in S
<1> DEFINE T == {v.lo : v \in S}
<1>1. T \in SUBSET Nat /\ T # {}
  BY VmaType
<1>2. Min(T) \in T /\ \A y \in T : Min(T) <= y
  <2> HIDE DEF T
  <2> QED
    BY <1>1, MinIsLeast
<1>3. PICK v \in S : v.lo = Min(T)
  BY <1>2
<1>4. \A w \in S : v.lo <= w.lo
  BY <1>2, <1>3
<1> QED
  BY <1>4 DEF First

\* Counting.
LEMMA Smaller ==
  ASSUME NEW A, IsFiniteSet(A), NEW B \in SUBSET A
  PROVE  IsFiniteSet(B) /\ Cardinality(B) \in Nat /\ Cardinality(A) \in Nat /\ Cardinality(B) <= Cardinality(A)
<1>1. IsFiniteSet(B) /\ Cardinality(B) <= Cardinality(A)
  BY FS_Subset
<1> QED
  BY <1>1, FS_CardinalityType

LEMMA Both ==
  ASSUME NEW A, IsFiniteSet(A), NEW B, IsFiniteSet(B)
  PROVE  /\ IsFiniteSet(A \cup B) /\ Cardinality(A \cup B) \in Nat
         /\ Cardinality(A) \in Nat /\ Cardinality(B) \in Nat
         /\ Cardinality(A \cup B) <= Cardinality(A) + Cardinality(B)
         /\ A \cap B = {} => Cardinality(A \cup B) = Cardinality(A) + Cardinality(B)
<1>1. /\ IsFiniteSet(A \cup B)
      /\ Cardinality(A \cup B) = Cardinality(A) + Cardinality(B) - Cardinality(A \cap B)
  BY FS_Union
<1>2. Cardinality(A) \in Nat /\ Cardinality(B) \in Nat /\ Cardinality(A \cup B) \in Nat
  BY <1>1, FS_CardinalityType
<1>3. Cardinality(A \cap B) \in Nat
  BY FS_Intersection, FS_CardinalityType
<1>4. A \cap B = {} => Cardinality(A \cap B) = 0
  BY FS_EmptySet
<1> QED
  BY <1>1, <1>2, <1>3, <1>4

\* The sets of pages are finite.
LEMMA SpaceFinite ==
  ASSUME SamplerTypes
  PROVE  IsFiniteSet(dirty) /\ IsFiniteSet(stays) /\ dirty \subseteq PagesOf(Vmas)
<1>1. IsFiniteSet(PagesOf(Vmas)) /\ PagesOf(mapped) \subseteq PagesOf(Vmas)
  BY PagesFinite DEF SamplerTypes
<1> QED
  BY <1>1, Smaller DEF SamplerTypes

\* What one write makes dirty is no more than a huge page.
LEMMA UnitSize ==
  ASSUME SamplerTypes, NEW p
  PROVE  /\ IsFiniteSet(Unit(p)) /\ Cardinality(Unit(p)) \in Nat
         /\ Cardinality(Unit(p)) <= HugeSize
         /\ IsFiniteSet(Unit(p) \ dirty) /\ Cardinality(Unit(p) \ dirty) \in Nat
<1>1. HugeVmas \subseteq Vmas /\ HugeSize \in Nat \ {0} /\ \A v \in HugeVmas : Cardinality(Pages(v)) <= HugeSize
  BY ObservationAssumption DEF ObservationAssumption
<1>2. \E S : IsFiniteSet(S) /\ Unit(p) \subseteq S /\ Cardinality(S) <= HugeSize
  <2>1. CASE \E v \in HugeVmas : p \in Pages(v)
    <3>1. PICK v \in HugeVmas : p \in Pages(v)
      BY <2>1
    <3>2. \A w \in HugeVmas : p \in Pages(w) => w = v
      BY <1>1, <3>1, VmasApart
    <3>3. Unit(p) \subseteq Pages(v)
      BY <3>1, <3>2 DEF Unit
    <3>4. IsFiniteSet(Pages(v)) /\ Cardinality(Pages(v)) <= HugeSize
      BY <1>1, <3>1, VmaType
    <3> QED
      BY <3>3, <3>4
  <2>2. CASE ~ \E v \in HugeVmas : p \in Pages(v)
    <3>1. Unit(p) \subseteq {p}
      BY <2>2 DEF Unit
    <3>2. IsFiniteSet({p}) /\ Cardinality({p}) = 1
      BY FS_Singleton
    <3> QED
      BY <1>1, <3>1, <3>2
  <2> QED
    BY <2>1, <2>2
<1>3. PICK S : IsFiniteSet(S) /\ Unit(p) \subseteq S /\ Cardinality(S) <= HugeSize
  BY <1>2
<1>4. /\ IsFiniteSet(Unit(p)) /\ Cardinality(Unit(p)) \in Nat /\ Cardinality(S) \in Nat
      /\ Cardinality(Unit(p)) <= Cardinality(S)
  BY <1>3, Smaller
<1>5. Cardinality(Unit(p)) <= HugeSize
  BY <1>1, <1>3, <1>4
<1>6. Unit(p) \ dirty \in SUBSET Unit(p)
  OBVIOUS
<1> QED
  BY <1>4, <1>5, <1>6, Smaller
-------------------------------------------------------------------------------
(* The process.                                                            *)

ProcessStep ==
  \/ \E S : Dirties(S)
  \/ \E v \in Vmas : Mmap(v) \/ Munmap(v)
  \/ Exec \/ Exit

\* The process does not touch the walk, and loses pages of a walk only with their mappings.
LEMMA ProcessEffect ==
  ASSUME SamplerTypes, ProcessStep
  PROVE  /\ UNCHANGED walk /\ SamplerTypes'
         /\ mm' = mm \/ mm' \notin 1 .. born
         /\ stays' \subseteq stays
         /\ mm' = mm /\ stays \subseteq dirty => stays' \subseteq dirty'
<1>1. CASE \E S : Dirties(S)
  <2>1. PICK S : Dirties(S)
    BY <1>1
  <2> QED
    BY <2>1 DEF Dirties, SamplerTypes, walk
<1>2. ASSUME NEW v \in Vmas, Mmap(v)
      PROVE  /\ UNCHANGED walk /\ SamplerTypes' /\ mm' = mm /\ stays' = stays /\ dirty \subseteq dirty'
  <2>1. /\ mapped' = mapped \cup {v} /\ dirty' = dirty \cup Pages(v)
        /\ UNCHANGED <<mm, born, walk, stays>>
    BY <1>2 DEF Mmap
  <2>2. dirty' \subseteq PagesOf(mapped')
    BY <2>1, InPages DEF SamplerTypes
  <2> QED
    BY <2>1, <2>2 DEF SamplerTypes, walk
<1>3. ASSUME NEW v \in Vmas, Munmap(v)
      PROVE  /\ UNCHANGED walk /\ SamplerTypes' /\ mm' = mm /\ stays' \subseteq stays
             /\ stays \subseteq dirty => stays' \subseteq dirty'
  <2>1. /\ mapped' = mapped \ {v} /\ dirty' = dirty \ Pages(v) /\ stays' = stays \ Pages(v)
        /\ UNCHANGED <<mm, born, walk>>
    BY <1>3 DEF Munmap
  <2>2. dirty' \subseteq PagesOf(mapped')
    BY <2>1, InPages DEF SamplerTypes
  <2> QED
    BY <2>1, <2>2 DEF SamplerTypes, walk
<1>4. CASE Exec
  <2>1. /\ born' = born + 1 /\ mm' = born' /\ mapped' = Vmas /\ dirty' = PagesOf(Vmas)
        /\ UNCHANGED <<walk, stays>>
    BY <1>4 DEF Exec
  <2>2. mm' # mm /\ mm' \notin 1 .. born
    BY <2>1 DEF SamplerTypes
  <2> QED
    BY <2>1, <2>2 DEF SamplerTypes, walk
<1>5. CASE Exit
  <2>1. /\ mm # 0 /\ mm' = 0 /\ mapped' = {} /\ dirty' = {} /\ UNCHANGED <<born, walk, stays>>
    BY <1>5 DEF Exit
  <2> QED
    BY <2>1 DEF SamplerTypes, walk
<1> QED
  BY <1>1, <1>2, <1>3, <1>4, <1>5 DEF ProcessStep

LEMMA ProcessWalk ==
  ASSUME SamplerTypes, WalkInv, FoundInv, ProcessStep
  PROVE  SamplerTypes' /\ WalkInv' /\ FoundInv' /\ Left' = Left
<1>1. /\ UNCHANGED walk /\ SamplerTypes'
      /\ mm' = mm \/ mm' \notin 1 .. born
      /\ stays' \subseteq stays
      /\ mm' = mm /\ stays \subseteq dirty => stays' \subseteq dirty'
  BY ProcessEffect
<1>2. UNCHANGED <<spc, pinned, vmas, off, touched, total>>
  BY <1>1 DEF walk
<1>3. Left' = Left
  BY <1>2 DEF Left, Rest
<1>4. WalkInv'
  BY <1>2 DEF WalkInv
<1>5. ASSUME spc' \in {"maps", "pread", "close"}, pinned' = mm'
      PROVE  /\ stays' \subseteq dirty'
             /\ spc' # "maps" => Cardinality((stays' \cap Anon) \ Left') <= touched'
  <2>1. pinned \in 1 .. born
    BY <1>2, <1>5 DEF WalkInv, SamplerTypes
  <2>2. pinned = mm /\ mm' = mm
    BY <1>1, <1>2, <1>5, <2>1
  <2>3. stays \subseteq dirty /\ (spc # "maps" => Cardinality((stays \cap Anon) \ Left) <= touched)
    BY <1>2, <1>5, <2>2 DEF FoundInv
  <2>4. Cardinality((stays' \cap Anon) \ Left) <= Cardinality((stays \cap Anon) \ Left)
    <3>1. IsFiniteSet((stays \cap Anon) \ Left)
      BY SpaceFinite, Smaller
    <3>2. (stays' \cap Anon) \ Left \subseteq (stays \cap Anon) \ Left
      BY <1>1
    <3> QED
      BY <3>1, <3>2, Smaller
  <2>5. /\ Cardinality((stays' \cap Anon) \ Left) \in Nat
        /\ Cardinality((stays \cap Anon) \ Left) \in Nat /\ touched \in Nat
    <3>1. IsFiniteSet((stays \cap Anon) \ Left) /\ IsFiniteSet((stays' \cap Anon) \ Left)
      BY <1>1, SpaceFinite, Smaller
    <3> QED
      BY <3>1, FS_CardinalityType DEF SamplerTypes
  <2> QED
    BY <1>1, <1>2, <1>3, <2>2, <2>3, <2>4, <2>5
<1>6. FoundInv'
  <2>1. Anon' = Anon
    BY DEF Anon, PagesOf, Counted, Pages
  <2> QED
    BY <1>5, <2>1 DEF FoundInv
<1> QED
  BY <1>1, <1>3, <1>4, <1>6
-------------------------------------------------------------------------------
(* The walk.                                                               *)

\* Going to the first of the mappings S: all their pages are left.
LEMMA EnterEffect ==
  ASSUME SamplerTypes, NEW S \in SUBSET Counted(Vmas), Enter(S)
  PROVE  /\ vmas' = S /\ off' \in Nat /\ total' \in Nat
         /\ Left' = PagesOf(S)
         /\ \/ S = {} /\ spc' = "close" /\ total' = total
            \/ /\ S # {} /\ spc' = "pread" /\ off' \in Pages(First(vmas'))
               /\ total' = total + (First(vmas').hi - off' + 1)
<1>1. S \in SUBSET Vmas
  BY DEF Counted
<1>2. CASE S = {}
  <2>1. vmas' = S /\ spc' = "close" /\ off' = 0 /\ total' = total + 0
    BY <1>2 DEF Enter
  <2>2. Left' = {}
    BY <2>1 DEF Left
  <2>3. PagesOf(S) = {}
    BY <1>2, InPages
  <2> QED
    BY <1>2, <2>1, <2>2, <2>3 DEF SamplerTypes
<1>3. CASE S # {}
  <2> DEFINE f == First(S)
  <2>1. f \in S /\ f.lo \in Nat /\ f.hi \in Nat /\ f.lo <= f.hi
        /\ Cardinality(Pages(f)) = f.hi - f.lo + 1
    BY <1>1, <1>3, FirstOf, VmaType
  <2>2. /\ vmas' = S /\ spc' = "pread" /\ off' = f.lo
        /\ total' = total + Cardinality(Pages(f))
    BY <1>3 DEF Enter
  <2>3. First(vmas') = f
    BY <2>2
  <2>4. Left' = (off' .. f.hi) \cup PagesOf(S \ {f})
    BY <2>2, <2>3 DEF Left, Rest
  <2>5. off' .. f.hi = Pages(f)
    BY <2>2 DEF Pages
  <2>6. Left' = PagesOf(S)
    <3> HIDE DEF f
    <3> QED
      BY <2>1, <2>4, <2>5 DEF PagesOf
  <2>7. off' \in Pages(f)
    <3> HIDE DEF f
    <3> QED
      BY <2>1, <2>2 DEF Pages
  <2>8. total' = total + (f.hi - off' + 1) /\ total' \in Nat
    <3> HIDE DEF f
    <3> QED
      BY <2>1, <2>2 DEF SamplerTypes
  <2> HIDE DEF f
  <2> QED
    BY <1>3, <2>1, <2>2, <2>3, <2>6, <2>7, <2>8
<1> QED
  BY <1>2, <1>3

SamplerInv == SamplerTypes /\ WalkInv /\ FoundInv

\* Between two walks.
LEMMA NoWalk ==
  ASSUME SamplerInv, spc \notin {"pread", "close"}, spc' \in {"idle", "open", "clear", "end"},
         UNCHANGED <<space, pinned, vmas, off, touched, total, stays>>
  PROVE  SamplerInv'
<1>1. UNCHANGED <<mm, born, mapped, dirty, pinned, vmas, off, touched, total, stays>>
  BY DEF space
<1>2. SamplerTypes'
  BY <1>1 DEF SamplerInv, SamplerTypes
<1>3. WalkInv' /\ FoundInv'
  BY <1>1 DEF SamplerInv, WalkInv, FoundInv
<1> QED
  BY <1>2, <1>3 DEF SamplerInv

LEMMA ClearSampler == ASSUME SamplerInv, clear_soft_dirty PROVE SamplerInv'
<1>1. /\ spc = "clear" /\ spc' = "end" /\ dirty' = {}
      /\ UNCHANGED <<mm, born, mapped, pinned, vmas, off, touched, total, stays>>
  BY DEF clear_soft_dirty
<1>2. SamplerTypes'
  BY <1>1 DEF SamplerInv, SamplerTypes
<1>3. WalkInv' /\ FoundInv'
  BY <1>1 DEF SamplerInv, WalkInv, FoundInv
<1> QED
  BY <1>2, <1>3 DEF SamplerInv

LEMMA OpenSampler == ASSUME SamplerInv, OpenPagemap PROVE SamplerInv'
<1>1. /\ spc = "open" /\ spc' = (IF mm = 0 THEN "end" ELSE "maps") /\ pinned' = mm
      /\ touched' = 0 /\ total' = 0 /\ stays' = dirty
      /\ UNCHANGED <<mm, born, mapped, dirty, vmas, off>>
  BY DEF OpenPagemap, space
<1>2. SamplerTypes'
  <2>1. stays' \subseteq PagesOf(Vmas)
    BY <1>1, SpaceFinite DEF SamplerInv
  <2> QED
    BY <1>1, <2>1 DEF SamplerInv, SamplerTypes
<1>3. WalkInv' /\ FoundInv'
  BY <1>1 DEF SamplerInv, WalkInv, FoundInv
<1> QED
  BY <1>2, <1>3 DEF SamplerInv

LEMMA CloseSampler == ASSUME SamplerInv, Close PROVE SamplerInv'
<1>1. /\ spc = "close" /\ spc' = "end" /\ pinned' = 0 /\ touched' = 0 /\ total' = 0 /\ stays' = {}
      /\ UNCHANGED <<mm, born, mapped, dirty, vmas, off>>
  BY DEF Close, space
<1>2. SamplerTypes'
  BY <1>1 DEF SamplerInv, SamplerTypes
<1>3. WalkInv' /\ FoundInv'
  BY <1>1 DEF SamplerInv, WalkInv, FoundInv
<1> QED
  BY <1>2, <1>3 DEF SamplerInv

\* read_maps lists every mapping that has a page to be found.
LEMMA MapsSampler == ASSUME SamplerInv, read_maps PROVE SamplerInv'
<1>1. /\ spc = "maps" /\ Enter(Counted(mapped)) /\ Counted(mapped) \in SUBSET Counted(Vmas)
      /\ UNCHANGED <<mm, born, mapped, dirty, pinned, touched, stays>>
      /\ touched = 0 /\ total = 0 /\ pinned # 0
  BY DEF read_maps, space, SamplerInv, SamplerTypes, WalkInv, Counted
<1>2. /\ vmas' = Counted(mapped) /\ off' \in Nat /\ total' \in Nat
      /\ Left' = PagesOf(Counted(mapped))
      /\ \/ spc' = "close" /\ total' = total
         \/ /\ vmas' # {} /\ spc' = "pread" /\ off' \in Pages(First(vmas'))
            /\ total' = total + (First(vmas').hi - off' + 1)
  BY <1>1, EnterEffect DEF SamplerInv
<1>3. SamplerTypes'
  BY <1>1, <1>2 DEF SamplerInv, SamplerTypes
<1>4. WalkInv'
  BY <1>1, <1>2 DEF WalkInv
<1>5. stays \subseteq dirty => stays \cap Anon \subseteq PagesOf(Counted(mapped))
  <2> SUFFICES ASSUME stays \subseteq dirty, NEW p \in stays, p \in Anon
               PROVE  p \in PagesOf(Counted(mapped))
    OBVIOUS
  <2>1. PICK v \in Counted(Vmas) : p \in Pages(v)
    BY InPages DEF Anon
  <2>2. PICK w \in mapped : p \in Pages(w)
    BY InPages DEF SamplerInv, SamplerTypes
  <2>3. v = w
    BY <2>1, <2>2, VmasApart DEF Counted, SamplerInv, SamplerTypes
  <2> QED
    BY <2>1, <2>2, <2>3, InPages DEF Counted
<1>6. FoundInv'
  <2> SUFFICES ASSUME pinned' = mm'
               PROVE  stays' \subseteq dirty' /\ Cardinality((stays' \cap Anon) \ Left') <= touched'
    BY DEF FoundInv, Anon, PagesOf, Counted, Pages
  <2>1. stays \subseteq dirty
    BY <1>1 DEF SamplerInv, FoundInv
  <2>2. (stays \cap Anon) \ Left' = {}
    BY <1>2, <1>5, <2>1
  <2> QED
    BY <1>1, <2>1, <2>2, FS_EmptySet
<1> QED
  BY <1>3, <1>4, <1>6 DEF SamplerInv

\* A failed read gives up pages of an address space that is not the pid's any more.
LEMMA FailSampler == ASSUME SamplerInv, PreadFails PROVE SamplerInv'
<1>1. /\ spc = "pread" /\ pinned # mm /\ Enter(Rest) /\ Rest \in SUBSET Counted(Vmas)
      /\ UNCHANGED <<mm, born, mapped, dirty, pinned, touched, stays>>
      /\ pinned # 0
  BY DEF PreadFails, space, SamplerInv, SamplerTypes, WalkInv, Rest
<1>2. touched <= total
  <2>1. First(vmas).hi \in Nat /\ off <= First(vmas).hi
    <3>1. First(vmas) \in Vmas
      BY <1>1, FirstOf DEF SamplerInv, SamplerTypes, WalkInv, Counted
    <3> QED
      BY <1>1, <3>1, VmaType DEF SamplerInv, SamplerTypes, WalkInv, Pages
  <2> QED
    BY <1>1, <2>1 DEF SamplerInv, SamplerTypes, WalkInv
<1>3. /\ vmas' = Rest /\ off' \in Nat /\ total' \in Nat
      /\ \/ spc' = "close" /\ total' = total
         \/ /\ vmas' # {} /\ spc' = "pread" /\ off' \in Pages(First(vmas'))
            /\ total' = total + (First(vmas').hi - off' + 1)
  BY <1>1, EnterEffect DEF SamplerInv
<1>4. SamplerTypes'
  BY <1>1, <1>3 DEF SamplerInv, SamplerTypes
<1>5. WalkInv'
  <2>1. spc' = "pread" => First(vmas').hi \in Nat
    <3>1. spc' = "pread" => First(vmas') \in Vmas
      BY <1>1, <1>3, FirstOf DEF Counted
    <3> QED
      BY <3>1, VmaType
  <2>2. total \in Nat /\ touched \in Nat /\ off' \in Nat
    BY <1>3 DEF SamplerInv, SamplerTypes
  <2>3. spc' = "pread" => touched' + (First(vmas').hi - off' + 1) <= total'
    BY <1>1, <1>2, <1>3, <2>1, <2>2
  <2> QED
    BY <1>1, <1>2, <1>3, <2>3 DEF WalkInv
<1>6. FoundInv'
  BY <1>1 DEF FoundInv
<1> QED
  BY <1>4, <1>5, <1>6 DEF SamplerInv

\* What a read of n entries does: it takes its pages off those that are left.
LEMMA PreadEffect ==
  ASSUME SamplerInv, Pread
  PROVE  \E n \in Nat \ {0} :
           LET Got == off .. off + n - 1 IN
           /\ IsFiniteSet(Got) /\ Cardinality(Got) = n
           /\ off + n - 1 <= First(vmas).hi /\ First(vmas).hi \in Nat
           /\ Got \subseteq Left /\ Left' \subseteq Left /\ Left \subseteq Left' \cup Got
           /\ Got \cap Left' = {}
           /\ touched' = touched + Cardinality(dirty \cap Got)
           /\ vmas' \subseteq Counted(Vmas) /\ off' \in Nat /\ total' \in Nat
           /\ \/ spc' = "close" /\ total' = total
              \/ /\ vmas' # {} /\ spc' = "pread" /\ off' \in Pages(First(vmas'))
                 /\ total' = total + (First(vmas').hi - off' + 1)
              \/ /\ vmas' # {} /\ spc' = "pread" /\ off' \in Pages(First(vmas'))
                 /\ total' = total /\ vmas' = vmas /\ off' = off + n
<1> DEFINE f == First(vmas)
<1>1. /\ spc = "pread" /\ vmas \subseteq Counted(Vmas) /\ vmas # {} /\ off \in Pages(f) /\ off \in Nat
      /\ total \in Nat
  BY DEF Pread, SamplerInv, SamplerTypes, WalkInv
<1>2. f \in vmas /\ f \in Vmas
  BY <1>1, FirstOf DEF Counted
<1>3. f.lo \in Nat /\ f.hi \in Nat /\ f.lo <= off /\ off <= f.hi
  BY <1>1, <1>2, VmaType DEF Pages
<1>4. PICK n \in 1 .. Chunk :
        /\ off + n - 1 <= f.hi
        /\ touched' = touched + Cardinality(dirty \cap (off .. off + n - 1))
        /\ IF off + n > f.hi
           THEN Enter(Rest)
           ELSE off' = off + n /\ UNCHANGED <<vmas, total, spc>>
  BY DEF Pread, Advance
<1> DEFINE Got == off .. off + n - 1
<1>5. n \in Nat \ {0}
  BY SamplerAssumption DEF SamplerAssumption
<1> HIDE DEF f
<1>6. IsFiniteSet(Got) /\ Cardinality(Got) = n
  BY <1>1, <1>5, FS_Interval
<1>7. Left = (off .. f.hi) \cup PagesOf(Rest)
  BY <1>1 DEF Left, f
<1>8. Got \subseteq off .. f.hi
  BY <1>1, <1>3, <1>4, <1>5
<1>9. ASSUME NEW p \in PagesOf(Rest), p \in off .. f.hi
      PROVE  FALSE
  <2>1. PICK v \in Rest : p \in Pages(v)
    BY <1>9, InPages
  <2>2. v \in Vmas /\ v # f
    BY <1>1, <2>1 DEF Rest, Counted, f
  <2>3. p \in Pages(f)
    BY <1>1, <1>3, <1>9 DEF Pages
  <2> QED
    BY <1>2, <2>1, <2>2, <2>3, VmasApart
<1>10. CASE off + n > f.hi
  <2>1. Rest \in SUBSET Counted(Vmas) /\ Enter(Rest)
    BY <1>1, <1>4, <1>10 DEF Rest
  <2>2. /\ vmas' = Rest /\ off' \in Nat /\ total' \in Nat /\ Left' = PagesOf(Rest)
        /\ \/ spc' = "close" /\ total' = total
           \/ /\ vmas' # {} /\ spc' = "pread" /\ off' \in Pages(First(vmas'))
              /\ total' = total + (First(vmas').hi - off' + 1)
    BY <2>1, EnterEffect DEF SamplerInv
  <2>3. off .. f.hi \subseteq Got
    BY <1>1, <1>3, <1>5, <1>10
  <2>4. /\ Got \subseteq Left /\ Left' \subseteq Left /\ Left \subseteq Left' \cup Got
        /\ Got \cap Left' = {}
    BY <1>7, <1>8, <1>9, <2>2, <2>3
  <2> HIDE DEF Got
  <2> QED
    BY <1>3, <1>4, <1>5, <1>6, <2>1, <2>2, <2>4 DEF f, Got
<1>11. CASE ~ (off + n > f.hi)
  <2>1. off' = off + n /\ vmas' = vmas /\ total' = total /\ spc' = spc
    BY <1>4, <1>11
  <2>2. Left' = (off + n .. f.hi) \cup PagesOf(Rest)
    BY <1>1, <2>1 DEF Left, Rest, f
  <2>3. /\ off + n .. f.hi \subseteq off .. f.hi
        /\ off .. f.hi \subseteq (off + n .. f.hi) \cup Got
        /\ Got \cap (off + n .. f.hi) = {}
    BY <1>1, <1>3, <1>5
  <2>4. /\ Got \subseteq Left /\ Left' \subseteq Left /\ Left \subseteq Left' \cup Got
        /\ Got \cap Left' = {}
    BY <1>7, <1>8, <1>9, <2>2, <2>3
  <2>5. off' \in Pages(f) /\ off' \in Nat
    BY <1>1, <1>3, <1>5, <1>11, <2>1 DEF Pages
  <2>6. First(vmas') = f
    BY <2>1 DEF f
  <2> HIDE DEF Got
  <2> QED
    BY <1>1, <1>3, <1>4, <1>5, <1>6, <2>1, <2>4, <2>5, <2>6 DEF f, Got
<1> QED
  BY <1>10, <1>11

LEMMA ReadSampler == ASSUME SamplerInv, Pread PROVE SamplerInv'
<1>1. PICK n \in Nat \ {0} :
        LET Got == off .. off + n - 1 IN
        /\ IsFiniteSet(Got) /\ Cardinality(Got) = n
        /\ off + n - 1 <= First(vmas).hi /\ First(vmas).hi \in Nat
        /\ Got \subseteq Left /\ Left' \subseteq Left /\ Left \subseteq Left' \cup Got
        /\ Got \cap Left' = {}
        /\ touched' = touched + Cardinality(dirty \cap Got)
        /\ vmas' \subseteq Counted(Vmas) /\ off' \in Nat /\ total' \in Nat
        /\ \/ spc' = "close" /\ total' = total
           \/ /\ vmas' # {} /\ spc' = "pread" /\ off' \in Pages(First(vmas'))
              /\ total' = total + (First(vmas').hi - off' + 1)
           \/ /\ vmas' # {} /\ spc' = "pread" /\ off' \in Pages(First(vmas'))
              /\ total' = total /\ vmas' = vmas /\ off' = off + n
  BY PreadEffect
<1> DEFINE Got == off .. off + n - 1
           g == Cardinality(dirty \cap Got)
<1>2. /\ spc = "pread" /\ pinned = mm /\ pinned # 0
      /\ UNCHANGED <<mm, born, mapped, dirty, pinned, stays>>
      /\ touched + (First(vmas).hi - off + 1) <= total
      /\ touched \in Nat /\ off \in Nat /\ total \in Nat
  BY DEF Pread, space, SamplerInv, SamplerTypes, WalkInv
<1>3. g \in Nat /\ g <= n /\ touched' = touched + g
  <2>1. IsFiniteSet(Got) /\ Cardinality(Got) = n /\ touched' = touched + g
    BY <1>1
  <2> HIDE DEF Got
  <2>2. dirty \cap Got \in SUBSET Got
    OBVIOUS
  <2> QED
    BY <2>1, <2>2, Smaller
<1>4. Got \subseteq Left /\ Left' \subseteq Left /\ Left \subseteq Left' \cup Got
  BY <1>1
<1> HIDE DEF Got, g
<1>5. SamplerTypes'
  BY <1>1, <1>2, <1>3 DEF SamplerInv, SamplerTypes
<1>6. WalkInv'
  <2>1. spc' = "pread" => First(vmas').hi \in Nat
    <3>1. spc' = "pread" => First(vmas') \in Vmas
      BY <1>1, FirstOf DEF Counted
    <3> QED
      BY <3>1, VmaType
  <2>2. touched' <= total
    BY <1>1, <1>2, <1>3
  <2>3. ASSUME spc' = "pread"
        PROVE  touched' + (First(vmas').hi - off' + 1) <= total'
    <3>1. First(vmas').hi \in Nat /\ off' \in Nat
      BY <1>1, <2>1, <2>3
    <3>2. CASE total' = total + (First(vmas').hi - off' + 1)
      <4>1. PICK r \in Int : r = First(vmas').hi - off' + 1
        BY <3>1
      <4>2. total \in Nat /\ touched' \in Nat /\ total' = total + r
        BY <1>2, <1>3, <3>2, <4>1
      <4>3. touched' + r <= total'
        BY <2>2, <4>1, <4>2
      <4> QED
        BY <4>1, <4>3
    <3>3. CASE total' = total /\ vmas' = vmas /\ off' = off + n
      <4>1. First(vmas').hi = First(vmas).hi
        BY <3>3
      <4> QED
        BY <1>2, <1>3, <3>1, <3>3, <4>1
    <3> QED
      BY <1>1, <2>3, <3>2, <3>3
  <2> QED
    BY <1>1, <1>2, <2>2, <2>3 DEF WalkInv
<1>7. FoundInv'
  <2>1. stays \subseteq dirty /\ Cardinality((stays \cap Anon) \ Left) <= touched
    BY <1>2 DEF SamplerInv, FoundInv
  <2>2. (stays \cap Anon) \ Left' \subseteq ((stays \cap Anon) \ Left) \cup (dirty \cap Got)
    BY <1>4, <2>1
  <2>3. IsFiniteSet((stays \cap Anon) \ Left) /\ IsFiniteSet(dirty \cap Got)
    BY SpaceFinite, Smaller DEF SamplerInv
  <2>4. /\ Cardinality((stays \cap Anon) \ Left') \in Nat
        /\ Cardinality((stays \cap Anon) \ Left) \in Nat
        /\ Cardinality((stays \cap Anon) \ Left') <= Cardinality((stays \cap Anon) \ Left) + g
    <3>1. /\ IsFiniteSet(((stays \cap Anon) \ Left) \cup (dirty \cap Got))
          /\ Cardinality(((stays \cap Anon) \ Left) \cup (dirty \cap Got)) \in Nat
          /\ Cardinality((stays \cap Anon) \ Left) \in Nat
          /\ Cardinality(((stays \cap Anon) \ Left) \cup (dirty \cap Got))
               <= Cardinality((stays \cap Anon) \ Left) + g
      BY <2>3, Both DEF g
    <3>2. /\ Cardinality((stays \cap Anon) \ Left') \in Nat
          /\ Cardinality((stays \cap Anon) \ Left')
               <= Cardinality(((stays \cap Anon) \ Left) \cup (dirty \cap Got))
      BY <2>2, <3>1, Smaller
    <3> QED
      BY <1>3, <3>1, <3>2
  <2>5. Cardinality((stays \cap Anon) \ Left') <= touched'
    BY <1>2, <1>3, <2>1, <2>4
  <2>6. Anon' = Anon
    BY DEF Anon, PagesOf, Counted, Pages
  <2> QED
    BY <1>2, <2>1, <2>5, <2>6 DEF FoundInv
<1> QED
  BY <1>5, <1>6, <1>7 DEF SamplerInv
-------------------------------------------------------------------------------
(* The sampler within the cycles of the engine.                            *)

LEMMA SamplerStepInv == ASSUME SamplerInv, SamplerStep PROVE SamplerInv'
  BY ClearSampler, OpenSampler, MapsSampler, ReadSampler, FailSampler, CloseSampler DEF SamplerStep

LEMMA SamplerStart == SamplerInit => SamplerInv
<1> SUFFICES ASSUME SamplerInit PROVE SamplerInv
  OBVIOUS
<1>1. SamplerTypes
  BY PagesFinite DEF SamplerInit, SamplerTypes
<1>2. WalkInv /\ FoundInv
  BY DEF SamplerInit, WalkInv, FoundInv
<1> QED
  BY <1>1, <1>2 DEF SamplerInv

LEMMA SamplerIdle == ASSUME SamplerInv, UNCHANGED mvars PROVE SamplerInv' /\ Left' = Left
<1>1. UNCHANGED <<mm, born, mapped, dirty, spc, pinned, vmas, off, touched, total, stays>>
  BY DEF mvars, space, walk
<1>2. Left' = Left
  BY <1>1 DEF Left, Rest
<1>3. SamplerTypes' /\ WalkInv'
  BY <1>1 DEF SamplerInv, SamplerTypes, WalkInv
<1>4. FoundInv'
  BY <1>1, <1>2 DEF SamplerInv, FoundInv, Anon, PagesOf, Counted, Pages
<1> QED
  BY <1>2, <1>3, <1>4 DEF SamplerInv

\* Every step of an observation is a step of the process, of the sampler, or of neither.
LEMMA SamplerNext == ASSUME SamplerInv, [ObservationNext]_ovars PROVE SamplerInv'
<1>1. CASE UNCHANGED ovars
  BY <1>1, SamplerIdle DEF ovars
<1>2. CASE ProcessStep
  BY <1>2, ProcessWalk DEF SamplerInv
<1>3. CASE Sampling
  BY <1>3, SamplerStepInv DEF Sampling
<1>4. CASE SampleBegins
  BY <1>4, NoWalk DEF SampleBegins
<1>5. CASE SampleSkipped
  BY <1>5, NoWalk DEF SampleSkipped
<1>6. CASE CycleEnds
  BY <1>6, NoWalk DEF CycleEnds
<1>7. CASE Observing
  BY <1>7, SamplerIdle DEF Observing
<1>8. CASE Remaps
  BY <1>2, <1>8 DEF Remaps, ProcessStep, SamplerInv, SamplerTypes
<1>9. ASSUME NEW k \in Tasks, Traced(k) PROVE SamplerInv'
  BY <1>2, <1>9, SamplerIdle DEF Traced, ProcessStep
<1>10. ASSUME NEW k \in Tasks, NEW p, Touch(k, p) PROVE SamplerInv'
  BY <1>2, <1>10, SamplerIdle DEF Touch, ProcessStep
<1>11. ASSUME NEW p, KernelWrite(p) PROVE SamplerInv'
  BY <1>2, <1>11 DEF KernelWrite, ProcessStep
<1> QED
  BY <1>1, <1>3, <1>4, <1>5, <1>6, <1>7, <1>8, <1>9, <1>10, <1>11 DEF ObservationNext, EngineStep
-------------------------------------------------------------------------------
(* The tracer within an observation.                                       *)

\* Every step of an observation is one of the tracer, or none.
LEMMA TracerMoves == [ObservationNext]_ovars => [TracerNext]_tvars
<1> SUFFICES ASSUME [ObservationNext]_ovars PROVE [TracerNext]_tvars
  OBVIOUS
<1>1. CASE UNCHANGED ovars
  BY <1>1 DEF ovars
<1>2. CASE Observing
  BY <1>2 DEF Observing, TracerNext
<1>3. CASE SampleBegins \/ SampleSkipped \/ Sampling \/ Remaps
  BY <1>3 DEF SampleBegins, SampleSkipped, Sampling, Remaps
<1>4. CASE CycleEnds
  BY <1>4 DEF CycleEnds, TracerNext
<1>5. ASSUME NEW k \in Tasks, Traced(k) PROVE TracerNext
  BY <1>5 DEF Traced, TracerNext
<1>6. ASSUME NEW k \in Tasks, NEW p, Touch(k, p) PROVE [TracerNext]_tvars
  BY <1>6 DEF Touch, TracerNext
<1>7. ASSUME NEW p, KernelWrite(p) PROVE UNCHANGED tvars
  BY <1>7 DEF KernelWrite
<1> QED
  BY <1>1, <1>2, <1>3, <1>4, <1>5, <1>6, <1>7 DEF ObservationNext, EngineStep

\* A race is not forgotten, nor is a loss.
LEMMA ExactBefore ==
  ASSUME TracerTypes, [TracerNext]_tvars, NEW k \in Tasks, Sure(k)'
  PROVE  Sure(k)
<1>1. CASE UNCHANGED tvars
  BY <1>1 DEF tvars, history, Sure
<1>2. CASE Load \/ ForceCycle \/ Crisis \/ DrainBegins \/ DrainNext \/ DrainSkip \/ DrainEnds
  BY <1>2 DEF Load, ForceCycle, Crisis, DrainBegins, DrainNext, DrainSkip, DrainEnds, history, Sure
<1>3. CASE DrainZero
  BY <1>3 DEF DrainZero, Sure
<1>4. CASE DrainLookup
  <2>1. raced' = raced /\ lost' = [lost EXCEPT ![next] = @ \/ out[next] # 0]
    BY <1>4 DEF DrainLookup
  <2>2. lost \in [Tasks -> BOOLEAN]
    BY DEF TracerTypes
  <2>3. ~ lost[k]
    BY <2>1, <2>2, Zenon DEF Sure
  <2> QED
    BY <2>1, <2>3 DEF Sure
<1>5. ASSUME NEW u \in Tasks, Fault(u) \/ Insert(u) \/ Drop(u) \/ Read(u) PROVE Sure(k)
  BY <1>5 DEF Fault, Insert, Drop, Read, history, Sure
<1>6. ASSUME NEW u \in Tasks, Store(u) PROVE Sure(k)
  BY <1>6 DEF Store, Sure
<1> QED
  BY <1>1, <1>2, <1>3, <1>4, <1>5, <1>6 DEF TracerNext, DrainStep, HandlerStep

\* What the drains owe of a task whose count is sure changes with its own faults only, and
\* when a result is returned.
LEMMA EngineDue ==
  ASSUME CountInv, Load \/ ForceCycle \/ DrainStep, NEW k \in Tasks, Sure(k)'
  PROVE  due'[k] = due[k]
<1>1. CASE Load \/ ForceCycle \/ Crisis \/ DrainBegins \/ DrainNext \/ DrainSkip
  BY <1>1 DEF Load, ForceCycle, Crisis, DrainBegins, DrainNext, DrainSkip, history
<1>2. CASE DrainZero
  BY <1>2 DEF DrainZero, Settle, Sure
<1>3. CASE DrainLookup
  <2>1. /\ raced' = raced /\ lost' = [lost EXCEPT ![next] = @ \/ out[next] # 0]
        /\ Owe(next, - out[next]) /\ next \in Tasks
    BY <1>3 DEF DrainLookup, CountInv, Fresh, TracerTypes, Tasks
  <2>2. lost \in [Tasks -> BOOLEAN] /\ out[next] \in Int /\ due[k] \in Int
    BY <2>1 DEF CountInv, TracerTypes
  <2>3. /\ ~ raced[next] => due'[next] = due[next] + (- out[next])
        /\ \A u \in Tasks : u # next => due'[u] = due[u]
    <3>1. - out[next] \in Int
      BY <2>2
    <3> QED
      BY <2>1, <3>1, OweEffect DEF CountInv
  <2>4. CASE k = next
    <3>1. out[next] = 0
      BY <2>1, <2>2, <2>4, Zenon DEF Sure
    <3>2. ~ raced[next]
      BY <2>1, <2>4 DEF Sure
    <3> QED
      BY <2>2, <2>3, <2>4, <3>1, <3>2
  <2>5. CASE k # next
    BY <2>3, <2>5
  <2> QED
    BY <2>4, <2>5
<1> QED
  BY <1>1, <1>2, <1>3 DEF DrainStep

LEMMA ProgramDue ==
  ASSUME TracerTypes, NEW k \in Tasks, HandlerStep(k), ~ Drop(k), NEW u \in Tasks, Sure(u)'
  PROVE  due'[u] = due[u]
<1>1. CASE Insert(k) \/ Read(k)
  BY <1>1 DEF Insert, Read, history
<1>2. CASE Store(k)
  BY <1>2 DEF Store, Settle, Sure
<1> QED
  BY <1>1, <1>2 DEF HandlerStep

\* The engine does not close what is open, and does not touch the programs.
LEMMA EngineOpen ==
  ASSUME Load \/ ForceCycle \/ DrainStep \/ DrainEnds, obj = "open"
  PROVE  obj' = "open"
<1>1. CASE Load
  BY <1>1 DEF Load, LoadOK, LoadFails
<1>2. CASE ForceCycle \/ DrainStep \/ DrainEnds
  BY <1>2 DEF ForceCycle, DrainStep, Crisis, DrainBegins, DrainNext, DrainSkip, DrainLookup,
              DrainZero, DrainEnds, loading
<1> QED
  BY <1>1, <1>2

\* What is owed of a sure count is a number, and the tracer knows of that and of what it
\* has returned.
LEMMA SureKnown ==
  ASSUME CountInv, FaultInv, NEW k \in Tasks, Sure(k)
  PROVE  due[k] \in Nat /\ returned[k] \in Nat /\ Known(k) = returned[k] + due[k]
<1>1. due[k] = out[k] + Pending(k) + Running(k)
  BY DEF CountInv, Owed, Sure
<1>2. Running(k) \in Nat /\ out[k] \in Nat /\ Count(k) \in Nat
  BY DEF CountInv, TracerTypes, Running, Count, Elems
<1>3. Pending(k) \in Nat
  <2>1. CASE dpc = "zero" /\ next = k
    <3>1. out[k] = Count(k)
      BY <2>1 DEF CountInv, Fresh, Count, Sure
    <3>2. Pending(k) = Count(k) - out[k]
      BY <2>1 DEF Pending
    <3> QED
      BY <1>2, <3>1, <3>2
  <2>2. CASE ~ (dpc = "zero" /\ next = k)
    BY <1>2, <2>2 DEF Pending
  <2> QED
    BY <2>1, <2>2
<1>4. returned[k] \in Nat
  BY DEF FaultInv
<1> QED
  BY <1>1, <1>2, <1>3, <1>4 DEF Known

\* What is counted can be counted.
LEMMA CountsFinite ==
  /\ IsFiniteSet(Tasks) /\ IsFiniteSet(Tasks \X (1 .. MaxFaults))
  /\ IsFiniteSet(Faulted) /\ Cardinality(Faulted) \in Nat
  /\ IsFiniteSet(Faulting) /\ Cardinality(Faulting) \in Nat
  /\ KnownFaults \in Nat
  /\ Cardinality(Faulted') \in Nat /\ Cardinality(Faulting') \in Nat
<1>1. IsFiniteSet(Tasks) /\ IsFiniteSet(1 .. MaxFaults)
  BY TracerAssumption, ObservationAssumption, FS_Interval
     DEF Tasks, TracerAssumption, ObservationAssumption
<1>2. IsFiniteSet(Tasks \X (1 .. MaxFaults))
  BY <1>1, FS_Product
<1>3. IsFiniteSet(Faulted) /\ Cardinality(Faulted) \in Nat
  BY <1>2, Smaller DEF Faulted
<1>4. IsFiniteSet(Faulting) /\ Cardinality(Faulting) \in Nat
  BY <1>1, Smaller DEF Faulting
<1>5. KnownFaults \in Nat
  BY <1>2, Smaller DEF KnownFaults
<1>6. Cardinality(Faulted') \in Nat
  BY <1>2, Smaller DEF Faulted
<1>7. Cardinality(Faulting') \in Nat
  BY <1>1, Smaller DEF Faulting
<1> QED
  BY <1>1, <1>2, <1>3, <1>4, <1>5, <1>6, <1>7

\* If every count is sure, the tracer knows of every fault.
LEMMA AllKnown ==
  ASSUME CountInv, FaultInv, Exact
  PROVE  KnownFaults = Cardinality(Faulted)
<1>1. \A k \in Tasks : Known(k) = returned[k] + due[k]
  BY SureKnown DEF Exact
<1> QED
  BY <1>1 DEF KnownFaults, Faulted

\* As long as MaxFaults faults are not known of, no task has that many.
LEMMA RoomForFault ==
  ASSUME CountInv, FaultInv, Exact, KnownFaults < MaxFaults, NEW k \in Tasks
  PROVE  returned[k] + due[k] \in Nat /\ returned[k] + due[k] < MaxFaults
<1>1. returned[k] + due[k] \in Nat
  BY SureKnown DEF Exact
<1>2. MaxFaults \in Nat
  BY ObservationAssumption DEF ObservationAssumption
<1> SUFFICES ASSUME MaxFaults <= returned[k] + due[k] PROVE FALSE
  BY <1>1, <1>2
<1> DEFINE mine == {k} \X (1 .. MaxFaults)
<1>3. mine \in SUBSET Faulted
  BY <1>1, <1>2 DEF Faulted
<1>4. IsFiniteSet(1 .. MaxFaults) /\ Cardinality(1 .. MaxFaults) = MaxFaults
  BY <1>2, FS_Interval
<1>5. IsFiniteSet({k}) /\ Cardinality({k}) = 1
  BY FS_Singleton
<1>6. Cardinality(mine) = 1 * MaxFaults
  BY <1>4, <1>5, FS_Product
<1>7. Cardinality(mine) <= Cardinality(Faulted)
  <2> HIDE DEF mine
  <2> QED
    BY <1>3, CountsFinite, Smaller
<1> QED
  BY <1>2, <1>6, <1>7, CountsFinite, AllKnown

\* What a task does when its program has returned.
LEMMA TracedAt ==
  ASSUME FaultInv, NEW k \in Tasks, Traced(k)
  PROVE  /\ at' \in [Tasks -> Nat]
         /\ Faulting' = IF hpc'[k] = "idle" THEN Faulting \ {k} ELSE Faulting
<1>1. at' = (IF hpc'[k] = "idle" THEN [at EXCEPT ![k] = 0] ELSE at) /\ at \in [Tasks -> Nat]
  BY DEF Traced, FaultInv
<1>2. at' \in [Tasks -> Nat] /\ \A u \in Tasks : at'[u] = (IF u = k /\ hpc'[k] = "idle" THEN 0 ELSE at[u])
  BY <1>1
<1> QED
  BY <1>2 DEF Faulting

\* A window that goes on keeps what it has counted.
LEMMA WindowEffect ==
  ASSUME FaultInv, NEW w \in BOOLEAN, WindowIf(w)
  PROVE  /\ window' \in BOOLEAN /\ already' \in Int /\ kernel' \in Nat
         /\ window' => window /\ w /\ already' = already /\ kernel' = kernel
<1>1. window' = (window /\ w) /\ window \in BOOLEAN /\ already \in Int /\ kernel \in Nat
  BY DEF WindowIf, FaultInv
<1>2. CASE window'
  <2>1. already' = already /\ kernel' = kernel
    BY <1>2 DEF WindowIf
  <2> QED
    BY <1>1, <2>1
<1>3. CASE ~ window'
  <2>1. already' = 0 /\ kernel' = 0
    BY <1>3 DEF WindowIf
  <2>2. window' \in BOOLEAN
    BY <1>1
  <2> QED
    BY <1>3, <2>1, <2>2
<1> QED
  BY <1>2, <1>3

LEMMA FaultNext ==
  ASSUME SamplerInv, TracerTypes, FaultInv, [ObservationNext]_ovars
  PROVE  FaultInv'
<1>0. /\ at \in [Tasks -> Nat] /\ returned \in [Tasks -> Nat]
      /\ window \in BOOLEAN /\ already \in Int /\ kernel \in Nat /\ (window => obj = "open")
  BY DEF FaultInv
<1>1. ASSUME obj = "open" => obj' = "open", at' = at, returned' = returned,
             window' = window, already' = already, kernel' = kernel
      PROVE  FaultInv'
  BY <1>0, <1>1 DEF FaultInv
<1>2. CASE UNCHANGED ovars
  BY <1>1, <1>2 DEF ovars, tvars, loading
<1>3. CASE Observing
  BY <1>1, <1>3, EngineOpen DEF Observing
<1>4. CASE SampleBegins \/ SampleSkipped
  BY <1>1, <1>4 DEF SampleBegins, SampleSkipped, tvars, loading
<1>5. CASE CycleEnds
  <2>1. obj = "open" => obj' = "open"
    BY <1>5, EngineOpen DEF CycleEnds
  <2>2. /\ UNCHANGED <<at, window, already, kernel>>
        /\ returned' = [k \in Tasks |-> returned[k] + out[k]]
    BY <1>5 DEF CycleEnds
  <2>3. returned' \in [Tasks -> Nat]
    BY <1>0, <2>2 DEF TracerTypes
  <2> QED
    BY <1>0, <2>1, <2>2, <2>3 DEF FaultInv
<1>6. CASE Sampling
  <2>1. /\ obj' = obj /\ at' = at /\ returned' = returned
        /\ window' = (IF spc = "clear" THEN obj = "open" ELSE window)
        /\ already' = (IF spc = "clear" /\ obj = "open" THEN KnownFaults - Cardinality(Faulting)
                       ELSE already)
        /\ kernel' = IF spc = "clear" THEN 0 ELSE kernel
    BY <1>6 DEF Sampling, Faulting, tvars, loading
  <2>2. already' \in Int
    <3>1. KnownFaults - Cardinality(Faulting) \in Int
      BY CountsFinite
    <3> QED
      BY <1>0, <2>1, <3>1
  <2>3. kernel' \in Nat
    BY <1>0, <2>1
  <2>4. window' \in BOOLEAN /\ (window' => obj' = "open")
    BY <1>0, <2>1
  <2> QED
    BY <1>0, <2>1, <2>2, <2>3, <2>4 DEF FaultInv
<1>7. CASE Remaps
  <2>1. /\ obj' = obj /\ at' = at /\ returned' = returned
        /\ WindowIf(mapped' \subseteq mapped /\ mm' = mm)
    BY <1>7 DEF Remaps, tvars, loading
  <2>2. /\ window' \in BOOLEAN /\ already' \in Int /\ kernel' \in Nat /\ (window' => window)
    BY <2>1, WindowEffect
  <2> QED
    BY <1>0, <2>1, <2>2 DEF FaultInv
<1>8. ASSUME NEW k \in Tasks, Traced(k)
      PROVE  FaultInv'
  <2>1. HandlerStep(k) /\ WindowIf(~ Drop(k)) /\ returned' = returned
    BY <1>8 DEF Traced
  <2>2. obj' = obj
    BY <2>1 DEF HandlerStep, Insert, Drop, Read, Store, loading
  <2>3. /\ window' \in BOOLEAN /\ already' \in Int /\ kernel' \in Nat /\ (window' => window)
    BY <2>1, WindowEffect
  <2>4. at' \in [Tasks -> Nat]
    BY <1>8, TracedAt
  <2> QED
    BY <1>0, <2>1, <2>2, <2>3, <2>4 DEF FaultInv
<1>9. ASSUME NEW k \in Tasks, NEW p \in PagesOf(Vmas), Touch(k, p)
      PROVE  FaultInv'
  <2>1. UNCHANGED <<returned, window, already, kernel>>
    BY <1>9 DEF Touch
  <2>2. CASE obj = "open"
    <3>1. Fault(k) /\ at' = [at EXCEPT ![k] = p]
      BY <1>9, <2>2 DEF Touch
    <3>2. p \in Nat
      BY PagesFinite
    <3>3. obj' = obj
      BY <3>1 DEF Fault, loading
    <3> QED
      BY <1>0, <2>1, <3>1, <3>2, <3>3 DEF FaultInv
  <2>3. CASE obj # "open"
    BY <1>1, <1>9, <2>1, <2>3 DEF Touch, tvars, loading
  <2> QED
    BY <2>2, <2>3
<1>10. ASSUME NEW p \in PagesOf(Vmas), KernelWrite(p)
       PROVE  FaultInv'
  <2>1. /\ obj' = obj /\ UNCHANGED <<at, returned, window, already>>
        /\ kernel' = IF window THEN kernel + Cardinality(Unit(p) \ dirty) ELSE kernel
    BY <1>10 DEF KernelWrite, tvars, loading
  <2>2. Cardinality(Unit(p) \ dirty) \in Nat
    BY UnitSize DEF SamplerInv
  <2>3. kernel' \in Nat
    BY <1>0, <2>1, <2>2
  <2> QED
    BY <1>0, <2>1, <2>3 DEF FaultInv
<1> QED
  BY <1>2, <1>3, <1>4, <1>5, <1>6, <1>7, <1>8, <1>9, <1>10 DEF ObservationNext, EngineStep
-------------------------------------------------------------------------------
(* The two observers.                                                      *)

\* What n faults stand for.
LEMMA WorthOf ==
  /\ Worth(0) = 0
  /\ \A n \in Int : /\ Worth(n) \in Int
                    /\ Worth(n + 1) = Worth(n) + HugeSize
                    /\ \A m \in Int : Worth(n - m) = Worth(n) - Worth(m)
<1>1. HugeSize \in Int
  BY ObservationAssumption DEF ObservationAssumption
<1>2. ASSUME NEW h \in Int, NEW n \in Int
      PROVE  h * n \in Int /\ h * (n + 1) = h * n + h /\ h * 0 = 0
  OBVIOUS
<1>3. ASSUME NEW h \in Int, NEW n \in Int, NEW m \in Int
      PROVE  h * (n - m) = h * n - h * m
  OBVIOUS
<1> QED
  BY <1>1, <1>2, <1>3 DEF Worth

\* Products of natural numbers.
LEMMA MulNat == \A m \in Nat, n \in Nat : m * n \in Nat
  OBVIOUS

LEMMA AmountsOf ==
  ASSUME FaultInv
  PROVE  /\ Worth(Cardinality(Faulted)) \in Int /\ Worth(Cardinality(Faulting)) \in Int
         /\ Worth(already) \in Int /\ HugeSize \in Int /\ kernel \in Int
<1>1. Cardinality(Faulted) \in Int /\ Cardinality(Faulting) \in Int /\ already \in Int /\ kernel \in Int
  BY CountsFinite DEF FaultInv
<1>2. Worth(Cardinality(Faulted)) \in Int /\ Worth(Cardinality(Faulting)) \in Int /\ Worth(already) \in Int
  BY <1>1, WorthOf, Zenon
<1> QED
  BY <1>1, <1>2, ObservationAssumption DEF ObservationAssumption

\* The amounts that are compared.
LEMMA Amounts ==
  ASSUME SamplerTypes, FaultInv
  PROVE  Credit \in Int /\ Debt \in Int /\ Found \in Int /\ Cardinality(dirty) \in Int
<1>1. Worth(Cardinality(Faulted)) \in Int /\ Worth(Cardinality(Faulting)) \in Int /\ Worth(already) \in Int
  BY AmountsOf
<1>2. kernel \in Int /\ touched \in Int
  BY DEF FaultInv, SamplerTypes
<1>3. Cardinality(dirty) \in Int /\ Cardinality(dirty \cap Left) \in Int
  BY SpaceFinite, Smaller
<1> QED
  BY <1>1, <1>2, <1>3 DEF Credit, Debt, Found

LEMMA AmountsNext ==
  SamplerTypes' /\ FaultInv' =>
    Credit' \in Int /\ Debt' \in Int /\ Found' \in Int /\ Cardinality(dirty') \in Int
<1> DEFINE numbers == Credit \in Int /\ Debt \in Int /\ Found \in Int /\ Cardinality(dirty) \in Int
<1>1. SamplerTypes /\ FaultInv => numbers
  BY Amounts
<1>2. SamplerTypes' /\ FaultInv' => numbers'
  <2> HIDE DEF numbers
  <2> QED
    BY <1>1, PTL
<1> QED
  BY <1>2

\* What a step may do to them: g pages more for each that is made dirty.
LEMMA Balance ==
  ASSUME SamplerTypes, SamplerTypes', FaultInv, FaultInv', AgreeInv, NEW g \in Int,
         window' /\ Exact' =>
           /\ window /\ Exact
           /\ Credit + Debt' + g <= Credit' + Debt
           /\ Cardinality(dirty') <= Cardinality(dirty) + g
           /\ spc' \in {"pread", "close"} => spc \in {"pread", "close"} /\ Found' <= Found + g
  PROVE  AgreeInv'
<1> SUFFICES ASSUME window', Exact'
             PROVE  /\ Cardinality(dirty') + Debt' <= Credit'
                    /\ spc' \in {"pread", "close"} => Found' + Debt' <= Credit'
  BY DEF AgreeInv
<1>1. PICK c \in Int, b \in Int, f \in Int, d \in Int :
        c = Credit /\ b = Debt /\ f = Found /\ d = Cardinality(dirty)
  BY Amounts
<1>2. Credit' \in Int /\ Debt' \in Int /\ Found' \in Int /\ Cardinality(dirty') \in Int
  BY AmountsNext
<1>3. PICK c1 \in Int, b1 \in Int, f1 \in Int, d1 \in Int :
        c1 = Credit' /\ b1 = Debt' /\ f1 = Found' /\ d1 = Cardinality(dirty')
  BY <1>2
<1>4. /\ d + b <= c
      /\ spc \in {"pread", "close"} => f + b <= c
  BY <1>1 DEF AgreeInv
<1>5. /\ c + b1 + g <= c1 + b /\ d1 <= d + g
      /\ spc' \in {"pread", "close"} => spc \in {"pread", "close"} /\ f1 <= f + g
  BY <1>1, <1>3
<1>6. d1 + b1 <= c1
  BY <1>4, <1>5
<1>7. spc' \in {"pread", "close"} => f1 + b1 <= c1
  <2> SUFFICES ASSUME f + b <= c, f1 <= f + g PROVE f1 + b1 <= c1
    BY <1>4, <1>5
  <2> QED
    BY <1>5
<1> QED
  BY <1>3, <1>6, <1>7

\* Steps that touch no page, or take pages away.
LEMMA AgreeQuiet ==
  ASSUME SamplerTypes, SamplerTypes', FaultInv, FaultInv', AgreeInv,
         window' /\ Exact' =>
           /\ window /\ Exact
           /\ Faulted' = Faulted /\ Faulting' = Faulting /\ already' = already /\ kernel' = kernel
           /\ dirty' \subseteq dirty,
         spc' \in {"pread", "close"} => /\ spc \in {"pread", "close"}
                                       /\ touched' = touched /\ Left' \subseteq Left
  PROVE  AgreeInv'
<1> SUFFICES ASSUME window', Exact' PROVE AgreeInv'
  BY DEF AgreeInv
<1>1. /\ window /\ Exact
      /\ Faulted' = Faulted /\ Faulting' = Faulting /\ already' = already /\ kernel' = kernel
      /\ dirty' \subseteq dirty
  OBVIOUS
<1>2. Credit' = Credit /\ Debt' = Debt
  BY <1>1 DEF Credit, Debt, Worth
<1>3. PICK c \in Int, b \in Int, f \in Int, d \in Int :
        c = Credit /\ b = Debt /\ f = Found /\ d = Cardinality(dirty)
  BY Amounts
<1>4. Credit + Debt' + 0 <= Credit' + Debt
  BY <1>2, <1>3
<1>5. IsFiniteSet(dirty) /\ touched \in Nat
  BY SpaceFinite DEF SamplerTypes
<1>6. Cardinality(dirty') <= Cardinality(dirty) + 0
  <2>1. Cardinality(dirty') <= Cardinality(dirty)
    BY <1>1, <1>5, Smaller
  <2> QED
    BY <1>3, <2>1
<1>7. ASSUME spc' \in {"pread", "close"}
      PROVE  spc \in {"pread", "close"} /\ Found' <= Found + 0
  <2>1. IsFiniteSet(dirty \cap Left) /\ dirty' \cap Left' \in SUBSET (dirty \cap Left)
    BY <1>1, <1>5, <1>7, Smaller
  <2>2. PICK L \in Nat, L1 \in Nat :
          L = Cardinality(dirty \cap Left) /\ L1 = Cardinality(dirty' \cap Left') /\ L1 <= L
    BY <2>1, Smaller
  <2>3. Found = touched + L /\ Found' = touched + L1
    BY <1>7, <2>2 DEF Found
  <2> QED
    BY <1>5, <1>7, <2>2, <2>3
<1> QED
  BY <1>1, <1>4, <1>6, <1>7, Balance

\* More pages, of which the walk finds no more.
LEMMA PagesMore ==
  ASSUME SamplerTypes, SamplerTypes', NEW S, IsFiniteSet(S), dirty' = dirty \cup S, Left' = Left,
         touched' = touched
  PROVE  /\ Cardinality(dirty') <= Cardinality(dirty) + Cardinality(S)
         /\ Found' <= Found + Cardinality(S)
<1>1. IsFiniteSet(dirty) /\ IsFiniteSet(dirty \cap Left)
  BY SpaceFinite, Smaller
<1>2. Cardinality(dirty') <= Cardinality(dirty) + Cardinality(S)
  BY <1>1, Both
<1>3. PICK n \in Nat, L \in Nat, L1 \in Nat, t \in Nat :
        /\ n = Cardinality(S) /\ L = Cardinality(dirty \cap Left)
        /\ L1 = Cardinality(dirty' \cap Left') /\ t = touched /\ L1 <= L + n
  <2>1. dirty' \cap Left' \in SUBSET ((dirty \cap Left) \cup S)
    OBVIOUS
  <2>2. /\ IsFiniteSet((dirty \cap Left) \cup S)
        /\ Cardinality(dirty \cap Left) \in Nat /\ Cardinality(S) \in Nat
        /\ Cardinality((dirty \cap Left) \cup S) \in Nat
        /\ Cardinality((dirty \cap Left) \cup S) <= Cardinality(dirty \cap Left) + Cardinality(S)
    BY <1>1, Both
  <2>3. /\ Cardinality(dirty' \cap Left') \in Nat
        /\ Cardinality(dirty' \cap Left') <= Cardinality((dirty \cap Left) \cup S)
    BY <2>1, <2>2, Smaller
  <2>4. PICK a \in Nat, b \in Nat, c \in Nat, d \in Nat :
          /\ a = Cardinality(S) /\ b = Cardinality(dirty \cap Left)
          /\ c = Cardinality(dirty' \cap Left') /\ d = Cardinality((dirty \cap Left) \cup S)
    BY <2>2, <2>3
  <2>5. c <= b + a
    BY <2>2, <2>3, <2>4
  <2> QED
    BY <2>4, <2>5 DEF SamplerTypes
<1>4. Found' = t + L1 /\ Found = t + L
  BY <1>3 DEF Found
<1> QED
  BY <1>2, <1>3, <1>4

\* A fault begins: one fault more, and one task that waits for it.
LEMMA AgreeTouch ==
  ASSUME CountInv, SamplerInv, FaultInv, FaultInv', AgreeInv, [TracerNext]_tvars,
         NEW k \in Tasks, NEW p \in PagesOf(Vmas), Touch(k, p)
  PROVE  AgreeInv'
<1>1. UNCHANGED <<returned, window, already, kernel>> /\ at[k] = 0
  BY DEF Touch
<1>2. CASE obj # "open"
  BY <1>1, <1>2 DEF FaultInv, AgreeInv
<1>3. CASE obj = "open"
  <2> SUFFICES ASSUME window', Exact' PROVE AgreeInv'
    BY DEF AgreeInv
  <2>1. Fault(k) /\ KnownFaults < MaxFaults /\ at' = [at EXCEPT ![k] = p] /\ UNCHANGED mvars
    BY <1>3 DEF Touch
  <2>2. p # 0
    BY PagesFinite
  <2>3. SamplerInv' /\ Left' = Left /\ dirty' = dirty /\ touched' = touched /\ spc' = spc
    BY <2>1, SamplerIdle DEF mvars, space, walk
  <2>4. window /\ Exact
    BY <1>1, ExactBefore DEF CountInv, Exact
  <2>5. /\ returned[k] + due[k] \in Nat /\ returned[k] + due[k] < MaxFaults
        /\ returned[k] \in Nat /\ due[k] \in Nat /\ MaxFaults \in Nat
    BY <2>1, <2>4, RoomForFault, SureKnown, ObservationAssumption DEF Exact, ObservationAssumption
  <2>6. due'[k] = due[k] + 1 /\ \A u \in Tasks : u # k => due'[u] = due[u]
    <3>1. Owe(k, 1)
      BY <2>1 DEF Fault
    <3> QED
      BY <2>4, <3>1, OweEffect DEF CountInv, Exact, Sure
  <2>7. /\ Cardinality(Faulted) \in Nat /\ Cardinality(Faulting) \in Nat
        /\ IsFiniteSet(Faulted) /\ IsFiniteSet(Faulting)
    BY CountsFinite
  <2>8. Cardinality(Faulted') = Cardinality(Faulted) + 1
    <3> DEFINE n == <<k, returned[k] + due[k] + 1>>
    <3>1. n \in Tasks \X (1 .. MaxFaults) /\ n \notin Faulted
      BY <2>5 DEF Faulted
    <3>2. ASSUME NEW f \in Tasks \X (1 .. MaxFaults)
          PROVE  f[2] <= returned'[f[1]] + due'[f[1]] <=> f[2] <= returned[f[1]] + due[f[1]] \/ f = n
      <4>1. PICK u \in Tasks, i \in 1 .. MaxFaults : f = <<u, i>>
        OBVIOUS
      <4>2. CASE u = k
        BY <1>1, <2>5, <2>6, <4>1, <4>2
      <4>3. CASE u # k
        BY <1>1, <2>6, <4>1, <4>3
      <4> QED
        BY <4>2, <4>3
    <3>3. Faulted' = Faulted \cup {n}
      <4> HIDE DEF n
      <4> QED
        BY <3>1, <3>2 DEF Faulted
    <3> HIDE DEF n
    <3> QED
      BY <2>7, <3>1, <3>3, FS_AddElement
  <2>9. Cardinality(Faulting') = Cardinality(Faulting) + 1
    <3>1. k \notin Faulting /\ Faulting' = Faulting \cup {k}
      BY <1>1, <2>1, <2>2 DEF Faulting, FaultInv
    <3> QED
      BY <2>7, <3>1, FS_AddElement
  <2>10. /\ Worth(Cardinality(Faulted')) = Worth(Cardinality(Faulted)) + HugeSize
         /\ Worth(Cardinality(Faulting')) = Worth(Cardinality(Faulting)) + HugeSize
    BY <2>7, <2>8, <2>9, WorthOf
  <2>11. PICK a \in Int, b \in Int, c \in Int, h \in Int, n \in Int :
           /\ a = Worth(Cardinality(Faulted)) /\ b = Worth(Cardinality(Faulting))
           /\ c = Worth(already) /\ h = HugeSize /\ n = kernel
    BY AmountsOf
  <2>12. Credit = a + n /\ Debt = b + c /\ Credit' = a + h + n /\ Debt' = b + h + c
    <3>1. Worth(already)' = Worth(already)
      BY <1>1 DEF Worth
    <3>2. Worth(Cardinality(Faulted))' = a + h /\ Worth(Cardinality(Faulting))' = b + h
      BY <2>10, <2>11 DEF Worth
    <3> QED
      BY <1>1, <2>11, <3>1, <3>2 DEF Credit, Debt
  <2>13. Credit + Debt' + 0 <= Credit' + Debt
    BY <2>11, <2>12
  <2>14. PICK f \in Int, d \in Int : f = Found /\ d = Cardinality(dirty)
    BY Amounts DEF SamplerInv
  <2>15. Cardinality(dirty') <= Cardinality(dirty) + 0 /\ Found' <= Found + 0
    <3>1. Cardinality(dirty') = d /\ Found' = f
      BY <2>3, <2>14 DEF Found
    <3> QED
      BY <2>14, <3>1
  <2> QED
    BY <2>3, <2>4, <2>13, <2>15, Balance DEF SamplerInv
<1> QED
  BY <1>2, <1>3

\* The kernel sets the bits of the page when it has handled the fault, no more than those
\* of a huge page, and one task less waits.
LEMMA AgreeTraced ==
  ASSUME CountInv, SamplerInv, SamplerInv', FaultInv, FaultInv', AgreeInv, [TracerNext]_tvars,
         NEW k \in Tasks, Traced(k)
  PROVE  AgreeInv'
<1> SUFFICES ASSUME window', Exact' PROVE AgreeInv'
  BY DEF AgreeInv
<1>1. HandlerStep(k) /\ WindowIf(~ Drop(k)) /\ returned' = returned
  BY DEF Traced
<1>2. window /\ ~ Drop(k) /\ already' = already /\ kernel' = kernel
  BY <1>1, WindowEffect
<1>3. Exact
  BY ExactBefore DEF CountInv, Exact
<1>4. \A u \in Tasks : due'[u] = due[u]
  BY <1>1, <1>2, ProgramDue DEF CountInv, Exact
<1>5. Faulted' = Faulted
  BY <1>1, <1>4 DEF Faulted
<1>6. Faulting' = (IF hpc'[k] = "idle" THEN Faulting \ {k} ELSE Faulting)
  BY TracedAt
<1>7. /\ Cardinality(Faulting) \in Nat /\ IsFiniteSet(Faulting) /\ Cardinality(Faulted) \in Nat
  BY CountsFinite
<1>8. CASE Faulting' = Faulting
  <2>1. ~ (hpc'[k] = "idle" /\ at[k] \in PagesOf(mapped))
    <3> SUFFICES ASSUME hpc'[k] = "idle", at[k] \in PagesOf(mapped) PROVE FALSE
      OBVIOUS
    <3>1. at[k] # 0
      BY PagesFinite DEF SamplerInv, SamplerTypes
    <3>2. k \in Faulting
      BY <3>1 DEF Faulting
    <3> QED
      BY <1>6, <1>8, <3>2
  <2>2. UNCHANGED mvars
    BY <2>1 DEF Traced
  <2>3. touched' = touched /\ spc' = spc /\ Left' = Left /\ dirty' = dirty
    BY <2>2, SamplerIdle DEF mvars, space, walk
  <2> QED
    BY <1>2, <1>3, <1>5, <1>8, <2>3, AgreeQuiet DEF SamplerInv
<1>9. CASE Faulting' # Faulting
  <2>1. hpc'[k] = "idle" /\ k \in Faulting /\ Faulting' = Faulting \ {k}
    BY <1>6, <1>9
  <2>2. Cardinality(Faulting') = Cardinality(Faulting) - 1
    BY <1>7, <2>1, FS_RemoveElement
  <2>3. Worth(Cardinality(Faulting')) = Worth(Cardinality(Faulting)) - HugeSize
    <3>1. PICK n \in Int : n = Cardinality(Faulting')
      BY CountsFinite
    <3>2. Cardinality(Faulting) = n + 1
      BY <1>7, <2>2, <3>1
    <3>3. Worth(n + 1) = Worth(n) + HugeSize /\ Worth(n) \in Int /\ HugeSize \in Int
      BY <3>1, WorthOf, ObservationAssumption DEF ObservationAssumption
    <3> QED
      BY <3>1, <3>2, <3>3
  <2>4. PICK a \in Int, b \in Int, c \in Int, h \in Int, n \in Int :
           /\ a = Worth(Cardinality(Faulted)) /\ b = Worth(Cardinality(Faulting))
           /\ c = Worth(already) /\ h = HugeSize /\ n = kernel
    BY AmountsOf
  <2>5. Credit = a + n /\ Debt = b + c /\ Credit' = a + n /\ Debt' = (b - h) + c
    <3>1. Worth(already)' = Worth(already) /\ Worth(Cardinality(Faulted))' = Worth(Cardinality(Faulted))
      BY <1>2, <1>5 DEF Worth
    <3>2. Worth(Cardinality(Faulting))' = b - h
      BY <2>3, <2>4 DEF Worth
    <3> QED
      BY <1>2, <2>4, <3>1, <3>2 DEF Credit, Debt
  <2>6. Credit + Debt' + HugeSize <= Credit' + Debt
    BY <2>4, <2>5
  <2>7. \E S : /\ IsFiniteSet(S) /\ Cardinality(S) \in Nat /\ Cardinality(S) <= HugeSize
               /\ dirty' = dirty \cup S /\ touched' = touched /\ spc' = spc /\ Left' = Left
    <3>1. CASE at[k] \in PagesOf(mapped)
      <4>1. dirty' = dirty \cup Unit(at[k]) /\ UNCHANGED walk
        BY <2>1, <3>1 DEF Traced, Dirties
      <4>2. touched' = touched /\ spc' = spc /\ Left' = Left
        BY <4>1 DEF walk, Left, Rest
      <4>3. /\ IsFiniteSet(Unit(at[k])) /\ Cardinality(Unit(at[k])) \in Nat
            /\ Cardinality(Unit(at[k])) <= HugeSize
        BY UnitSize DEF SamplerInv
      <4> QED
        BY <4>1, <4>2, <4>3
    <3>2. CASE at[k] \notin PagesOf(mapped)
      <4>1. UNCHANGED mvars
        BY <3>2 DEF Traced
      <4>2. touched' = touched /\ spc' = spc /\ Left' = Left /\ dirty' = dirty
        BY <4>1, SamplerIdle DEF mvars, space, walk
      <4>3. IsFiniteSet({}) /\ Cardinality({}) = 0 /\ HugeSize \in Nat
        BY FS_EmptySet, ObservationAssumption DEF ObservationAssumption
      <4>4. dirty' = dirty \cup {}
        BY <4>2
      <4> QED
        BY <4>2, <4>3, <4>4
    <3> QED
      BY <3>1, <3>2
  <2>8. PICK S : /\ IsFiniteSet(S) /\ Cardinality(S) \in Nat /\ Cardinality(S) <= HugeSize
                 /\ dirty' = dirty \cup S /\ touched' = touched /\ spc' = spc /\ Left' = Left
    BY <2>7
  <2>9. /\ Cardinality(dirty') <= Cardinality(dirty) + Cardinality(S)
        /\ Found' <= Found + Cardinality(S)
    BY <2>8, PagesMore DEF SamplerInv
  <2>10. Cardinality(dirty') <= Cardinality(dirty) + HugeSize /\ Found' <= Found + HugeSize
    <3>1. PICK d \in Int, f \in Int, d1 \in Int, f1 \in Int, s \in Int :
            /\ d = Cardinality(dirty) /\ f = Found /\ d1 = Cardinality(dirty') /\ f1 = Found'
            /\ s = Cardinality(S)
      BY <2>8, Amounts, AmountsNext DEF SamplerInv
    <3>2. d1 <= d + s /\ f1 <= f + s /\ s <= h
      BY <2>4, <2>8, <2>9, <3>1
    <3>3. d1 <= d + h /\ f1 <= f + h
      BY <3>1, <3>2
    <3> QED
      BY <2>4, <3>1, <3>3
  <2>11. HugeSize \in Int
    BY ObservationAssumption DEF ObservationAssumption
  <2> QED
    BY <1>2, <1>3, <2>6, <2>8, <2>10, <2>11, Balance DEF SamplerInv
<1> QED
  BY <1>8, <1>9

\* What the kernel writes is counted apart.
LEMMA AgreeKernel ==
  ASSUME CountInv, SamplerInv, SamplerInv', FaultInv, FaultInv', AgreeInv,
         NEW p \in PagesOf(Vmas), KernelWrite(p)
  PROVE  AgreeInv'
<1> SUFFICES ASSUME window', Exact' PROVE AgreeInv'
  BY DEF AgreeInv
<1>1. /\ UNCHANGED <<tvars, at, samples, returned, window, already>> /\ Dirties(Unit(p))
      /\ kernel' = IF window THEN kernel + Cardinality(Unit(p) \ dirty) ELSE kernel
  BY DEF KernelWrite
<1>2. window /\ Exact /\ Faulted' = Faulted /\ Faulting' = Faulting
  BY <1>1 DEF tvars, history, Exact, Sure, Faulted, Faulting
<1>3. dirty' = dirty \cup Unit(p) /\ UNCHANGED walk
  BY <1>1 DEF Dirties
<1>4. touched' = touched /\ spc' = spc /\ Left' = Left
  BY <1>3 DEF walk, Left, Rest
<1>5. \E S : S = Unit(p) \ dirty
  OBVIOUS
<1>6. PICK S : S = Unit(p) \ dirty
  BY <1>5
<1>7. IsFiniteSet(S) /\ Cardinality(S) \in Nat
  BY <1>6, UnitSize DEF SamplerInv
<1>8. dirty' = dirty \cup S
  BY <1>3, <1>6
<1>9. /\ Cardinality(dirty') <= Cardinality(dirty) + Cardinality(S)
      /\ Found' <= Found + Cardinality(S)
  BY <1>4, <1>7, <1>8, PagesMore DEF SamplerInv
<1>10. Credit + Debt' + Cardinality(S) <= Credit' + Debt
  <2>1. PICK a \in Int, b \in Int, s \in Int, n \in Int :
          /\ a = Worth(Cardinality(Faulted)) /\ b = Debt /\ s = Cardinality(S) /\ n = kernel
    BY <1>7, AmountsOf, Amounts DEF SamplerInv
  <2>2. Credit = a + n /\ Credit' = a + (n + s) /\ Debt' = b
    <3>1. kernel' = n + s
      BY <1>1, <1>2, <1>6, <2>1
    <3>2. Worth(Cardinality(Faulted))' = a
      BY <1>2, <2>1 DEF Worth
    <3>3. Debt' = Debt
      BY <1>1, <1>2 DEF Debt, Worth
    <3> QED
      BY <2>1, <3>1, <3>2, <3>3 DEF Credit
  <2> QED
    BY <2>1, <2>2
<1> QED
  BY <1>2, <1>4, <1>7, <1>9, <1>10, Balance DEF SamplerInv

LEMMA AgreeRemaps ==
  ASSUME SamplerInv, SamplerInv', FaultInv, FaultInv', AgreeInv, Remaps
  PROVE  AgreeInv'
<1> SUFFICES ASSUME window', Exact' PROVE AgreeInv'
  BY DEF AgreeInv
<1>1. /\ UNCHANGED <<tvars, at, samples, returned>>
      /\ WindowIf(mapped' \subseteq mapped /\ mm' = mm)
  BY DEF Remaps
<1>2. /\ window /\ mapped' \subseteq mapped /\ mm' = mm /\ already' = already /\ kernel' = kernel
  BY <1>1, WindowEffect
<1>3. Exact /\ Faulted' = Faulted /\ Faulting' = Faulting
  BY <1>1 DEF tvars, history, Exact, Sure, Faulted, Faulting
<1>4. ProcessStep
  BY DEF Remaps, ProcessStep
<1>5. UNCHANGED walk /\ Left' = Left
  BY <1>4, ProcessEffect, ProcessWalk DEF SamplerInv
<1>6. touched' = touched /\ spc' = spc
  BY <1>5 DEF walk
<1>7. dirty' \subseteq dirty
  <2>1. ASSUME NEW v \in Vmas, Mmap(v) PROVE FALSE
    BY <1>2, <2>1 DEF Mmap
  <2>2. ASSUME NEW v \in Vmas, Munmap(v) PROVE dirty' \subseteq dirty
    BY <2>2 DEF Munmap
  <2>3. CASE Exec
    BY <1>2, <2>3 DEF Exec, SamplerInv, SamplerTypes
  <2>4. CASE Exit
    BY <2>4 DEF Exit
  <2> QED
    BY <2>1, <2>2, <2>3, <2>4 DEF Remaps
<1> QED
  BY <1>2, <1>3, <1>5, <1>6, <1>7, AgreeQuiet DEF SamplerInv

\* A step of the sampler outside of a window of its own making.
LEMMA SamplingSame ==
  ASSUME Sampling
  PROVE  /\ SamplerStep /\ Faulted' = Faulted /\ Faulting' = Faulting /\ (Exact' => Exact)
         /\ spc # "clear" => window' = window /\ already' = already /\ kernel' = kernel
         /\ spc = "clear" => /\ window' = (obj = "open") /\ kernel' = 0
                             /\ window' => already' = KnownFaults - Cardinality(Faulting)
  BY DEF Sampling, tvars, history, Faulted, Faulting, Exact, Sure

\* The bits are clear: the faults known of so far, and not waited for, are those before.
LEMMA AgreeClear ==
  ASSUME CountInv, FaultInv, Sampling, clear_soft_dirty
  PROVE  AgreeInv'
<1> SUFFICES ASSUME window', Exact' PROVE AgreeInv'
  BY DEF AgreeInv
<1>1. /\ spc = "clear" /\ spc' = "end" /\ dirty' = {} /\ kernel' = 0
      /\ Faulted' = Faulted /\ Faulting' = Faulting /\ Exact
      /\ already' = KnownFaults - Cardinality(Faulting)
  BY SamplingSame DEF clear_soft_dirty
<1>2. PICK f \in Int, n \in Int : f = Cardinality(Faulted) /\ n = Cardinality(Faulting)
  BY CountsFinite
<1>3. already' = f - n
  BY <1>1, <1>2, AllKnown
<1>4. Cardinality(dirty') = 0
  BY <1>1, FS_EmptySet
<1>5. /\ Worth(Cardinality(Faulted))' = Worth(f) /\ Worth(Cardinality(Faulting))' = Worth(n)
      /\ Worth(already)' = Worth(f - n)
  BY <1>1, <1>2, <1>3 DEF Worth
<1>6. Worth(f) \in Int /\ Worth(n) \in Int /\ Worth(f - n) = Worth(f) - Worth(n)
  BY <1>2, WorthOf
<1>7. Credit' = Worth(f) + 0 /\ Debt' = Worth(n) + (Worth(f) - Worth(n))
  BY <1>1, <1>5, <1>6 DEF Credit, Debt
<1>8. Cardinality(dirty') + Debt' <= Credit'
  <2>1. PICK x \in Int, y \in Int : x = Worth(f) /\ y = Worth(n)
    BY <1>6
  <2>2. Credit' = x + 0 /\ Debt' = y + (x - y)
    BY <1>7, <2>1
  <2> QED
    BY <1>4, <2>1, <2>2
<1> QED
  BY <1>1, <1>8 DEF AgreeInv

\* The walk begins: all that is dirty is still to be found.
LEMMA AgreeMaps ==
  ASSUME SamplerInv, SamplerInv', FaultInv, FaultInv', AgreeInv, Sampling, read_maps
  PROVE  AgreeInv'
<1> SUFFICES ASSUME window', Exact' PROVE AgreeInv'
  BY DEF AgreeInv
<1>1. /\ spc = "maps" /\ touched' = 0 /\ dirty' = dirty
      /\ Faulted' = Faulted /\ Faulting' = Faulting /\ Exact /\ window
      /\ already' = already /\ kernel' = kernel
  BY SamplingSame DEF read_maps, space, SamplerInv, WalkInv
<1>2. Credit' = Credit /\ Debt' = Debt
  BY <1>1 DEF Credit, Debt, Worth
<1>3. PICK c \in Int, b \in Int, d \in Int : c = Credit /\ b = Debt /\ d = Cardinality(dirty)
  BY Amounts DEF SamplerInv
<1>4. d + b <= c
  BY <1>1, <1>3 DEF AgreeInv
<1>5. PICK n \in Int : n = Cardinality(dirty' \cap Left') /\ n <= d
  <2>1. dirty' \cap Left' \in SUBSET dirty
    BY <1>1
  <2> QED
    BY <1>3, <2>1, SpaceFinite, Smaller DEF SamplerInv
<1>6. Found' = 0 + n
  BY <1>1, <1>5 DEF Found
<1>7. Cardinality(dirty') + Debt' <= Credit'
  BY <1>1, <1>2, <1>3, <1>4
<1>8. Found' + Debt' <= Credit'
  BY <1>2, <1>3, <1>4, <1>5, <1>6
<1> QED
  BY <1>7, <1>8 DEF AgreeInv

\* A read finds dirty pages and leaves the others.
LEMMA AgreePread ==
  ASSUME SamplerInv, SamplerInv', FaultInv, FaultInv', AgreeInv, Sampling, Pread
  PROVE  AgreeInv'
<1> SUFFICES ASSUME window', Exact' PROVE AgreeInv'
  BY DEF AgreeInv
<1>1. /\ spc = "pread" /\ dirty' = dirty
      /\ Faulted' = Faulted /\ Faulting' = Faulting /\ Exact /\ window
      /\ already' = already /\ kernel' = kernel
      /\ touched \in Nat
  BY SamplingSame DEF Pread, space, SamplerInv, SamplerTypes
<1>2. Credit' = Credit /\ Debt' = Debt
  BY <1>1 DEF Credit, Debt, Worth
<1>3. IsFiniteSet(dirty)
  BY SpaceFinite DEF SamplerInv
<1>4. \E Got : /\ Got \subseteq Left /\ Left' \subseteq Left /\ Got \cap Left' = {}
               /\ touched' = touched + Cardinality(dirty \cap Got)
  BY PreadEffect
<1>5. PICK Got : /\ Got \subseteq Left /\ Left' \subseteq Left /\ Got \cap Left' = {}
                 /\ touched' = touched + Cardinality(dirty \cap Got)
  BY <1>4
<1>6. PICK L \in Nat, L1 \in Nat, G \in Nat :
        /\ L = Cardinality(dirty \cap Left)
        /\ L1 = Cardinality(dirty' \cap Left') /\ G = Cardinality(dirty \cap Got) /\ L1 + G <= L
  <2>1. IsFiniteSet(dirty \cap Left) /\ IsFiniteSet(dirty' \cap Left') /\ IsFiniteSet(dirty \cap Got)
    BY <1>1, <1>3, Smaller
  <2>2. /\ (dirty' \cap Left') \cap (dirty \cap Got) = {}
        /\ (dirty' \cap Left') \cup (dirty \cap Got) \subseteq dirty \cap Left
    BY <1>1, <1>5
  <2>3. /\ Cardinality((dirty' \cap Left') \cup (dirty \cap Got))
             = Cardinality(dirty' \cap Left') + Cardinality(dirty \cap Got)
        /\ Cardinality(dirty' \cap Left') \in Nat /\ Cardinality(dirty \cap Got) \in Nat
    BY <2>1, <2>2, Both
  <2>4. /\ Cardinality((dirty' \cap Left') \cup (dirty \cap Got)) <= Cardinality(dirty \cap Left)
        /\ Cardinality(dirty \cap Left) \in Nat
    BY <2>1, <2>2, Smaller
  <2> QED
    BY <1>3, <2>3, <2>4, Smaller
<1>7. PICK t \in Nat, c \in Int, b \in Int, d \in Int :
        t = touched /\ c = Credit /\ b = Debt /\ d = Cardinality(dirty)
  BY <1>1, Amounts DEF SamplerInv
<1>8. Found = t + L /\ Found' = (t + G) + L1
  BY <1>5, <1>6, <1>7 DEF Found
<1>9. d + b <= c /\ t + L + b <= c
  BY <1>1, <1>7, <1>8 DEF AgreeInv
<1>10. Cardinality(dirty') + Debt' <= Credit'
  BY <1>1, <1>2, <1>7, <1>9
<1>11. Found' + Debt' <= Credit'
  BY <1>2, <1>6, <1>7, <1>8, <1>9
<1> QED
  BY <1>10, <1>11 DEF AgreeInv

LEMMA AgreeSampling ==
  ASSUME CountInv, SamplerInv, SamplerInv', FaultInv, FaultInv', AgreeInv, Sampling
  PROVE  AgreeInv'
<1>1. /\ SamplerStep /\ Faulted' = Faulted /\ Faulting' = Faulting /\ (Exact' => Exact)
      /\ spc # "clear" => window' = window /\ already' = already /\ kernel' = kernel
  BY SamplingSame
<1>2. CASE OpenPagemap \/ Close
  <2>1. spc # "clear" /\ spc' \notin {"pread", "close"} /\ dirty' = dirty
    BY <1>2 DEF OpenPagemap, Close, space
  <2> QED
    BY <1>1, <2>1, AgreeQuiet DEF SamplerInv
<1>3. CASE PreadFails
  <2>1. /\ spc = "pread" /\ dirty' = dirty /\ touched' = touched /\ Enter(Rest)
        /\ Rest \in SUBSET Counted(Vmas)
    BY <1>3 DEF PreadFails, space, Rest, SamplerInv, SamplerTypes
  <2>2. Left' = PagesOf(Rest)
    BY <2>1, EnterEffect DEF SamplerInv
  <2>3. Left' \subseteq Left
    BY <2>1, <2>2 DEF Left
  <2> QED
    BY <1>1, <2>1, <2>3, AgreeQuiet DEF SamplerInv
<1> QED
  BY <1>1, <1>2, <1>3, AgreeClear, AgreeMaps, AgreePread DEF SamplerStep

\* A cycle of the engine moves what is owed to what is returned.
LEMMA AgreeEngine ==
  ASSUME CountInv, SamplerInv, SamplerInv', FaultInv, FaultInv', AgreeInv,
         Observing \/ SampleBegins \/ SampleSkipped \/ CycleEnds
  PROVE  AgreeInv'
<1> SUFFICES ASSUME window', Exact' PROVE AgreeInv'
  BY DEF AgreeInv
<1>1. UNCHANGED <<at, window, already, kernel>> /\ Faulting' = Faulting
  BY DEF Observing, SampleBegins, SampleSkipped, CycleEnds, Faulting
<1>2. [TracerNext]_tvars
  BY DEF Observing, SampleBegins, SampleSkipped, CycleEnds, TracerNext
<1>3. Exact
  BY <1>2, ExactBefore DEF CountInv, Exact
<1>4. ASSUME NEW k \in Tasks PROVE returned'[k] + due'[k] = returned[k] + due[k]
  <2>1. CASE Observing
    BY <2>1, EngineDue DEF Observing, Exact
  <2>2. CASE SampleBegins \/ SampleSkipped
    BY <2>2 DEF SampleBegins, SampleSkipped, tvars, history
  <2>3. CASE CycleEnds
    <3>1. /\ returned' = [u \in Tasks |-> returned[u] + out[u]]
          /\ due' = [u \in Tasks |-> IF raced[u] THEN 0 ELSE due[u] - out[u]]
      BY <2>3 DEF CycleEnds, DrainEnds
    <3>2. ~ raced[k]
      BY <1>3 DEF Exact, Sure
    <3>3. returned[k] \in Int /\ due[k] \in Int /\ out[k] \in Int
      BY DEF FaultInv, CountInv, TracerTypes
    <3>4. returned'[k] = returned[k] + out[k] /\ due'[k] = due[k] - out[k]
      BY <3>1, <3>2
    <3> QED
      BY <3>3, <3>4
  <2> QED
    BY <2>1, <2>2, <2>3
<1>5. Faulted' = Faulted
  BY <1>4 DEF Faulted
<1>6. dirty' = dirty
  BY DEF Observing, SampleBegins, SampleSkipped, CycleEnds, mvars, space
<1>7. spc' \in {"pread", "close"} => spc' = spc /\ touched' = touched /\ Left' = Left
  <2>1. CASE Observing
    <3>1. UNCHANGED mvars
      BY <2>1 DEF Observing
    <3> QED
      BY <3>1, SamplerIdle DEF mvars, walk
  <2>2. CASE SampleBegins \/ SampleSkipped \/ CycleEnds
    BY <2>2 DEF SampleBegins, SampleSkipped, CycleEnds
  <2> QED
    BY <2>1, <2>2
<1> QED
  BY <1>1, <1>3, <1>5, <1>6, <1>7, AgreeQuiet DEF SamplerInv

LEMMA AgreeNext ==
  ASSUME CountInv, SamplerInv, SamplerInv', FaultInv, FaultInv', AgreeInv, [ObservationNext]_ovars
  PROVE  AgreeInv'
<1>0. [TracerNext]_tvars
  BY TracerMoves
<1>1. CASE UNCHANGED ovars
  <2>1. UNCHANGED <<tvars, mvars, at, returned, window, already, kernel>>
    BY <1>1 DEF ovars
  <2>2. Faulted' = Faulted /\ Faulting' = Faulting /\ (Exact' => Exact)
    BY <2>1 DEF tvars, history, Faulted, Faulting, Exact, Sure
  <2>3. dirty' = dirty /\ spc' = spc /\ touched' = touched /\ Left' = Left
    BY <2>1, SamplerIdle DEF mvars, space, walk
  <2> QED
    BY <2>1, <2>2, <2>3, AgreeQuiet DEF SamplerInv
<1>2. CASE Observing \/ SampleBegins \/ SampleSkipped \/ CycleEnds
  BY <1>2, AgreeEngine
<1>3. CASE Sampling
  BY <1>3, AgreeSampling
<1>4. CASE Remaps
  BY <1>4, AgreeRemaps
<1>5. ASSUME NEW k \in Tasks, Traced(k) PROVE AgreeInv'
  BY <1>0, <1>5, AgreeTraced
<1>6. ASSUME NEW k \in Tasks, NEW p \in PagesOf(Vmas), Touch(k, p) PROVE AgreeInv'
  BY <1>0, <1>6, AgreeTouch
<1>7. ASSUME NEW p \in PagesOf(Vmas), KernelWrite(p) PROVE AgreeInv'
  BY <1>7, AgreeKernel
<1> QED
  BY <1>1, <1>2, <1>3, <1>4, <1>5, <1>6, <1>7 DEF ObservationNext, EngineStep
-------------------------------------------------------------------------------
(* Theorems.                                                               *)

\* The inductive invariant of an observation.
ObservationInv == CountInv /\ SamplerInv /\ FaultInv /\ AgreeInv

LEMMA ObservationStart == ObservationInit => ObservationInv
<1> SUFFICES ASSUME ObservationInit PROVE ObservationInv
  OBVIOUS
<1>1. /\ TracerInit /\ SamplerInit /\ at = [k \in Tasks |-> 0] /\ returned = [k \in Tasks |-> 0]
      /\ window = FALSE /\ already = 0 /\ kernel = 0
  BY DEF ObservationInit
<1>2. CountInv /\ SamplerInv
  BY <1>1, CountInit, SamplerStart
<1>3. FaultInv
  <2>1. at \in [Tasks -> Nat] /\ returned \in [Tasks -> Nat]
    BY <1>1
  <2>2. window \in BOOLEAN /\ ~ window
    BY <1>1, Zenon
  <2>3. already \in Int /\ kernel \in Nat
    BY <1>1
  <2> QED
    BY <2>1, <2>2, <2>3 DEF FaultInv
<1>4. AgreeInv
  BY <1>1 DEF AgreeInv
<1> QED
  BY <1>2, <1>3, <1>4 DEF ObservationInv

LEMMA ObservationStep == ObservationInv /\ [ObservationNext]_ovars => ObservationInv'
<1> SUFFICES ASSUME ObservationInv, [ObservationNext]_ovars PROVE ObservationInv'
  OBVIOUS
<1>1. TracerTypes /\ CountInv /\ SamplerInv /\ FaultInv /\ AgreeInv
  BY DEF ObservationInv, CountInv
<1>2. CountInv'
  BY <1>1, TracerMoves, CountNext
<1>3. SamplerInv'
  BY <1>1, SamplerNext
<1>4. FaultInv'
  BY <1>1, FaultNext
<1>5. AgreeInv'
  BY <1>1, <1>3, <1>4, AgreeNext
<1> QED
  BY <1>2, <1>3, <1>4, <1>5 DEF ObservationInv

\* ws_ratio never exceeds 1, whatever the process does to its mappings during the walk and
\* however the reads are cut short.
THEOREM ObservationTouchedWithinTotal == ObservationSpec => []TouchedWithinTotal
<1>1. ObservationInv => TouchedWithinTotal
  <2> SUFFICES ASSUME ObservationInv PROVE touched <= total
    BY DEF TouchedWithinTotal
  <2>1. touched \in Nat /\ total \in Nat /\ WalkInv /\ vmas \subseteq Counted(Vmas)
    BY DEF ObservationInv, SamplerInv, SamplerTypes
  <2>2. CASE spc = "pread"
    <3>1. First(vmas) \in Vmas /\ off \in Pages(First(vmas))
      BY <2>1, <2>2, FirstOf DEF WalkInv, Counted
    <3>2. First(vmas).hi \in Nat /\ off \in Nat /\ off <= First(vmas).hi
      BY <3>1, VmaType DEF Pages
    <3> QED
      BY <2>1, <2>2, <3>2 DEF WalkInv
  <2>3. CASE spc # "pread"
    BY <2>1, <2>3 DEF WalkInv
  <2> QED
    BY <2>2, <2>3
<1> QED
  BY <1>1, ObservationStart, ObservationStep, PTL DEF ObservationSpec

\* A walk that met one address space counts every page that was soft-dirty when it began
\* and stayed mapped: nobody's memory is taken for colder than it is.
THEOREM ObservationNoFalseCold == ObservationSpec => []NoFalseCold
<1>1. ObservationInv => NoFalseCold
  <2> SUFFICES ASSUME ObservationInv, spc = "close", pinned = mm
               PROVE  touched >= Cardinality(stays \cap PagesOf(Counted(Vmas)))
    BY DEF NoFalseCold
  <2>1. Cardinality((stays \cap Anon) \ Left) <= touched /\ Left = {} /\ touched \in Nat
    BY DEF ObservationInv, SamplerInv, SamplerTypes, FoundInv, Left
  <2>2. (stays \cap Anon) \ Left = stays \cap Anon
    BY <2>1
  <2>3. Cardinality(stays \cap Anon) \in Nat
    BY SpaceFinite, Smaller DEF ObservationInv, SamplerInv
  <2> QED
    BY <2>1, <2>2, <2>3 DEF Anon
<1> QED
  BY <1>1, ObservationStart, ObservationStep, PTL DEF ObservationSpec

\* In a window the sampler finds no more pages touched than the faults that the tracer
\* counts and the writes of the kernel account for, for any number of tasks that fault
\* while both are at work, and huge pages of any size.
THEOREM ObservationObserversAgree == ObservationSpec => []ObserversAgree
<1>1. ObservationInv => ObserversAgree
  <2> SUFFICES ASSUME ObservationInv, spc = "close", window, Exact
               PROVE  touched <= HugeSize * (KnownFaults - already) + kernel
    BY DEF ObserversAgree, Exact, Sure
  <2>1. Found + Debt <= Credit
    BY DEF ObservationInv, AgreeInv
  <2>2. KnownFaults = Cardinality(Faulted)
    BY AllKnown DEF ObservationInv
  <2>3. Cardinality(Faulted) \in Int /\ Cardinality(Faulting) \in Nat /\ already \in Int
    BY CountsFinite DEF ObservationInv, FaultInv
  <2>4. Cardinality(dirty \cap Left) \in Nat
    BY SpaceFinite, Smaller DEF ObservationInv, SamplerInv
  <2>5. touched \in Nat /\ kernel \in Nat
    BY DEF ObservationInv, SamplerInv, SamplerTypes, FaultInv
  <2>6. PICK f \in Int, n \in Nat, a \in Int, l \in Nat, t \in Nat, w \in Nat :
          /\ f = Cardinality(Faulted) /\ n = Cardinality(Faulting) /\ a = already
          /\ l = Cardinality(dirty \cap Left) /\ t = touched /\ w = kernel
    BY <2>3, <2>4, <2>5
  <2>7. t + l + (Worth(n) + Worth(a)) <= Worth(f) + w
    BY <2>1, <2>6 DEF Found, Debt, Credit
  <2>8. Worth(n) \in Nat
    BY ObservationAssumption, MulNat DEF Worth, ObservationAssumption
  <2>9. Worth(f) \in Int /\ Worth(a) \in Int /\ Worth(f - a) = Worth(f) - Worth(a)
    BY <2>6, WorthOf
  <2>10. t <= Worth(f - a) + w
    <3>1. PICK x \in Int, y \in Int, z \in Nat : x = Worth(f) /\ y = Worth(a) /\ z = Worth(n)
      BY <2>8, <2>9
    <3>2. t + l + (z + y) <= x + w
      BY <2>7, <3>1
    <3>3. t <= (x - y) + w
      BY <3>1, <3>2
    <3> QED
      BY <2>9, <3>1, <3>3
  <2> QED
    BY <2>2, <2>6, <2>10 DEF Worth
<1> QED
  BY <1>1, ObservationStart, ObservationStep, PTL DEF ObservationSpec
===============================================================================
