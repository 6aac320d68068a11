-------------------------------- MODULE Tracer --------------------------------
(***************************************************************************)
(* The eBPF fault tracer: a program that every page fault of a task runs,  *)
(* counting in a hash map, and drain_faults, which the engine calls once   *)
(* per cycle to read the counters and set them back.  Tasks fault on other *)
(* processors while the engine walks the map.                              *)
(*                                                                         *)
(* The map is the kernel's hash map.  An entry points to an element, and   *)
(* an update of an entry puts a spare element in its place; a program that *)
(* has looked an element up keeps the element, whatever becomes of the     *)
(* entry.  The elements of a bucket are in a chain, an update, of a new    *)
(* key or of one that is there, puts its element at the head, and the walk *)
(* goes from a key to the next of its chain, then to the later buckets: it *)
(* may meet a key again that was set back in the same walk.                *)
(***************************************************************************)
EXTENDS Integers, FiniteSets, FiniteSetsExt

CONSTANTS
  MaxTask,         \* tasks are 1 .. MaxTask
  Bucket,          \* the bucket of every task's key
  Rooms,           \* what may be left of max_entries by tasks that are not followed
  MaxCount         \* a task does not fault while its counter is at MaxCount

ASSUME TracerAssumption ==
  /\ MaxTask \in Nat \ {0}
  /\ Bucket \in [1 .. MaxTask -> Nat]
  /\ Rooms \subseteq Nat
  /\ MaxCount \in Nat

Tasks == 1 .. MaxTask
Elems == 1 .. MaxTask + 1

VARIABLES
  obj, map,        \* g.obj and g.map: "none", "open" or "closed"
  ebpf_on_,
  room,            \* how many keys minor_faults can have
  entry,           \* minor_faults: the element of every key, 0 if there is none
  chain,           \* <<j, k>>: key j stands before key k in their bucket
  val,             \* minor, of every element
  spare,           \* the element the next update will use
  hpc, held, tmp,  \* per task: where the program is, its v, the count it has read
  dpc, next,       \* the drain: where it is, the key it is at, 0 before the first
  out,             \* its result, 0 for a task that is not in it
  due,             \* history: faults of every task that were to be counted, less those that
                   \* the drains have returned or overwritten; 0 once the task has raced
  lost,            \* history: a drain has overwritten a count of the task in its result
  raced            \* history: a fault of the task met a reset of its counter

loading == <<obj, map, ebpf_on_>>
table == <<room, entry, chain, val, spare>>
prog == <<hpc, held, tmp>>
drain == <<dpc, next, out>>
history == <<due, lost, raced>>
tvars == <<loading, table, prog, drain, history>>

TracerInit ==
  /\ obj = "none" /\ map = "none" /\ ebpf_on_ = FALSE
  /\ room \in Rooms
  /\ entry = [k \in Tasks |-> 0]
  /\ chain = {}
  /\ val = [e \in Elems |-> 0]
  /\ spare = 1
  /\ hpc = [k \in Tasks |-> "idle"]
  /\ held = [k \in Tasks |-> 0]
  /\ tmp = [k \in Tasks |-> 0]
  /\ dpc = "idle" /\ next = 0
  /\ out = [k \in Tasks |-> 0]
  /\ due = [k \in Tasks |-> 0]
  /\ lost = [k \in Tasks |-> FALSE]
  /\ raced = [k \in Tasks |-> FALSE]
-----------------------------------------------------------------------------
(* load, which the engine tries in every cycle until it succeeds.          *)

\* MUTANT of LoadFails: the object that could not be attached is not forgotten.
LoadFails_KeepsObject(m) == obj' = "closed" /\ map' = m

\* The object is missing, or cannot be loaded or attached, or lacks the program or the
\* map; m is what that leaves in g.map.
LoadFails(m) == obj' = "none" /\ map' = m

LoadOK == obj' = "open" /\ map' = "open"

\* run_cycle begins.
Load ==
  /\ dpc = "idle"
  /\ \/ ~ ebpf_on_ /\ obj = "none" /\ LoadOK /\ ebpf_on_' = TRUE
     \/ /\ ~ ebpf_on_ /\ obj = "none" /\ ebpf_on_' = FALSE
        /\ \E m \in {map, "none", "closed"} : LoadFails(m)
     \/ (ebpf_on_ \/ obj # "none") /\ ebpf_on_' = TRUE /\ UNCHANGED <<obj, map>>
  /\ dpc' = "loaded"
  /\ UNCHANGED <<table, prog, next, out, history>>

\* A cycle in a crisis ends here.
Crisis ==
  /\ dpc = "loaded"
  /\ dpc' = "idle"
  /\ UNCHANGED <<loading, table, prog, next, out, history>>

\* The other cycles drain, if loaded().
DrainBegins ==
  /\ dpc = "loaded"
  /\ dpc' = IF ebpf_on_ /\ obj # "none" THEN "next" ELSE "end"
  /\ UNCHANGED <<loading, table, prog, next, out, history>>

\* force_cycle neither loads nor drains.
ForceCycle ==
  /\ dpc = "idle"
  /\ dpc' = "end"
  /\ UNCHANGED <<loading, table, prog, next, out, history>>
-----------------------------------------------------------------------------
(* The hash map.                                                           *)

Entries == {k \in Tasks : entry[k] # 0}
FreeElems == Elems \ ({spare} \cup {entry[k] : k \in Tasks})
Count(k) == IF entry[k] = 0 THEN 0 ELSE val[entry[k]]

Neighbours(k) == {j \in Entries \ {k} : Bucket[j] = Bucket[k]}

\* The new element of key k goes to the head of its bucket.
AddHead(k) == chain' = {p \in chain : k \notin {p[1], p[2]}} \cup ({k} \X Neighbours(k))

\* The keys from k on; a walk begins at key 0, which nobody has.
After(k) ==
  IF k = 0 THEN Entries ELSE {j \in Entries : <<k, j>> \in chain \/ Bucket[j] > Bucket[k]}
Foremost(j, S) == \A i \in S \ {j} : <<j, i>> \in chain \/ Bucket[i] > Bucket[j]
-----------------------------------------------------------------------------
(* on_page_fault_user                                                      *)

\* n more faults of task k, which the drains owe.
Owe(k, n) == due' = [due EXCEPT ![k] = IF raced[k] THEN 0 ELSE @ + n]

\* The lookup.
Fault(k) ==
  /\ obj = "open"
  /\ hpc[k] = "idle"
  /\ Count(k) < MaxCount
  /\ hpc' = [hpc EXCEPT ![k] = IF entry[k] = 0 THEN "insert" ELSE "read"]
  /\ held' = [held EXCEPT ![k] = entry[k]]
  /\ Owe(k, 1)
  /\ UNCHANGED <<loading, table, tmp, drain, lost, raced>>

\* The update with BPF_NOEXIST and the second lookup.
Insert(k) ==
  /\ hpc[k] = "insert"
  /\ Cardinality(Entries) < room
  /\ LET e == Min(FreeElems) IN
       /\ entry' = [entry EXCEPT ![k] = e]
       /\ val' = [val EXCEPT ![e] = 0]
       /\ held' = [held EXCEPT ![k] = e]
  /\ AddHead(k)
  /\ hpc' = [hpc EXCEPT ![k] = "read"]
  /\ UNCHANGED <<loading, room, spare, tmp, drain, history>>

\* A full map drops the fault.
Drop(k) ==
  /\ hpc[k] = "insert"
  /\ Cardinality(Entries) >= room
  /\ hpc' = [hpc EXCEPT ![k] = "idle"]
  /\ Owe(k, -1)
  /\ UNCHANGED <<loading, table, held, tmp, drain, lost, raced>>

\* v->minor++ is a load and a store.
Read(k) ==
  /\ hpc[k] = "read"
  /\ hpc' = [hpc EXCEPT ![k] = "store"]
  /\ tmp' = [tmp EXCEPT ![k] = val[held[k]]]
  /\ UNCHANGED <<loading, table, held, drain, history>>

\* What a task that has raced is due is not followed any further.
Settle == due' = [k \in Tasks |-> IF raced'[k] THEN 0 ELSE due[k]]

\* The store: into an element that may be somebody else's by now.
Store(k) ==
  /\ hpc[k] = "store"
  /\ hpc' = [hpc EXCEPT ![k] = "idle"]
  /\ val' = [val EXCEPT ![held[k]] = tmp[k] + 1]
  /\ held' = [held EXCEPT ![k] = 0]
  /\ tmp' = [tmp EXCEPT ![k] = 0]
  /\ raced' = [u \in Tasks |->
       \/ raced[u]
       \/ u # k /\ entry[u] = held[k]
       \/ u = k /\ dpc = "zero" /\ next = k]
  /\ Settle
  /\ UNCHANGED <<loading, room, entry, chain, spare, drain, lost>>
-----------------------------------------------------------------------------
(* drain_faults                                                            *)

\* bpf_map__get_next_key
DrainNext ==
  /\ dpc = "next"
  /\ \/ After(next) = {} /\ dpc' = "end" /\ next' = 0
     \/ \E j \in After(next) : Foremost(j, After(next)) /\ dpc' = "lookup" /\ next' = j
  /\ UNCHANGED <<loading, table, prog, out, history>>

\* MUTANT of DrainSkip: the walk ends at a counter that is 0.
DrainSkip_Ends ==
  /\ dpc = "lookup"
  /\ val[entry[next]] = 0
  /\ dpc' = "end"
  /\ next' = 0
  /\ UNCHANGED <<loading, table, prog, out, history>>

\* A counter of 0 is passed over.
DrainSkip ==
  /\ dpc = "lookup"
  /\ val[entry[next]] = 0
  /\ dpc' = "next"
  /\ UNCHANGED <<loading, table, prog, next, out, history>>

\* The counter goes into out, over what may be there.
DrainLookup ==
  /\ dpc = "lookup"
  /\ val[entry[next]] # 0
  /\ dpc' = "zero"
  /\ out' = [out EXCEPT ![next] = val[entry[next]]]
  /\ Owe(next, - out[next])
  /\ lost' = [lost EXCEPT ![next] = @ \/ out[next] # 0]
  /\ UNCHANGED <<loading, table, prog, next, raced>>

\* MUTANT of DrainZero: the counter is not set back.
DrainZero_Keeps ==
  /\ dpc = "zero"
  /\ dpc' = "next"
  /\ UNCHANGED <<loading, table, prog, next, out, history>>

\* The update with BPF_EXIST.
DrainZero ==
  /\ dpc = "zero"
  /\ dpc' = "next"
  /\ val' = [val EXCEPT ![spare] = 0]
  /\ entry' = [entry EXCEPT ![next] = spare]
  /\ spare' = entry[next]
  /\ AddHead(next)
  /\ raced' = [u \in Tasks |->
       \/ raced[u]
       \/ u = next /\ \E k \in Tasks : hpc[k] \in {"read", "store"} /\ held[k] = entry[u]]
  /\ Settle
  /\ UNCHANGED <<loading, room, prog, next, out, lost>>

\* The engine has used out, and will come back.
DrainEnds ==
  /\ dpc = "end"
  /\ dpc' = "idle"
  /\ out' = [k \in Tasks |-> 0]
  /\ due' = [k \in Tasks |-> IF raced[k] THEN 0 ELSE due[k] - out[k]]
  /\ UNCHANGED <<loading, table, prog, next, lost, raced>>

HandlerStep(k) == Insert(k) \/ Drop(k) \/ Read(k) \/ Store(k)
DrainStep == Crisis \/ DrainBegins \/ DrainNext \/ DrainSkip \/ DrainLookup \/ DrainZero

TracerNext ==
  \/ Load \/ ForceCycle \/ DrainStep \/ DrainEnds
  \/ \E k \in Tasks : Fault(k) \/ HandlerStep(k)

\* The daemon keeps running cycles, which begin with Load, and ends those it began.
TracerSpec ==
  TracerInit /\ [][TracerNext]_tvars /\ WF_tvars(Load \/ ForceCycle \/ DrainStep \/ DrainEnds)
-----------------------------------------------------------------------------
(* Properties                                                              *)

\* The drain only ever walks the map of an object that is open: an attempt to load
\* that failed half-way leaves g.map pointing into a closed object.
DrainsOpenMap == dpc \in {"next", "lookup", "zero"} => obj = "open" /\ map = "open"

\* What task k's counter holds and the drain has not put into its result.
Pending(k) == Count(k) - (IF dpc = "zero" /\ next = k THEN out[k] ELSE 0)

Running(k) == IF hpc[k] = "idle" THEN 0 ELSE 1

\* drain_faults returns the "deltas" of ebpf.hpp: for a task none of whose faults fell
\* between the drain's read and its reset, or straddled a reset, the faults not yet
\* returned are in the result of this drain, in the counter, or being counted.  The walk
\* can meet a task twice and overwrite its count, but only if it shares its bucket.
FaultsConserved ==
  \A k \in Tasks :
    /\ ~ raced[k] => due[k] = out[k] + Pending(k) + Running(k)
    /\ lost[k] => Neighbours(k) # {}

\* Two tasks of one bucket that both fault again and again: the walk goes back and forth
\* between them and may never end.
Thrashing ==
  \E j, k \in Tasks :
    j < k /\ Bucket[j] = Bucket[k] /\ []<><<Fault(j)>>_tvars /\ []<><<Fault(k)>>_tvars

\* As long as there are drains, because not every cycle is a forced one or one in a crisis,
\* and no two tasks of one bucket fault for ever, what a counter holds gets into a result,
\* whatever tasks of other buckets do, or one task of its own, while the drains walk.
FaultsReported ==
  []<>(dpc = "next") /\ ~ Thrashing =>
    \A k \in Tasks : Pending(k) > 0 ~> (dpc = "zero" /\ next = k)
===============================================================================
