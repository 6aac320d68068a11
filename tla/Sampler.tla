------------------------------- MODULE Sampler -------------------------------
(***************************************************************************)
(* The working-set sampler: clear_soft_dirty, and sample_working_set, a    *)
(* walk over another process's memory in system calls between which the    *)
(* process runs, maps and unmaps, executes another program or exits.  The  *)
(* file opened first stays with the address space of that moment; the list *)
(* of mappings, read by pid, is that of whoever has the pid by then.       *)
(*                                                                         *)
(* Pages are numbered; nobody maps page 0.  A mapping is a record of Vmas; *)
(* the kernel reports every page of a new mapping as soft-dirty.           *)
(***************************************************************************)
EXTENDS Integers, FiniteSets

CONSTANTS
  Vmas,            \* [lo, hi, anon]: mappings a process may have, in order of address
  Chunk,           \* 4096: entries read at once
  MaxMm            \* address spaces the pid has in all

ASSUME SamplerAssumption ==
  /\ IsFiniteSet(Vmas)
  /\ \A v \in Vmas : v.lo \in Nat \ {0} /\ v.hi \in Nat /\ v.lo <= v.hi /\ v.anon \in BOOLEAN
  /\ \A v, w \in Vmas : v # w => v.hi < w.lo \/ w.hi < v.lo
  /\ Chunk \in Nat \ {0}
  /\ MaxMm \in Nat \ {0}

VARIABLES
  mm,              \* the address space of the pid, 0 if nobody has it
  born,            \* address spaces there have been
  mapped,          \* its mappings
  dirty,           \* its soft-dirty pages
  spc,             \* where the sampler is
  pinned,          \* the address space of fd
  vmas,            \* the mappings still to be counted: the rest of read_maps' list, which
                   \* is in order of address
  off,             \* the next page of the first of them
  touched, total,
  stays            \* history: pages soft-dirty and mapped since the walk began

space == <<mm, born, mapped, dirty>>
walk == <<spc, pinned, vmas, off, touched, total>>
mvars == <<space, walk, stays>>

Pages(v) == v.lo .. v.hi
PagesOf(S) == UNION {Pages(v) : v \in S}
First(S) == CHOOSE v \in S : \A w \in S : v.lo <= w.lo

SamplerInit ==
  /\ mm = 1 /\ born = 1
  /\ mapped = Vmas /\ dirty = PagesOf(Vmas)
  /\ spc = "idle" /\ pinned = 0 /\ vmas = {} /\ off = 0 /\ touched = 0 /\ total = 0
  /\ stays = {}
-----------------------------------------------------------------------------
(* The process.                                                            *)

\* Pages are written to.
Dirties(S) ==
  /\ S \subseteq PagesOf(mapped)
  /\ dirty' = dirty \cup S
  /\ UNCHANGED <<mm, born, mapped, walk, stays>>

Mmap(v) ==
  /\ mm # 0
  /\ v \in Vmas \ mapped
  /\ mapped' = mapped \cup {v}
  /\ dirty' = dirty \cup Pages(v)
  /\ UNCHANGED <<mm, born, walk, stays>>

Munmap(v) ==
  /\ v \in mapped
  /\ mapped' = mapped \ {v}
  /\ dirty' = dirty \ Pages(v)
  /\ stays' = stays \ Pages(v)
  /\ UNCHANGED <<mm, born, walk>>

\* The pid gets another address space: exec, or exit and a new process.
Exec ==
  /\ born < MaxMm
  /\ born' = born + 1
  /\ mm' = born'
  /\ mapped' = Vmas
  /\ dirty' = PagesOf(Vmas)
  /\ UNCHANGED <<walk, stays>>

Exit ==
  /\ mm # 0
  /\ mm' = 0 /\ mapped' = {} /\ dirty' = {}
  /\ UNCHANGED <<born, walk, stays>>
-----------------------------------------------------------------------------
(* The sampler.                                                            *)

\* MUTANT of clear_soft_dirty: another number is written, which clears other bits.
clear_soft_dirty_WrongBits ==
  /\ spc = "clear"
  /\ spc' = "end"
  /\ UNCHANGED <<space, pinned, vmas, off, touched, total, stays>>

\* A write to clear_refs, for the first sample of a process.
clear_soft_dirty ==
  /\ spc = "clear"
  /\ spc' = "end"
  /\ dirty' = {}
  /\ UNCHANGED <<mm, born, mapped, pinned, vmas, off, touched, total, stays>>

\* open of pagemap: sample_working_set begins, or ends without a result.
OpenPagemap ==
  /\ spc = "open"
  /\ spc' = IF mm = 0 THEN "end" ELSE "maps"
  /\ pinned' = mm
  /\ touched' = 0 /\ total' = 0
  /\ stays' = dirty
  /\ UNCHANGED <<space, vmas, off>>

\* read_maps, and the choice of the mappings that are private, anonymous and readable.
Counted(S) == {v \in S : v.anon}

\* The walk goes to the first mapping of S.
Enter(S) ==
  /\ vmas' = S
  /\ spc' = IF S = {} THEN "close" ELSE "pread"
  /\ off' = IF S = {} THEN 0 ELSE First(S).lo
  /\ total' = total + (IF S = {} THEN 0 ELSE Cardinality(Pages(First(S))))

Rest == vmas \ {First(vmas)}

read_maps ==
  /\ spc = "maps"
  /\ Enter(Counted(mapped))
  /\ UNCHANGED <<space, pinned, touched, stays>>

\* MUTANTS of Advance: a short read counts as a full one; a read counts as one entry.
Advance_Want(n) == off + Chunk
Advance_One(n) == off + 1

\* off += got
Advance(n) == off + n

\* A read of n entries from the address space opened.
Pread ==
  /\ spc = "pread"
  /\ pinned = mm
  /\ \E n \in 1 .. Chunk :
       /\ off + n - 1 <= First(vmas).hi
       /\ touched' = touched + Cardinality(dirty \cap (off .. off + n - 1))
       /\ IF Advance(n) > First(vmas).hi
          THEN Enter(Rest)
          ELSE off' = Advance(n) /\ UNCHANGED <<vmas, total, spc>>
  /\ UNCHANGED <<space, pinned, stays>>

\* MUTANT of PreadFails: the read is tried again.
PreadFails_Retries ==
  /\ spc = "pread"
  /\ pinned # mm
  /\ UNCHANGED mvars

\* Nothing can be read any more: the rest of the mapping counts as not touched.
PreadFails ==
  /\ spc = "pread"
  /\ pinned # mm
  /\ Enter(Rest)
  /\ UNCHANGED <<space, pinned, touched, stays>>

\* The sample is complete; ok is set whatever happened.
Close ==
  /\ spc = "close"
  /\ spc' = "end"
  /\ pinned' = 0 /\ touched' = 0 /\ total' = 0 /\ stays' = {}
  /\ UNCHANGED <<space, vmas, off>>

SamplerStep == clear_soft_dirty \/ OpenPagemap \/ read_maps \/ Pread \/ PreadFails \/ Close
-----------------------------------------------------------------------------
(* Properties                                                              *)

\* ws_ratio is a ratio: no interleaving of the walk with a process that maps and
\* unmaps counts more touched pages than pages.
TouchedWithinTotal == touched <= total

\* A process is not taken for colder than it is: if the walk met one address space from
\* its beginning to its end, every page that was soft-dirty when it began and stayed
\* mapped is in touched, whatever was mapped, unmapped or read in pieces meanwhile.
NoFalseCold ==
  spc = "close" /\ pinned = mm =>
    touched >= Cardinality(stays \cap PagesOf(Counted(Vmas)))
===============================================================================
