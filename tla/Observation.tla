----------------------------- MODULE Observation -----------------------------
(***************************************************************************)
(* What a cycle of the engine sees of one process: drain_faults, then the  *)
(* sampler, which clears the soft-dirty bits in the first cycle and reads  *)
(* them in the later ones, while the tasks of the process write to its     *)
(* memory.  A task's first write to a page whose bit is clear is a page    *)
(* fault: the tracer's program runs, then the kernel sets the bit, of all  *)
(* of a huge page at once.  What the kernel writes for the process sets    *)
(* bits without the program, which is attached to page_fault_user only.    *)
(* Faults that set no bit, of a read for example, only add to what the     *)
(* tracer counts, and are left out.                                        *)
(***************************************************************************)
EXTENDS Tracer, Sampler

CONSTANTS
  HugeVmas,        \* the mappings that are a huge page
  HugeSize,        \* 512: pages of a huge page, at most
  MaxFaults        \* no task faults once the tracer knows of MaxFaults faults, all in all

ASSUME ObservationAssumption ==
  /\ HugeVmas \subseteq Vmas
  /\ HugeSize \in Nat \ {0}
  /\ \A v \in HugeVmas : Cardinality(Pages(v)) <= HugeSize
  /\ MaxFaults \in Nat

VARIABLES
  at,              \* per task: the page its write has faulted on, 0 if none
  samples,         \* Track::samples > 0
  returned,        \* history: what the drains have returned of every task, in all
  window,          \* history: since the bits were cleared the tracer has been attached and has
                   \* dropped nothing, and nothing was mapped
  already,         \* history: faults counted when they were cleared
  kernel           \* history: pages the kernel has made dirty in the window

ovars == <<tvars, mvars, at, samples, returned, window, already, kernel>>

\* The pages that get dirty with page p.
Unit(p) == {q \in PagesOf(mapped) : q = p \/ \E v \in HugeVmas : {p, q} \subseteq Pages(v)}

\* Every fault of a task that the tracer knows of, returned or not; those of all tasks
\* are counted as pairs of a task and a number.
Known(k) == returned[k] + out[k] + Pending(k) + Running(k)
KnownFaults == Cardinality({f \in Tasks \X (1 .. MaxFaults) : f[2] <= Known(f[1])})

ObservationInit ==
  /\ TracerInit /\ SamplerInit
  /\ at = [k \in Tasks |-> 0]
  /\ samples = FALSE
  /\ returned = [k \in Tasks |-> 0]
  /\ window = FALSE
  /\ already = 0
  /\ kernel = 0

\* A window goes on if w holds, and is forgotten otherwise.
WindowIf(w) ==
  /\ window' = (window /\ w)
  /\ IF window' THEN UNCHANGED <<already, kernel>> ELSE already' = 0 /\ kernel' = 0

\* A write to page p by task k.
Touch(k, p) ==
  /\ at[k] = 0
  /\ p \in PagesOf(mapped) \ dirty
  /\ IF obj = "open"
     THEN Fault(k) /\ KnownFaults < MaxFaults /\ at' = [at EXCEPT ![k] = p] /\ UNCHANGED mvars
     ELSE Dirties(Unit(p)) /\ UNCHANGED <<tvars, at>>
  /\ UNCHANGED <<samples, returned, window, already, kernel>>

\* The program of the tracer goes on; when it returns, the kernel handles the fault.
Traced(k) ==
  /\ HandlerStep(k)
  /\ WindowIf(~ Drop(k))
  /\ at' = IF hpc'[k] = "idle" THEN [at EXCEPT ![k] = 0] ELSE at
  /\ IF hpc'[k] = "idle" /\ at[k] \in PagesOf(mapped)
     THEN Dirties(Unit(at[k])) ELSE UNCHANGED mvars
  /\ UNCHANGED <<samples, returned>>

\* The kernel writes to page p, into a buffer of a read for example.
KernelWrite(p) ==
  /\ p \in PagesOf(mapped) \ dirty
  /\ Dirties(Unit(p))
  /\ kernel' = IF window THEN kernel + Cardinality(Unit(p) \ dirty) ELSE kernel
  /\ UNCHANGED <<tvars, at, samples, returned, window, already>>

\* The process changes its mappings.
Remaps ==
  /\ (\E v \in Vmas : Mmap(v) \/ Munmap(v)) \/ Exec \/ Exit
  /\ WindowIf(mapped' \subseteq mapped /\ mm' = mm)
  /\ UNCHANGED <<tvars, at, samples, returned>>

\* The engine: one call after the other.
Observing ==
  /\ Load \/ ForceCycle \/ DrainStep
  /\ UNCHANGED <<mvars, at, samples, returned, window, already, kernel>>

\* compute_scores: the first sample clears, the others count.
SampleBegins ==
  /\ dpc = "end" /\ spc = "idle"
  /\ spc' = IF samples THEN "open" ELSE "clear"
  /\ samples' = TRUE
  /\ UNCHANGED <<tvars, space, pinned, vmas, off, touched, total, stays, at, returned, window,
                 already, kernel>>

\* The process was not seen by the scan, or is too small to be sampled.
SampleSkipped ==
  /\ dpc = "end" /\ spc = "idle"
  /\ spc' = "end"
  /\ UNCHANGED <<tvars, space, pinned, vmas, off, touched, total, stays, at, samples, returned,
                 window, already, kernel>>

Sampling ==
  /\ SamplerStep
  /\ window' = IF spc = "clear" THEN obj = "open" ELSE window
  /\ already' = IF spc = "clear" /\ obj = "open"
                THEN KnownFaults - Cardinality({k \in Tasks : at[k] # 0}) ELSE already
  /\ kernel' = IF spc = "clear" THEN 0 ELSE kernel
  /\ UNCHANGED <<tvars, at, samples, returned>>

CycleEnds ==
  /\ DrainEnds
  /\ spc = "end" /\ spc' = "idle"
  /\ returned' = [k \in Tasks |-> returned[k] + out[k]]
  /\ UNCHANGED <<space, pinned, vmas, off, touched, total, stays, at, samples, window,
                 already, kernel>>

EngineStep == Observing \/ SampleBegins \/ SampleSkipped \/ Sampling \/ CycleEnds

ObservationNext ==
  \/ EngineStep
  \/ Remaps
  \/ \E p \in PagesOf(Vmas) : KernelWrite(p)
  \/ \E k \in Tasks : Traced(k) \/ \E p \in PagesOf(Vmas) : Touch(k, p)

\* The daemon keeps running cycles; nothing is assumed of the process.
ObservationSpec == ObservationInit /\ [][ObservationNext]_ovars /\ WF_ovars(EngineStep)
-----------------------------------------------------------------------------
(* Properties                                                              *)

\* The two observers agree: once the bits have been cleared under an attached tracer, the
\* sampler finds no more pages touched than a huge page for every fault that the drains
\* have returned or the tracer still holds since, and those the kernel has written to;
\* unless a fault met a reset, was overwritten or dropped, or something was mapped.
ObserversAgree ==
  spc = "close" /\ window /\ (\A k \in Tasks : ~ raced[k] /\ ~ lost[k]) =>
    touched <= HugeSize * (KnownFaults - already) + kernel

\* Every sample comes to its end: neither a process that keeps faulting, mapping and
\* unmapping nor one that vanishes holds up the walk over its pages.
SamplesEnd == spc \notin {"idle", "end"} ~> spc = "end"
===============================================================================
