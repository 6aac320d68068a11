-------------------------------- MODULE Engine --------------------------------
(***************************************************************************)
(* memfluxd's engine: one cycle scans /proc, checks the crisis guard,      *)
(* drains the fault counters, scores the processes and, under pressure,    *)
(* pages the best candidates out.  The engine is sequential; the system it *)
(* observes is not.  Processes start, exit and have their pid reused, they *)
(* touch memory, and the pressure changes between any two of its steps.    *)
(*                                                                         *)
(* Abstractions.  A working set is cold (no page touched) or hot (at least *)
(* a quarter of the pages, where the score reaches 0).  A process's sizes  *)
(* and the factor its swap and its cgroup give its score are a profile it  *)
(* keeps for life.  Pressure readings are levels between the thresholds    *)
(* the code compares them with.                                            *)
(***************************************************************************)
EXTENDS Integers, FiniteSets

CONSTANTS
  Pids,
  Profiles,            \* [rss, vsz, factor]: what a process may look like
  Systems,             \* [ok, some, full, avail]: readings of PSI and meminfo
  MinReclaimable,      \* min_reclaimable_mb
  MinScore,            \* min_score
  MaxTargets,          \* max_targets
  Cap,                 \* max_reclaim_mb_per_cycle << 10
  MinWant,             \* 64u << 10
  Gains,               \* what act_on may return when it succeeds
  WordMod,             \* modulus of uint64_t
  Cooldown,            \* 5
  ThrashCooldown,      \* 20
  Damon,               \* enable_damon, on a kernel that has damon_reclaim
  CgroupOn,            \* enable_cgroup_reclaim, on a kernel that has memory.reclaim
  DryRun,              \* dry_run
  Steady               \* bound: pids whose process, once there, stays and is idle

ASSUME EngineAssumption ==
  /\ Profiles # {}
  /\ \A f \in Profiles : f.rss \in Nat /\ f.vsz \in Nat /\ f.factor \in Nat
  /\ MinReclaimable \in Nat
  /\ MinScore \in Nat \ {0}
  /\ MaxTargets \in Nat
  /\ Cap \in Nat
  /\ MinWant \in Nat
  /\ Gains \subseteq Nat \ {0}
  /\ WordMod \in Nat \ {0}
  /\ Cooldown \in Nat
  /\ ThrashCooldown \in Nat
  /\ Damon \in BOOLEAN
  /\ CgroupOn \in BOOLEAN
  /\ DryRun \in BOOLEAN

VARIABLES
  alive,      \* a process has the pid
  prof,       \* its profile
  dirty,      \* its soft-dirty bits: has it touched memory since they were cleared
  faulted,    \* it has faulted more than 20000 times since the last drain
  sys,        \* the pressure, as PSI and meminfo would report it now
  pc,         \* where the engine is in its cycle
  damon_on_,
  tracked_,   \* Track of every pid: cooldown, and whether samples > 0
  snapshot_,  \* what the scan and the sampling found, for the pids scanned
  cands,      \* candidates not yet tried
  acted,      \* targets of this cycle
  total,      \* reclaimed_total
  asked,      \* what this cycle has written to memory.reclaim
  owed        \* history: cycles the process is still promised to be left alone

procs == <<alive, prof, dirty, faulted>>
cycle == <<cands, acted, total, asked>>
evars == <<procs, sys, pc, damon_on_, tracked_, snapshot_, cycle, owed>>

\* ws is ws_ratio: "hot" stands for 1.0, its initial value.
Scanned(p) == [anon |-> prof[p].rss, factor |-> prof[p].factor,
               ws |-> "hot", score |-> 0]

EngineInit ==
  /\ alive = [p \in Pids |-> FALSE]
  /\ prof = [p \in Pids |-> CHOOSE f \in Profiles : TRUE]
  /\ dirty = [p \in Pids |-> TRUE]
  /\ faulted = [p \in Pids |-> FALSE]
  /\ sys \in Systems
  /\ pc = "idle"
  /\ damon_on_ = FALSE
  /\ tracked_ = [p \in Pids |-> [cooldown |-> 0, sampled |-> FALSE]]
  /\ snapshot_ = << >>
  /\ cands = {}
  /\ acted = 0
  /\ total = 0
  /\ asked = 0
  /\ owed = [p \in Pids |-> 0]
-----------------------------------------------------------------------------
(* The system.                                                             *)

\* A new process, on a pid that another one may have had before.
Spawn(p) ==
  /\ ~ alive[p]
  /\ alive' = [alive EXCEPT ![p] = TRUE]
  /\ \E f \in Profiles : prof' = [prof EXCEPT ![p] = f]
  /\ dirty' = [dirty EXCEPT ![p] = TRUE]
  /\ UNCHANGED <<faulted, sys, pc, damon_on_, tracked_, snapshot_, cycle, owed>>

Exit(p) ==
  /\ alive[p] /\ p \notin Steady
  /\ alive' = [alive EXCEPT ![p] = FALSE]
  /\ owed' = [owed EXCEPT ![p] = 0]
  /\ UNCHANGED <<prof, dirty, faulted, sys, pc, damon_on_, tracked_, snapshot_, cycle>>

Touch(p) ==
  /\ alive[p] /\ p \notin Steady
  /\ dirty' = [dirty EXCEPT ![p] = TRUE]
  /\ UNCHANGED <<alive, prof, faulted, sys, pc, damon_on_, tracked_, snapshot_, cycle, owed>>

Fault(p) ==
  /\ alive[p] /\ p \notin Steady
  /\ faulted' = [faulted EXCEPT ![p] = TRUE]
  /\ UNCHANGED <<alive, prof, dirty, sys, pc, damon_on_, tracked_, snapshot_, cycle, owed>>

SysChange ==
  /\ sys' \in Systems
  /\ UNCHANGED <<procs, pc, damon_on_, tracked_, snapshot_, cycle, owed>>
-----------------------------------------------------------------------------
(* The cycle.                                                              *)

Alive == {p \in Pids : alive[p]}

\* scan_processes, and the start of the DAMON backend if it is wanted.
Scan(force) ==
  /\ pc = "idle"
  /\ pc' = IF force THEN "score" ELSE "guard"
  /\ snapshot_' = [p \in Alive |-> Scanned(p)]
  /\ damon_on_' \in IF Damon /\ ~ damon_on_ THEN BOOLEAN ELSE {damon_on_}
  /\ cands' = {} /\ acted' = 0 /\ total' = 0 /\ asked' = 0
  /\ owed' = [p \in Pids |-> IF owed[p] > 0 THEN owed[p] - 1 ELSE 0]
  /\ UNCHANGED <<procs, sys, tracked_>>

run_cycle == Scan(FALSE)
force_cycle == Scan(TRUE)

\* avail is MemAvailable: "ok", "tight" (< 15 %), "low" (< 10 %), "critical"
\* (< 5 %) or "zero".  A zero reading is taken for a missing one.
Crisis(s) == (s.ok /\ s.full) \/ s.avail = "critical"

\* some is PSI's some_avg10: 0, 1 (psi_low), 2 (psi_threshold), 3 (1.5 times it).
Pressure(s) ==
  \/ s.ok /\ s.some >= 2
  \/ s.avail = "low"
  \/ s.avail = "tight" /\ s.some >= 1

\* The crisis guard ends the cycle.
Guard ==
  /\ pc = "guard"
  /\ Crisis(sys)
  /\ pc' = "idle"
  /\ UNCHANGED <<procs, sys, damon_on_, tracked_, snapshot_, cycle, owed>>

\* The thrash guard.
Thrashing(p) == faulted[p] /\ tracked_[p].cooldown > 0

\* MUTANT of LongCooldown: the longer of the two cooldowns is lost.
LongCooldown_Shorter(n) == IF n < ThrashCooldown THEN n ELSE ThrashCooldown

LongCooldown(n) == IF n > ThrashCooldown THEN n ELSE ThrashCooldown

\* No crisis: drain_faults, then scoring.  The pressure is the one just read.
Drain ==
  /\ pc = "guard"
  /\ ~ Crisis(sys)
  /\ pc' = IF Pressure(sys) \/ DryRun THEN "score" ELSE "observe"
  /\ tracked_' = [p \in Pids |->
       IF Thrashing(p)
       THEN [tracked_[p] EXCEPT !.cooldown = LongCooldown(@)]
       ELSE tracked_[p]]
  /\ owed' = [p \in Pids |->
       IF Thrashing(p) /\ owed[p] > 0 /\ owed[p] < ThrashCooldown THEN ThrashCooldown ELSE owed[p]]
  /\ faulted' = [p \in Pids |-> FALSE]
  /\ UNCHANGED <<alive, prof, dirty, sys, damon_on_, snapshot_, cycle>>

\* The pagemap sampler looks at this process.
Sampled(p) == ~ damon_on_ /\ 2 * snapshot_[p].anon > MinReclaimable

\* Its second and later samples, if it is still there to be read.
Measured(p) == Sampled(p) /\ tracked_[p].sampled /\ alive[p]

\* What compute_scores leaves in the snapshot.
Scored(p) ==
  LET anon == IF Measured(p) /\ prof[p].vsz > snapshot_[p].anon
              THEN prof[p].vsz ELSE snapshot_[p].anon
      ws == IF Measured(p) /\ ~ dirty[p] THEN "cold" ELSE "hot"
  IN  [snapshot_[p] EXCEPT
         !.anon = anon,
         !.ws = ws,
         !.score = IF ws = "cold" /\ tracked_[p].cooldown = 0 THEN anon * snapshot_[p].factor ELSE 0]

\* MUTANTS of CoolDown: the test for 0 is lost; the decrement is.
CoolDown_BelowZero(n) == n - 1
CoolDown_Never(n) == n

\* One cycle less to wait.
CoolDown(n) == IF n > 0 THEN n - 1 ELSE 0

\* MUTANT of Eligible: the score is not looked at.
Eligible_AnyScore(s) == s.anon >= MinReclaimable

\* The candidates run_actions keeps.
Eligible(s) == s.score >= MinScore /\ s.anon >= MinReclaimable

\* compute_scores, and run_actions' choice of candidates.
Score ==
  /\ pc \in {"score", "observe"}
  /\ pc' = IF pc = "score" THEN "act" ELSE "idle"
  /\ LET S == DOMAIN snapshot_
         first == {p \in S : Sampled(p) /\ ~ tracked_[p].sampled}
     IN
     /\ dirty' = [p \in Pids |-> dirty[p] /\ ~ (p \in first /\ alive[p])]
     /\ tracked_' = [p \in Pids |->
          IF p \in S
          THEN [cooldown |-> CoolDown(tracked_[p].cooldown),
                sampled  |-> tracked_[p].sampled \/ Sampled(p)]
          ELSE tracked_[p]]
     /\ snapshot_' = [p \in S |-> Scored(p)]
     /\ cands' = IF pc = "score" THEN {p \in S : Eligible(Scored(p))} ELSE {}
  /\ UNCHANGED <<alive, prof, faulted, sys, damon_on_, acted, total, asked, owed>>

\* The loop over the candidates goes on.
MoreTargets == cands # {} /\ acted < MaxTargets /\ total < Cap

\* The candidates that std::sort may put first.
Best == {p \in cands : \A q \in cands : snapshot_[q].score <= snapshot_[p].score}

\* pidfd_open fails: the process is gone.
ActOnDead(p) ==
  /\ pc = "act"
  /\ MoreTargets
  /\ p \in Best
  /\ ~ alive[p]
  /\ cands' = cands \ {p}
  /\ UNCHANGED <<procs, sys, pc, damon_on_, tracked_, snapshot_, acted, total, asked, owed>>

\* act_on obtains something from the process that has the pid now: what heap_trim
\* paged out or, if that is nothing (dry_run, say), what the process freed by itself.
ActOn(p, got) ==
  /\ pc = "act"
  /\ MoreTargets
  /\ p \in Best
  /\ alive[p]
  /\ cands' = cands \ {p}
  /\ total' = (total + got) % WordMod
  /\ acted' = acted + 1
  /\ tracked_' = [tracked_ EXCEPT ![p].cooldown = Cooldown]
  /\ owed' = [owed EXCEPT ![p] = Cooldown + 1]
  /\ UNCHANGED <<procs, sys, pc, damon_on_, snapshot_, asked>>

\* act_on obtains nothing: no cooldown, and the target does not count.
ActInVain(p) ==
  /\ pc = "act"
  /\ MoreTargets
  /\ p \in Best
  /\ alive[p]
  /\ cands' = cands \ {p}
  /\ UNCHANGED <<procs, sys, pc, damon_on_, tracked_, snapshot_, acted, total, asked, owed>>

\* memory.reclaim, after a second reading of PSI, with what is left of the budget.
CgroupReclaim ==
  LET want == (Cap - total) % WordMod IN
  /\ pc = "act"
  /\ ~ MoreTargets
  /\ pc' = "idle"
  /\ asked' = IF CgroupOn /\ sys.ok /\ sys.some >= 3 /\ want > MinWant THEN want ELSE 0
  /\ UNCHANGED <<procs, sys, damon_on_, tracked_, snapshot_, cands, acted, total, owed>>

Env ==
  \/ \E p \in Pids : Spawn(p) \/ Exit(p) \/ Touch(p) \/ Fault(p)
  \/ SysChange

CycleStep ==
  \/ Guard \/ Drain \/ Score
  \/ \E p \in cands : ActOnDead(p) \/ ActInVain(p) \/ \E got \in Gains : ActOn(p, got)
  \/ CgroupReclaim

EngineNext == Env \/ run_cycle \/ force_cycle \/ CycleStep

EngineSpec == EngineInit /\ [][EngineNext]_evars

\* The daemon's loop keeps running cycles, and every cycle ends.
FairEngineSpec ==
  EngineSpec /\ WF_evars(run_cycle \/ force_cycle) /\ WF_evars(CycleStep)
-----------------------------------------------------------------------------
(* Properties                                                              *)

\* Types of the engine's state: no cooldown falls below 0, every candidate is in
\* the snapshot it points into, and the sums stay within uint64_t.
EngineTypeOK ==
  /\ alive \in [Pids -> BOOLEAN]
  /\ prof \in [Pids -> Profiles]
  /\ dirty \in [Pids -> BOOLEAN]
  /\ faulted \in [Pids -> BOOLEAN]
  /\ sys \in Systems
  /\ pc \in {"idle", "guard", "score", "observe", "act"}
  /\ damon_on_ \in BOOLEAN
  /\ tracked_ \in [Pids -> [cooldown : Nat, sampled : BOOLEAN]]
  /\ DOMAIN snapshot_ \subseteq Pids
  /\ \A p \in DOMAIN snapshot_ :
       snapshot_[p] \in [anon : Nat, factor : Nat, ws : {"cold", "hot"}, score : Nat]
  /\ cands \subseteq DOMAIN snapshot_
  /\ acted \in Nat
  /\ total \in 0 .. WordMod - 1
  /\ asked \in 0 .. WordMod - 1
  /\ owed \in [Pids -> Nat]

\* Reclaiming from process p, in this step.
Reclaims(p) == pc = "act" /\ acted' # acted /\ p \in cands \ cands'

\* After a pageout a process is left alone for Cooldown cycles, and after one that
\* made it thrash for ThrashCooldown, whichever mixture of normal, forced and
\* crisis cycles follows and whatever else happens to the pid.
NoEarlyReclaim == [][\A p \in Pids : Reclaims(p) => owed[p] = 0]_evars

\* The cooldown of a process never runs out before the promise does.
CooldownCoversPromise ==
  \A p \in Pids :
    owed[p] > 0 =>
      \/ tracked_[p].cooldown >= owed[p]
      \/ pc \in {"act", "idle"} /\ tracked_[p].cooldown >= owed[p] - 1

\* The system is under pressure and not in crisis.
Pressed(s) == Pressure(s) /\ ~ Crisis(s)

\* What process p scores once its pages have been found clean.
Weight(p) == (IF prof[p].vsz > prof[p].rss THEN prof[p].vsz ELSE prof[p].rss) * prof[p].factor

\* Process p stays large and cold, and the system stays under pressure.
Wanted(p) ==
  /\ alive[p]
  /\ 2 * prof[p].rss > MinReclaimable
  /\ prof[p].rss >= MinReclaimable \/ prof[p].vsz >= MinReclaimable
  /\ Weight(p) >= MinScore
  /\ ~ faulted[p]
  /\ ~ dirty[p]
  /\ Pressed(sys)

\* The candidates that may be taken before p in this cycle.
Ahead(p) ==
  {q \in cands \ {p} : p \in cands /\ snapshot_[q].score >= snapshot_[p].score}

\* Process p's turn comes, in this step.
Tries(p) == pc = "act" /\ p \in cands \ cands'

\* The processes a cycle can reclaim from before max_targets or the cap ends it.
Slots ==
  CHOOSE n \in 0 .. MaxTargets :
    /\ n = MaxTargets \/ \E g \in Gains : n * g >= Cap
    /\ \A m \in 0 .. n - 1 : \A g \in Gains : m * g < Cap

\* Under lasting pressure, a large process whose pages stay clean has its turn
\* again and again if fewer than Slots * (Cooldown + 1) others ever come before
\* it: that many targets pass before the first of them is a candidate again.
\* Nothing is promised to a process with more rivals: they take every slot.
ColdProcessReclaimed ==
  \A p \in Pids : \A R \in SUBSET (Pids \ {p}) :
    Cardinality(R) < Slots * (Cooldown + 1) =>
      (<>[](Wanted(p) /\ Ahead(p) \subseteq R) => []<><<Tries(p)>>_evars)
===============================================================================
