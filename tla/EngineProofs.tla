----------------------------- MODULE EngineProofs -----------------------------
(***************************************************************************)
(* Proofs about the engine: for any processes, any profiles and readings,  *)
(* any thresholds and any two cooldowns, a process that has been paged out *)
(* is left alone as long as it was promised.                               *)
(***************************************************************************)
EXTENDS Engine, TLAPS

\* A process still waiting to be tried in this cycle is owed nothing.
CandidatesFree == pc = "act" => \A p \in cands : owed[p] = 0

\* The inductive invariant.  CooldownCoversPromise speaks of the counter the scoring
\* reads; CandidatesFree carries what the scoring found over to the steps that act on it.
EngineIInv == EngineTypeOK /\ CooldownCoversPromise /\ CandidatesFree
-------------------------------------------------------------------------------
(* Arithmetic of uint64_t.                                                 *)

\* A remainder fits the word, whatever the sign of what was reduced.
LEMMA WordFits ==
  ASSUME NEW x \in Int, NEW m \in Nat \ {0}
  PROVE  x % m \in 0 .. m - 1
  OBVIOUS

LEMMA EngineInitIInv == EngineInit => EngineIInv
  <1> SUFFICES ASSUME EngineInit PROVE EngineIInv
    OBVIOUS
  <1>1. prof \in [Pids -> Profiles]
    <2>1. (CHOOSE f \in Profiles : TRUE) \in Profiles
      BY EngineAssumption DEF EngineAssumption
    <2> QED
      BY <2>1 DEF EngineInit
  <1>2. DOMAIN snapshot_ = {}
    BY DEF EngineInit
  <1>3. total \in 0 .. WordMod - 1 /\ asked \in 0 .. WordMod - 1 /\ acted \in Nat
    BY EngineAssumption DEF EngineAssumption, EngineInit
  <1>4. tracked_ \in [Pids -> [cooldown : Nat, sampled : BOOLEAN]]
    BY DEF EngineInit
  <1>5. EngineTypeOK
    BY <1>1, <1>2, <1>3, <1>4 DEF EngineInit, EngineTypeOK
  <1>6. CooldownCoversPromise /\ CandidatesFree
    BY DEF EngineInit, CooldownCoversPromise, CandidatesFree
  <1> QED
    BY <1>5, <1>6 DEF EngineIInv

\* The system around the engine changes no cooldown and takes promises only back.
LEMMA EnvIInv == EngineIInv /\ Env => EngineIInv'
  <1> SUFFICES ASSUME EngineIInv, Env PROVE EngineIInv'
    OBVIOUS
  <1> USE DEF EngineIInv, procs, cycle
  <1>1. ASSUME NEW p \in Pids, Spawn(p) PROVE EngineIInv'
    <2>1. EngineTypeOK'
      BY <1>1 DEF Spawn, EngineTypeOK
    <2>2. CooldownCoversPromise' /\ CandidatesFree'
      BY <1>1 DEF Spawn, CooldownCoversPromise, CandidatesFree
    <2> QED
      BY <2>1, <2>2
  <1>2. ASSUME NEW p \in Pids, Exit(p) PROVE EngineIInv'
    <2>1. EngineTypeOK'
      BY <1>2 DEF Exit, EngineTypeOK
    <2>2. CooldownCoversPromise'
      BY <1>2 DEF Exit, CooldownCoversPromise, EngineTypeOK
    <2>3. CandidatesFree'
      BY <1>2 DEF Exit, CandidatesFree, EngineTypeOK
    <2> QED
      BY <2>1, <2>2, <2>3
  <1>3. ASSUME NEW p \in Pids, Touch(p) PROVE EngineIInv'
    <2>1. EngineTypeOK'
      BY <1>3 DEF Touch, EngineTypeOK
    <2>2. CooldownCoversPromise' /\ CandidatesFree'
      BY <1>3 DEF Touch, CooldownCoversPromise, CandidatesFree
    <2> QED
      BY <2>1, <2>2
  <1>4. ASSUME NEW p \in Pids, Fault(p) PROVE EngineIInv'
    <2>1. EngineTypeOK'
      BY <1>4 DEF Fault, EngineTypeOK
    <2>2. CooldownCoversPromise' /\ CandidatesFree'
      BY <1>4 DEF Fault, CooldownCoversPromise, CandidatesFree
    <2> QED
      BY <2>1, <2>2
  <1>5. ASSUME SysChange PROVE EngineIInv'
    BY <1>5 DEF SysChange, EngineTypeOK, CooldownCoversPromise, CandidatesFree
  <1> QED
    BY <1>1, <1>2, <1>3, <1>4, <1>5 DEF Env

\* A new cycle: the promise gets one shorter before the counter does.
LEMMA ScanIInv == ASSUME EngineIInv, NEW force \in BOOLEAN, Scan(force) PROVE EngineIInv'
  <1> USE DEF EngineIInv, procs
  <1>1. EngineTypeOK'
    <2>1. /\ DOMAIN snapshot_' \subseteq Pids
          /\ \A p \in DOMAIN snapshot_' :
               snapshot_'[p] \in [anon : Nat, factor : Nat, ws : {"cold", "hot"}, score : Nat]
      BY EngineAssumption DEF EngineAssumption, Scan, Scanned, Alive, EngineTypeOK
    <2>2. total' \in 0 .. WordMod - 1 /\ asked' \in 0 .. WordMod - 1 /\ acted' \in Nat
      BY EngineAssumption DEF EngineAssumption, Scan
    <2>3. owed' \in [Pids -> Nat] /\ damon_on_' \in BOOLEAN
      BY DEF Scan, EngineTypeOK
    <2>4. cands' \subseteq DOMAIN snapshot_' /\ pc' \in {"idle", "guard", "score", "observe", "act"}
      BY DEF Scan
    <2> QED
      BY <2>1, <2>2, <2>3, <2>4 DEF Scan, EngineTypeOK
  <1>2. CooldownCoversPromise'
    BY DEF Scan, CooldownCoversPromise, EngineTypeOK
  <1>3. CandidatesFree'
    BY DEF Scan, CandidatesFree
  <1> QED
    BY <1>1, <1>2, <1>3

LEMMA GuardIInv == EngineIInv /\ Guard => EngineIInv'
  BY DEF EngineIInv, Guard, EngineTypeOK, CooldownCoversPromise, CandidatesFree, procs, cycle

\* The thrash guard lengthens the counter and the promise alike.
LEMMA DrainIInv == EngineIInv /\ Drain => EngineIInv'
  <1> SUFFICES ASSUME EngineIInv, Drain PROVE EngineIInv'
    OBVIOUS
  <1> USE EngineAssumption DEF EngineAssumption, EngineIInv, cycle
  <1>1. tracked_' \in [Pids -> [cooldown : Nat, sampled : BOOLEAN]]
    BY DEF Drain, LongCooldown, EngineTypeOK
  <1>2. owed' \in [Pids -> Nat]
    BY DEF Drain, EngineTypeOK
  <1>3. EngineTypeOK'
    BY <1>1, <1>2 DEF Drain, EngineTypeOK
  <1>4. CooldownCoversPromise'
    BY DEF Drain, LongCooldown, Thrashing, CooldownCoversPromise, EngineTypeOK
  <1>5. CandidatesFree'
    BY DEF Drain, CandidatesFree
  <1> QED
    BY <1>3, <1>4, <1>5

\* A score above the limit means that the counter had run out, and the promise with it.
LEMMA ScoreIInv == EngineIInv /\ Score => EngineIInv'
  <1> SUFFICES ASSUME EngineIInv, Score PROVE EngineIInv'
    OBVIOUS
  <1> USE EngineAssumption DEF EngineAssumption, EngineIInv
  <1>1. ASSUME NEW p \in DOMAIN snapshot_
        PROVE  /\ Scored(p) \in [anon : Nat, factor : Nat, ws : {"cold", "hot"}, score : Nat]
               /\ tracked_[p].cooldown > 0 => Scored(p).score = 0
    <2>1. /\ p \in Pids
          /\ snapshot_[p] \in [anon : Nat, factor : Nat, ws : {"cold", "hot"}, score : Nat]
          /\ tracked_[p].cooldown \in Nat
          /\ prof[p].vsz \in Nat
      BY DEF EngineTypeOK
    <2> DEFINE anon == IF Measured(p) /\ prof[p].vsz > snapshot_[p].anon
                       THEN prof[p].vsz ELSE snapshot_[p].anon
               ws == IF Measured(p) /\ ~ dirty[p] THEN "cold" ELSE "hot"
               score == IF ws = "cold" /\ tracked_[p].cooldown = 0
                        THEN anon * snapshot_[p].factor ELSE 0
    <2>2. anon \in Nat /\ ws \in {"cold", "hot"}
      BY <2>1
    <2>3. score \in Nat /\ (tracked_[p].cooldown > 0 => score = 0)
      <3> HIDE DEF anon, ws
      <3> QED BY <2>1, <2>2
    <2>4. Scored(p) = [snapshot_[p] EXCEPT !.anon = anon, !.ws = ws, !.score = score]
      BY DEF Scored
    <2> HIDE DEF anon, ws, score
    <2> QED
      BY <2>1, <2>2, <2>3, <2>4
  <1>2. /\ DOMAIN snapshot_' = DOMAIN snapshot_
        /\ \A p \in DOMAIN snapshot_ : snapshot_'[p] = Scored(p)
        /\ \A p \in cands' : pc = "score" /\ p \in DOMAIN snapshot_ /\ Eligible(Scored(p))
    BY DEF Score
  <1>3. tracked_' \in [Pids -> [cooldown : Nat, sampled : BOOLEAN]]
    BY DEF Score, CoolDown, Sampled, EngineTypeOK
  <1>4. EngineTypeOK'
    <2>1. dirty' \in [Pids -> BOOLEAN]
      BY DEF Score, EngineTypeOK
    <2> QED
      BY <1>1, <1>2, <1>3, <2>1 DEF Score, EngineTypeOK
  <1>5. CooldownCoversPromise'
    BY DEF Score, CoolDown, CooldownCoversPromise, EngineTypeOK
  <1>6. CandidatesFree'
    <2> SUFFICES ASSUME NEW p \in cands' PROVE owed'[p] = 0
      BY DEF CandidatesFree
    <2>1. pc = "score" /\ p \in Pids /\ Scored(p).score >= MinScore
      BY <1>2 DEF Eligible, EngineTypeOK
    <2>2. tracked_[p].cooldown = 0
      BY <1>1, <1>2, <2>1 DEF EngineTypeOK
    <2>3. owed[p] = 0
      BY <2>1, <2>2 DEF CooldownCoversPromise, EngineTypeOK
    <2> QED
      BY <2>3 DEF Score
  <1> QED
    BY <1>4, <1>5, <1>6

\* Acting on a candidate starts its counter and its promise together.
LEMMA ActIInv ==
  ASSUME EngineIInv, NEW p \in cands,
         ActOnDead(p) \/ ActInVain(p) \/ \E got \in Gains : ActOn(p, got)
  PROVE  EngineIInv'
  <1> USE DEF EngineIInv, procs
  <1>1. CASE ActOnDead(p) \/ ActInVain(p)
    BY <1>1 DEF ActOnDead, ActInVain, EngineTypeOK, CooldownCoversPromise, CandidatesFree
  <1>2. ASSUME NEW got \in Gains, ActOn(p, got) PROVE EngineIInv'
    <2> USE EngineAssumption DEF EngineAssumption
    <2>1. p \in Pids
      BY DEF EngineTypeOK
    <2>2. total' \in 0 .. WordMod - 1
      <3>1. total + got \in Int
        BY DEF EngineTypeOK
      <3> QED
        BY <1>2, <3>1, WordFits DEF ActOn
    <2>3. tracked_' \in [Pids -> [cooldown : Nat, sampled : BOOLEAN]] /\ owed' \in [Pids -> Nat]
      BY <1>2, <2>1 DEF ActOn, EngineTypeOK
    <2>4. EngineTypeOK'
      BY <1>2, <2>2, <2>3 DEF ActOn, EngineTypeOK
    <2>5. CooldownCoversPromise'
      BY <1>2, <2>1 DEF ActOn, CooldownCoversPromise, EngineTypeOK
    <2>6. CandidatesFree'
      BY <1>2, <2>1 DEF ActOn, CandidatesFree, EngineTypeOK
    <2> QED
      BY <2>4, <2>5, <2>6
  <1> QED
    BY <1>1, <1>2

LEMMA CgroupReclaimIInv == EngineIInv /\ CgroupReclaim => EngineIInv'
  <1> SUFFICES ASSUME EngineIInv, CgroupReclaim PROVE EngineIInv'
    OBVIOUS
  <1> USE DEF EngineIInv, procs
  <1>1. asked' \in 0 .. WordMod - 1
    <2> USE EngineAssumption DEF EngineAssumption
    <2>1. Cap - total \in Int
      BY DEF EngineTypeOK
    <2>2. (Cap - total) % WordMod \in 0 .. WordMod - 1
      BY <2>1, WordFits
    <2> QED
      BY <2>2 DEF CgroupReclaim
  <1>2. EngineTypeOK'
    BY <1>1 DEF CgroupReclaim, EngineTypeOK
  <1>3. CooldownCoversPromise' /\ CandidatesFree'
    BY DEF CgroupReclaim, CooldownCoversPromise, CandidatesFree
  <1> QED
    BY <1>2, <1>3

LEMMA EngineNextIInv == EngineIInv /\ [EngineNext]_evars => EngineIInv'
  <1> SUFFICES ASSUME EngineIInv, [EngineNext]_evars PROVE EngineIInv'
    OBVIOUS
  <1>1. CASE UNCHANGED evars
    BY <1>1 DEF EngineIInv, evars, procs, cycle, EngineTypeOK, CooldownCoversPromise, CandidatesFree
  <1>2. CASE Env
    BY <1>2, EnvIInv
  <1>3. CASE run_cycle \/ force_cycle
    BY <1>3, ScanIInv DEF run_cycle, force_cycle
  <1>4. CASE CycleStep
    BY <1>4, GuardIInv, DrainIInv, ScoreIInv, ActIInv, CgroupReclaimIInv DEF CycleStep
  <1> QED
    BY <1>1, <1>2, <1>3, <1>4 DEF EngineNext

LEMMA EngineInvariant == EngineSpec => []EngineIInv
  BY EngineInitIInv, EngineNextIInv, PTL DEF EngineSpec
-------------------------------------------------------------------------------
(* Theorems                                                                *)

\* Every cooldown stays a natural number, every candidate points into the snapshot, and
\* the sums of a cycle stay within uint64_t, whatever they wrapped around at.
THEOREM EngineTypeCorrect == EngineSpec => []EngineTypeOK
  BY EngineInvariant, PTL DEF EngineIInv

\* The counter that compute_scores decrements and the thrash guard raises never runs out
\* before the cycles a process was promised have passed.
THEOREM EngineCooldownCoversPromise == EngineSpec => []CooldownCoversPromise
  BY EngineInvariant, PTL DEF EngineIInv

\* run_actions reclaims from no process that is still owed a cycle of rest, for any
\* mixture of normal, forced and crisis cycles and any reuse of pids.
THEOREM EngineNoEarlyReclaim == EngineSpec => NoEarlyReclaim
  <1>1. EngineIInv /\ [EngineNext]_evars => [\A p \in Pids : Reclaims(p) => owed[p] = 0]_evars
    BY DEF EngineIInv, CandidatesFree, Reclaims
  <1> QED
    BY <1>1, EngineInvariant, PTL DEF EngineSpec, NoEarlyReclaim
===============================================================================
