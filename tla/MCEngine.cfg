\* Two pids that are reused, and a process that stays: one slot in a cycle and a
\* cooldown of one cycle, so that one rival leaves a process its turn and two do
\* not.  Pressure and crises come and go.
CONSTANTS
  Pids = {p1, p2, p3}
  Profiles <- MCProfiles
  Systems <- MCSystems
  MinReclaimable = 4
  MinScore = 3
  MaxTargets = 1
  Cap = 8
  MinWant = 2
  Gains = {8}
  WordMod = 1073741824
  Cooldown = 1
  ThrashCooldown = 2
  Damon = FALSE
  CgroupOn = TRUE
  DryRun = FALSE
  Steady = {p3}
SPECIFICATION FairEngineSpec
INVARIANTS
  EngineTypeOK
  CooldownCoversPromise
PROPERTIES
  NoEarlyReclaim
  ColdProcessReclaimed
