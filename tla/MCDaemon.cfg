\* Two clients, one of which may be interrupted; the kernel queues one.
CONSTANTS
  Clients = {c1, c2}
  MayDie = {c2}
  Args = {1, 150, 1000}
  MaxQueue = 1
  SigpipeIgnored = FALSE
  None = None
SPECIFICATION PromptSpec
\* The daemon may stop.
CHECK_DEADLOCK FALSE
INVARIANTS
  DaemonTypeOK
  NoConnectionLeak
PROPERTIES
  ClientReturns
  StopHonoured
  CyclesKeepRunning
