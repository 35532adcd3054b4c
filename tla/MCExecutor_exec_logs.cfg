SPECIFICATION EndingSpec
CONSTANTS
  k1 = k1
  k2 = k2
  e1 = e1
  e2 = e2
  c1 = c1
  c2 = c2
  Command = {k1, k2}
  Execution = {e1, e2}
  Canceller = {c1}
  CommandOf <- OneEach
  TargetOf <- AllAtE2
  ModeOf <- ExecAndLogs
  AllowConcurrent = {k2}
  TimeLimited = {k1, k2}
  Faults = {"docker", "reply", "stream"}
  MaxCrashes = 0
CHECK_DEADLOCK FALSE
INVARIANTS
  VerdictAgrees
PROPERTIES
  WorkerEnds
