SPECIFICATION Spec
CONSTANTS
  k1 = k1
  k2 = k2
  e1 = e1
  e2 = e2
  c1 = c1
  c2 = c2
  Command = {k1}
  Execution = {e1}
  Canceller = {c1}
  CommandOf <- AllOfK1
  TargetOf <- AllAtE1
  ModeOf <- CreateMode
  AllowConcurrent = {}
  TimeLimited = {k1}
  Faults = {"docker", "reply", "stream", "remove", "database", "disconnect"}
  MaxCrashes = 1
CHECK_DEADLOCK FALSE
INVARIANTS
  RowIsConsistent
  NotifiedAtMostOnce
PROPERTIES
  VerdictIsFinal
