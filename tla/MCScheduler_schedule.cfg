SPECIFICATION FairSpec
CONSTANTS
  a1 = a1
  a2 = a2
  q1 = q1
  q2 = q2
  Schedule = {a1, a2}
  Unreadable = {a2}
  Request = {q1, q2}
  TargetOf <- AllAtA1
  MaxFaults = 1
  MaxStops = 1
INVARIANTS
  TypeOK
  OncePerDueTime
  DeletedRunsOnce
  DisabledIsQuiet
PROPERTIES
  DueIsTriggered
