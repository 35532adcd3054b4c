SPECIFICATION Spec
CONSTANTS
  u1 = u1
  u2 = u2
  x1 = x1
  r1 = r1
  r2 = r2
  User = {u1, u2}
  Session = {x1}
  Request = {r1, r2}
  Role = {"admin"}
  Admin = "admin"
  MaxFaults = 1
CHECK_DEADLOCK FALSE
SYMMETRY Slots
INVARIANTS
  TypeOK
  SessionsAreCurrent
  AdminRemains
PROPERTIES
  StaysDeactivated
