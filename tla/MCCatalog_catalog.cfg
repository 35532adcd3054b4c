SPECIFICATION Spec
CONSTANTS
  c1 = c1
  c2 = c2
  q1 = q1
  q2 = q2
  Command = {c1, c2}
  Request = {q1, q2}
  Name = {1, 2, 3}
  Role = {"qa", "data"}
  Proposal <- Proposals
  Edit <- Edits
  MaxTimeout = 1
  PageSize = 1
  MaxWrites = 5
SYMMETRY Slots
INVARIANTS
  TypeOK
  VersionsTell
  RunsWhatWasPublished
  PagesShowAll
PROPERTIES
  DeactivationStands
