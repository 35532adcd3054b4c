SPECIFICATION Spec
CONSTANTS
  d1 = d1
  d2 = d2
  FileName = {"report", "log"}
  BaseName <- Names
  Archives <- Tars
  Reader = {d1, d2}
  MaxFaults = 2
CHECK_DEADLOCK FALSE
SYMMETRY Slots
INVARIANTS
  DownloadsAreWhole
  EveryArtifactTold
