SPECIFICATION Spec
CONSTANTS
  p1 = p1
  p2 = p2
  s1 = s1
  s2 = s2
  s3 = s3
  x1 = x1
  Session = {s1, s2}
  Client = {p1}
  ClientOf <- OnePage
  Canceller = {x1}
  ChanCap = 2
  MaxBuffered = 2
  MaxChunks = 3
  MaxDrops = 1
  MaxReopens = 1
  MaxCleanups = 1
CHECK_DEADLOCK FALSE
SYMMETRY Slots
INVARIANTS
  TypeOK
  SubscribersAreOpen
  NobodyIsForgotten
  BufferIsTheTail
  ShownInOrder
  FinishedWithTheLast
  NothingLostWhileItFits
