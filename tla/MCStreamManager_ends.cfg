SPECIFICATION FairSpec
CONSTANTS
  p1 = p1
  p2 = p2
  s1 = s1
  s2 = s2
  s3 = s3
  x1 = x1
  Session = {s1, s2}
  Client = {p1}
  ClientOf <- OnePage
  Canceller = {x1}
  ChanCap = 2
  MaxBuffered = 2
  MaxChunks = 2
  MaxDrops = 2
  MaxReopens = 0
  MaxCleanups = 0
CHECK_DEADLOCK FALSE
PROPERTIES
  PagesFinish
  ImplementsLog
