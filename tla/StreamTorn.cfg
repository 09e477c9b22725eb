CONSTANTS
  r1 = r1
  r2 = r2
  Requests = {r1, r2}
  Segments <- TwoSegments
  Chunks <- FlatSix
  Ranges <- SixBytes
  MaxOpen = 2
  ReadAhead = 1
  PunchMayFail = FALSE
  HeaderPin = 1
  Backbuffer = 1
  Step = 1
  ChunkSize = 2
SPECIFICATION Spec
INVARIANT NoHoleServed
CHECK_DEADLOCK FALSE
