CONSTANTS
  r1 = r1
  r2 = r2
  Requests = {r1, r2}
  Segments <- TwoSegments
  Chunks <- FlatSix
  Ranges <- SixBytes
  MaxOpen = 2
  ReadAhead = 2
  PunchMayFail = TRUE
  HeaderPin = 1
  Backbuffer = 1
  Step = 1
  ChunkSize = 2
SPECIFICATION Spec
INVARIANTS TypeOK HolesOnlyEvicted NothingSkipped
SYMMETRY Symmetry
CHECK_DEADLOCK FALSE
