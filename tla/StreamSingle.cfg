CONSTANTS
  r1 = r1
  r2 = r2
  Requests = {r1, r2}
  Segments <- FiveSegments
  Chunks <- TwoVolumes
  Ranges <- SomeRanges
  MaxOpen = 1
  ReadAhead = 1
  PunchMayFail = FALSE
  HeaderPin = 1
  Backbuffer = 1
  Step = 2
  ChunkSize = 1
SPECIFICATION FairSpec
INVARIANTS NoHoleServed BookkeepingHonest FirstPassBounded
PROPERTIES EveryRequestEnds BackbufferKept DeliverySpec
CHECK_DEADLOCK FALSE
