CONSTANTS
  FlatFiles <- AnyFlat
  Volumes <- AnyVolume
  MaxVolumes = 2
  Dressings <- AnyDressing
  Headers <- AnyHeader
SPECIFICATION ProbeSpec
INVARIANTS LayoutSound BytesLocated AnswersExact CanariesCover
CHECK_DEADLOCK FALSE
