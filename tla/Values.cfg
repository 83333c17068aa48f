CONSTANTS
  LastHour = 12
  Zones <- MCZones
  Offset <- MCOffset
  Offsets <- MCOffsets
  Digits = {0, 3, 7}
  NoLimit = NoLimit
  NoOffset = NoOffset
  Precisions = {0, 6, NoLimit}
SPECIFICATION WaySpec
INVARIANTS WrittenIsAccepted InstantIsKept MeaningIsKept ReexportIsTheSame
CHECK_DEADLOCK FALSE
