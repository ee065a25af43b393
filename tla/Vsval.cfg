SPECIFICATION Spec
CONSTANTS
  Values <- MCValues
  MaxValues = 3
  Rooms = {0, 2, 3, 9}
  Foreign <- MCForeign
INVARIANTS
  TypeOK
  ReadsWhatWasWritten
  StopsOnlyWhereCut
  RoomIsExact
  RewritingNeverGrows
PROPERTY
  DecodingEnds
