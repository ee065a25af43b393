SPECIFICATION Spec
CONSTANTS
  Games = {"SKYRIM", "FALLOUT4"}
  FileVersions = {9, 12, 16}
  FormVersions = {77, 78}
  KnownTypes = {"player_location", "weather", "global_vars"}
  UnknownTypes = {u1}
  CountMod = 2
INVARIANTS
  TypeOK
  CompleteOrNothing
  SuccessIsWritable
  LeaksOnlyWhereKnown
  ReadsLiveBytes
PROPERTY
  ReadingEnds
