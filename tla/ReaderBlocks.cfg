SPECIFICATION Spec
CONSTANTS
  Games = {"SKYRIM"}
  FileVersions = {9}
  FormVersions = {78}
  KnownTypes = {"misc_stats", "favourites"}
  UnknownTypes = {u1}
  CountMod = 3
INVARIANTS
  CompleteOrNothing
  SuccessIsWritable
  FreeableAnyTime
  LeaksOnlyWhereKnown
