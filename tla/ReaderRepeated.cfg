SPECIFICATION Spec
CONSTANTS
  Games = {"SKYRIM"}
  FileVersions = {12}
  FormVersions = {78}
  KnownTypes = {"weather"}
  UnknownTypes = {u1}
  CountMod = 2
INVARIANT
  FreeReleasesSave
