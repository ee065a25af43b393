SPECIFICATION Spec
CONSTANTS
  Formats <- MCFormats
  FileRooms = {40, 150, 260}
  BodyRoom = 165
  UintMod = 1000
  Sizes = {0, 7}
  Snapshots = {0, 40}
  Tables <- MCTables
  MaxCount = 2
INVARIANT
  BoundsAreChecked
