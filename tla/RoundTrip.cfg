SPECIFICATION Spec
CONSTANT HighHalves = 8192
CONSTANT Compressed <- Shrunk
CONSTANT Decompressed <- Expanded
CONSTANT Files <- MCFiles
CONSTANT MaxFile = 900
INVARIANT TypeOK
INVARIANT SaveSurvives
INVARIANT RegularIsWrittenBack
INVARIANT OnlyTheseAreLost
