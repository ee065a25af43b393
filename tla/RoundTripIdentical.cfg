SPECIFICATION Spec
CONSTANT HighHalves = 8192
CONSTANT Compressed <- Shrunk
CONSTANT Decompressed <- Expanded
CONSTANT Files <- MCFiles
CONSTANT MaxFile = 900
INVARIANT Fallout4IsWrittenBack
