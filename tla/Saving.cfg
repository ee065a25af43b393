SPECIFICATION Spec
CONSTANT HighHalves = 8192
CONSTANT Compressed <- Shrunk
CONSTANT Decompressed <- Expanded
CONSTANT Saves <- MCSaves
CONSTANT Reader <- file_reader
CONSTANT Writer <- file_writer
CONSTANT MaxFile = 900
CONSTANT Cuts = {4, 20, 50}
INVARIANT TypeOK
INVARIANT SuccessMeansSaved
PROPERTY ImplementsOutput
