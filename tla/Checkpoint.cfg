SPECIFICATION JobSpec
CONSTANTS
  Sizes = {1, 2}
  Id = {"vector", "matrix"}
  MayHold <- VectorsAndMatrix
  File = {"one.cp", "two.zcp"}
  Compressed = {"two.zcp"}
  Zlib = TRUE
  Streaming = {2}
  Saves = 2
  Loads = 1
INVARIANTS
  SavedStays
  CompressedIsWhole
PROPERTIES
  ImplementsStore
