SPECIFICATION Spec
CONSTANTS
  SnapshotSize = 16
  ChunkSize = 8
  SmallReads <- HalvesOfChunk
  Word = 2
  Padding = 1
  MaxDepth = 3
  StackPointers <- NoneOrSome
  Extents <- AroundBounds
  MaxSamples = 2
CHECK_DEADLOCK FALSE
INVARIANTS TypeOK WordsTrue UsefulPrefix
