SPECIFICATION Spec
CONSTANTS
  t1 = t1
  t2 = t2
  o1 = o1
  A = A
  B = B
  Threads <- AllThreads
  Target <- TargetThreads
  Luas <- States
  MaxEntries = 1
  DepthCap = 3
  MaxNesting = 3
  MaxUnmatched = 2
SYMMETRY Threadwise
INVARIANTS TypeOK NoStaleSlot ExactDepth
