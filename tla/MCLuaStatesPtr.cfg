SPECIFICATION Spec
CONSTANTS
  t1 = t1
  t2 = t2
  o1 = o1
  A = A
  B = B
  Threads <- OneThread
  Target <- OneThread
  Luas <- States
  MaxEntries = 2
  DepthCap = 5
  MaxNesting = 2
  MaxUnmatched = 1
INVARIANT SlotNamesOpenState
