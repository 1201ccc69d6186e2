SPECIFICATION Spec
CONSTANTS
  c1 = c1
  c2 = c2
  t1 = t1
  t2 = t2
  main_fn = main_fn
  leaf_fn = leaf_fn
  anon = anon
  null = null
  unknown = unknown
  Cpus <- TwoCpus
  Capacity = 2
  Tids <- TwoTids
  SeqEntries = 2
  SeqWrap = 4
  NativeStacks <- OneNative
  LuaDepths <- TwoFrames
  MaxSamples = 3
  IncludeNative = TRUE
  HasUnwinder = FALSE
  Timed = FALSE
  NullIp = null
  Unknown = unknown
  Named <- TwoNames
  Nameless <- OuterLevel
SYMMETRY Symmetric
CHECK_DEADLOCK FALSE
INVARIANTS TypeOK NativeConserved LuaInOrder KeysUnique
PROPERTY ImplementsCorrelation
