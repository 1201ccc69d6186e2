SPECIFICATION Spec
CONSTANTS
  c1 = c1
  c2 = c2
  t1 = t1
  t2 = t2
  main_fn = main_fn
  leaf_fn = leaf_fn
  anon = anon
  null = null
  unknown = unknown
  Cpus <- TwoCpus
  Capacity = 1
  Tids <- TwoTids
  SeqEntries = 1
  SeqWrap = 2
  NativeStacks <- AnyNative
  LuaDepths <- UpToOne
  MaxSamples = 3
  IncludeNative = TRUE
  HasUnwinder = TRUE
  Timed = FALSE
  NullIp = null
  Unknown = unknown
  Named <- TwoNames
  Nameless <- NoNames
SYMMETRY Symmetric
CHECK_DEADLOCK FALSE
INVARIANTS KeysAreNonces StatsMatch FoldedExact
PROPERTY ImplementsArrivals
