SPECIFICATION FairSpec
CONSTANTS
  c1 = c1
  c2 = c2
  t1 = t1
  t2 = t2
  main_fn = main_fn
  leaf_fn = leaf_fn
  anon = anon
  null = null
  unknown = unknown
  Cpus <- TwoCpus
  Capacity = 2
  Tids <- TwoTids
  SeqEntries = 2
  SeqWrap = 4
  NativeStacks <- NoNative
  LuaDepths <- TwoFrames
  MaxSamples = 2
  IncludeNative = FALSE
  HasUnwinder = FALSE
  Timed = TRUE
  NullIp = null
  Unknown = unknown
  Named <- TwoNames
  Nameless <- NoNames
CHECK_DEADLOCK FALSE
PROPERTIES Terminates RingsDrain
