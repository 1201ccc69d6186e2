SPECIFICATION Spec
CONSTANTS
  c1 = c1
  c2 = c2
  t1 = t1
  t2 = t2
  main_fn = main_fn
  leaf_fn = leaf_fn
  anon = anon
  null = null
  unknown = unknown
  Cpus <- OneCpu
  Capacity = 4
  Tids <- TwoTids
  SeqEntries = 1
  SeqWrap = 4
  NativeStacks <- NoNative
  LuaDepths <- NoLua
  MaxSamples = 3
  IncludeNative = FALSE
  HasUnwinder = FALSE
  Timed = FALSE
  NullIp = null
  Unknown = unknown
  Named <- TwoNames
  Nameless <- NoNames
CHECK_DEADLOCK FALSE
INVARIANT KeysUnique
