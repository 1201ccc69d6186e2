SPECIFICATION Spec
CONSTANTS
  F = F
  S = S
  V = V
  C = C
  LuaFuncs <- OneFunc
  VarargFuncs <- Varargs
  CFuncs <- Natives
  Stripped <- NoFuncs
  SizeBc = 2
  Regs <- Operands
  MaxStack = 9
  MaxLuaDepth = 3
  TornLinks <- AnyLinks
  MaxReturns = 0
  MaxTorn = 1
CHECK_DEADLOCK FALSE
INVARIANTS TypeOK ReadsInStack LevelsAscend
