SPECIFICATION Spec
CONSTANTS
  F = F
  S = S
  V = V
  C = C
  LuaFuncs <- FixedFuncs
  VarargFuncs <- Varargs
  CFuncs <- Natives
  Stripped <- NoLines
  SizeBc = 2
  Regs <- Operands
  MaxStack = 10
  MaxLuaDepth = 3
  TornLinks <- AnyLinks
  MaxReturns = 1
  MaxTorn = 0
CHECK_DEADLOCK FALSE
INVARIANT WalkExact
