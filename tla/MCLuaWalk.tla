----------------------------- MODULE MCLuaWalk -----------------------------
(* Instances of LuaWalk for TLC.                                           *)
EXTENDS LuaWalk

CONSTANTS F, S, V, C

OneFunc == {F}
FixedFuncs == {F, S}
Varargs == {V}
Natives == {C}
NoLines == {S}
NoFuncs == {}
Operands == {0, 1}

(* Return addresses that are right, in other bytecode and no pointer; and  *)
(* sizes that lead up, nowhere, to other slots, and below the stack.       *)
AnyLinks ==
  {Return(F, 2, 0), Return(V, 2, 0), Return(F, 3, MaxStack), NoLink}
    \cup {Size("c", n) : n \in {-2, 0, 1, 3, MaxStack}}
    \cup {Size("vararg", 2), Size("cont", 4)}
=============================================================================
