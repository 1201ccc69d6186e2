---------------------------- MODULE Correlation ----------------------------
(***************************************************************************)
(* What the profiler promises of its samples: their parts arrive as in     *)
(* Arrivals, and what is written counts every sample whose native half     *)
(* arrived, once, as the stack of that half and of its own frames.         *)
(***************************************************************************)
EXTENDS Arrivals, FiniteSets, Lists

CONSTANTS
  IncludeNative,  \* native frames are wanted
  Named,          \* addresses with a symbol
  NullIp,         \* the address that is no frame
  Unknown,        \* the frame of an address without a symbol
  Nameless        \* levels of Lua frames that have nothing to show

VARIABLE profile  \* the stacks written, with their counts

(* The addresses a Lua frame or "[unknown]" is shown for.                  *)
Unresolved(ips) == {i \in DOMAIN ips : IncludeNative /\ ips[i] \notin Named \cup {NullIp}}

LuaFrame(level) == IF level \in Nameless THEN <<>> ELSE <<level>>

(* How many there are from the root to address i, which so takes the place *)
(* of that Lua frame, counted from the outermost.                          *)
Place(ips, i) == Cardinality({j \in Unresolved(ips) : j >= i})

Shown(ips, lua, i) ==
  CASE i \in Unresolved(ips) /\ Place(ips, i) <= Len(lua) -> LuaFrame(lua[Place(ips, i)])
    [] i \in Unresolved(ips) /\ Place(ips, i) > Len(lua) -> <<Unknown>>
    [] i \notin Unresolved(ips) ->
         IF IncludeNative /\ ips[i] \in Named THEN <<ips[i]>> ELSE <<>>

(* The stack of addresses ips and Lua frames of the given levels, from the *)
(* root. Lua frames take the places of addresses without a symbol, those   *)
(* left over follow.                                                       *)
StackOf(ips, levels) ==
  LET lua == Ranked(levels, >)
      used == Cardinality(Unresolved(ips))
      left == used + 1 .. Len(lua)
  IN Concat([n \in DOMAIN ips |-> Shown(ips, lua, Len(ips) + 1 - n)])
       \o Concat([n \in 1 .. Cardinality(left) |-> LuaFrame(lua[used + n])])

(* Samples with nothing to show are left out.                              *)
Histogram ==
  LET Stack(s) == StackOf(samples[s].ips, frames[s])
  IN [st \in {Stack(s) : s \in arrived} \ {<<>>} |->
        Cardinality({s \in arrived : Stack(s) = st})]

Init == ArrivalsInit /\ profile = <<>>

Next == ArrivalsNext /\ profile' = IF written' THEN Histogram ELSE profile

Spec == Init /\ [][Next]_<<arrivalsVars, profile>>
=============================================================================
