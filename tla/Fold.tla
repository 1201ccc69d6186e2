-------------------------------- MODULE Fold --------------------------------
(***************************************************************************)
(* How the two halves of a sample become one stack: build_stack,           *)
(* fold_symbolized_stack and format_lua_frame of src/main.rs. An address   *)
(* is a value that a symbol covers (Named) or not; a Lua frame is its      *)
(* level, and the frame of a level in Nameless has neither a line nor a    *)
(* name, so format_lua_frame has nothing to show for it.                   *)
(***************************************************************************)
EXTENDS Naturals, Sequences, Lists

CONSTANTS
  IncludeNative,  \* include_native_stacks: --include-c-stacks or --disable-lua
  Named,          \* addresses with a native function symbol
  NullIp,         \* the address 0
  Unknown,        \* the frame "[unknown]"
  Nameless        \* levels whose Lua frames have nothing to show

ASSUME FoldAssumption ==
  /\ IncludeNative \in BOOLEAN
  /\ NullIp \notin Named
  /\ Unknown \notin Named \cup Nat
  /\ Named \cap Nat = {}
  /\ Nameless \subseteq Nat

(* lua_sorted: outermost first, by a stable sort.                          *)
AsReceived(levels) == levels

Outermost(levels) ==
  LET order == Ranked(DOMAIN levels, LAMBDA i, j :
                 levels[i] > levels[j] \/ (levels[i] = levels[j] /\ i < j))
  IN [i \in DOMAIN levels |-> levels[order[i]]]

(* native_frames: the addresses of a stack, from its root.                 *)
NativeFrame(ip) == IF IncludeNative /\ ip # NullIp THEN <<ip>> ELSE <<>>

NativeFrames(ips) == Concat([n \in DOMAIN ips |-> NativeFrame(ips[Len(ips) + 1 - n])])

(* format_lua_frame: what the frame of a level adds to a stack.            *)
format_lua_frame(level) == IF level \in Nameless THEN <<>> ELSE <<level>>

(* One native frame: its symbol; without one, the next Lua frame takes its *)
(* place, or "[unknown]" when there is none left.                          *)
FoldFrameKeeping(acc, ip) ==
  IF ip \in Named THEN [acc EXCEPT !.frames = Append(@, ip)]
  ELSE IF acc.lua = <<>> THEN [acc EXCEPT !.frames = Append(@, Unknown)]
  ELSE [acc EXCEPT !.frames = @ \o format_lua_frame(Head(acc.lua))]

FoldFrame(acc, ip) ==
  IF ip \in Named THEN [acc EXCEPT !.frames = Append(@, ip)]
  ELSE IF acc.lua = <<>> THEN [acc EXCEPT !.frames = Append(@, Unknown)]
  ELSE [frames |-> acc.frames \o format_lua_frame(Head(acc.lua)), lua |-> Tail(acc.lua)]

FoldStart(levels) == [frames |-> <<>>, lua |-> Outermost(levels)]

(* The remaining Lua frames go to the leaf. No frame, no stack.            *)
fold_symbolized_stack(frames, levels) ==
  LET acc[n \in 0 .. Len(frames)] ==
        IF n = 0 THEN FoldStart(levels) ELSE FoldFrame(acc[n - 1], frames[n])
      left == acc[Len(frames)].lua
  IN acc[Len(frames)].frames \o Concat([i \in DOMAIN left |-> format_lua_frame(left[i])])

build_stack(ips, levels) == fold_symbolized_stack(NativeFrames(ips), levels)

NoStack == <<>>

=============================================================================
