------------------------------ MODULE LuaWalk ------------------------------
(***************************************************************************)
(* walk_lua_stack of bpf/profile.bpf.c over the stack of one lua_State, in *)
(* the GC64 layout of bpf/lua_state.h. Addresses are slot numbers from     *)
(* L->stack. A frame f is the slot that links it to the frame below; its   *)
(* function is in slot f - 1, its base is f + 1.                           *)
(*                                                                         *)
(* The stack is the work of the LuaJIT VM, external to this repository. It *)
(* calls and returns until the clock interrupts it; then the walker reads  *)
(* what is there. The VM keeps its base in a register and writes it to     *)
(* L->base now and then only. The memory may also be torn: the interrupt   *)
(* came in the middle of an update, the state was freed and its memory     *)
(* used again, or another thread is writing to it during the walk. Then a  *)
(* slot, L->base or g->jit_base is anything.                               *)
(***************************************************************************)
EXTENDS Integers, Sequences, FiniteSets

CONSTANTS
  LuaFuncs,     \* Lua functions with a fixed number of parameters
  VarargFuncs,  \* vararg Lua functions
  CFuncs,       \* C functions and builtins
  Stripped,     \* Lua functions without line numbers (lineinfo is NULL)
  SizeBc,       \* bytecode positions of a Lua function, 1 .. SizeBc
  Regs,         \* the A operands of calls
  MaxStack,     \* L->maxstack
  MaxLuaDepth,  \* MAX_LUA_DEPTH
  TornLinks,    \* bound: what a torn slot can be as a link
  MaxReturns,   \* bound: how often a call returns
  MaxTorn       \* bound: how often memory is torn

ASSUME LuaWalkAssumption ==
  /\ SizeBc \in Nat \ {0}
  /\ Regs \subseteq Nat
  /\ MaxStack \in Nat /\ MaxStack > 2
  /\ MaxLuaDepth \in Nat
  /\ MaxReturns \in Nat /\ MaxTorn \in Nat

ASSUME FuncsAssumption ==
  /\ LuaFuncs \cap VarargFuncs = {} /\ LuaFuncs \cap CFuncs = {} /\ VarargFuncs \cap CFuncs = {}
  /\ "none" \notin LuaFuncs \cup VarargFuncs \cup CFuncs
  /\ Stripped \subseteq LuaFuncs \cup VarargFuncs

VARIABLES
  mem,       \* the slots, each read as an object (gc) or as a link (ft)
  base,      \* L->base
  jit_base,  \* g->jit_base when g->cur_L is this state, 0 otherwise
  chain,     \* the calls in progress, innermost last
  returns,   \* how often a call has returned
  torn,      \* how often memory has been torn
  step,      \* "vm": the VM runs, "walk": the walker, "done": it returned
  frame,     \* the walker's locals of the same names
  prev_frame,  \* 0 for NULL
  i,
  out,
  on_jit_trace,
  events     \* what emit_lua has output

vmVars == <<mem, base, jit_base, chain, returns>>
walkVars == <<frame, prev_frame, i, out, on_jit_trace, events>>
vars == <<vmVars, torn, step, walkVars>>

Stack == 0
Bot == 1   \* stack + LJ_FR2, the frame slot below the first call
Slots == Stack .. MaxStack - 1

Funcs == LuaFuncs \cup VarargFuncs \cup CFuncs

(* What a slot is as a GC reference: a function, one whose prototype is    *)
(* NULL (its pc is garbage), L, L without the type of a thread (it was     *)
(* freed), any other object, or no user pointer.                           *)
Obj(kind) == [kind |-> kind, fn |-> "none"]
Func(f) == [kind |-> "func", fn |-> f]

Objects == {Func(f) : f \in Funcs} \cup
  {Obj(k) : k \in {"no_proto", "self", "freed_self", "other", "invalid"}}

(* What it is as ftsz: a return address, position pc of fn's bytecode (0   *)
(* is no user pointer) after an instruction with A operand n, or a frame   *)
(* type with a size of n slots. "c" stands for the types that the walker   *)
(* does not tell apart: FRAME_C, FRAME_CP, FRAME_PCALL and FRAME_PCALLH.   *)
Return(f, pc, a) == [tp |-> "lua", fn |-> f, pc |-> pc, n |-> a]
Size(tp, n) == [tp |-> tp, fn |-> "none", pc |-> 0, n |-> n]

NoLink == Return("none", 0, 0)

Links ==
  [tp : {"lua"}, fn : Funcs \cup {"none"}, pc : 0 .. SizeBc + 1, n : Nat]
    \cup [tp : {"c", "cont", "vararg"}, fn : {"none"}, pc : {0}, n : Int]

ASSUME TornAssumption == TornLinks \subseteq Links

SlotValue == [gc : Objects, ft : Links]

(* A call in progress: its function ("none" in a dummy frame), the         *)
(* position it is at, its base, and whether the position of its caller is  *)
(* saved with its link.                                                    *)
Frame == [fn : Funcs \cup {"none"}, at : 1 .. SizeBc, base : Nat, saved : BOOLEAN]

(* Position p > 0 is on line p; 0 is the first line of the function.       *)
FirstLine == 0
NoLine == -1

Event == [level : Nat, fn : Funcs, line : {NoLine} \cup (FirstLine .. SizeBc), jit : BOOLEAN]

TypeOK ==
  /\ mem \in [Slots -> SlotValue]
  /\ base \in Nat
  /\ jit_base \in Nat
  /\ chain \in Seq(Frame)
  /\ returns \in 0 .. MaxReturns
  /\ torn \in 0 .. MaxTorn
  /\ step \in {"vm", "walk", "done"}
  /\ frame \in Nat
  /\ prev_frame \in Nat
  /\ i \in 0 .. MaxLuaDepth
  /\ out \in Nat
  /\ on_jit_trace \in BOOLEAN
  /\ events \in Seq(Event)

Init ==
  /\ mem = [s \in Slots |->
              [gc |-> Obj(IF s = Stack THEN "self" ELSE "invalid"), ft |-> NoLink]]
  /\ base = Bot + 1
  /\ jit_base = 0
  /\ chain = <<>>
  /\ returns = 0
  /\ torn = 0
  /\ step = "vm"
  /\ frame = 0 /\ prev_frame = 0 /\ i = 0 /\ out = 0
  /\ on_jit_trace = FALSE
  /\ events = <<>>

-----------------------------------------------------------------------------
(* The VM. A call puts its function in slot f - 1 and its link in slot f;  *)
(* a vararg function then links a copy of itself, above its arguments, to  *)
(* that frame.                                                             *)
Top == chain[Len(chain)]

TopBase == IF chain = <<>> THEN Bot + 1 ELSE Top.base

InLua == chain # <<>> /\ Top.fn \in LuaFuncs \cup VarargFuncs

Linked(m, f, obj, link) ==
  [m EXCEPT ![f - 1] = [gc |-> obj, ft |-> NoLink],
            ![f] = [gc |-> Obj("invalid"), ft |-> link]]

(* L->base is written for a C function or an error; a Lua function leaves  *)
(* it as it was.                                                           *)
EnterFunction(m, f, fn, obj, link) ==
  LET linked == Linked(m, f, obj, link)
      top == IF fn \in VarargFuncs THEN f + 2 ELSE f
  IN /\ top < MaxStack
     /\ mem' = IF fn \in VarargFuncs
               THEN Linked(linked, top, obj, Size("vararg", 2)) ELSE linked
     /\ base' = IF fn \in LuaFuncs \cup VarargFuncs THEN base ELSE top + 1
     /\ chain' = Append(chain, [fn |-> fn, at |-> 1, base |-> top + 1, saved |-> link.tp # "c"])
     /\ UNCHANGED <<jit_base, returns>>

(* BC_CALL with A operand a, of a Lua or C function.                       *)
CallFromLua(fn, a) ==
  InLua /\ EnterFunction(mem, TopBase + a + 1, fn, Func(fn), Return(Top.fn, Top.at + 1, a))

(* A metamethod: the return address is two slots below the link.           *)
CallMeta(fn, a) ==
  LET pcSlot == TopBase + a + 1
  IN /\ InLua /\ pcSlot < MaxStack
     /\ EnterFunction([mem EXCEPT ![pcSlot].ft = Return(Top.fn, Top.at + 1, a)],
                      pcSlot + 2, fn, Func(fn), Size("cont", a + 4))

(* A call made by C code, whatever is on top: lua_resume, lua_pcall and    *)
(* lua_call, pcall from Lua; a finalizer or a hook on top of the Lua       *)
(* function it interrupts; the handler of an error. A call of what is no   *)
(* function pushes a dummy frame, with L in the place of the function.     *)
CallFromC(fn, a) ==
  EnterFunction(mem, TopBase + a + 1, fn, Func(fn), Size("c", a + 2))

DummyFrame(a) ==
  EnterFunction(mem, TopBase + a + 1, "none", Obj("self"), Size("c", a + 2))

(* The innermost call returns. Its slots, and L->base, stay as they are.   *)
Leave ==
  /\ chain # <<>> /\ returns < MaxReturns
  /\ returns' = returns + 1
  /\ chain' = SubSeq(chain, 1, Len(chain) - 1)
  /\ UNCHANGED <<mem, base, jit_base>>

(* The innermost Lua function goes on to another instruction, or to one    *)
(* whose helper needs L->base.                                             *)
Execute(p) ==
  /\ InLua
  /\ chain' = [chain EXCEPT ![Len(chain)].at = p]
  /\ UNCHANGED <<mem, base, jit_base, returns>>

SaveBase ==
  /\ base' = TopBase
  /\ UNCHANGED <<mem, jit_base, chain, returns>>

(* On a trace the VM keeps its base in jit_base.                           *)
EnterTrace ==
  /\ InLua
  /\ jit_base' = TopBase
  /\ UNCHANGED <<mem, base, chain, returns>>

ExitTrace ==
  /\ base' = jit_base
  /\ jit_base' = 0
  /\ UNCHANGED <<mem, chain, returns>>

Vm ==
  /\ step = "vm" /\ torn = 0
  /\ \/ /\ jit_base = 0
        /\ \/ \E fn \in Funcs, a \in Regs :
                CallFromLua(fn, a) \/ CallMeta(fn, a) \/ CallFromC(fn, a)
           \/ \E a \in Regs : DummyFrame(a)
           \/ \E p \in 1 .. SizeBc : Execute(p)
           \/ Leave \/ SaveBase \/ EnterTrace
     \/ jit_base > 0 /\ ExitTrace
  /\ UNCHANGED <<torn, step, walkVars>>

(* A slot is any object or any link; or one of the bases is anything.      *)
Tear ==
  /\ step # "done" /\ torn < MaxTorn
  /\ torn' = torn + 1
  /\ \/ \E s \in Slots, o \in Objects :
          mem' = [mem EXCEPT ![s].gc = o] /\ UNCHANGED <<base, jit_base>>
     \/ \E s \in Slots, l \in TornLinks :
          mem' = [mem EXCEPT ![s].ft = l] /\ UNCHANGED <<base, jit_base>>
     \/ \E b \in 0 .. MaxStack + 1 :
          /\ \/ base' = b /\ UNCHANGED jit_base
             \/ jit_base' = b /\ UNCHANGED base
          /\ UNCHANGED mem
  /\ UNCHANGED <<chain, returns, step, walkVars>>

-----------------------------------------------------------------------------
(* The walker. It starts from jit_base on a trace and from L->base         *)
(* otherwise, if that is inside the stack.                                 *)
StartBaseStale == base

StartBase == IF jit_base > Bot /\ jit_base <= MaxStack THEN jit_base ELSE base

Interrupt ==
  /\ step = "vm"
  /\ on_jit_trace' = (jit_base > Bot /\ jit_base <= MaxStack)
  /\ IF StartBase <= Bot \/ StartBase > MaxStack
     THEN step' = "done" /\ UNCHANGED frame
     ELSE step' = "walk" /\ frame' = StartBase - 1
  /\ UNCHANGED <<vmVars, torn, prev_frame, i, out, events>>

frame_gc(f) == mem[f - 1].gc
frame_ftsz(f) == mem[f].ft
frame_isvarg(f) == frame_ftsz(f).tp = "vararg"

(* get_frame_pc: the position of the call that made the frame above.       *)
(* NO_BCPOS, and a return address into other bytecode, are past the end.   *)
NO_BCPOS == SizeBc + 1

PosOf(fn, link) ==
  IF link.tp # "lua" \/ link.pc = 0 \/ link.fn # fn THEN NO_BCPOS ELSE link.pc - 1

get_frame_pc(fn, above) ==
  IF above = 0 THEN NO_BCPOS
  ELSE IF frame_ftsz(above).tp = "lua" THEN PosOf(fn, frame_ftsz(above))
  ELSE IF frame_ftsz(above).tp = "cont" THEN PosOf(fn, frame_ftsz(above - 2))
  ELSE NO_BCPOS

(* get_lua_line and the choice in emit_lua: past the end it is the first   *)
(* line, and there is none for a C function or without line numbers.       *)
LineOf(fn, above) ==
  LET pos == get_frame_pc(fn, above)
  IN IF fn \in CFuncs THEN NoLine
     ELSE IF pos > SizeBc THEN FirstLine
     ELSE IF fn \in Stripped THEN NoLine ELSE pos

(* emit_lua: a function without a prototype leaves a gap in the levels.    *)
emit_lua_by_index(obj) ==
  events' = IF obj.kind = "no_proto" THEN events
            ELSE Append(events, [level |-> i, fn |-> obj.fn,
                                 line |-> LineOf(obj.fn, prev_frame),
                                 jit |-> on_jit_trace /\ out = 0 /\ obj.fn \notin CFuncs])

emit_lua(obj) ==
  events' = IF obj.kind = "no_proto" THEN events
            ELSE Append(events, [level |-> out, fn |-> obj.fn,
                                 line |-> LineOf(obj.fn, prev_frame),
                                 jit |-> on_jit_trace /\ out = 0 /\ obj.fn \notin CFuncs])

(* frame_prevl and frame_prevd.                                            *)
PrevFrame(f) ==
  LET link == frame_ftsz(f)
  IN IF link.tp = "lua" THEN f - (2 + link.n) ELSE f - link.n

HasPrevUpwards(f) ==
  /\ frame_ftsz(f).tp = "lua" => frame_ftsz(f).pc # 0
  /\ PrevFrame(f) >= Bot

HasPrevUnbounded(f) ==
  /\ frame_ftsz(f).tp = "lua" => frame_ftsz(f).pc # 0
  /\ PrevFrame(f) < f

HasPrev(f) ==
  /\ frame_ftsz(f).tp = "lua" => frame_ftsz(f).pc # 0
  /\ PrevFrame(f) >= Bot /\ PrevFrame(f) < f

(* The walk ends at a frame it cannot use.                                 *)
Ends(f) ==
  \/ frame_gc(f).kind = "invalid"
  \/ ~frame_isvarg(f) /\ frame_gc(f).kind \in {"other", "freed_self"}

InStack(f) == f > Bot /\ f < MaxStack

WalkStep ==
  /\ step = "walk"
  /\ IF i = MaxLuaDepth \/ ~InStack(frame) \/ Ends(frame)
     THEN step' = "done" /\ UNCHANGED <<frame, prev_frame, i, out, events>>
     ELSE /\ IF frame_isvarg(frame) \/ frame_gc(frame).kind = "self"
             THEN UNCHANGED <<out, events>>
             ELSE emit_lua(frame_gc(frame)) /\ out' = out + 1
          /\ prev_frame' = frame
          /\ IF HasPrev(frame)
             THEN frame' = PrevFrame(frame) /\ i' = i + 1 /\ UNCHANGED step
             ELSE step' = "done" /\ UNCHANGED <<frame, i>>
  /\ UNCHANGED <<vmVars, torn, on_jit_trace>>

Next == Vm \/ Tear \/ Interrupt \/ WalkStep

Spec == Init /\ [][Next]_vars

-----------------------------------------------------------------------------
(* Whatever the memory holds and becomes, the walker reads slots of the    *)
(* stack only, the link of the frame above included: it goes down, and the *)
(* frame above is above the bottom frame.                                  *)
Reads ==
  IF ~InStack(frame) \/ step # "walk" THEN {}
  ELSE {frame - 1, frame} \cup
       (IF prev_frame = 0 THEN {} ELSE {prev_frame, prev_frame - 2})

ReadsInStack ==
  /\ Reads \subseteq Slots
  /\ step = "walk" /\ prev_frame # 0 => frame < prev_frame

(* The levels of a sample's events ascend, there are at most MaxLuaDepth,  *)
(* and only level 0 is a JIT frame: what main sorts them by is a key.      *)
LevelsAscend ==
  /\ Len(events) <= out /\ out <= MaxLuaDepth
  /\ \A k \in DOMAIN events :
       /\ events[k].level < out
       /\ events[k].jit => events[k].level = 0
       /\ k > 1 => events[k - 1].level < events[k].level

(* The calls the walk starts from: those up to the innermost on a trace,   *)
(* up to the one whose base is in L->base otherwise. (L->base can be left  *)
(* from a call that has returned: then it starts from none.)               *)
Start == IF jit_base > 0 THEN TopBase ELSE base

Current == Start = Bot + 1 \/ \E d \in DOMAIN chain : chain[d].base = Start

Started == {d \in DOMAIN chain : chain[d].base <= Start}

(* The functions among them, and the level each has from the innermost.    *)
Calls == {d \in Started : chain[d].fn # "none"}

Level(d) == Cardinality({e \in Calls : e > d})

(* The iterations the walk takes down to frame d: two for a vararg frame.  *)
Iterations(d) ==
  Cardinality({e \in Started : e >= d})
    + Cardinality({e \in Started : e >= d /\ chain[e].fn \in VarargFuncs})

Reached == {d \in Calls : Iterations(d) <= MaxLuaDepth}

(* The line of the call that function d is in, where its callee saved it.  *)
CallLine(d) ==
  IF chain[d].fn \in CFuncs THEN NoLine
  ELSE IF chain[d].fn \in VarargFuncs \/ d + 1 \notin Started \/ ~chain[d + 1].saved
       THEN FirstLine
  ELSE IF chain[d].fn \in Stripped THEN NoLine ELSE chain[d].at

ExactEvent(d) ==
  [level |-> Level(d), fn |-> chain[d].fn, line |-> CallLine(d),
   jit |-> Level(d) = 0 /\ jit_base > 0]

(* A walk over memory that is not torn, from the base of a call in         *)
(* progress, outputs one event for each function it reaches within         *)
(* MaxLuaDepth iterations and no other, at its level and with its line:    *)
(* the line of the call it is in where that is known, the first otherwise. *)
WalkExact ==
  step = "done" /\ torn = 0 /\ Current =>
    /\ Len(events) = Cardinality(Reached)
    /\ \A d \in Reached : events[Level(d) + 1] = ExactEvent(d)

(* README.md:223: L: frames identify the sampled source line.              *)
SourceLine ==
  step = "done" /\ torn = 0 /\ Current => \A d \in Reached :
    chain[d].fn \notin CFuncs \cup Stripped /\ ~events[Level(d) + 1].jit =>
      events[Level(d) + 1].line = chain[d].at
=============================================================================
