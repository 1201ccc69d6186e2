--------------------------- MODULE LuaWalkProofs ---------------------------
(***************************************************************************)
(* LuaWalk for any stack size and any depth limit: TypeOK, ReadsInStack    *)
(* and LevelsAscend over memory that is torn any number of times, before   *)
(* the walk and between any two of its steps; WalkExact over memory that   *)
(* is not.                                                                 *)
(***************************************************************************)
EXTENDS LuaWalk, SequenceTheorems, FiniteSetTheorems, TLAPS

(* Where the walk is: inside the stack, below the frame above, with one    *)
(* iteration for every level at least.                                     *)
WalkInv ==
  /\ step = "vm" => prev_frame = 0 /\ i = 0 /\ out = 0 /\ events = <<>>
  /\ step = "walk" => frame \in Bot .. MaxStack - 1
  /\ prev_frame # 0 => prev_frame \in Bot + 1 .. MaxStack - 1
  /\ step = "walk" /\ prev_frame # 0 => frame < prev_frame
  /\ out <= MaxLuaDepth
  /\ step # "done" => out <= i

IInv == TypeOK /\ WalkInv /\ LevelsAscend

-----------------------------------------------------------------------------
(* The values the VM writes are objects and links.                         *)
LEMMA Values ==
  /\ \A f \in Funcs : Func(f) \in Objects
  /\ \A k \in {"no_proto", "self", "freed_self", "other", "invalid"} : Obj(k) \in Objects
  /\ \A f \in Funcs, p \in 0 .. SizeBc, a \in Nat : Return(f, p + 1, a) \in Links
  /\ \A tp \in {"c", "cont", "vararg"}, n \in Int : Size(tp, n) \in Links
  /\ NoLink \in Links
<1>1. \A f \in Funcs, p \in 0 .. SizeBc, a \in Nat : Return(f, p + 1, a) \in Links
  BY LuaWalkAssumption DEF Return, Links
<1>2. NoLink \in Links
  BY LuaWalkAssumption DEF NoLink, Return, Links
<1>3. \A tp \in {"c", "cont", "vararg"}, n \in Int : Size(tp, n) \in Links
  BY DEF Size, Links
<1> QED
  BY <1>1, <1>2, <1>3 DEF Objects

(* A slot that is rewritten in part keeps the type of the memory.          *)
LEMMA WriteType ==
  ASSUME NEW m \in [Slots -> SlotValue], NEW s, NEW o \in Objects, NEW l \in Links
  PROVE  /\ [m EXCEPT ![s] = [gc |-> o, ft |-> l]] \in [Slots -> SlotValue]
         /\ [m EXCEPT ![s].gc = o] \in [Slots -> SlotValue]
         /\ [m EXCEPT ![s].ft = l] \in [Slots -> SlotValue]
BY DEF SlotValue

LEMMA LinkedType ==
  ASSUME NEW m \in [Slots -> SlotValue], NEW f, NEW o \in Objects, NEW l \in Links
  PROVE  Linked(m, f, o, l) \in [Slots -> SlotValue]
<1> DEFINE m1 == [m EXCEPT ![f - 1] = [gc |-> o, ft |-> NoLink]]
<1>1. m1 \in [Slots -> SlotValue]
  BY Values, WriteType
<1>2. [m1 EXCEPT ![f] = [gc |-> Obj("invalid"), ft |-> l]] \in [Slots -> SlotValue]
  <2> HIDE DEF m1
  <2> QED BY <1>1, Values, WriteType
<1> QED
  BY <1>2 DEF Linked

LEMMA EnterType ==
  ASSUME TypeOK, NEW m \in [Slots -> SlotValue], NEW f \in Nat, NEW fn \in Funcs \cup {"none"},
         NEW o \in Objects, NEW l \in Links, EnterFunction(m, f, fn, o, l)
  PROVE  /\ mem' \in [Slots -> SlotValue]
         /\ base' \in Nat /\ jit_base' \in Nat
         /\ chain' \in Seq(Frame) /\ returns' \in 0 .. MaxReturns
<1> DEFINE linked == Linked(m, f, o, l)
           top == IF fn \in VarargFuncs THEN f + 2 ELSE f
<1>1. linked \in [Slots -> SlotValue]
  BY LinkedType
<1>2. Linked(linked, top, o, Size("vararg", 2)) \in [Slots -> SlotValue]
  <2> HIDE DEF linked, top
  <2> QED BY <1>1, LinkedType, Values
<1>3. top + 1 \in Nat
  OBVIOUS
<1>4. /\ mem' = IF fn \in VarargFuncs
                THEN Linked(linked, top, o, Size("vararg", 2)) ELSE linked
      /\ base' = IF fn \in LuaFuncs \cup VarargFuncs THEN base ELSE top + 1
      /\ chain' = Append(chain, [fn |-> fn, at |-> 1, base |-> top + 1, saved |-> l.tp # "c"])
      /\ jit_base' = jit_base /\ returns' = returns
  BY DEF EnterFunction
<1> HIDE DEF linked, top
<1>5. [fn |-> fn, at |-> 1, base |-> top + 1, saved |-> l.tp # "c"] \in Frame
  BY <1>3, LuaWalkAssumption DEF Frame
<1>6. chain' \in Seq(Frame)
  BY <1>4, <1>5, AppendProperties DEF TypeOK
<1> QED
  BY <1>1, <1>2, <1>3, <1>4, <1>6 DEF TypeOK

(* The top of the stack.                                                   *)
LEMMA TopFacts ==
  ASSUME TypeOK
  PROVE  /\ Len(chain) \in Nat /\ DOMAIN chain = 1 .. Len(chain)
         /\ \A d \in DOMAIN chain :
              /\ chain[d] \in Frame /\ chain[d].base \in Nat
              /\ chain[d].fn \in Funcs \cup {"none"} /\ chain[d].at \in 1 .. SizeBc
         /\ chain # <<>> => Len(chain) \in DOMAIN chain /\ Top = chain[Len(chain)]
         /\ chain = <<>> => Len(chain) = 0
         /\ TopBase \in Nat
<1>1. chain \in Seq(Frame)
  BY DEF TypeOK
<1>2. \A d \in DOMAIN chain : chain[d] \in Frame
  BY <1>1
<1>3. \A d \in DOMAIN chain : /\ chain[d].base \in Nat
                              /\ chain[d].fn \in Funcs \cup {"none"}
                              /\ chain[d].at \in 1 .. SizeBc
  BY <1>2 DEF Frame
<1>4. chain # <<>> => Len(chain) \in DOMAIN chain
  BY <1>1
<1> QED
  BY <1>1, <1>2, <1>3, <1>4 DEF Top, TopBase, Bot

(* The innermost Lua function can make a call.                             *)
LEMMA CallerType ==
  ASSUME TypeOK, InLua
  PROVE  Top.fn \in Funcs /\ Top.at \in 1 .. SizeBc /\ Len(chain) \in DOMAIN chain
<1>1. chain \in Seq(Frame) /\ chain # <<>>
  BY DEF TypeOK, InLua
<1>2. Len(chain) \in 1 .. Len(chain) /\ chain[Len(chain)] \in Frame
  BY <1>1
<1> QED
  BY <1>1, <1>2 DEF Top, Frame, InLua, Funcs

LEMMA VmType ==
  ASSUME TypeOK, Vm
  PROVE  /\ mem' \in [Slots -> SlotValue]
         /\ base' \in Nat /\ jit_base' \in Nat
         /\ chain' \in Seq(Frame) /\ returns' \in 0 .. MaxReturns
<1> DEFINE Post == /\ mem' \in [Slots -> SlotValue]
                   /\ base' \in Nat /\ jit_base' \in Nat
                   /\ chain' \in Seq(Frame) /\ returns' \in 0 .. MaxReturns
<1>0. /\ \A a \in Regs : a \in Nat
      /\ SizeBc \in Nat /\ base \in Nat /\ jit_base \in Nat /\ TopBase \in Nat
      /\ mem \in [Slots -> SlotValue] /\ chain \in Seq(Frame)
      /\ MaxReturns \in Nat /\ returns \in 0 .. MaxReturns
  BY LuaWalkAssumption, TopFacts DEF TypeOK
<1>1. ASSUME NEW a \in Regs, InLua
      PROVE  /\ Return(Top.fn, Top.at + 1, a) \in Links
             /\ Size("cont", a + 4) \in Links
             /\ a + 4 \in Int
  <2>1. Top.fn \in Funcs /\ Top.at \in 0 .. SizeBc
    BY <1>0, <1>1, CallerType
  <2>2. a \in Nat /\ a + 4 \in Int
    BY <1>0
  <2> QED
    BY <2>1, <2>2, Values
<1>2. ASSUME NEW fn \in Funcs, NEW a \in Regs, CallFromLua(fn, a)
      PROVE  Post
  <2>1. /\ Return(Top.fn, Top.at + 1, a) \in Links
        /\ Func(fn) \in Objects /\ TopBase + a + 1 \in Nat
    BY <1>0, <1>1, <1>2, Values DEF CallFromLua
  <2>2. EnterFunction(mem, TopBase + a + 1, fn, Func(fn), Return(Top.fn, Top.at + 1, a))
    BY <1>2 DEF CallFromLua
  <2> QED
    BY <1>0, <2>1, <2>2, EnterType
<1>3. ASSUME NEW fn \in Funcs, NEW a \in Regs, CallMeta(fn, a)
      PROVE  Post
  <2> DEFINE m == [mem EXCEPT ![TopBase + a + 1].ft = Return(Top.fn, Top.at + 1, a)]
  <2>1. Return(Top.fn, Top.at + 1, a) \in Links /\ Size("cont", a + 4) \in Links
    BY <1>1, <1>3 DEF CallMeta
  <2>2. m \in [Slots -> SlotValue]
    BY <1>0, <2>1, Values, WriteType
  <2>3. EnterFunction(m, (TopBase + a + 1) + 2, fn, Func(fn), Size("cont", a + 4))
    BY <1>3 DEF CallMeta
  <2>4. Func(fn) \in Objects /\ (TopBase + a + 1) + 2 \in Nat
    BY <1>0, Values
  <2> HIDE DEF m
  <2> QED
    BY <1>0, <2>1, <2>2, <2>3, <2>4, EnterType
<1>4. ASSUME NEW fn \in Funcs, NEW a \in Regs, CallFromC(fn, a)
      PROVE  Post
  <2>1. /\ Size("c", a + 2) \in Links
        /\ Func(fn) \in Objects /\ TopBase + a + 1 \in Nat
    BY <1>0, Values
  <2>2. EnterFunction(mem, TopBase + a + 1, fn, Func(fn), Size("c", a + 2))
    BY <1>4 DEF CallFromC
  <2> QED
    BY <1>0, <2>1, <2>2, EnterType
<1>5. ASSUME NEW a \in Regs, DummyFrame(a)
      PROVE  Post
  <2>1. /\ Size("c", a + 2) \in Links
        /\ Obj("self") \in Objects /\ TopBase + a + 1 \in Nat
    BY <1>0, Values
  <2>2. EnterFunction(mem, TopBase + a + 1, "none", Obj("self"), Size("c", a + 2))
    BY <1>5 DEF DummyFrame
  <2> QED
    BY <1>0, <2>1, <2>2, EnterType
<1>6. ASSUME NEW p \in 1 .. SizeBc, Execute(p)
      PROVE  Post
  <2> DEFINE n == Len(chain)
             c == [chain[n] EXCEPT !.at = p]
  <2>1. chain' = [chain EXCEPT ![n] = c] /\ n \in DOMAIN chain
    BY <1>6, CallerType DEF Execute
  <2>2. chain[n] \in Frame
    BY <1>0, <2>1
  <2>3. c \in Frame
    BY <2>2 DEF Frame
  <2> HIDE DEF c, n
  <2>4. chain' \in Seq(Frame)
    BY <1>0, <2>1, <2>3, ExceptSeq
  <2> QED
    BY <1>0, <1>6, <2>4 DEF Execute
<1>7. ASSUME Leave
      PROVE  Post
  <2>1. /\ chain # <<>> /\ chain' = SubSeq(chain, 1, Len(chain) - 1)
        /\ returns < MaxReturns /\ returns' = returns + 1
        /\ UNCHANGED <<mem, base, jit_base>>
    BY <1>7 DEF Leave
  <2>2. Len(chain) \in Nat /\ Len(chain) > 0
    BY <1>0, <2>1
  <2>3. SubSeq(chain, 1, Len(chain) - 1) \in Seq(Frame)
    BY <1>0, <2>2
  <2> QED
    BY <1>0, <2>1, <2>3
<1>8. ASSUME SaveBase \/ EnterTrace \/ ExitTrace
      PROVE  Post
  BY <1>0, <1>8 DEF SaveBase, EnterTrace, ExitTrace
<1>9. \/ \E fn \in Funcs, a \in Regs : CallFromLua(fn, a) \/ CallMeta(fn, a) \/ CallFromC(fn, a)
      \/ \E a \in Regs : DummyFrame(a)
      \/ \E p \in 1 .. SizeBc : Execute(p)
      \/ Leave
      \/ SaveBase \/ EnterTrace \/ ExitTrace
  BY DEF Vm
<1> HIDE DEF Post
<1>10. Post
  <2>1. CASE \E fn \in Funcs, a \in Regs : CallFromLua(fn, a) \/ CallMeta(fn, a) \/ CallFromC(fn, a)
    <3>1. PICK fn \in Funcs, a \in Regs : CallFromLua(fn, a) \/ CallMeta(fn, a) \/ CallFromC(fn, a)
      BY <2>1
    <3> HIDE DEF CallFromLua, CallMeta, CallFromC
    <3>2. CASE CallFromLua(fn, a)
      BY <1>2, <3>2
    <3>3. CASE CallMeta(fn, a)
      BY <1>3, <3>3
    <3>4. CASE CallFromC(fn, a)
      BY <1>4, <3>4
    <3> QED
      BY <3>1, <3>2, <3>3, <3>4
  <2>2. CASE \E a \in Regs : DummyFrame(a)
    BY <1>5, <2>2
  <2>3. CASE \E p \in 1 .. SizeBc : Execute(p)
    BY <1>6, <2>3
  <2>4. CASE Leave
    BY <1>7, <2>4
  <2>5. CASE SaveBase \/ EnterTrace \/ ExitTrace
    BY <1>8, <2>5
  <2> QED
    BY <1>9, <2>1, <2>2, <2>3, <2>4, <2>5
<1> QED
  BY <1>10 DEF Post

-----------------------------------------------------------------------------
(* What the walker reads from a frame of the stack.                        *)
LEMMA ReadType ==
  ASSUME TypeOK, NEW f \in Bot + 1 .. MaxStack - 1
  PROVE  /\ frame_gc(f) \in Objects
         /\ frame_ftsz(f) \in Links
         /\ f - 2 \in Slots
<1>1. f \in Slots /\ f - 1 \in Slots /\ f - 2 \in Slots
  BY LuaWalkAssumption DEF Bot, Slots, Stack
<1>2. mem[f] \in SlotValue /\ mem[f - 1] \in SlotValue
  BY <1>1 DEF TypeOK
<1> QED
  BY <1>1, <1>2 DEF frame_gc, frame_ftsz, SlotValue

(* Every line is a position, the first line or none.                       *)
LEMMA LineType ==
  ASSUME TypeOK, NEW fn \in Funcs, NEW f, f # 0 => f \in Bot + 1 .. MaxStack - 1
  PROVE  LineOf(fn, f) \in {NoLine} \cup (FirstLine .. SizeBc)
<1>0. SizeBc \in Nat
  BY LuaWalkAssumption
<1>1. \A link \in Links : PosOf(fn, link) \in 0 .. SizeBc + 1
  BY <1>0 DEF PosOf, Links, NO_BCPOS
<1>2. ASSUME f # 0
      PROVE  frame_ftsz(f) \in Links /\ frame_ftsz(f - 2) \in Links
  <2>1. f - 2 \in Slots /\ frame_ftsz(f) \in Links
    BY <1>2, ReadType
  <2>2. mem[f - 2] \in SlotValue
    BY <2>1 DEF TypeOK
  <2> QED
    BY <2>1, <2>2 DEF frame_ftsz, SlotValue
<1>3. get_frame_pc(fn, f) \in 0 .. SizeBc + 1
  BY <1>0, <1>1, <1>2 DEF get_frame_pc, NO_BCPOS
<1> QED
  BY <1>0, <1>3 DEF LineOf, FirstLine

(* What emit_lua outputs keeps the events typed and their levels ascending.*)
LEMMA EmitKeeps ==
  ASSUME IInv, step = "walk", InStack(frame), ~Ends(frame),
         ~frame_isvarg(frame), frame_gc(frame).kind # "self", emit_lua(frame_gc(frame))
  PROVE  /\ events' \in Seq(Event)
         /\ Len(events') <= out + 1
         /\ \A k \in DOMAIN events' :
              /\ events'[k].level < out + 1
              /\ events'[k].jit => events'[k].level = 0
              /\ k > 1 => events'[k - 1].level < events'[k].level
<1> DEFINE obj == frame_gc(frame)
           e == [level |-> out, fn |-> obj.fn, line |-> LineOf(obj.fn, prev_frame),
                 jit |-> on_jit_trace /\ out = 0 /\ obj.fn \notin CFuncs]
<1>1. /\ events \in Seq(Event) /\ Len(events) <= out /\ out \in Nat
      /\ \A k \in DOMAIN events :
           /\ events[k].level < out
           /\ events[k].jit => events[k].level = 0
           /\ k > 1 => events[k - 1].level < events[k].level
  BY DEF IInv, TypeOK, LevelsAscend
<1>2. \A k \in DOMAIN events : events[k].level \in Nat
  <2>1. \A k \in DOMAIN events : events[k] \in Event
    BY <1>1
  <2> QED
    BY <2>1 DEF Event
<1>3. CASE obj.kind = "no_proto"
  <2>1. events' = events
    BY <1>3 DEF emit_lua
  <2> QED
    BY <1>1, <1>2, <2>1
<1>4. CASE obj.kind # "no_proto"
  <2>1. frame \in Bot + 1 .. MaxStack - 1
    BY LuaWalkAssumption DEF IInv, TypeOK, InStack, Bot
  <2>2. obj \in Objects
    BY <2>1, ReadType DEF IInv
  <2>3. obj.kind = "func" /\ obj.fn \in Funcs
    BY <1>4, <2>2 DEF Objects, Func, Obj, Ends
  <2>4. LineOf(obj.fn, prev_frame) \in {NoLine} \cup (FirstLine .. SizeBc)
    BY <2>3, LineType DEF IInv, WalkInv
  <2>5. events' = Append(events, e)
    BY <1>4 DEF emit_lua
  <2> HIDE DEF obj
  <2>6. e \in Event
    BY <1>1, <2>3, <2>4 DEF Event
  <2>7. e.level = out /\ (e.jit => out = 0)
    OBVIOUS
  <2> HIDE DEF e
  <2>8. /\ events' \in Seq(Event) /\ Len(events') = Len(events) + 1
        /\ events'[Len(events) + 1] = e
        /\ \A k \in 1 .. Len(events) : events'[k] = events[k]
    BY <1>1, <2>5, <2>6, AppendProperties
  <2>9. \A k \in DOMAIN events' : k \in DOMAIN events \/ k = Len(events) + 1
    BY <1>1, <2>8
  <2>10. \A k \in DOMAIN events : events'[k] = events[k]
    BY <1>1, <2>8
  <2>11. ASSUME NEW k \in DOMAIN events'
         PROVE  /\ events'[k].level < out + 1
                /\ events'[k].jit => events'[k].level = 0
                /\ k > 1 => events'[k - 1].level < events'[k].level
    <3>1. CASE k \in DOMAIN events
      <4>1. k > 1 => k - 1 \in DOMAIN events
        BY <1>1, <3>1
      <4> QED
        BY <1>1, <1>2, <2>10, <3>1, <4>1
    <3>2. CASE k = Len(events) + 1
      <4>1. k > 1 => k - 1 \in DOMAIN events
        BY <1>1, <3>2
      <4> QED
        BY <1>1, <1>2, <2>7, <2>8, <2>10, <3>2, <4>1
    <3> QED
      BY <2>9, <3>1, <3>2
  <2> QED
    BY <1>1, <2>8, <2>11
<1> QED
  BY <1>3, <1>4

(* One iteration of the walk keeps all of it.                              *)
LEMMA WalkStepKeeps ==
  ASSUME IInv, WalkStep
  PROVE  IInv'
<1>0. /\ MaxLuaDepth \in Nat /\ MaxStack \in Nat /\ MaxStack > 2
      /\ i \in 0 .. MaxLuaDepth /\ out \in Nat /\ frame \in Nat
      /\ step = "walk" /\ out <= i
  BY LuaWalkAssumption DEF IInv, TypeOK, WalkInv, WalkStep
<1>1. UNCHANGED <<mem, base, jit_base, chain, returns, torn, on_jit_trace>>
  BY DEF WalkStep, vmVars
<1>2. CASE i = MaxLuaDepth \/ ~InStack(frame) \/ Ends(frame)
  <2>1. step' = "done" /\ UNCHANGED <<frame, prev_frame, i, out, events>>
    BY <1>2 DEF WalkStep
  <2> QED
    BY <1>0, <1>1, <2>1 DEF IInv, TypeOK, WalkInv, LevelsAscend
<1>3. CASE ~(i = MaxLuaDepth \/ ~InStack(frame) \/ Ends(frame))
  <2>1. /\ IF frame_isvarg(frame) \/ frame_gc(frame).kind = "self"
           THEN UNCHANGED <<out, events>>
           ELSE emit_lua(frame_gc(frame)) /\ out' = out + 1
        /\ prev_frame' = frame
        /\ IF HasPrev(frame)
           THEN frame' = PrevFrame(frame) /\ i' = i + 1 /\ UNCHANGED step
           ELSE step' = "done" /\ UNCHANGED <<frame, i>>
    BY <1>3 DEF WalkStep
  <2>2. i < MaxLuaDepth /\ InStack(frame) /\ ~Ends(frame)
    BY <1>0, <1>3
  <2>3. frame \in Bot + 1 .. MaxStack - 1
    BY <1>0, <2>2 DEF InStack, Bot
  <2>4. /\ events' \in Seq(Event)
        /\ Len(events') <= out'
        /\ out' \in Nat /\ out' <= i + 1
        /\ \A k \in DOMAIN events' :
             /\ events'[k].level < out'
             /\ events'[k].jit => events'[k].level = 0
             /\ k > 1 => events'[k - 1].level < events'[k].level
    <3>1. CASE frame_isvarg(frame) \/ frame_gc(frame).kind = "self"
      BY <1>0, <2>1, <3>1 DEF IInv, TypeOK, LevelsAscend
    <3>2. CASE ~(frame_isvarg(frame) \/ frame_gc(frame).kind = "self")
      <4>1. emit_lua(frame_gc(frame)) /\ out' = out + 1
        BY <2>1, <3>2
      <4>2. /\ events' \in Seq(Event)
            /\ Len(events') <= out + 1
            /\ \A k \in DOMAIN events' :
                 /\ events'[k].level < out + 1
                 /\ events'[k].jit => events'[k].level = 0
                 /\ k > 1 => events'[k - 1].level < events'[k].level
        BY <1>0, <2>2, <3>2, <4>1, EmitKeeps
      <4> QED
        BY <1>0, <4>1, <4>2
    <3> QED
      BY <3>1, <3>2
  <2>5. HasPrev(frame) => PrevFrame(frame) \in Bot .. frame - 1
    <3>1. frame_ftsz(frame) \in Links
      BY <2>3, ReadType DEF IInv
    <3>2. frame_ftsz(frame).n \in Int
      BY <3>1 DEF Links
    <3> QED
      BY <1>0, <3>2 DEF HasPrev, PrevFrame, Bot
  <2>6. /\ frame' \in Nat /\ prev_frame' \in Nat /\ i' \in 0 .. MaxLuaDepth
        /\ step' \in {"walk", "done"}
        /\ prev_frame' \in Bot + 1 .. MaxStack - 1
        /\ step' = "walk" => frame' \in Bot .. MaxStack - 1 /\ frame' < prev_frame' /\ i' = i + 1
    BY <1>0, <2>1, <2>2, <2>3, <2>5 DEF Bot
  <2>7. out' <= MaxLuaDepth /\ (step' # "done" => out' <= i')
    BY <1>0, <2>2, <2>4, <2>6
  <2>8. TypeOK'
    BY <1>1, <2>4, <2>6 DEF IInv, TypeOK
  <2>9. WalkInv' /\ LevelsAscend'
    BY <2>4, <2>6, <2>7 DEF WalkInv, LevelsAscend
  <2> QED
    BY <2>8, <2>9 DEF IInv
<1> QED
  BY <1>2, <1>3

LEMMA InitInv == Init => IInv
<1> SUFFICES ASSUME Init PROVE IInv
  OBVIOUS
<1> USE LuaWalkAssumption
<1>1. \A s \in Slots : [gc |-> Obj(IF s = Stack THEN "self" ELSE "invalid"), ft |-> NoLink]
                         \in SlotValue
  BY Values DEF SlotValue
<1>2. mem \in [Slots -> SlotValue]
  BY <1>1 DEF Init
<1>3. /\ base \in Nat /\ jit_base \in Nat /\ torn \in 0 .. MaxTorn
      /\ returns \in 0 .. MaxReturns
      /\ step \in {"vm", "walk", "done"} /\ frame \in Nat /\ prev_frame \in Nat
      /\ i \in 0 .. MaxLuaDepth /\ out \in Nat /\ on_jit_trace \in BOOLEAN
  <2>1. /\ base = Bot + 1 /\ jit_base = 0 /\ returns = 0 /\ torn = 0 /\ step = "vm" /\ frame = 0
        /\ prev_frame = 0 /\ i = 0 /\ out = 0 /\ on_jit_trace = FALSE
    BY DEF Init
  <2>2. on_jit_trace \in BOOLEAN
    BY <2>1
  <2>3. /\ base \in Nat /\ jit_base \in Nat /\ torn \in 0 .. MaxTorn
        /\ frame \in Nat /\ prev_frame \in Nat
        /\ i \in 0 .. MaxLuaDepth /\ out \in Nat
    BY <2>1 DEF Bot
  <2> QED
    BY <2>1, <2>2, <2>3
<1>4. chain \in Seq(Frame) /\ events \in Seq(Event)
  BY EmptySeq DEF Init
<1>5. WalkInv
  BY DEF Init, WalkInv
<1>6. LevelsAscend
  <2>1. events = <<>> /\ out = 0
    BY DEF Init
  <2>2. Len(events) = 0 /\ DOMAIN events = {}
    BY <2>1
  <2> QED
    BY <2>1, <2>2 DEF LevelsAscend
<1> QED
  BY <1>2, <1>3, <1>4, <1>5, <1>6 DEF IInv, TypeOK

LEMMA NextInv == IInv /\ [Next]_vars => IInv'
<1> SUFFICES ASSUME IInv, [Next]_vars PROVE IInv'
  OBVIOUS
<1> USE LuaWalkAssumption
<1>1. CASE Vm
  <2>1. /\ mem' \in [Slots -> SlotValue]
        /\ base' \in Nat /\ jit_base' \in Nat
        /\ chain' \in Seq(Frame) /\ returns' \in 0 .. MaxReturns
    BY <1>1, VmType DEF IInv
  <2>2. UNCHANGED <<torn, step, walkVars>>
    BY <1>1 DEF Vm
  <2> QED
    BY <2>1, <2>2 DEF IInv, TypeOK, WalkInv, LevelsAscend, walkVars
<1>2. CASE Tear
  <2>1. mem' \in [Slots -> SlotValue] /\ base' \in Nat /\ jit_base' \in Nat
    <3>1. mem \in [Slots -> SlotValue] /\ base \in Nat /\ jit_base \in Nat /\ NoLink \in Links
          /\ \A l \in TornLinks : l \in Links
      BY Values, TornAssumption DEF IInv, TypeOK
    <3>2. ASSUME NEW s \in Slots, NEW o \in Objects, mem' = [mem EXCEPT ![s].gc = o]
          PROVE  mem' \in [Slots -> SlotValue]
      BY <3>1, <3>2, WriteType
    <3>3. ASSUME NEW s \in Slots, NEW l \in Links, mem' = [mem EXCEPT ![s].ft = l]
          PROVE  mem' \in [Slots -> SlotValue]
      <4>1. Obj("self") \in Objects
        BY Values
      <4> QED
        BY <3>1, <3>3, <4>1, WriteType
    <3> QED
      BY <1>2, <3>1, <3>2, <3>3 DEF Tear
  <2>2. torn' \in 0 .. MaxTorn /\ UNCHANGED <<chain, returns, step, walkVars>>
    BY <1>2 DEF Tear, IInv, TypeOK
  <2> QED
    BY <2>1, <2>2 DEF IInv, TypeOK, WalkInv, LevelsAscend, walkVars
<1>3. CASE Interrupt
  <2>1. UNCHANGED <<vmVars, torn, prev_frame, i, out, events>> /\ on_jit_trace' \in BOOLEAN
    BY <1>3 DEF Interrupt
  <2>2. StartBase \in Nat
    BY DEF StartBase, IInv, TypeOK
  <2>3. frame' \in Nat /\ step' \in {"walk", "done"}
        /\ (step' = "walk" => frame' \in Bot .. MaxStack - 1)
    BY <1>3, <2>2 DEF Interrupt, Bot, IInv, TypeOK
  <2>4. step = "vm"
    BY <1>3 DEF Interrupt
  <2> QED
    BY <2>1, <2>3, <2>4 DEF IInv, TypeOK, WalkInv, LevelsAscend, vmVars
<1>4. CASE WalkStep
  BY <1>4, WalkStepKeeps
<1>5. CASE UNCHANGED vars
  BY <1>5 DEF vars, vmVars, walkVars, IInv, TypeOK, WalkInv, LevelsAscend
<1> QED
  BY <1>1, <1>2, <1>3, <1>4, <1>5 DEF Next

LEMMA Invariance == Spec => []IInv
BY InitInv, NextInv, PTL DEF Spec

-----------------------------------------------------------------------------
(* Every value of the walker has its type, whatever the memory holds.      *)
THEOREM TypeCorrect == Spec => []TypeOK
<1>1. IInv => TypeOK
  BY DEF IInv
<1> QED
  BY <1>1, Invariance, PTL

(* walk_lua_stack reads slots of the Lua stack only, and goes down at each *)
(* iteration, over any memory.                                             *)
THEOREM ReadsStayInStack == Spec => []ReadsInStack
<1>1. IInv => ReadsInStack
  <2> SUFFICES ASSUME IInv PROVE ReadsInStack
    OBVIOUS
  <2>1. MaxStack \in Nat /\ frame \in Nat /\ prev_frame \in Nat
    BY LuaWalkAssumption DEF IInv, TypeOK
  <2>2. prev_frame # 0 => prev_frame \in Bot + 1 .. MaxStack - 1
    BY DEF IInv, WalkInv
  <2>3. step = "walk" /\ prev_frame # 0 => frame < prev_frame
    BY DEF IInv, WalkInv
  <2>4. Reads \subseteq Slots
    BY <2>1, <2>2 DEF Reads, InStack, Slots, Stack, Bot
  <2> QED
    BY <2>3, <2>4 DEF ReadsInStack
<1> QED
  BY <1>1, Invariance, PTL

(* The levels emit_lua gives the frames of a sample are distinct, ascend   *)
(* and stay below MAX_LUA_DEPTH, over any memory.                          *)
THEOREM LevelsAlwaysAscend == Spec => []LevelsAscend
<1>1. IInv => LevelsAscend
  BY DEF IInv
<1> QED
  BY <1>1, Invariance, PTL

-----------------------------------------------------------------------------
(* The frames of the stack. That of chain[d] is linked at LinkSlot to the  *)
(* frame that ends below slot Below(d), where the VM left its caller.      *)
Below(d) == IF d = 1 THEN Bot + 1 ELSE chain[d - 1].base

LinkSlot(c) == IF c.fn \in VarargFuncs THEN c.base - 3 ELSE c.base - 1

(* Its slots: what the walker will read there is right, and leads to the   *)
(* position of the caller if that is saved.                                *)
InPlace(d) ==
  LET c == chain[d]
      f == LinkSlot(c)
  IN /\ Bot < Below(d) /\ Below(d) < f /\ c.base <= MaxStack
     /\ frame_gc(f) = IF c.fn = "none" THEN Obj("self") ELSE Func(c.fn)
     /\ ~frame_isvarg(f)
     /\ frame_ftsz(f).tp = "lua" => frame_ftsz(f).pc # 0
     /\ PrevFrame(f) = Below(d) - 1
     /\ c.fn \in VarargFuncs =>
          frame_gc(f + 2) = Func(c.fn) /\ frame_ftsz(f + 2) = Size("vararg", 2)
     /\ IF c.saved
        THEN d > 1 /\ get_frame_pc(chain[d - 1].fn, f) = chain[d - 1].at
        ELSE frame_ftsz(f).tp = "c"

StackInv ==
  torn = 0 =>
    /\ \A d \in DOMAIN chain : InPlace(d)
    /\ \A d, e \in DOMAIN chain : e < d => chain[e].base < chain[d].base
    /\ jit_base > 0 => InLua /\ jit_base = TopBase

(* Where the walker is while memory is not torn. It started from call n;   *)
(* it has passed the calls above d, has the events of the functions among  *)
(* them, and is at the frame of call d or below its vararg frame.          *)
StartsAt(n) == Start = Below(n + 1)

AtFrame(n, d) ==
  /\ frame = Below(d + 1) - 1
  /\ prev_frame = IF d = n THEN 0 ELSE LinkSlot(chain[d + 1])
  /\ i = Iterations(d + 1)

BelowVararg(d) ==
  /\ d > 0 /\ chain[d].fn \in VarargFuncs
  /\ frame = LinkSlot(chain[d]) /\ prev_frame = frame + 2
  /\ i = Iterations(d + 1) + 1

Passed(d) ==
  /\ Len(events) = out /\ out = Level(d)
  /\ \A e \in Calls : e > d =>
       Level(e) < out /\ Iterations(e) <= i /\ events[Level(e) + 1] = ExactEvent(e)

PlaceInv ==
  torn = 0 /\ step = "walk" /\ Current =>
    /\ on_jit_trace = (jit_base > 0)
    /\ \E n \in 0 .. Len(chain) : StartsAt(n) /\
         \E d \in 0 .. n : (AtFrame(n, d) \/ BelowVararg(d)) /\ Passed(d)

ExactInv == StackInv /\ PlaceInv /\ WalkExact

LEMMA LinkedReads ==
  ASSUME NEW m \in [Slots -> SlotValue], NEW f \in Slots, f - 1 \in Slots,
         NEW o \in Objects, NEW l \in Links, NEW s \in Slots
  PROVE  Linked(m, f, o, l)[s] =
           IF s = f THEN [gc |-> Obj("invalid"), ft |-> l]
           ELSE IF s = f - 1 THEN [gc |-> o, ft |-> NoLink] ELSE m[s]
BY DEF Linked

(* A frame whose slots, and whose caller, are as they were is in place.    *)
LEMMA StaysInPlace ==
  ASSUME TypeOK, NEW d \in DOMAIN chain, InPlace(d),
         mem' \in [Slots -> SlotValue],
         \A s \in Slots : s < chain[d].base => mem'[s] = mem[s],
         d \in DOMAIN chain',
         chain'[d].fn = chain[d].fn, chain'[d].base = chain[d].base,
         chain'[d].saved = chain[d].saved,
         d > 1 => chain'[d - 1] = chain[d - 1]
  PROVE  InPlace(d)'
<1>0. PICK c : c = chain[d]
  OBVIOUS
<1>00. PICK f : f = LinkSlot(c)
  OBVIOUS
<1>1. c \in Frame /\ d \in Nat /\ d >= 1 /\ (d > 1 => d - 1 \in DOMAIN chain)
  BY <1>0 DEF TypeOK
<1>2. c.base \in Nat /\ (d > 1 => chain[d - 1].base \in Nat)
  <2>1. d > 1 => chain[d - 1] \in Frame
    BY <1>1 DEF TypeOK
  <2> QED BY <1>1, <2>1 DEF Frame
<1>3. Below(d) \in Nat /\ Below(d)' = Below(d) /\ (d > 1 => Below(d) = chain[d - 1].base)
  BY <1>1, <1>2 DEF Below, Bot
<1>4. LinkSlot(chain'[d]) = f
  BY <1>0, <1>00 DEF LinkSlot
<1>5. /\ f \in Int /\ f < c.base /\ Bot < Below(d) /\ Below(d) < f /\ c.base <= MaxStack
      /\ c.fn \in VarargFuncs => f + 2 < c.base
  BY <1>0, <1>00, <1>2, <1>3 DEF InPlace, LinkSlot
<1>6. MaxStack \in Nat
  BY LuaWalkAssumption
<1>7. f - 1 \in Slots /\ f \in Slots /\ (c.fn \in VarargFuncs => f + 1 \in Slots /\ f + 2 \in Slots)
  BY <1>2, <1>3, <1>5, <1>6 DEF Slots, Stack
<1>8. /\ mem'[f] = mem[f] /\ mem'[f - 1] = mem[f - 1]
      /\ c.fn \in VarargFuncs => mem'[f + 1] = mem[f + 1] /\ mem'[f + 2] = mem[f + 2]
  BY <1>0, <1>2, <1>5, <1>7
<1>9. f - 2 \in Slots
  BY <1>2, <1>3, <1>5, <1>6 DEF Slots, Stack, Bot
<1>10. mem'[f - 2] = mem[f - 2]
  BY <1>0, <1>2, <1>5, <1>9
<1>11. mem'[f] = mem[f] /\ mem'[f - 1] = mem[f - 1] /\ mem'[f - 2] = mem[f - 2]
  BY <1>8, <1>10
<1>12. /\ frame_gc(f)' = frame_gc(f) /\ frame_ftsz(f)' = frame_ftsz(f)
       /\ frame_isvarg(f)' = frame_isvarg(f) /\ PrevFrame(f)' = PrevFrame(f)
       /\ \A fn : get_frame_pc(fn, f)' = get_frame_pc(fn, f)
  BY <1>11 DEF frame_gc, frame_ftsz, frame_isvarg, PrevFrame, get_frame_pc, PosOf
<1>13. c.fn \in VarargFuncs =>
         frame_gc(f + 2)' = frame_gc(f + 2) /\ frame_ftsz(f + 2)' = frame_ftsz(f + 2)
  <2> SUFFICES ASSUME c.fn \in VarargFuncs
               PROVE  mem'[(f + 2) - 1].gc = mem[(f + 2) - 1].gc /\ mem'[f + 2].ft = mem[f + 2].ft
    BY DEF frame_gc, frame_ftsz
  <2>1. (f + 2) - 1 = f + 1
    BY <1>5
  <2>2. mem'[f + 1] = mem[f + 1] /\ mem'[f + 2] = mem[f + 2]
    BY <1>8
  <2> QED
    BY <2>1, <2>2
<1> QED
  BY <1>3, <1>4, <1>5, <1>12, <1>13, <1>0, <1>00 DEF InPlace

(* The base of the VM is inside the stack, and above the other calls'.     *)
LEMMA BaseFacts ==
  ASSUME TypeOK, StackInv, torn = 0
  PROVE  /\ TopBase \in Nat /\ Bot < TopBase /\ TopBase <= MaxStack
         /\ \A d \in DOMAIN chain : Bot + 1 < chain[d].base /\ chain[d].base <= TopBase
<1>1. /\ MaxStack \in Nat /\ MaxStack > 2 /\ Bot = 1 /\ TopBase \in Nat
      /\ Len(chain) \in Nat /\ DOMAIN chain = 1 .. Len(chain)
  BY LuaWalkAssumption, TopFacts DEF Bot
<1>2. ASSUME NEW d \in DOMAIN chain
      PROVE  Bot + 1 < chain[d].base /\ chain[d].base <= MaxStack /\ chain[d].base <= TopBase
  <2>1. InPlace(d) /\ chain[d].base \in Nat
    BY TopFacts DEF StackInv
  <2>2. Below(d) \in Nat
    <3>1. d # 1 => d - 1 \in DOMAIN chain
      BY <1>1
    <3> QED BY <1>1, <3>1, TopFacts DEF Below
  <2>3. Bot + 1 < chain[d].base /\ chain[d].base <= MaxStack
    BY <1>1, <2>1, <2>2 DEF InPlace, LinkSlot
  <2>4. PICK n : n = Len(chain)
    OBVIOUS
  <2>5. n \in DOMAIN chain /\ TopBase = chain[n].base /\ (d = n \/ d < n)
    <3>1. chain # <<>>
      BY <1>1
    <3> QED BY <1>1, <2>4, <3>1, TopFacts DEF TopBase
  <2>6. d < n => chain[d].base < chain[n].base
    BY <2>5 DEF StackInv
  <2>7. chain[n].base \in Nat
    BY <2>5, TopFacts
  <2> QED BY <2>1, <2>3, <2>5, <2>6, <2>7
<1>3. Bot < TopBase /\ TopBase <= MaxStack
  <2>1. CASE chain = <<>>
    BY <1>1, <2>1 DEF TopBase
  <2>2. CASE chain # <<>>
    <3>1. PICK n : n = Len(chain)
      OBVIOUS
    <3>2. n \in DOMAIN chain /\ TopBase = chain[n].base
      BY <2>2, <3>1, TopFacts DEF TopBase
    <3> QED BY <1>1, <1>2, <3>2
  <2> QED BY <2>1, <2>2
<1> QED
  BY <1>1, <1>2, <1>3

(* A call puts a frame in place on top of the others.                      *)
LEMMA EnterInPlace ==
  ASSUME TypeOK, StackInv, torn = 0, jit_base = 0,
         NEW m \in [Slots -> SlotValue], NEW f \in Nat, NEW fn \in Funcs \cup {"none"},
         NEW o \in Objects, NEW l \in Links, EnterFunction(m, f, fn, o, l),
         TopBase < f, \A s \in Slots : s < TopBase => m[s] = mem[s],
         o = IF fn = "none" THEN Obj("self") ELSE Func(fn),
         l.tp # "vararg", l.tp = "lua" => l.pc # 0,
         TopBase - 1 = IF l.tp = "lua" THEN f - (2 + l.n) ELSE f - l.n,
         l.tp # "c" =>
           /\ InLua
           /\ \/ l.tp = "lua" /\ PosOf(Top.fn, l) = Top.at
              \/ l.tp = "cont" /\ PosOf(Top.fn, m[f - 2].ft) = Top.at
  PROVE  /\ \A d \in DOMAIN chain' : InPlace(d)'
         /\ \A d, e \in DOMAIN chain' : e < d => chain'[e].base < chain'[d].base
         /\ jit_base' = 0
<1> DEFINE vararg == fn \in VarargFuncs
           linked == Linked(m, f, o, l)
           top == IF vararg THEN f + 2 ELSE f
           new == [fn |-> fn, at |-> 1, base |-> top + 1, saved |-> l.tp # "c"]
<1>1. /\ top < MaxStack
      /\ mem' = IF vararg THEN Linked(linked, top, o, Size("vararg", 2)) ELSE linked
      /\ chain' = Append(chain, new)
      /\ jit_base' = jit_base
  BY DEF EnterFunction
<1>2. /\ MaxStack \in Nat /\ TopBase \in Nat /\ Bot = 1 /\ Bot < TopBase
      /\ \A d \in DOMAIN chain : chain[d].base <= TopBase /\ chain[d].base \in Nat
  BY BaseFacts, TopFacts, LuaWalkAssumption DEF Bot
<1>3. /\ f \in Slots /\ f - 1 \in Slots /\ f - 2 \in Slots
      /\ vararg => f + 1 \in Slots /\ f + 2 \in Slots
  BY <1>1, <1>2 DEF Slots, Stack
<1>4. linked \in [Slots -> SlotValue]
  BY LinkedType
<1>5. \A s \in Slots : linked[s] =
        IF s = f THEN [gc |-> Obj("invalid"), ft |-> l]
        ELSE IF s = f - 1 THEN [gc |-> o, ft |-> NoLink] ELSE m[s]
  BY <1>3, LinkedReads
<1>6. mem' \in [Slots -> SlotValue]
  BY EnterType
<1>7. \A s \in Slots : mem'[s] =
        IF vararg /\ s = f + 2 THEN [gc |-> Obj("invalid"), ft |-> Size("vararg", 2)]
        ELSE IF vararg /\ s = f + 1 THEN [gc |-> o, ft |-> NoLink] ELSE linked[s]
  <2> HIDE DEF linked
  <2>1. CASE vararg
    <3>1. top = f + 2 /\ top - 1 = f + 1 /\ top \in Slots /\ top - 1 \in Slots
      BY <1>3, <2>1
    <3>2. Size("vararg", 2) \in Links
      BY Values
    <3>3. PICK t : t = top
      OBVIOUS
    <3> HIDE DEF top
    <3>4. t \in Slots /\ t - 1 \in Slots
      BY <3>1, <3>3
    <3>5. \A s \in Slots : Linked(linked, t, o, Size("vararg", 2))[s] =
            IF s = t THEN [gc |-> Obj("invalid"), ft |-> Size("vararg", 2)]
            ELSE IF s = t - 1 THEN [gc |-> o, ft |-> NoLink] ELSE linked[s]
      BY <1>4, <3>2, <3>4, LinkedReads
    <3> QED BY <1>1, <2>1, <3>1, <3>3, <3>5
  <2>2. CASE ~vararg
    BY <1>1, <2>2
  <2> QED BY <2>1, <2>2
<1> HIDE DEF linked
<1>8. /\ \A s \in Slots : s < TopBase => mem'[s] = mem[s]
      /\ mem'[f - 1].gc = o /\ mem'[f].ft = l /\ mem'[f - 2] = m[f - 2]
      /\ vararg => mem'[f + 1].gc = o /\ mem'[f + 2].ft = Size("vararg", 2)
  BY <1>2, <1>3, <1>5, <1>7
<1>9. /\ chain \in Seq(Frame) /\ new \in Frame
      /\ new.fn = fn /\ new.base = top + 1 /\ new.saved = (l.tp # "c")
  <2>1. top + 1 \in Nat
    OBVIOUS
  <2> QED BY <2>1, LuaWalkAssumption DEF TypeOK, Frame
<1> HIDE DEF new
<1>10. /\ DOMAIN chain' = 1 .. Len(chain) + 1 /\ Len(chain') = Len(chain) + 1
       /\ chain'[Len(chain) + 1] = new /\ Len(chain) \in Nat
       /\ \A d \in DOMAIN chain : chain'[d] = chain[d] /\ d \in DOMAIN chain'
  BY <1>1, <1>9, AppendProperties
<1>12. ASSUME NEW d \in DOMAIN chain
       PROVE  InPlace(d)'
  <2>1. InPlace(d) /\ chain[d].base <= TopBase /\ chain[d].base \in Nat /\ d \in Nat
    BY <1>2, TopFacts DEF StackInv
  <2>2. d > 1 => d - 1 \in DOMAIN chain
    BY TopFacts
  <2>3. \A s \in Slots : s < chain[d].base => mem'[s] = mem[s]
    BY <1>2, <1>8, <2>1 DEF Slots, Stack
  <2> QED BY <1>6, <1>10, <2>1, <2>2, <2>3, StaysInPlace
<1>13. PICK n : n = Len(chain) + 1
  OBVIOUS
<1>14. InPlace(n)'
  <2>2. n \in Nat /\ (n = 1 <=> chain = <<>>) /\ (n # 1 => n > 1 /\ n - 1 = Len(chain))
    BY <1>13, TopFacts
  <2>3. chain'[n] = new /\ LinkSlot(new) = f
    <3>1. LinkSlot(new) = IF vararg THEN (f + 2 + 1) - 3 ELSE (f + 1) - 1
      BY <1>9 DEF LinkSlot
    <3> QED BY <1>10, <1>13, <3>1
  <2>4. chain # <<>> => chain'[n - 1] = Top
    BY <1>10, <1>13, <2>2, TopFacts
  <2>5. Below(n)' = TopBase
    <3>1. CASE chain = <<>>
      BY <1>2, <2>2, <3>1 DEF Below, TopBase
    <3>2. CASE chain # <<>>
      BY <1>2, <2>2, <2>4, <3>2 DEF Below, TopBase
    <3> QED BY <3>1, <3>2
  <2>6. /\ frame_gc(f)' = o /\ frame_ftsz(f)' = l
        /\ vararg => frame_gc(f + 2)' = o /\ frame_ftsz(f + 2)' = Size("vararg", 2)
    <3>1. (f + 2) - 1 = f + 1
      OBVIOUS
    <3> QED BY <1>8, <3>1 DEF frame_gc, frame_ftsz
  <2>7. PrevFrame(f)' = TopBase - 1 /\ ~frame_isvarg(f)'
    BY <2>6 DEF PrevFrame, frame_isvarg
  <2>8. (l.tp # "c" => n > 1) /\ (l.tp # "c" => get_frame_pc(chain[n - 1].fn, f) = chain[n - 1].at)'
    <3>1. CASE l.tp # "c"
      <4>1. frame_ftsz(f - 2)' = m[f - 2].ft /\ f # 0
        BY <1>2, <1>8 DEF frame_ftsz
      <4>2. n > 1 /\ chain'[n - 1] = Top
        BY <2>2, <2>4, <3>1 DEF InLua
      <4>3. PICK caller : caller = Top.fn
        OBVIOUS
      <4>4. get_frame_pc(caller, f)' = Top.at
        BY <2>6, <3>1, <4>1, <4>3 DEF get_frame_pc, PosOf, NO_BCPOS
      <4>5. (chain[n - 1].fn = caller)'
        BY <4>2, <4>3
      <4> QED BY <4>2, <4>4, <4>5
    <3> QED BY <3>1
  <2>9. fn = "none" => fn \notin VarargFuncs
    BY FuncsAssumption
  <2>10. /\ chain'[n].fn = fn /\ chain'[n].base = top + 1 /\ chain'[n].saved = (l.tp # "c")
         /\ LinkSlot(chain'[n]) = f
    BY <1>9, <2>3
  <2>11. (Bot < Below(n) /\ Below(n) < f /\ chain[n].base <= MaxStack)'
    BY <1>1, <1>2, <2>5, <2>10
  <2>12. (/\ frame_gc(f) = IF chain[n].fn = "none" THEN Obj("self") ELSE Func(chain[n].fn)
          /\ ~frame_isvarg(f)
          /\ frame_ftsz(f).tp = "lua" => frame_ftsz(f).pc # 0
          /\ PrevFrame(f) = Below(n) - 1)'
    BY <2>5, <2>6, <2>7, <2>10
  <2>13. (chain[n].fn \in VarargFuncs =>
            frame_gc(f + 2) = Func(chain[n].fn) /\ frame_ftsz(f + 2) = Size("vararg", 2))'
    BY <2>6, <2>9, <2>10
  <2>14. (IF chain[n].saved
          THEN n > 1 /\ get_frame_pc(chain[n - 1].fn, f) = chain[n - 1].at
          ELSE frame_ftsz(f).tp = "c")'
    BY <2>6, <2>8, <2>10
  <2> QED
    BY <2>10, <2>11, <2>12, <2>13, <2>14 DEF InPlace
<1>15. \A d \in DOMAIN chain' : d \in DOMAIN chain \/ d = Len(chain) + 1
  BY <1>9, <1>10
<1>16. \A d \in DOMAIN chain' : InPlace(d)'
  BY <1>12, <1>13, <1>14, <1>15
<1>17. ASSUME NEW d \in DOMAIN chain', NEW e \in DOMAIN chain', e < d
       PROVE  chain'[e].base < chain'[d].base
  <2>1. e \in DOMAIN chain
    BY <1>10, <1>15, <1>17, TopFacts
  <2>2. CASE d \in DOMAIN chain
    BY <1>10, <1>17, <2>1, <2>2 DEF StackInv
  <2>3. CASE d = Len(chain) + 1
    <3>1. chain'[d].base = top + 1 /\ chain'[e].base <= TopBase
      BY <1>2, <1>9, <1>10, <2>1, <2>3
    <3> QED BY <1>2, <1>10, <2>1, <3>1
  <2> QED BY <1>15, <2>2, <2>3
<1> QED
  BY <1>1, <1>16, <1>17

(* Every step of the VM leaves the frames of its stack in place.           *)
LEMMA VmInPlace ==
  ASSUME TypeOK, StackInv, Vm
  PROVE  StackInv'
<1> DEFINE Post == /\ \A d \in DOMAIN chain' : InPlace(d)'
                   /\ \A d, e \in DOMAIN chain' : e < d => chain'[e].base < chain'[d].base
                   /\ jit_base' > 0 => InLua' /\ jit_base' = TopBase'
<1>1. /\ torn = 0 /\ torn' = torn
      /\ base \in Nat /\ jit_base \in Nat /\ mem \in [Slots -> SlotValue] /\ SizeBc \in Nat
      /\ \A a \in Regs : a \in Nat
      /\ \A fn \in Funcs : fn # "none"
      /\ mem' \in [Slots -> SlotValue]
      /\ TopBase \in Nat
  BY LuaWalkAssumption, FuncsAssumption, VmType, TopFacts DEF Vm, TypeOK, Funcs
<1>2. /\ \A d \in DOMAIN chain : InPlace(d)
      /\ \A d, e \in DOMAIN chain : e < d => chain[e].base < chain[d].base
      /\ jit_base > 0 => InLua /\ jit_base = TopBase
  BY <1>1 DEF StackInv
<1>3. ASSUME InLua
      PROVE  chain # <<>> /\ Top.fn \in Funcs /\ Top.at \in 1 .. SizeBc
  BY <1>1, <1>3, CallerType DEF InLua
<1>5. ASSUME NEW fn \in Funcs, NEW a \in Regs, jit_base = 0, CallFromLua(fn, a)
      PROVE  Post
  <2> DEFINE l == Return(Top.fn, Top.at + 1, a)
             f == TopBase + a + 1
  <2>1. InLua /\ EnterFunction(mem, f, fn, Func(fn), l)
    BY <1>5 DEF CallFromLua
  <2>2. l \in Links /\ Func(fn) \in Objects /\ f \in Nat /\ TopBase < f
    <3>1. Top.at \in 0 .. SizeBc
      BY <1>1, <1>3, <2>1
    <3> QED BY <1>1, <1>3, <2>1, <3>1, Values
  <2>3. /\ l.tp = "lua" /\ l.pc # 0 /\ l.n = a /\ l.tp # "vararg"
        /\ PosOf(Top.fn, l) = Top.at
    BY <1>1, <1>3, <2>1 DEF Return, PosOf
  <2>4. TopBase - 1 = f - (2 + l.n)
    BY <1>1, <2>3
  <2>5. fn # "none"
    BY <1>1
  <2> HIDE DEF l, f
  <2>6. /\ \A d \in DOMAIN chain' : InPlace(d)'
        /\ \A d, e \in DOMAIN chain' : e < d => chain'[e].base < chain'[d].base
        /\ jit_base' = 0
    BY <1>1, <1>5, <2>1, <2>2, <2>3, <2>4, <2>5, EnterInPlace
  <2> QED BY <2>6
<1>6. ASSUME NEW fn \in Funcs, NEW a \in Regs, jit_base = 0, CallMeta(fn, a)
      PROVE  Post
  <2> DEFINE pcSlot == TopBase + a + 1
             ret == Return(Top.fn, Top.at + 1, a)
             m == [mem EXCEPT ![pcSlot].ft = ret]
             f == pcSlot + 2
             l == Size("cont", a + 4)
  <2>1. InLua /\ pcSlot < MaxStack /\ EnterFunction(m, f, fn, Func(fn), l)
    BY <1>6 DEF CallMeta
  <2>2. l \in Links /\ ret \in Links /\ Func(fn) \in Objects /\ f \in Nat /\ TopBase < f
    <3>1. Top.at \in 0 .. SizeBc
      BY <1>1, <1>3, <2>1
    <3> QED BY <1>1, <1>3, <2>1, <3>1, Values
  <2>3. m \in [Slots -> SlotValue]
    <3> HIDE DEF ret
    <3>1. Obj("self") \in Objects
      BY Values
    <3> QED BY <1>1, <2>2, <3>1, WriteType
  <2>4. \A s \in Slots : s < TopBase => m[s] = mem[s]
    BY <1>1
  <2>5. PosOf(Top.fn, m[f - 2].ft) = Top.at
    <3>1. pcSlot \in Slots /\ f - 2 = pcSlot
      BY <1>1, <2>1, LuaWalkAssumption DEF Slots, Stack
    <3>2. m[f - 2].ft = ret
      <4>1. mem[pcSlot] \in SlotValue
        BY <1>1, <3>1
      <4> QED BY <1>1, <3>1, <4>1 DEF SlotValue
    <3>3. PosOf(Top.fn, ret) = Top.at
      BY <1>1, <1>3, <2>1 DEF Return, PosOf
    <3> QED BY <3>2, <3>3
  <2>6. l.tp = "cont" /\ TopBase - 1 = f - l.n
    BY <1>1 DEF Size
  <2>7. fn # "none"
    BY <1>1
  <2> HIDE DEF l, f, m
  <2>8. /\ \A d \in DOMAIN chain' : InPlace(d)'
        /\ \A d, e \in DOMAIN chain' : e < d => chain'[e].base < chain'[d].base
        /\ jit_base' = 0
    BY <1>1, <1>6, <2>1, <2>2, <2>3, <2>4, <2>5, <2>6, <2>7, EnterInPlace
  <2> QED BY <2>8
<1>7. ASSUME NEW fn \in Funcs \cup {"none"}, NEW a \in Regs, jit_base = 0,
             NEW o \in Objects, o = IF fn = "none" THEN Obj("self") ELSE Func(fn),
             EnterFunction(mem, TopBase + a + 1, fn, o, Size("c", a + 2))
      PROVE  Post
  <2> DEFINE l == Size("c", a + 2)
             f == TopBase + a + 1
  <2>1. l \in Links /\ f \in Nat /\ TopBase < f
    BY <1>1, Values
  <2>2. l.tp = "c" /\ TopBase - 1 = f - l.n
    BY <1>1 DEF Size
  <2>3. EnterFunction(mem, f, fn, o, l)
    BY <1>7
  <2> HIDE DEF l, f
  <2>4. /\ \A d \in DOMAIN chain' : InPlace(d)'
        /\ \A d, e \in DOMAIN chain' : e < d => chain'[e].base < chain'[d].base
        /\ jit_base' = 0
    BY <1>1, <1>7, <2>1, <2>2, <2>3, EnterInPlace
  <2> QED BY <2>4
<1>8. ASSUME NEW p \in 1 .. SizeBc, jit_base = 0, Execute(p)
      PROVE  Post
  <2>1. PICK n : n = Len(chain)
    OBVIOUS
  <2>2. /\ chain' = [chain EXCEPT ![n].at = p] /\ mem' = mem /\ jit_base' = jit_base
        /\ n \in DOMAIN chain /\ chain \in Seq(Frame) /\ chain # <<>>
    BY <1>3, <1>8, <2>1, TopFacts DEF Execute, TypeOK
  <2>3. chain[n] \in Frame
    BY <2>2
  <2>4. /\ DOMAIN chain' = DOMAIN chain
        /\ \A d \in DOMAIN chain : /\ chain'[d].fn = chain[d].fn /\ chain'[d].base = chain[d].base
                                   /\ chain'[d].saved = chain[d].saved
        /\ \A d \in DOMAIN chain : d # n => chain'[d] = chain[d]
    <3>1. [chain[n] EXCEPT !.at = p] \in Frame
      BY <2>3 DEF Frame
    <3>2. chain' = [chain EXCEPT ![n] = [chain[n] EXCEPT !.at = p]]
      BY <2>2
    <3> QED BY <2>1, <2>2, <2>3, <3>1, <3>2 DEF Frame
  <2>6. ASSUME NEW d \in DOMAIN chain
        PROVE  InPlace(d)'
    <3>1. d > 1 => d - 1 \in DOMAIN chain /\ d - 1 # n
      BY <2>1, TopFacts
    <3> QED BY <1>1, <1>2, <2>2, <2>4, <3>1, StaysInPlace
  <2> QED BY <1>2, <1>8, <2>2, <2>4, <2>6
<1>9. ASSUME jit_base = 0, Leave
      PROVE  Post
  <2>1. /\ chain # <<>> /\ chain' = SubSeq(chain, 1, Len(chain) - 1)
        /\ mem' = mem /\ jit_base' = 0
    BY <1>9 DEF Leave
  <2>2. /\ \A d \in DOMAIN chain' : d \in DOMAIN chain /\ chain'[d] = chain[d]
        /\ \A d \in DOMAIN chain' : d > 1 => d - 1 \in DOMAIN chain'
    <3>1. Len(chain) \in Nat /\ Len(chain) > 0 /\ DOMAIN chain = 1 .. Len(chain)
      BY <2>1, TopFacts
    <3>2. DOMAIN chain' = 1 .. Len(chain) - 1
      BY <2>1, <3>1 DEF TypeOK
    <3> QED BY <2>1, <3>1, <3>2 DEF TypeOK
  <2>3. ASSUME NEW d \in DOMAIN chain'
        PROVE  InPlace(d)'
    <3>1. /\ d \in DOMAIN chain /\ chain'[d] = chain[d] /\ InPlace(d)
          /\ d > 1 => chain'[d - 1] = chain[d - 1]
      BY <1>2, <2>2
    <3> QED BY <1>1, <2>1, <3>1, StaysInPlace
  <2> QED BY <1>2, <2>1, <2>2, <2>3
<1>10. ASSUME SaveBase \/ EnterTrace \/ ExitTrace, jit_base > 0 => ExitTrace
       PROVE  Post
  <2>1. /\ mem' = mem /\ chain' = chain
        /\ jit_base' > 0 => jit_base' = TopBase /\ InLua
    BY <1>1, <1>2, <1>10 DEF SaveBase, EnterTrace, ExitTrace
  <2>2. /\ TopBase' = TopBase /\ (InLua' <=> InLua)
        /\ \A d \in DOMAIN chain : InPlace(d)' <=> InPlace(d)
    BY <2>1 DEF TopBase, Top, InLua, InPlace, Below, frame_gc, frame_ftsz, frame_isvarg,
                PrevFrame, get_frame_pc, PosOf
  <2> QED BY <1>2, <2>1, <2>2
<1> HIDE DEF Post
<1>11. ASSUME jit_base = 0
       PROVE  Post
  <2>1. ASSUME NEW fn \in Funcs, NEW a \in Regs, CallFromC(fn, a)
        PROVE  Post
    <3>1. Func(fn) \in Objects /\ fn # "none"
      BY <1>1, Values
    <3> QED BY <1>7, <1>11, <2>1, <3>1 DEF CallFromC
  <2>2. ASSUME NEW a \in Regs, DummyFrame(a)
        PROVE  Post
    <3>1. Obj("self") \in Objects
      BY Values
    <3> QED BY <1>7, <1>11, <2>2, <3>1 DEF DummyFrame
  <2>3. \/ \E fn \in Funcs, a \in Regs : CallFromLua(fn, a) \/ CallMeta(fn, a) \/ CallFromC(fn, a)
        \/ \E a \in Regs : DummyFrame(a)
        \/ \E p \in 1 .. SizeBc : Execute(p)
        \/ Leave
        \/ SaveBase \/ EnterTrace
    BY <1>11 DEF Vm
  <2>4. CASE \E fn \in Funcs, a \in Regs : CallFromLua(fn, a) \/ CallMeta(fn, a) \/ CallFromC(fn, a)
    BY <1>5, <1>6, <1>11, <2>1, <2>4
  <2>5. CASE \E a \in Regs : DummyFrame(a)
    BY <2>2, <2>5
  <2>6. CASE \E p \in 1 .. SizeBc : Execute(p)
    BY <1>8, <1>11, <2>6
  <2>7. CASE Leave
    BY <1>9, <1>11, <2>7
  <2>8. CASE SaveBase \/ EnterTrace
    BY <1>10, <1>11, <2>8
  <2> QED BY <2>3, <2>4, <2>5, <2>6, <2>7, <2>8
<1>12. ASSUME jit_base > 0
       PROVE  Post
  BY <1>10, <1>12 DEF Vm
<1>13. Post
  BY <1>1, <1>11, <1>12
<1> QED
  BY <1>13 DEF Post, StackInv

(* The calls a walk starts from are those up to some call n, or none.      *)
LEMMA StartFacts ==
  ASSUME TypeOK, StackInv, torn = 0
  PROVE  /\ Current => \E n \in 0 .. Len(chain) : StartsAt(n)
         /\ \A n \in 0 .. Len(chain) : StartsAt(n) => Started = 1 .. n
<1>1. /\ Len(chain) \in Nat /\ DOMAIN chain = 1 .. Len(chain) /\ Bot = 1
      /\ \A d \in DOMAIN chain : chain[d].base \in Nat /\ Bot + 1 < chain[d].base
      /\ \A d, e \in DOMAIN chain : e < d => chain[e].base < chain[d].base
  BY TopFacts, BaseFacts DEF StackInv, Bot
<1>2. ASSUME Current
      PROVE  \E n \in 0 .. Len(chain) : StartsAt(n)
  <2>1. CASE Start = Bot + 1
    <3>1. StartsAt(0)
      BY <2>1 DEF StartsAt, Below
    <3> QED BY <1>1, <3>1
  <2>2. CASE \E d \in DOMAIN chain : chain[d].base = Start
    <3>1. PICK d \in DOMAIN chain : chain[d].base = Start
      BY <2>2
    <3>2. d + 1 # 1 /\ (d + 1) - 1 = d /\ d \in 0 .. Len(chain)
      BY <1>1
    <3>3. StartsAt(d)
      BY <3>1, <3>2 DEF StartsAt, Below
    <3> QED BY <3>2, <3>3
  <2> QED BY <1>2, <2>1, <2>2 DEF Current
<1>3. ASSUME NEW n \in 0 .. Len(chain), StartsAt(n)
      PROVE  Started = 1 .. n
  <2>1. Start = IF n = 0 THEN Bot + 1 ELSE chain[n].base
    <3>1. (n + 1) - 1 = n /\ (n + 1 = 1 <=> n = 0)
      BY <1>1
    <3> QED BY <1>3, <3>1 DEF StartsAt, Below
  <2>2. ASSUME NEW d \in DOMAIN chain
        PROVE  chain[d].base <= Start <=> d <= n
    <3>1. CASE n = 0
      BY <1>1, <2>1, <3>1
    <3>2. CASE n # 0
      <4>1. n \in DOMAIN chain /\ Start = chain[n].base
        BY <1>1, <2>1, <3>2
      <4>2. /\ d < n => chain[d].base < chain[n].base
            /\ n < d => chain[n].base < chain[d].base
            /\ chain[d].base \in Nat /\ chain[n].base \in Nat
        BY <1>1, <4>1
      <4>3. d < n \/ d = n \/ n < d
        BY <1>1, <4>1
      <4> QED BY <1>1, <4>1, <4>2, <4>3
    <3> QED BY <3>1, <3>2
  <2>3. \A d : d \in Started <=> d \in 1 .. n
    BY <1>1, <2>2 DEF Started
  <2> QED BY <2>3
<1> QED
  BY <1>2, <1>3

(* Levels and iterations, from one call to the next.                       *)
LEMMA Counts ==
  ASSUME NEW n \in Nat, Started = 1 .. n
  PROVE  /\ Level(n) = 0 /\ Iterations(n + 1) = 0
         /\ \A d \in 0 .. n : Level(d) \in Nat /\ Iterations(d + 1) \in Nat
         /\ \A d \in 1 .. n :
              /\ Level(d - 1) = IF chain[d].fn = "none" THEN Level(d) ELSE Level(d) + 1
              /\ Iterations(d) =
                   IF chain[d].fn \in VarargFuncs THEN Iterations(d + 1) + 2
                   ELSE Iterations(d + 1) + 1
         /\ \A d, e \in 1 .. n : e <= d => Iterations(e) >= Iterations(d)
<1> DEFINE Above(d) == {e \in Calls : e > d}
           From(d) == {e \in Started : e >= d}
           Varargs(d) == {e \in Started : e >= d /\ chain[e].fn \in VarargFuncs}
<1>1. IsFiniteSet(1 .. n)
  BY FS_Interval
<1>2. \A d : Above(d) \subseteq 1 .. n /\ From(d) \subseteq 1 .. n /\ Varargs(d) \subseteq 1 .. n
  BY DEF Calls
<1>3. \A d : IsFiniteSet(Above(d)) /\ IsFiniteSet(From(d)) /\ IsFiniteSet(Varargs(d))
  BY <1>1, <1>2, FS_Subset
<1>4. \A d : /\ Cardinality(Above(d)) \in Nat /\ Cardinality(From(d)) \in Nat
             /\ Cardinality(Varargs(d)) \in Nat
  BY <1>3, FS_CardinalityType
<1>5. \A d : Level(d) = Cardinality(Above(d))
             /\ Iterations(d) = Cardinality(From(d)) + Cardinality(Varargs(d))
  BY DEF Level, Iterations
<1>6. Above(n) = {} /\ From(n + 1) = {} /\ Varargs(n + 1) = {}
  BY DEF Calls
<1>7. ASSUME NEW d \in 1 .. n
      PROVE  /\ Above(d - 1) = IF chain[d].fn = "none" THEN Above(d) ELSE Above(d) \cup {d}
             /\ From(d) = From(d + 1) \cup {d}
             /\ Varargs(d) = IF chain[d].fn \in VarargFuncs THEN Varargs(d + 1) \cup {d}
                             ELSE Varargs(d + 1)
             /\ d \notin Above(d) /\ d \notin From(d + 1) /\ d \notin Varargs(d + 1)
  <2>1. \A e \in 1 .. n : (e > d - 1 <=> e > d \/ e = d) /\ (e >= d <=> e >= d + 1 \/ e = d)
    OBVIOUS
  <2>2. ~(d > d) /\ ~(d >= d + 1)
    OBVIOUS
  <2> QED BY <2>1, <2>2 DEF Calls
<1>8. \A d, e \in 1 .. n : e <= d => From(d) \subseteq From(e) /\ Varargs(d) \subseteq Varargs(e)
  OBVIOUS
<1> HIDE DEF Above, From, Varargs
<1>9. ASSUME NEW d \in 1 .. n
      PROVE  /\ Level(d - 1) = IF chain[d].fn = "none" THEN Level(d) ELSE Level(d) + 1
             /\ Iterations(d) =
                  IF chain[d].fn \in VarargFuncs THEN Iterations(d + 1) + 2
                  ELSE Iterations(d + 1) + 1
  <2>1. /\ Cardinality(Above(d) \cup {d}) = Cardinality(Above(d)) + 1
        /\ Cardinality(From(d + 1) \cup {d}) = Cardinality(From(d + 1)) + 1
        /\ Cardinality(Varargs(d + 1) \cup {d}) = Cardinality(Varargs(d + 1)) + 1
    BY <1>3, <1>7, FS_AddElement
  <2>2. /\ Level(d - 1) = Cardinality(Above(d - 1)) /\ Level(d) = Cardinality(Above(d))
        /\ Iterations(d) = Cardinality(From(d)) + Cardinality(Varargs(d))
        /\ Iterations(d + 1) = Cardinality(From(d + 1)) + Cardinality(Varargs(d + 1))
        /\ Cardinality(From(d + 1)) \in Nat /\ Cardinality(Varargs(d + 1)) \in Nat
    BY <1>4, <1>5
  <2>3. Level(d - 1) = IF chain[d].fn = "none" THEN Level(d) ELSE Level(d) + 1
    BY <1>7, <2>1, <2>2
  <2>4. CASE chain[d].fn \in VarargFuncs
    <3>1. From(d) = From(d + 1) \cup {d} /\ Varargs(d) = Varargs(d + 1) \cup {d}
      BY <1>7, <2>4
    <3> QED BY <2>1, <2>2, <2>3, <2>4, <3>1
  <2>5. CASE chain[d].fn \notin VarargFuncs
    <3>1. From(d) = From(d + 1) \cup {d} /\ Varargs(d) = Varargs(d + 1)
      BY <1>7, <2>5
    <3> QED BY <2>1, <2>2, <2>3, <2>5, <3>1
  <2> QED BY <2>4, <2>5
<1>10. \A d, e \in 1 .. n : e <= d => Iterations(e) >= Iterations(d)
  <2>1. \A d, e \in 1 .. n : e <= d =>
          /\ Cardinality(From(d)) <= Cardinality(From(e))
          /\ Cardinality(Varargs(d)) <= Cardinality(Varargs(e))
    BY <1>3, <1>8, FS_Subset
  <2> QED BY <1>4, <1>5, <2>1
<1>11. Level(n) = 0 /\ Iterations(n + 1) = 0
  <2>1. /\ Level(n) = Cardinality(Above(n))
        /\ Iterations(n + 1) = Cardinality(From(n + 1)) + Cardinality(Varargs(n + 1))
    BY <1>5
  <2> QED BY <1>6, <2>1, FS_EmptySet
<1>12. \A d : Level(d) \in Nat /\ Iterations(d + 1) \in Nat
  BY <1>4, <1>5
<1> QED
  BY <1>9, <1>10, <1>11, <1>12

(* What the walker reads of a frame that is in place.                      *)
LEMMA FrameReads ==
  ASSUME TypeOK, StackInv, torn = 0, NEW d \in DOMAIN chain,
         NEW c, c = chain[d], NEW f, f = LinkSlot(c)
  PROVE  /\ f \in Nat /\ f > Bot /\ InStack(f) /\ ~Ends(f) /\ ~frame_isvarg(f)
         /\ frame_gc(f) = IF c.fn = "none" THEN Obj("self") ELSE Func(c.fn)
         /\ HasPrev(f)
         /\ PrevFrame(f) = Below(d) - 1
         /\ c.fn \notin VarargFuncs => f = c.base - 1
         /\ c.fn \in VarargFuncs =>
              /\ f + 2 = c.base - 1 /\ InStack(f + 2) /\ ~Ends(f + 2) /\ frame_isvarg(f + 2)
              /\ PrevFrame(f + 2) = f /\ HasPrev(f + 2)
<1>1. /\ InPlace(d) /\ MaxStack \in Nat /\ c.base \in Nat /\ Bot = 1 /\ d \in Nat
  BY TopFacts, LuaWalkAssumption DEF StackInv, Bot
<1>2. Below(d) \in Nat
  <2>1. d # 1 => d - 1 \in DOMAIN chain
    BY TopFacts
  <2> QED BY <1>1, <2>1, TopFacts DEF Below, Bot
<1>3. f = IF c.fn \in VarargFuncs THEN c.base - 3 ELSE c.base - 1
  BY DEF LinkSlot
<1>4. /\ Bot < Below(d) /\ Below(d) < f /\ c.base <= MaxStack
      /\ frame_gc(f) = IF c.fn = "none" THEN Obj("self") ELSE Func(c.fn)
      /\ ~frame_isvarg(f)
      /\ frame_ftsz(f).tp = "lua" => frame_ftsz(f).pc # 0
      /\ PrevFrame(f) = Below(d) - 1
      /\ c.fn \in VarargFuncs =>
           frame_gc(f + 2) = Func(c.fn) /\ frame_ftsz(f + 2) = Size("vararg", 2)
  BY <1>1 DEF InPlace
<1>5. f \in Nat /\ f > Bot /\ f < MaxStack
  BY <1>1, <1>2, <1>3, <1>4
<1>6. HasPrev(f)
  BY <1>1, <1>2, <1>4, <1>5 DEF HasPrev
<1>7. ~Ends(f)
  <2>1. frame_gc(f).kind \in {"func", "self"}
    BY <1>4 DEF Obj, Func
  <2> QED BY <2>1 DEF Ends
<1>8. ASSUME c.fn \in VarargFuncs
      PROVE  /\ f + 2 = c.base - 1 /\ InStack(f + 2) /\ ~Ends(f + 2) /\ frame_isvarg(f + 2)
             /\ PrevFrame(f + 2) = f /\ HasPrev(f + 2)
  <2>1. f + 2 = c.base - 1 /\ InStack(f + 2)
    BY <1>1, <1>3, <1>4, <1>5, <1>8 DEF InStack
  <2>2. frame_gc(f + 2).kind = "func" /\ frame_isvarg(f + 2) /\ ~Ends(f + 2)
    BY <1>4, <1>8 DEF Func, Size, Ends, frame_isvarg
  <2>3. PrevFrame(f + 2) = f
    <3>1. PrevFrame(f + 2) = (f + 2) - 2
      BY <1>4, <1>8 DEF PrevFrame, Size
    <3> QED BY <1>5, <3>1
  <2>4. HasPrev(f + 2)
    BY <1>1, <1>4, <1>5, <1>8, <2>3 DEF HasPrev, Size
  <2> QED BY <2>1, <2>2, <2>3, <2>4
<1> QED
  BY <1>2, <1>3, <1>4, <1>5, <1>6, <1>7, <1>8 DEF InStack

(* None of this depends on more than the calls and the two bases.          *)
LEMMA SameCalls ==
  ASSUME chain' = chain, base' = base, jit_base' = jit_base
  PROVE  /\ Start' = Start /\ (Current' <=> Current) /\ Reached' = Reached
         /\ Started' = Started /\ Calls' = Calls /\ Len(chain') = Len(chain)
         /\ \A d : /\ Level(d)' = Level(d) /\ Iterations(d)' = Iterations(d)
                   /\ Below(d)' = Below(d) /\ (StartsAt(d)' <=> StartsAt(d))
                   /\ ExactEvent(d)' = ExactEvent(d)
<1>1. Start' = Start
  BY DEF Start, TopBase, Top
<1>2. Started' = Started /\ (Current' <=> Current)
  BY <1>1 DEF Started, Current
<1>3. Calls' = Calls
  BY <1>2 DEF Calls
<1>4. \A d : Level(d)' = Level(d) /\ Iterations(d)' = Iterations(d)
  BY <1>2, <1>3 DEF Level, Iterations
<1>5. Reached' = Reached
  BY <1>3, <1>4 DEF Reached
<1>6. \A d : Below(d)' = Below(d) /\ (StartsAt(d)' <=> StartsAt(d))
  BY <1>1 DEF Below, StartsAt
<1>7. \A d : CallLine(d)' = CallLine(d)
  BY <1>2 DEF CallLine
<1>8. \A d : ExactEvent(d)' = ExactEvent(d)
  BY <1>4, <1>7 DEF ExactEvent
<1> QED
  BY <1>1, <1>2, <1>3, <1>4, <1>5, <1>6, <1>8

(* The walk starts at the frame of the call whose base it read.            *)
LEMMA InterruptExact ==
  ASSUME IInv, StackInv, Interrupt
  PROVE  PlaceInv' /\ WalkExact'
<1>1. /\ TypeOK /\ base \in Nat /\ jit_base \in Nat /\ MaxStack \in Nat /\ MaxStack > 2
      /\ prev_frame = 0 /\ out = 0 /\ events = <<>> /\ i = 0
      /\ chain' = chain /\ base' = base /\ jit_base' = jit_base /\ torn' = torn
      /\ prev_frame' = 0 /\ out' = 0 /\ events' = <<>> /\ i' = 0
  BY LuaWalkAssumption DEF IInv, TypeOK, WalkInv, Interrupt, vmVars
<1>2. (Current' <=> Current) /\ Start' = Start
  BY <1>1, SameCalls
<1> SUFFICES ASSUME torn = 0, Current PROVE PlaceInv' /\ WalkExact'
  BY <1>1, <1>2 DEF PlaceInv, WalkExact
<1>3. PICK n \in 0 .. Len(chain) : StartsAt(n)
  BY <1>1, StartFacts
<1>4. Started = 1 .. n /\ n \in Nat
  BY <1>1, <1>3, StartFacts, TopFacts
<1>5. Start \in Nat /\ Bot < Start /\ Start <= MaxStack
  <2>1. CASE Start = Bot + 1
    BY <1>1, <2>1 DEF Bot
  <2>2. ASSUME NEW d \in DOMAIN chain, chain[d].base = Start
        PROVE  Start \in Nat /\ Bot < Start /\ Start <= MaxStack
    <3>1. /\ Bot + 1 < Start /\ Start <= TopBase /\ TopBase <= MaxStack
          /\ TopBase \in Nat /\ Start \in Nat
      BY <1>1, <2>2, BaseFacts, TopFacts
    <3> QED BY <1>1, <3>1 DEF Bot
  <2> QED BY <2>1, <2>2 DEF Current
<1>6. StartBase = Start /\ on_jit_trace' = (jit_base > 0)
  <2>1. jit_base > 0 => jit_base = Start
    BY DEF StackInv, Start
  <2> QED BY <1>1, <1>5, <2>1 DEF StartBase, Start, Interrupt, Bot
<1>7. step' = "walk" /\ frame' = Start - 1
  <2>1. ~(StartBase <= Bot \/ StartBase > MaxStack)
    BY <1>1, <1>5, <1>6 DEF Bot
  <2> QED BY <1>6, <2>1 DEF Interrupt
<1>8. /\ Level(n) = 0 /\ Iterations(n + 1) = 0
      /\ Level(n)' = Level(n) /\ Iterations(n + 1)' = Iterations(n + 1)
      /\ Below(n + 1)' = Below(n + 1) /\ Start = Below(n + 1)
  BY <1>1, <1>3, <1>4, Counts, SameCalls DEF StartsAt
<1>9. AtFrame(n, n)'
  BY <1>1, <1>7, <1>8 DEF AtFrame
<1>10. Passed(n)'
  <2>1. \A e \in Calls : ~(e > n)
    BY <1>4 DEF Calls
  <2>2. Calls' = Calls
    BY <1>1, SameCalls
  <2> QED BY <1>1, <1>8, <2>1, <2>2 DEF Passed
<1>11. PlaceInv'
  <2>1. n \in 0 .. Len(chain') /\ n \in 0 .. n /\ StartsAt(n)'
    BY <1>1, <1>3, <1>4, SameCalls
  <2> QED BY <1>1, <1>6, <1>9, <1>10, <2>1 DEF PlaceInv
<1> QED
  BY <1>7, <1>11 DEF WalkExact

(* The line that emit_lua finds for the function at the walker's frame.    *)
LEMMA LineExact ==
  ASSUME TypeOK, StackInv, torn = 0, NEW n \in 0 .. Len(chain), Started = 1 .. n,
         NEW d \in 1 .. n, chain[d].fn \in Funcs,
         \/ AtFrame(n, d) /\ chain[d].fn \notin VarargFuncs
         \/ BelowVararg(d)
  PROVE  LineOf(chain[d].fn, prev_frame) = CallLine(d)
<1>1. PICK c : c = chain[d]
  OBVIOUS
<1>2. /\ Len(chain) \in Nat /\ DOMAIN chain = 1 .. Len(chain)
      /\ d \in DOMAIN chain /\ d \in Nat /\ c.fn \in Funcs /\ c.at \in 1 .. SizeBc
      /\ SizeBc \in Nat /\ NO_BCPOS > SizeBc
  <2>1. Len(chain) \in Nat /\ DOMAIN chain = 1 .. Len(chain)
    BY TopFacts
  <2>2. d \in DOMAIN chain
    BY <2>1
  <2> QED BY <1>1, <2>1, <2>2, TopFacts, LuaWalkAssumption DEF NO_BCPOS
<1>3. CASE c.fn \in CFuncs
  BY <1>1, <1>3 DEF LineOf, CallLine
<1>4. CASE c.fn \in VarargFuncs
  <2>1. frame = LinkSlot(c) /\ prev_frame = frame + 2
    BY <1>1, <1>4 DEF BelowVararg
  <2>2. frame \in Nat /\ frame_isvarg(prev_frame)
    BY <1>1, <1>2, <1>4, <2>1, FrameReads
  <2>3. get_frame_pc(c.fn, prev_frame) = NO_BCPOS
    BY <2>1, <2>2 DEF get_frame_pc, frame_isvarg
  <2> QED BY <1>1, <1>2, <1>4, <2>3, FuncsAssumption DEF LineOf, CallLine
<1>5. CASE c.fn \in LuaFuncs
  <2>1. AtFrame(n, d) /\ c.fn \notin CFuncs /\ c.fn \notin VarargFuncs
    BY <1>1, <1>5, FuncsAssumption DEF BelowVararg
  <2>2. CASE d = n
    <3>1. get_frame_pc(c.fn, prev_frame) = NO_BCPOS
      BY <2>1, <2>2 DEF AtFrame, get_frame_pc
    <3>2. d + 1 \notin Started
      BY <1>2, <2>2
    <3> QED BY <1>1, <1>2, <2>1, <3>1, <3>2 DEF LineOf, CallLine
  <2>3. CASE d # n
    <3>1. prev_frame = LinkSlot(chain[d + 1]) /\ d + 1 \in Started
      BY <1>2, <2>1, <2>3 DEF AtFrame
    <3>2. d + 1 \in DOMAIN chain /\ d + 1 > 1 /\ (d + 1) - 1 = d
      BY <1>2, <3>1
    <3>3. InPlace(d + 1) /\ prev_frame # 0
      <4>1. prev_frame > Bot
        BY <3>1, <3>2, FrameReads
      <4> QED BY <3>2, <4>1 DEF StackInv, Bot
    <3>4. CASE chain[d + 1].saved
      <4>1. get_frame_pc(c.fn, prev_frame) = c.at
        BY <1>1, <3>1, <3>2, <3>3, <3>4 DEF InPlace
      <4> QED BY <1>1, <1>2, <2>1, <3>1, <3>4, <4>1 DEF LineOf, CallLine
    <3>5. CASE ~chain[d + 1].saved
      <4>1. frame_ftsz(prev_frame).tp = "c"
        BY <3>1, <3>3, <3>5 DEF InPlace
      <4>2. get_frame_pc(c.fn, prev_frame) = NO_BCPOS
        BY <3>3, <4>1 DEF get_frame_pc
      <4> QED BY <1>1, <1>2, <2>1, <3>5, <4>2 DEF LineOf, CallLine
    <3> QED BY <3>4, <3>5
  <2> QED BY <2>2, <2>3
<1> QED
  BY <1>2, <1>3, <1>4, <1>5 DEF Funcs

(* Only the innermost function can be on a trace, and it is a Lua function.*)
LEMMA TraceTop ==
  ASSUME TypeOK, StackInv, torn = 0, NEW n \in 0 .. Len(chain), Started = 1 .. n,
         NEW d \in 1 .. n, Passed(d), jit_base > 0, out = 0
  PROVE  chain[d].fn \notin CFuncs
<1>1. PICK top : top = Len(chain)
  OBVIOUS
<1>2. InLua /\ jit_base = TopBase /\ chain # <<>>
  BY DEF StackInv, InLua
<1>3. /\ top \in Nat /\ top \in DOMAIN chain /\ Top = chain[top] /\ Start = chain[top].base
      /\ chain[top].base \in Nat
  BY <1>1, <1>2, TopFacts DEF Start, TopBase
<1>4. top \in Started
  BY <1>3 DEF Started
<1>5. n = top
  BY <1>1, <1>3, <1>4
<1>6. Top.fn \notin CFuncs /\ Top.fn # "none"
  BY <1>2, FuncsAssumption DEF InLua
<1>7. n \in Calls
  BY <1>3, <1>4, <1>5, <1>6 DEF Calls
<1>8. ~(n > d)
  <2>1. Level(n) = 0
    BY <1>3, <1>5, Counts
  <2> QED BY <1>7, <2>1 DEF Passed
<1>9. d = n
  BY <1>3, <1>5, <1>8
<1> QED
  BY <1>3, <1>5, <1>6, <1>9

(* The event of the next function, from its frame.                         *)
LEMMA EmitExact ==
  ASSUME IInv, StackInv, torn = 0, on_jit_trace = (jit_base > 0),
         NEW n \in 0 .. Len(chain), Started = 1 .. n, NEW d \in 1 .. n, chain[d].fn \in Funcs,
         \/ AtFrame(n, d) /\ chain[d].fn \notin VarargFuncs
         \/ BelowVararg(d),
         Passed(d), frame_gc(frame) = Func(chain[d].fn),
         emit_lua(frame_gc(frame)), out' = out + 1, i' = i + 1,
         chain' = chain, base' = base, jit_base' = jit_base
  PROVE  Passed(d - 1)'
<1>1. PICK c : c = chain[d]
  OBVIOUS
<1>2. /\ TypeOK /\ events \in Seq(Event) /\ out \in Nat /\ i \in Nat
      /\ Len(events) = out /\ out = Level(d)
      /\ \A e \in Calls : e > d =>
           Level(e) < out /\ Iterations(e) <= i /\ events[Level(e) + 1] = ExactEvent(e)
      /\ \A e \in Calls : Level(e) \in Nat /\ e \in 1 .. n /\ Iterations(e) \in Nat
      /\ n \in Nat /\ d \in Nat /\ d \in Calls
  <2>1. n \in Nat
    BY TopFacts DEF IInv
  <2>2. \A e \in 1 .. n : Level(e) \in Nat /\ Iterations(e) \in Nat
    <3>1. \A e \in 1 .. n : e \in 0 .. n /\ e - 1 \in 0 .. n /\ (e - 1) + 1 = e
      BY <2>1
    <3> QED BY <2>1, <3>1, Counts
  <2>3. d \in Calls
    <3>1. chain[d].fn # "none"
      BY FuncsAssumption DEF Funcs
    <3> QED BY <3>1 DEF Calls
  <2> QED BY <2>1, <2>2, <2>3 DEF IInv, TypeOK, Passed, Calls
<1>3. /\ Level(d - 1) = out + 1 /\ Iterations(d) = i + 1
  <2>1. /\ Level(d - 1) = Level(d) + 1
        /\ Iterations(d) = IF c.fn \in VarargFuncs THEN Iterations(d + 1) + 2
                           ELSE Iterations(d + 1) + 1
    <3>1. chain[d].fn # "none"
      BY FuncsAssumption DEF Funcs
    <3> QED BY <1>1, <1>2, <3>1, Counts
  <2>2. Iterations(d + 1) \in Nat
    <3>1. d \in 0 .. n
      BY <1>2
    <3> QED BY <1>2, <3>1, Counts
  <2> QED BY <1>1, <1>2, <2>1, <2>2 DEF AtFrame, BelowVararg
<1>4. PICK v : v = [level |-> out, fn |-> c.fn, line |-> LineOf(c.fn, prev_frame),
                    jit |-> on_jit_trace /\ out = 0 /\ c.fn \notin CFuncs]
  OBVIOUS
<1>5. events' = Append(events, v)
  BY <1>1, <1>4 DEF emit_lua, Func
<1>6. v = ExactEvent(d)
  <2>1. LineOf(c.fn, prev_frame) = CallLine(d)
    BY <1>1, <1>2, LineExact
  <2>2. jit_base > 0 /\ out = 0 => c.fn \notin CFuncs
    BY <1>1, <1>2, TraceTop
  <2>3. (on_jit_trace /\ out = 0 /\ c.fn \notin CFuncs) = (Level(d) = 0 /\ jit_base > 0)
    BY <1>2, <2>2
  <2> QED BY <1>1, <1>2, <1>4, <2>1, <2>3 DEF ExactEvent
<1>7. /\ Len(events') = out + 1 /\ events'[out + 1] = v
      /\ \A k \in 1 .. out : events'[k] = events[k]
  BY <1>2, <1>5
<1>8. ASSUME NEW e \in Calls, e > d - 1
      PROVE  Level(e) < out' /\ Iterations(e) <= i' /\ events'[Level(e) + 1] = ExactEvent(e)
  <2>1. CASE e > d
    <3>1. Level(e) + 1 \in 1 .. out
      BY <1>2, <2>1
    <3> QED BY <1>2, <1>7, <2>1, <3>1
  <2>2. CASE e = d
    BY <1>2, <1>3, <1>6, <1>7, <2>2
  <2>3. e > d \/ e = d
    BY <1>2, <1>8
  <2> QED BY <2>1, <2>2, <2>3
<1>9. /\ Calls' = Calls /\ Level(d - 1)' = Level(d - 1)
      /\ \A e : /\ Level(e)' = Level(e) /\ Iterations(e)' = Iterations(e)
                /\ ExactEvent(e)' = ExactEvent(e)
  BY SameCalls
<1> QED
  BY <1>3, <1>7, <1>8, <1>9 DEF Passed

(* The walk ends where it has reached all it can.                          *)
LEMMA DoneExact ==
  ASSUME TypeOK, StackInv, torn = 0, NEW n \in 0 .. Len(chain), Started = 1 .. n,
         NEW d \in 0 .. n, AtFrame(n, d) \/ BelowVararg(d), Passed(d),
         d = 0 \/ i = MaxLuaDepth
  PROVE  /\ Len(events) = Cardinality(Reached)
         /\ \A e \in Reached : events[Level(e) + 1] = ExactEvent(e)
<1>1. /\ n \in Nat /\ d \in Nat /\ i \in 0 .. MaxLuaDepth /\ MaxLuaDepth \in Nat
      /\ Calls \subseteq 1 .. n
  BY TopFacts, LuaWalkAssumption DEF TypeOK, Calls
<1>2. ASSUME NEW e \in Calls
      PROVE  Iterations(e) <= MaxLuaDepth <=> e > d
  <2>1. /\ e \in 1 .. n /\ e - 1 \in 0 .. n /\ (e - 1) + 1 = e
    BY <1>1
  <2>2. Iterations(e) \in Nat
    BY <1>1, <2>1, Counts
  <2>3. CASE e > d
    BY <1>1, <2>2, <2>3 DEF Passed
  <2>4. CASE ~(e > d)
    <3>1. d # 0 /\ i = MaxLuaDepth /\ d \in 1 .. n /\ e <= d
      BY <1>1, <2>1, <2>4
    <3>2. Iterations(e) >= Iterations(d)
      BY <1>1, <2>1, <3>1, Counts
    <3>3. /\ Iterations(d) = IF chain[d].fn \in VarargFuncs THEN Iterations(d + 1) + 2
                             ELSE Iterations(d + 1) + 1
          /\ Iterations(d + 1) \in Nat
      BY <1>1, <3>1, Counts
    <3>4. Iterations(d) > i
      BY <1>1, <3>3 DEF AtFrame, BelowVararg
    <3> QED BY <1>1, <2>2, <2>4, <3>1, <3>2, <3>3, <3>4
  <2> QED BY <2>3, <2>4
<1>3. \A e : e \in Reached <=> e \in {x \in Calls : x > d}
  BY <1>2 DEF Reached
<1>4. Reached = {x \in Calls : x > d}
  BY <1>3
<1>5. Cardinality(Reached) = Level(d)
  BY <1>4 DEF Level
<1> QED
  BY <1>4, <1>5 DEF Passed

LEMMA WalkStepExact ==
  ASSUME IInv, StackInv, PlaceInv, WalkStep
  PROVE  PlaceInv' /\ WalkExact'
<1>1. /\ TypeOK /\ step = "walk" /\ chain' = chain /\ base' = base /\ jit_base' = jit_base
      /\ torn' = torn /\ on_jit_trace' = on_jit_trace
      /\ i \in 0 .. MaxLuaDepth /\ MaxLuaDepth \in Nat /\ out \in Nat
  BY LuaWalkAssumption DEF IInv, TypeOK, WalkStep, vmVars
<1>2. /\ (Current' <=> Current) /\ Reached' = Reached /\ Calls' = Calls
      /\ Len(chain') = Len(chain) /\ Bot = 1
      /\ \A e : /\ Level(e)' = Level(e) /\ Iterations(e)' = Iterations(e)
                /\ Below(e)' = Below(e) /\ (StartsAt(e)' <=> StartsAt(e))
                /\ ExactEvent(e)' = ExactEvent(e)
  BY <1>1, SameCalls DEF Bot
<1> SUFFICES ASSUME torn = 0, Current PROVE PlaceInv' /\ WalkExact'
  BY <1>1, <1>2 DEF PlaceInv, WalkExact
<1>3. PICK n \in 0 .. Len(chain) : /\ StartsAt(n)
                                   /\ \E d \in 0 .. n : (AtFrame(n, d) \/ BelowVararg(d)) /\ Passed(d)
  BY <1>1 DEF PlaceInv
<1>4. PICK d \in 0 .. n : (AtFrame(n, d) \/ BelowVararg(d)) /\ Passed(d)
  BY <1>3
<1>5. /\ Started = 1 .. n /\ n \in Nat /\ d \in Nat /\ on_jit_trace = (jit_base > 0)
      /\ \A e \in 1 .. n : e \in DOMAIN chain
  BY <1>1, <1>3, StartFacts, TopFacts DEF PlaceInv
<1>6. ASSUME d # 0
      PROVE  InStack(frame) /\ ~Ends(frame) /\ HasPrev(frame)
  <2>1. d \in DOMAIN chain /\ d + 1 # 1 /\ (d + 1) - 1 = d
    BY <1>5, <1>6
  <2>2. \/ frame = LinkSlot(chain[d])
        \/ chain[d].fn \in VarargFuncs /\ frame = LinkSlot(chain[d]) + 2
    <3>1. AtFrame(n, d) => frame = chain[d].base - 1
      BY <2>1 DEF AtFrame, Below
    <3> QED BY <1>1, <1>4, <2>1, <3>1, FrameReads DEF BelowVararg
  <2> QED BY <1>1, <2>1, <2>2, FrameReads
<1>7. CASE i = MaxLuaDepth \/ ~InStack(frame) \/ Ends(frame)
  <2>1. step' = "done" /\ UNCHANGED events
    BY <1>7 DEF WalkStep
  <2>2. d = 0 \/ i = MaxLuaDepth
    BY <1>6, <1>7
  <2>3. /\ Len(events) = Cardinality(Reached)
        /\ \A e \in Reached : events[Level(e) + 1] = ExactEvent(e)
    BY <1>1, <1>4, <1>5, <2>2, DoneExact
  <2> QED BY <1>2, <2>1, <2>3 DEF WalkExact, PlaceInv
<1>8. CASE ~(i = MaxLuaDepth \/ ~InStack(frame) \/ Ends(frame))
  <2>1. d # 0
    <3> SUFFICES ASSUME d = 0 PROVE FALSE
      OBVIOUS
    <3>1. frame = Bot
      BY <1>2, <1>4 DEF AtFrame, BelowVararg, Below
    <3> QED BY <1>8, <3>1 DEF InStack, Bot
  <2>2. PICK c, f : c = chain[d] /\ f = LinkSlot(c)
    OBVIOUS
  <2>3. /\ d \in 1 .. n /\ d \in DOMAIN chain /\ d + 1 # 1 /\ (d + 1) - 1 = d
        /\ d - 1 \in 0 .. n /\ (d - 1) + 1 = d /\ d - 1 # n
    BY <1>5, <2>1
  <2>4. /\ IF frame_isvarg(frame) \/ frame_gc(frame).kind = "self"
           THEN UNCHANGED <<out, events>>
           ELSE emit_lua(frame_gc(frame)) /\ out' = out + 1
        /\ prev_frame' = frame /\ frame' = PrevFrame(frame) /\ i' = i + 1 /\ step' = "walk"
    BY <1>1, <1>6, <1>8, <2>1 DEF WalkStep
  <2>5. /\ f \in Nat /\ ~frame_isvarg(f)
        /\ frame_gc(f) = IF c.fn = "none" THEN Obj("self") ELSE Func(c.fn)
        /\ PrevFrame(f) = Below(d) - 1
        /\ c.fn \notin VarargFuncs => f = c.base - 1
        /\ c.fn \in VarargFuncs =>
             f + 2 = c.base - 1 /\ frame_isvarg(f + 2) /\ PrevFrame(f + 2) = f
    BY <1>1, <2>2, <2>3, FrameReads
  <2>6. AtFrame(n, d) => frame = c.base - 1 /\ i = Iterations(d + 1)
    BY <2>2, <2>3 DEF AtFrame, Below
  <2>7. /\ Iterations(d + 1) \in Nat
        /\ Level(d - 1) = IF c.fn = "none" THEN Level(d) ELSE Level(d) + 1
        /\ Iterations(d) = IF c.fn \in VarargFuncs THEN Iterations(d + 1) + 2
                           ELSE Iterations(d + 1) + 1
        /\ \A e \in Calls : Iterations(e) \in Nat
    <3>1. \A e \in Calls : e \in 1 .. n /\ e - 1 \in 0 .. n /\ (e - 1) + 1 = e
      BY <1>5 DEF Calls
    <3>2. d \in 0 .. n
      BY <2>3
    <3>3. \A e \in 0 .. n : Iterations(e + 1) \in Nat
      BY <1>5, Counts
    <3>4. /\ Level(d - 1) = IF c.fn = "none" THEN Level(d) ELSE Level(d) + 1
          /\ Iterations(d) = IF c.fn \in VarargFuncs THEN Iterations(d + 1) + 2
                             ELSE Iterations(d + 1) + 1
      BY <1>5, <2>2, <2>3, Counts
    <3>5. \A e \in Calls : Iterations(e) \in Nat
      <4> SUFFICES ASSUME NEW e \in Calls PROVE Iterations(e) \in Nat
        OBVIOUS
      <4>1. Iterations((e - 1) + 1) \in Nat /\ (e - 1) + 1 = e
        BY <3>1, <3>3
      <4> QED BY <4>1
    <3> QED BY <3>2, <3>3, <3>4, <3>5
  <2>8. WalkExact'
    BY <2>4 DEF WalkExact
  <2>9. ASSUME NEW e \in 0 .. n, (AtFrame(n, e) \/ BelowVararg(e))', Passed(e)'
        PROVE  PlaceInv'
    BY <1>1, <1>2, <1>3, <1>5, <2>9 DEF PlaceInv
  <2>10. ASSUME frame = f, i' = Iterations(d)
         PROVE  AtFrame(n, d - 1)'
    <3>1. frame' = Below(d) - 1 /\ prev_frame' = LinkSlot(chain[d])
      BY <2>2, <2>4, <2>5, <2>10
    <3>2. /\ Below((d - 1) + 1)' = Below(d) /\ Iterations((d - 1) + 1)' = Iterations(d)
          /\ LinkSlot(chain[(d - 1) + 1])' = LinkSlot(chain[d])
      BY <1>1, <1>2, <2>3 DEF LinkSlot
    <3> QED BY <2>3, <2>10, <3>1, <3>2 DEF AtFrame
  <2>11. CASE AtFrame(n, d) /\ c.fn = "none"
    <3>1. c.fn \notin VarargFuncs
      BY <2>11, FuncsAssumption
    <3>2. frame = f /\ UNCHANGED <<out, events>> /\ i' = Iterations(d)
      BY <2>4, <2>5, <2>6, <2>7, <2>11, <3>1 DEF Obj
    <3>3. Passed(d - 1)'
      <4>1. \A e \in Calls : e > d - 1 => e > d
        BY <1>5, <2>2, <2>11 DEF Calls
      <4> QED BY <1>1, <1>2, <1>4, <2>4, <2>7, <2>11, <3>2, <4>1 DEF Passed
    <3> QED BY <2>3, <2>8, <2>9, <2>10, <3>2, <3>3
  <2>12. CASE AtFrame(n, d) /\ c.fn \in VarargFuncs
    <3>1. frame = f + 2 /\ frame' = f /\ prev_frame' = f + 2 /\ UNCHANGED <<out, events>>
      BY <2>4, <2>5, <2>6, <2>12
    <3>2. BelowVararg(d)'
      BY <1>1, <1>2, <1>5, <2>1, <2>2, <2>4, <2>6, <2>12, <3>1 DEF BelowVararg, LinkSlot
    <3>3. Passed(d)'
      BY <1>1, <1>2, <1>4, <2>4, <2>7, <3>1 DEF Passed
    <3> QED BY <2>8, <2>9, <3>2, <3>3
  <2>13. CASE (AtFrame(n, d) /\ c.fn \notin VarargFuncs /\ c.fn # "none") \/ BelowVararg(d)
    <3>1. c.fn \in Funcs
      <4>1. c.fn \in Funcs \cup {"none"} /\ (BelowVararg(d) => c.fn # "none")
        BY <1>1, <2>2, <2>3, TopFacts, FuncsAssumption DEF BelowVararg
      <4> QED BY <2>13, <4>1
    <3>2. frame = f /\ i' = Iterations(d)
      BY <1>1, <2>2, <2>4, <2>5, <2>6, <2>7, <2>13 DEF BelowVararg
    <3>3. frame_gc(frame) = Func(c.fn) /\ emit_lua(frame_gc(frame)) /\ out' = out + 1
      <4>1. c.fn # "none"
        BY <3>1, FuncsAssumption DEF Funcs
      <4> QED BY <2>4, <2>5, <3>2, <4>1 DEF Func
    <3>4. Passed(d - 1)'
      BY <1>1, <1>4, <1>5, <2>2, <2>3, <2>4, <2>13, <3>1, <3>3, EmitExact
    <3> QED BY <2>3, <2>8, <2>9, <2>10, <3>2, <3>4
  <2> QED BY <1>4, <2>11, <2>12, <2>13
<1> QED
  BY <1>7, <1>8

-----------------------------------------------------------------------------
LEMMA ExactInit == Init => ExactInv
<1> SUFFICES ASSUME Init PROVE ExactInv
  OBVIOUS
<1>1. chain = <<>> /\ step = "vm" /\ jit_base = 0
  BY DEF Init
<1>2. DOMAIN chain = {}
  BY <1>1
<1> QED
  BY <1>1, <1>2 DEF ExactInv, StackInv, PlaceInv, WalkExact

LEMMA ExactNext == IInv /\ ExactInv /\ [Next]_vars => ExactInv'
<1> SUFFICES ASSUME IInv, ExactInv, [Next]_vars PROVE ExactInv'
  OBVIOUS
<1>0. TypeOK /\ StackInv /\ PlaceInv /\ WalkExact
  BY DEF IInv, ExactInv
<1>1. CASE Vm
  <2>1. step' = "vm"
    BY <1>1 DEF Vm
  <2> QED BY <1>0, <1>1, <2>1, VmInPlace DEF ExactInv, PlaceInv, WalkExact
<1>2. CASE Tear
  <2>1. torn' # 0
    BY <1>0, <1>2 DEF Tear, TypeOK
  <2> QED BY <2>1 DEF ExactInv, StackInv, PlaceInv, WalkExact
<1>3. ASSUME UNCHANGED <<vmVars, torn>>
      PROVE  StackInv'
  BY <1>0, <1>3 DEF vmVars, StackInv, TopBase, Top, InLua, InPlace, Below, frame_gc, frame_ftsz,
                    frame_isvarg, PrevFrame, get_frame_pc, PosOf
<1>4. CASE Interrupt
  BY <1>0, <1>3, <1>4, InterruptExact DEF ExactInv, Interrupt
<1>5. CASE WalkStep
  BY <1>0, <1>3, <1>5, WalkStepExact DEF ExactInv, WalkStep
<1>6. CASE UNCHANGED vars
  <2>1. StackInv'
    BY <1>3, <1>6 DEF vars
  <2>2. /\ chain' = chain /\ base' = base /\ jit_base' = jit_base /\ torn' = torn
        /\ step' = step /\ frame' = frame /\ prev_frame' = prev_frame /\ i' = i /\ out' = out
        /\ on_jit_trace' = on_jit_trace /\ events' = events
    BY <1>6 DEF vars, vmVars, walkVars
  <2>3. /\ (Current' <=> Current) /\ Reached' = Reached /\ Calls' = Calls
        /\ \A d : /\ Level(d)' = Level(d) /\ Iterations(d)' = Iterations(d)
                  /\ Below(d)' = Below(d) /\ (StartsAt(d)' <=> StartsAt(d))
                  /\ ExactEvent(d)' = ExactEvent(d)
    BY <2>2, SameCalls
  <2>4. \A n, d : /\ AtFrame(n, d)' <=> AtFrame(n, d)
                  /\ BelowVararg(d)' <=> BelowVararg(d)
                  /\ Passed(d)' <=> Passed(d)
    BY <2>2, <2>3 DEF AtFrame, BelowVararg, Passed, LinkSlot
  <2>5. PlaceInv'
    BY <1>0, <2>2, <2>3, <2>4 DEF PlaceInv
  <2>6. WalkExact'
    BY <1>0, <2>2, <2>3 DEF WalkExact
  <2> QED BY <2>1, <2>5, <2>6 DEF ExactInv
<1> QED
  BY <1>1, <1>2, <1>4, <1>5, <1>6 DEF Next

(* What walk_lua_stack outputs of a stack that holds still is one event    *)
(* for each function that it reaches from the base it read, if that is the *)
(* base of a call in progress: at its level, with the line of its call.    *)
THEOREM WalkAlwaysExact == Spec => []WalkExact
<1>1. ExactInv => WalkExact
  BY DEF ExactInv
<1> QED
  BY <1>1, Invariance, ExactInit, ExactNext, PTL DEF Spec
=============================================================================
