-------------------------- MODULE LuaStatesProofs --------------------------
(***************************************************************************)
(* TypeOK, NoStaleSlot and ExactDepth of LuaStates, for any threads, any   *)
(* states, any capacity of the map and any nesting.                        *)
(***************************************************************************)
EXTENDS LuaStates, HelperProofs, FiniteSetTheorems, SequenceTheorems

(* The return probe of a function is attached after its entry probe.       *)
LEMMA ReturnAfterEntry ==
  ASSUME TypeOK, NEW fn \in Probed, Attached("return", fn)
  PROVE  Attached("entry", fn)
<1>1. PICK i \in 1 .. links : AttachOrder[i] = <<"return", fn>>
  BY DEF Attached
<1>2. i \in 1 .. 5 /\ links \in 0 .. 5
  BY <1>1 DEF TypeOK
<1>3. AttachOrder[1] = <<"entry", "lua_resume">> /\ AttachOrder[2] = <<"entry", "lua_pcall">>
  BY DEF AttachOrder
<1>4. i > 2
  BY <1>1, <1>2, <1>3
<1>5. AttachOrder[IF fn = "lua_resume" THEN 1 ELSE 2] = <<"entry", fn>>
  BY <1>3 DEF Probed
<1> QED
  BY <1>2, <1>4, <1>5 DEF Attached

LEMMA DepthType ==
  ASSUME TypeOK, NEW t
  PROVE  /\ Depth(t) \in Nat
         /\ Depth(t) <= DepthCap
         /\ Depth(t) > 0 <=> t \in DOMAIN lua_states
BY LuaStatesAssumption DEF TypeOK, Depth, Slot

-----------------------------------------------------------------------------
(* The handlers keep the map's type.                                       *)
LEMMA EntryType ==
  ASSUME TypeOK, NEW t \in Threads, NEW L \in Luas, handle_entry_lua(t, L)
  PROVE  DOMAIN lua_states' \subseteq Target /\ lua_states' \in [DOMAIN lua_states' -> Slot]
<1>1. CASE t \notin Target
  BY <1>1 DEF handle_entry_lua, TypeOK
<1>2. CASE t \in Target
  <2> DEFINE slot == [ptr |-> L, depth |-> EntryDepth(t)]
  <2>1. slot \in Slot
    BY DepthType, LuaStatesAssumption DEF Slot, EntryDepth
  <2>2. lua_states' = MapUpdate(lua_states, t, slot, MaxEntries)
    BY <1>2 DEF handle_entry_lua
  <2> HIDE DEF slot
  <2>3. DOMAIN lua_states \subseteq Target /\ lua_states \in [DOMAIN lua_states -> Slot]
    BY DEF TypeOK
  <2>4. /\ DOMAIN MapUpdate(lua_states, t, slot, MaxEntries) \subseteq Target
        /\ MapUpdate(lua_states, t, slot, MaxEntries)
             \in [DOMAIN MapUpdate(lua_states, t, slot, MaxEntries) -> Slot]
    BY <1>2, <2>1, <2>3, MapUpdateType
  <2> QED
    BY <2>2, <2>4
<1> QED
  BY <1>1, <1>2

(* What the slot's new depth is: one more, or 1 after a reset, or none if  *)
(* the map is full.                                                        *)
LEMMA EntryEffect ==
  ASSUME TypeOK, NEW t \in Threads, NEW L \in Luas, handle_entry_lua(t, L)
  PROVE  /\ \A u \in Threads \ {t} : Depth(u)' = Depth(u)
         /\ t \in Target => /\ Depth(t)' \in Nat
                            /\ Depth(t)' <= Depth(t) + 1
                            /\ EntryCounted(t) => Depth(t)' = Depth(t) + 1
<1>1. CASE t \notin Target
  BY <1>1 DEF handle_entry_lua, Depth
<1>2. CASE t \in Target /\ ~HasRoom(lua_states, t, MaxEntries)
  <2>1. lua_states' = lua_states
    BY <1>2 DEF handle_entry_lua, MapUpdate
  <2> QED
    BY <1>2, <2>1, DepthType DEF Depth, EntryCounted
<1>3. CASE t \in Target /\ HasRoom(lua_states, t, MaxEntries)
  <2> DEFINE slot == [ptr |-> L, depth |-> EntryDepth(t)]
  <2>1. lua_states' = Put(lua_states, t, slot)
    BY <1>3 DEF handle_entry_lua, MapUpdate
  <2>2. slot.depth = EntryDepth(t)
    OBVIOUS
  <2> HIDE DEF slot
  <2>3. /\ DOMAIN lua_states' = DOMAIN lua_states \cup {t}
        /\ lua_states'[t] = slot
        /\ \A u \in DOMAIN lua_states \ {t} : lua_states'[u] = lua_states[u]
    BY <2>1 DEF Put
  <2>4. Depth(t)' = EntryDepth(t)
    BY <2>2, <2>3 DEF Depth
  <2>5. \A u \in Threads \ {t} : Depth(u)' = Depth(u)
    BY <2>3 DEF Depth
  <2>6. EntryDepth(t) \in Nat /\ EntryDepth(t) <= Depth(t) + 1
    BY DepthType DEF EntryDepth
  <2>7. EntryCounted(t) => EntryDepth(t) = Depth(t) + 1
    BY DepthType DEF EntryDepth, EntryCounted
  <2> QED
    BY <2>4, <2>5, <2>6, <2>7
<1> QED
  BY <1>1, <1>2, <1>3

LEMMA ReturnType ==
  ASSUME TypeOK, NEW t \in Threads, handle_return_lua(t)
  PROVE  DOMAIN lua_states' \subseteq Target /\ lua_states' \in [DOMAIN lua_states' -> Slot]
<1>1. CASE t \notin Target
  BY <1>1 DEF handle_return_lua, TypeOK
<1>2. CASE t \in Target /\ Depth(t) <= 1
  <2>1. lua_states' = MapDelete(lua_states, t)
    BY <1>2 DEF handle_return_lua
  <2> QED
    BY <2>1 DEF TypeOK, MapDelete
<1>3. CASE t \in Target /\ ~(Depth(t) <= 1)
  <2> DEFINE slot == [lua_states[t] EXCEPT !.depth = @ - 1]
  <2>1. t \in DOMAIN lua_states /\ lua_states[t].depth > 1 /\ lua_states[t] \in Slot
    BY <1>3, DepthType DEF Depth, TypeOK
  <2>2. slot \in Slot
    BY <2>1, LuaStatesAssumption DEF Slot
  <2>3. lua_states' = Put(lua_states, t, slot)
    BY <1>3, <2>1, MapUpdatePresent DEF handle_return_lua
  <2> HIDE DEF slot
  <2> QED
    BY <1>3, <2>2, <2>3 DEF TypeOK, Put
<1> QED
  BY <1>1, <1>2, <1>3

(* A hooked return takes one off the depth, down to no slot at all.        *)
LEMMA ReturnEffect ==
  ASSUME TypeOK, NEW t \in Threads, handle_return_lua(t)
  PROVE  /\ \A u \in Threads \ {t} : Depth(u)' = Depth(u)
         /\ t \in Target => Depth(t)' = IF Depth(t) <= 1 THEN 0 ELSE Depth(t) - 1
<1>1. CASE t \notin Target
  BY <1>1 DEF handle_return_lua, Depth
<1>2. CASE t \in Target /\ Depth(t) <= 1
  <2>1. lua_states' = MapDelete(lua_states, t)
    BY <1>2 DEF handle_return_lua
  <2>2. /\ DOMAIN lua_states' = DOMAIN lua_states \ {t}
        /\ \A u \in DOMAIN lua_states \ {t} : lua_states'[u] = lua_states[u]
    BY <2>1 DEF MapDelete
  <2>3. \A u \in Threads \ {t} : Depth(u)' = Depth(u)
    BY <2>2 DEF Depth
  <2>4. Depth(t)' = 0
    BY <2>2 DEF Depth
  <2> QED
    BY <1>2, <2>3, <2>4
<1>3. CASE t \in Target /\ ~(Depth(t) <= 1)
  <2> DEFINE slot == [lua_states[t] EXCEPT !.depth = @ - 1]
  <2>1. t \in DOMAIN lua_states /\ lua_states[t] \in Slot
    BY <1>3, DepthType DEF Depth, TypeOK
  <2>2. lua_states' = Put(lua_states, t, slot)
    BY <1>3, <2>1, MapUpdatePresent DEF handle_return_lua
  <2>3. slot.depth = Depth(t) - 1
    BY <2>1 DEF Slot, Depth
  <2> HIDE DEF slot
  <2>4. /\ DOMAIN lua_states' = DOMAIN lua_states \cup {t}
        /\ lua_states'[t] = slot
        /\ \A u \in DOMAIN lua_states \ {t} : lua_states'[u] = lua_states[u]
    BY <2>2 DEF Put
  <2>5. \A u \in Threads \ {t} : Depth(u)' = Depth(u)
    BY <2>4 DEF Depth
  <2>6. Depth(t)' = Depth(t) - 1
    BY <2>3, <2>4 DEF Depth
  <2> QED
    BY <1>3, <2>5, <2>6
<1> QED
  BY <1>1, <1>2, <1>3

-----------------------------------------------------------------------------
(* How the actions change the set of a thread's hooked calls.              *)
LEMMA HookedType ==
  ASSUME TypeOK, NEW t \in Threads
  PROVE  /\ Hooked(t) \subseteq 1 .. Len(calls[t])
         /\ IsFiniteSet(Hooked(t))
         /\ Cardinality(Hooked(t)) \in Nat
<1>1. calls[t] \in Seq(Call)
  BY DEF TypeOK
<1>2. Len(calls[t]) \in Nat /\ Hooked(t) \subseteq 1 .. Len(calls[t])
  BY <1>1 DEF Hooked
<1>3. IsFiniteSet(1 .. Len(calls[t]))
  BY <1>2, FS_Interval
<1>4. IsFiniteSet(Hooked(t))
  BY <1>2, <1>3, FS_Subset
<1> QED
  BY <1>2, <1>4, FS_CardinalityType

LEMMA EnterHooked ==
  ASSUME TypeOK, NEW t \in Threads, NEW fn \in Probed, NEW L \in Luas, Enter(t, fn, L)
  PROVE  /\ \A u \in Threads \ {t} : Hooked(u)' = Hooked(u)
         /\ Cardinality(Hooked(t))' =
              Cardinality(Hooked(t)) + IF Attached("return", fn) THEN 1 ELSE 0
<1> DEFINE n == Len(calls[t])
           call == [fn |-> fn, L |-> L, hooked |-> Attached("return", fn), yielding |-> FALSE]
<1>1. calls' = [calls EXCEPT ![t] = Append(@, call)]
  BY DEF Enter
<1>2. calls \in [Threads -> Seq(Call)] /\ n \in Nat
  BY DEF TypeOK
<1>3. \A u \in Threads \ {t} : Hooked(u)' = Hooked(u)
  BY <1>1, <1>2 DEF Hooked
<1>4. calls'[t] = Append(calls[t], call)
  BY <1>1, <1>2
<1>5. call.hooked = Attached("return", fn)
  OBVIOUS
<1> HIDE DEF call
<1>6. /\ DOMAIN calls'[t] = DOMAIN calls[t] \cup {n + 1}
      /\ calls'[t][n + 1] = call
      /\ \A i \in DOMAIN calls[t] : calls'[t][i] = calls[t][i]
      /\ n + 1 \notin DOMAIN calls[t]
  BY <1>2, <1>4
<1>7. CASE Attached("return", fn)
  <2>1. Hooked(t)' = Hooked(t) \cup {n + 1} /\ n + 1 \notin Hooked(t)
    BY <1>5, <1>6, <1>7 DEF Hooked
  <2>2. Cardinality(Hooked(t) \cup {n + 1}) = Cardinality(Hooked(t)) + 1
    BY <2>1, HookedType, FS_AddElement
  <2> QED
    BY <1>3, <1>7, <2>1, <2>2
<1>8. CASE ~Attached("return", fn)
  <2>1. Hooked(t)' = Hooked(t)
    BY <1>5, <1>6, <1>8 DEF Hooked
  <2> QED
    BY <1>3, <1>8, <2>1, HookedType
<1> QED
  BY <1>7, <1>8

LEMMA YieldHooked ==
  ASSUME TypeOK, NEW t \in Threads, Yield(t)
  PROVE  \A u \in Threads : Hooked(u)' = Hooked(u)
<1>1. calls' = [calls EXCEPT ![t][Len(calls[t])].yielding = TRUE]
  BY DEF Yield
<1>2. calls \in [Threads -> Seq(Call)] /\ calls[t] # <<>>
  BY DEF TypeOK, Yield
<1>3. \A u \in Threads \ {t} : calls'[u] = calls[u]
  BY <1>1, <1>2
<1>4. calls'[t] = [calls[t] EXCEPT ![Len(calls[t])].yielding = TRUE]
  BY <1>1, <1>2
<1>5. DOMAIN calls'[t] = DOMAIN calls[t]
  BY <1>2, <1>4
<1>6. \A i \in DOMAIN calls[t] : calls'[t][i].hooked = calls[t][i].hooked
  BY <1>2, <1>4 DEF Call
<1> QED
  BY <1>3, <1>5, <1>6 DEF Hooked

LEMMA ReturnHooked ==
  ASSUME TypeOK, NEW t \in Threads, Return(t)
  PROVE  /\ \A u \in Threads \ {t} : Hooked(u)' = Hooked(u)
         /\ Hooked(t)' = Hooked(t) \ {Len(calls[t])}
         /\ Cardinality(Hooked(t))' \in Nat
         /\ Cardinality(Hooked(t))' =
              Cardinality(Hooked(t)) - IF Top(t).hooked THEN 1 ELSE 0
<1> DEFINE n == Len(calls[t])
<1>1. calls' = [calls EXCEPT ![t] = SubSeq(@, 1, n - 1)] /\ calls[t] # <<>>
  BY DEF Return
<1>2. calls \in [Threads -> Seq(Call)] /\ n \in Nat /\ n > 0
  BY <1>1 DEF TypeOK
<1>3. \A u \in Threads \ {t} : Hooked(u)' = Hooked(u)
  BY <1>1, <1>2 DEF Hooked
<1>4. calls'[t] = SubSeq(calls[t], 1, n - 1)
  BY <1>1, <1>2
<1>5. /\ DOMAIN calls'[t] = DOMAIN calls[t] \ {n}
      /\ \A i \in DOMAIN calls'[t] : calls'[t][i] = calls[t][i]
      /\ n \in DOMAIN calls[t]
  BY <1>2, <1>4
<1>6. Hooked(t)' = Hooked(t) \ {n}
  BY <1>5 DEF Hooked
<1>7. CASE Top(t).hooked
  <2>1. n \in Hooked(t)
    BY <1>5, <1>7 DEF Hooked, Top
  <2>2. IsFiniteSet(Hooked(t) \ {n}) /\ Cardinality(Hooked(t) \ {n}) = Cardinality(Hooked(t)) - 1
    BY <2>1, HookedType, FS_RemoveElement
  <2>3. Cardinality(Hooked(t) \ {n}) \in Nat
    BY <2>2, FS_CardinalityType
  <2> QED
    BY <1>3, <1>6, <1>7, <2>2, <2>3
<1>8. CASE ~Top(t).hooked
  <2>1. n \notin Hooked(t)
    BY <1>8 DEF Hooked, Top
  <2>2. Hooked(t)' = Hooked(t)
    BY <1>6, <2>1
  <2>3. /\ Cardinality(Hooked(t))' = Cardinality(Hooked(t)) - 0
        /\ Cardinality(Hooked(t))' \in Nat
    BY <2>2, HookedType
  <2> QED
    BY <1>3, <1>6, <1>8, <2>3
<1> QED
  BY <1>7, <1>8

LEMMA ExitHooked ==
  ASSUME TypeOK, NEW t \in Threads, Exit(t)
  PROVE  /\ \A u \in Threads \ {t} : Hooked(u)' = Hooked(u)
         /\ Cardinality(Hooked(t))' = 0
         /\ \A u \in Threads : Depth(u)' = Depth(u)
         /\ unmatched'[t] = unmatched[t] + Cardinality(Hooked(t))
<1>1. calls' = [calls EXCEPT ![t] = <<>>] /\ calls \in [Threads -> Seq(Call)]
  BY DEF Exit, TypeOK
<1>2. Hooked(t)' = {}
  BY <1>1 DEF Hooked
<1>3. \A u \in Threads \ {t} : Hooked(u)' = Hooked(u)
  BY <1>1 DEF Hooked
<1>4. \A u \in Threads : Depth(u)' = Depth(u)
  BY DEF Exit, Depth
<1>5. unmatched'[t] = unmatched[t] + Cardinality(Hooked(t))
  BY DEF Exit, TypeOK
<1> QED
  BY <1>2, <1>3, <1>4, <1>5, FS_EmptySet

-----------------------------------------------------------------------------
(* The map, the calls and the histories keep their types: no interleaving  *)
(* of attachments, calls, yields and returns leaves a slot of depth 0, a   *)
(* depth past DepthCap or an entry of another process.                     *)
LEMMA TypeInit == Init => TypeOK
BY LuaStatesAssumption DEF Init, TypeOK, EmptyMap, Slot

LEMMA TypeStep == TypeOK /\ [Next]_vars => TypeOK'
<1> SUFFICES ASSUME TypeOK, [Next]_vars PROVE TypeOK'
  OBVIOUS
<1>1. CASE AttachLink
  BY <1>1 DEF AttachLink, TypeOK, AttachOrder
<1>2. ASSUME NEW t \in Threads, NEW fn \in Probed, NEW L \in Luas, Enter(t, fn, L)
      PROVE  TypeOK'
  <2>1. links' \in 0 .. 5
    BY <1>2 DEF Enter, TypeOK
  <2>2. calls' \in [Threads -> Seq(Call)]
    <3> DEFINE call == [fn |-> fn, L |-> L, hooked |-> Attached("return", fn), yielding |-> FALSE]
    <3>1. calls' = [calls EXCEPT ![t] = Append(@, call)]
      BY <1>2 DEF Enter
    <3>2. Attached("return", fn) \in BOOLEAN
      BY DEF Attached
    <3>3. call \in Call
      BY <3>2 DEF Call
    <3> HIDE DEF call
    <3> QED
      BY <3>1, <3>3 DEF TypeOK
  <2>3. DOMAIN lua_states' \subseteq Target /\ lua_states' \in [DOMAIN lua_states' -> Slot]
    <3>1. CASE Attached("entry", fn)
      BY <1>2, <3>1, EntryType DEF Enter
    <3>2. CASE ~Attached("entry", fn)
      BY <1>2, <3>2 DEF Enter, TypeOK
    <3> QED
      BY <3>1, <3>2
  <2>4. unmatched' \in [Threads -> Nat]
    BY <1>2 DEF Enter, TypeOK
  <2>5. exact' \in [Threads -> BOOLEAN]
    BY <1>2 DEF Enter, TypeOK
  <2> QED
    BY <2>1, <2>2, <2>3, <2>4, <2>5 DEF TypeOK
<1>3. ASSUME NEW t \in Threads, Yield(t)
      PROVE  TypeOK'
  <2>1. calls' \in [Threads -> Seq(Call)]
    <3> DEFINE call == [calls[t][Len(calls[t])] EXCEPT !.yielding = TRUE]
               open == [calls[t] EXCEPT ![Len(calls[t])] = call]
    <3>1. calls' = [calls EXCEPT ![t] = open]
      BY <1>3 DEF Yield, TypeOK
    <3>2. calls[t] \in Seq(Call) /\ calls[t] # <<>>
      BY <1>3 DEF Yield, TypeOK
    <3>3. calls[t][Len(calls[t])] \in Call
      BY <3>2
    <3>4. call \in Call
      BY <3>3 DEF Call
    <3> HIDE DEF call
    <3>5. open \in Seq(Call)
      BY <3>2, <3>4
    <3> HIDE DEF open
    <3> QED
      BY <3>1, <3>5 DEF TypeOK
  <2>2. DOMAIN lua_states' \subseteq Target /\ lua_states' \in [DOMAIN lua_states' -> Slot]
    <3>1. CASE Attached("return", "lua_yield")
      BY <1>3, <3>1, ReturnType DEF Yield
    <3>2. CASE ~Attached("return", "lua_yield")
      BY <1>3, <3>2 DEF Yield, TypeOK
    <3> QED
      BY <3>1, <3>2
  <2>3. links' \in 0 .. 5 /\ unmatched' \in [Threads -> Nat] /\ exact' \in [Threads -> BOOLEAN]
    BY <1>3 DEF Yield, TypeOK
  <2> QED
    BY <2>1, <2>2, <2>3 DEF TypeOK
<1>4. ASSUME NEW t \in Threads, Return(t)
      PROVE  TypeOK'
  <2>1. calls' \in [Threads -> Seq(Call)]
    <3>1. calls' = [calls EXCEPT ![t] = SubSeq(@, 1, Len(@) - 1)]
      BY <1>4 DEF Return
    <3>2. calls[t] \in Seq(Call) /\ calls[t] # <<>>
      BY <1>4 DEF Return, TypeOK
    <3>3. SubSeq(calls[t], 1, Len(calls[t]) - 1) \in Seq(Call)
      BY <3>2
    <3> QED
      BY <3>1, <3>3 DEF TypeOK
  <2>2. DOMAIN lua_states' \subseteq Target /\ lua_states' \in [DOMAIN lua_states' -> Slot]
    <3>1. CASE Top(t).hooked
      BY <1>4, <3>1, ReturnType DEF Return
    <3>2. CASE ~Top(t).hooked
      BY <1>4, <3>2 DEF Return, TypeOK
    <3> QED
      BY <3>1, <3>2
  <2>3. links' \in 0 .. 5 /\ unmatched' \in [Threads -> Nat]
    BY <1>4 DEF Return, TypeOK
  <2>4. exact' \in [Threads -> BOOLEAN]
    BY <1>4 DEF Return, TypeOK
  <2> QED
    BY <2>1, <2>2, <2>3, <2>4 DEF TypeOK
<1>5. ASSUME NEW t \in Threads, Exit(t)
      PROVE  TypeOK'
  <2>1. calls' \in [Threads -> Seq(Call)]
    BY <1>5 DEF Exit, TypeOK
  <2>2. unmatched' \in [Threads -> Nat]
    <3>1. Cardinality(Hooked(t)) \in Nat
      BY HookedType
    <3> QED
      BY <1>5, <3>1 DEF Exit, TypeOK
  <2> QED
    BY <1>5, <2>1, <2>2 DEF Exit, TypeOK
<1>6. CASE UNCHANGED vars
  BY <1>6 DEF vars, TypeOK
<1> QED
  BY <1>1, <1>2, <1>3, <1>4, <1>5, <1>6 DEF Next

THEOREM TypeCorrect == Spec => []TypeOK
BY TypeInit, TypeStep, PTL DEF Spec

-----------------------------------------------------------------------------
(* A slot never outlives the calls that account for it. The invariant is   *)
(* inductive beside TypeOK: an entry adds at most one level, and with it a *)
(* hooked call or an unmatched one; a return takes both away; a yield only *)
(* lowers the depth.                                                       *)
LEMMA StaleInit == Init => NoStaleSlot
<1> SUFFICES ASSUME Init, NEW t \in Target
             PROVE  Depth(t) <= Cardinality(Hooked(t)) + unmatched[t]
  BY DEF NoStaleSlot
<1>1. Depth(t) = 0 /\ unmatched[t] = 0
  BY LuaStatesAssumption DEF Init, Depth, EmptyMap
<1>2. Cardinality(Hooked(t)) \in Nat
  BY HookedType, TypeInit, LuaStatesAssumption
<1> QED
  BY <1>1, <1>2

LEMMA StaleStep == TypeOK /\ NoStaleSlot /\ [Next]_vars => NoStaleSlot'
<1> SUFFICES ASSUME TypeOK, NoStaleSlot, [Next]_vars, NEW u \in Target
             PROVE  Depth(u)' <= Cardinality(Hooked(u))' + unmatched'[u]
  BY DEF NoStaleSlot
<1> USE LuaStatesAssumption
<1>1. /\ u \in Threads
      /\ Depth(u) \in Nat /\ Cardinality(Hooked(u)) \in Nat /\ unmatched[u] \in Nat
      /\ Depth(u) <= Cardinality(Hooked(u)) + unmatched[u]
  BY DepthType, HookedType DEF TypeOK, NoStaleSlot
<1>2. CASE AttachLink \/ UNCHANGED vars
  <2>1. Depth(u)' = Depth(u) /\ Hooked(u)' = Hooked(u) /\ unmatched' = unmatched
    BY <1>2 DEF AttachLink, vars, Depth, Hooked
  <2> QED
    BY <1>1, <2>1
<1>3. ASSUME NEW t \in Threads, NEW fn \in Probed, NEW L \in Luas, Enter(t, fn, L)
      PROVE  Depth(u)' <= Cardinality(Hooked(u))' + unmatched'[u]
  <2>1. CASE u # t
    <3>1. Hooked(u)' = Hooked(u)
      BY <1>1, <1>3, <2>1, EnterHooked
    <3>2. Depth(u)' = Depth(u)
      <4>1. CASE Attached("entry", fn)
        BY <1>1, <1>3, <2>1, <4>1, EntryEffect DEF Enter
      <4>2. CASE ~Attached("entry", fn)
        BY <1>3, <4>2 DEF Enter, Depth
      <4> QED
        BY <4>1, <4>2
    <3>3. unmatched'[u] = unmatched[u]
      BY <1>3, <2>1 DEF Enter, TypeOK
    <3> QED
      BY <1>1, <3>1, <3>2, <3>3
  <2>2. CASE u = t
    <3>1. Cardinality(Hooked(t))' =
            Cardinality(Hooked(t)) + IF Attached("return", fn) THEN 1 ELSE 0
      BY <1>3, EnterHooked
    <3>2. unmatched'[t] =
            IF Attached("entry", fn) /\ ~Attached("return", fn)
            THEN unmatched[t] + 1 ELSE unmatched[t]
      BY <1>3 DEF Enter, TypeOK
    <3>3. CASE Attached("entry", fn)
      <4>1. Depth(t)' <= Depth(t) + 1 /\ Depth(t)' \in Nat
        BY <1>3, <2>2, <3>3, EntryEffect DEF Enter
      <4> QED
        BY <1>1, <2>2, <3>1, <3>2, <3>3, <4>1
    <3>4. CASE ~Attached("entry", fn)
      <4>1. Depth(t)' = Depth(t)
        BY <1>3, <3>4 DEF Enter, Depth
      <4> QED
        BY <1>1, <2>2, <3>1, <3>2, <3>4, <4>1
    <3> QED
      BY <3>3, <3>4
  <2> QED
    BY <2>1, <2>2
<1>4. ASSUME NEW t \in Threads, Yield(t)
      PROVE  Depth(u)' <= Cardinality(Hooked(u))' + unmatched'[u]
  <2>1. Hooked(u)' = Hooked(u) /\ unmatched' = unmatched
    BY <1>1, <1>4, YieldHooked DEF Yield
  <2>2. Depth(u)' \in Nat /\ Depth(u)' <= Depth(u)
    <3>1. CASE Attached("return", "lua_yield")
      BY <1>1, <1>4, <3>1, ReturnEffect DEF Yield
    <3>2. CASE ~Attached("return", "lua_yield")
      BY <1>1, <1>4, <3>2 DEF Yield, Depth
    <3> QED
      BY <3>1, <3>2
  <2> QED
    BY <1>1, <2>1, <2>2
<1>5. ASSUME NEW t \in Threads, Return(t)
      PROVE  Depth(u)' <= Cardinality(Hooked(u))' + unmatched'[u]
  <2>1. unmatched' = unmatched
    BY <1>5 DEF Return
  <2>2. CASE u # t
    <3>1. Hooked(u)' = Hooked(u)
      BY <1>1, <1>5, <2>2, ReturnHooked
    <3>2. Depth(u)' = Depth(u)
      <4>1. CASE Top(t).hooked
        BY <1>1, <1>5, <2>2, <4>1, ReturnEffect DEF Return
      <4>2. CASE ~Top(t).hooked
        BY <1>5, <4>2 DEF Return, Depth
      <4> QED
        BY <4>1, <4>2
    <3> QED
      BY <1>1, <2>1, <3>1, <3>2
  <2>3. CASE u = t
    <3>1. Cardinality(Hooked(t))' =
            Cardinality(Hooked(t)) - IF Top(t).hooked THEN 1 ELSE 0
      BY <1>5, ReturnHooked
    <3>2. Cardinality(Hooked(t))' \in Nat
      BY <1>5, ReturnHooked
    <3>3. CASE Top(t).hooked
      <4>1. Depth(t)' = IF Depth(t) <= 1 THEN 0 ELSE Depth(t) - 1
        BY <1>5, <2>3, <3>3, ReturnEffect DEF Return
      <4> QED
        BY <1>1, <2>1, <2>3, <3>1, <3>2, <3>3, <4>1
    <3>4. CASE ~Top(t).hooked
      <4>1. Depth(t)' = Depth(t)
        BY <1>5, <3>4 DEF Return, Depth
      <4> QED
        BY <1>1, <2>1, <2>3, <3>1, <3>4, <4>1
    <3> QED
      BY <3>3, <3>4
  <2> QED
    BY <2>2, <2>3
<1>6. ASSUME NEW t \in Threads, Exit(t)
      PROVE  Depth(u)' <= Cardinality(Hooked(u))' + unmatched'[u]
  <2>1. Depth(u)' = Depth(u)
    BY <1>1, <1>6, ExitHooked
  <2>2. CASE u # t
    <3>1. Hooked(u)' = Hooked(u) /\ unmatched'[u] = unmatched[u]
      BY <1>1, <1>6, <2>2, ExitHooked DEF Exit, TypeOK
    <3> QED
      BY <1>1, <2>1, <3>1
  <2>3. CASE u = t
    <3>1. Cardinality(Hooked(t))' = 0 /\ unmatched'[t] = unmatched[t] + Cardinality(Hooked(t))
      BY <1>6, ExitHooked
    <3> QED
      BY <1>1, <2>1, <2>3, <3>1
  <2> QED
    BY <2>2, <2>3
<1> QED
  BY <1>2, <1>3, <1>4, <1>5, <1>6 DEF Next

THEOREM SlotsNotStale == Spec => []NoStaleSlot
<1>1. Init => TypeOK /\ NoStaleSlot
  BY TypeInit, StaleInit
<1>2. TypeOK /\ NoStaleSlot /\ [Next]_vars => (TypeOK /\ NoStaleSlot)'
  BY TypeStep, StaleStep
<1> QED
  BY <1>1, <1>2, PTL DEF Spec

-----------------------------------------------------------------------------
(* The depth is the number of hooked calls, and is right again after every *)
(* irregularity once the outermost hooked call has returned: there the     *)
(* depth is at most 1 by NoStaleSlot, so that return deletes the slot.     *)
LEMMA ExactInit == Init => ExactDepth
<1> SUFFICES ASSUME Init, NEW t \in Target
             PROVE  Depth(t) = Cardinality(Hooked(t))
  BY DEF ExactDepth
<1>1. Hooked(t) = {}
  BY LuaStatesAssumption DEF Init, Hooked
<1>2. Depth(t) = 0
  BY DEF Init, Depth, EmptyMap
<1> QED
  BY <1>1, <1>2, FS_EmptySet

LEMMA ExactStep == TypeOK /\ NoStaleSlot /\ ExactDepth /\ [Next]_vars => ExactDepth'
<1> SUFFICES ASSUME TypeOK, NoStaleSlot, ExactDepth, [Next]_vars, NEW u \in Target,
                    exact'[u], unmatched'[u] = 0
             PROVE  Depth(u)' = Cardinality(Hooked(u))'
  BY DEF ExactDepth
<1> USE LuaStatesAssumption
<1>1. /\ u \in Threads
      /\ Depth(u) \in Nat /\ Cardinality(Hooked(u)) \in Nat /\ unmatched[u] \in Nat
      /\ Depth(u) <= Cardinality(Hooked(u)) + unmatched[u]
      /\ exact[u] /\ unmatched[u] = 0 => Depth(u) = Cardinality(Hooked(u))
  BY DepthType, HookedType DEF TypeOK, NoStaleSlot, ExactDepth
<1>2. CASE AttachLink \/ UNCHANGED vars
  <2>1. Depth(u)' = Depth(u) /\ Hooked(u)' = Hooked(u)
    BY <1>2 DEF AttachLink, vars, Depth, Hooked
  <2>2. exact[u] /\ unmatched[u] = 0
    BY <1>2 DEF AttachLink, vars
  <2> QED
    BY <1>1, <2>1, <2>2
<1>3. ASSUME NEW t \in Threads, NEW fn \in Probed, NEW L \in Luas, Enter(t, fn, L)
      PROVE  Depth(u)' = Cardinality(Hooked(u))'
  <2>1. CASE u # t
    <3>1. Hooked(u)' = Hooked(u)
      BY <1>1, <1>3, <2>1, EnterHooked
    <3>2. Depth(u)' = Depth(u)
      <4>1. CASE Attached("entry", fn)
        BY <1>1, <1>3, <2>1, <4>1, EntryEffect DEF Enter
      <4>2. CASE ~Attached("entry", fn)
        BY <1>3, <4>2 DEF Enter, Depth
      <4> QED
        BY <4>1, <4>2
    <3>3. exact[u] /\ unmatched[u] = 0
      BY <1>3, <2>1 DEF Enter, TypeOK
    <3> QED
      BY <1>1, <3>1, <3>2, <3>3
  <2>2. CASE u = t
    <3>1. Cardinality(Hooked(t))' =
            Cardinality(Hooked(t)) + IF Attached("return", fn) THEN 1 ELSE 0
      BY <1>3, EnterHooked
    <3>2. unmatched'[t] =
            IF Attached("entry", fn) /\ ~Attached("return", fn)
            THEN unmatched[t] + 1 ELSE unmatched[t]
      BY <1>3 DEF Enter, TypeOK
    <3>3. exact[t] /\ (Attached("entry", fn) => EntryCounted(t))
      <4>1. exact'[t] = (exact[t] /\ (Attached("entry", fn) => EntryCounted(t)))
        BY <1>3 DEF Enter, TypeOK
      <4> QED
        BY <2>2, <4>1
    <3>4. unmatched[t] = 0 /\ (Attached("entry", fn) => Attached("return", fn))
      BY <1>1, <2>2, <3>2
    <3>5. CASE Attached("entry", fn)
      <4>1. Depth(t)' = Depth(t) + 1
        BY <1>3, <2>2, <3>3, <3>5, EntryEffect DEF Enter
      <4> QED
        BY <1>1, <2>2, <3>1, <3>3, <3>4, <3>5, <4>1
    <3>6. CASE ~Attached("entry", fn)
      <4>1. Depth(t)' = Depth(t)
        BY <1>3, <3>6 DEF Enter, Depth
      <4>2. ~Attached("return", fn)
        BY <3>6, ReturnAfterEntry
      <4> QED
        BY <1>1, <2>2, <3>1, <3>3, <3>4, <4>1, <4>2
    <3> QED
      BY <3>5, <3>6
  <2> QED
    BY <2>1, <2>2
<1>4. ASSUME NEW t \in Threads, Yield(t)
      PROVE  Depth(u)' = Cardinality(Hooked(u))'
  <2>1. Hooked(u)' = Hooked(u) /\ unmatched[u] = 0
    BY <1>1, <1>4, YieldHooked DEF Yield
  <2>2. CASE Attached("return", "lua_yield")
    <3>1. u # t /\ exact[u]
      BY <1>1, <1>4, <2>2 DEF Yield, TypeOK
    <3>2. Depth(u)' = Depth(u)
      BY <1>1, <1>4, <2>2, <3>1, ReturnEffect DEF Yield
    <3> QED
      BY <1>1, <2>1, <3>1, <3>2
  <2>3. CASE ~Attached("return", "lua_yield")
    <3>1. Depth(u)' = Depth(u) /\ exact[u]
      BY <1>4, <2>3 DEF Yield, Depth
    <3> QED
      BY <1>1, <2>1, <3>1
  <2> QED
    BY <2>2, <2>3
<1>5. ASSUME NEW t \in Threads, Return(t)
      PROVE  Depth(u)' = Cardinality(Hooked(u))'
  <2>1. unmatched[u] = 0
    BY <1>5 DEF Return
  <2>2. CASE u # t
    <3>1. Hooked(u)' = Hooked(u)
      BY <1>1, <1>5, <2>2, ReturnHooked
    <3>2. Depth(u)' = Depth(u)
      <4>1. CASE Top(t).hooked
        BY <1>1, <1>5, <2>2, <4>1, ReturnEffect DEF Return
      <4>2. CASE ~Top(t).hooked
        BY <1>5, <4>2 DEF Return, Depth
      <4> QED
        BY <4>1, <4>2
    <3>3. exact[u]
      BY <1>1, <1>5, <2>2 DEF Return, TypeOK
    <3> QED
      BY <1>1, <2>1, <3>1, <3>2, <3>3
  <2>3. CASE u = t
    <3>1. /\ Hooked(t)' = Hooked(t) \ {Len(calls[t])}
          /\ Cardinality(Hooked(t))' \in Nat
          /\ Cardinality(Hooked(t))' =
               Cardinality(Hooked(t)) - IF Top(t).hooked THEN 1 ELSE 0
      BY <1>5, ReturnHooked
    <3>2. CASE Top(t).hooked
      <4>1. Depth(t)' = IF Depth(t) <= 1 THEN 0 ELSE Depth(t) - 1
        BY <1>5, <2>3, <3>2, ReturnEffect DEF Return
      <4>2. exact[t] \/ Hooked(t) = {Len(calls[t])}
        <5>1. exact'[t] = (exact[t] \/ Hooked(t) = {Len(calls[t])})
          BY <1>5, <3>2 DEF Return, TypeOK
        <5> QED
          BY <2>3, <5>1
      <4>3. CASE exact[t]
        BY <1>1, <2>1, <2>3, <3>1, <3>2, <4>1, <4>3
      <4>4. CASE Hooked(t) = {Len(calls[t])}
        <5>1. Cardinality(Hooked(t)) = 1
          BY <4>4, FS_Singleton
        <5> QED
          BY <1>1, <2>1, <2>3, <3>1, <3>2, <4>1, <5>1
      <4> QED
        BY <4>2, <4>3, <4>4
    <3>3. CASE ~Top(t).hooked
      <4>1. Depth(t)' = Depth(t) /\ exact[u]
        BY <1>5, <3>3 DEF Return, Depth
      <4> QED
        BY <1>1, <2>1, <2>3, <3>1, <3>3, <4>1
    <3> QED
      BY <3>2, <3>3
  <2> QED
    BY <2>2, <2>3
<1>6. ASSUME NEW t \in Threads, Exit(t)
      PROVE  Depth(u)' = Cardinality(Hooked(u))'
  <2>1. Depth(u)' = Depth(u) /\ exact[u]
    BY <1>1, <1>6, ExitHooked DEF Exit
  <2>2. CASE u # t
    <3>1. Hooked(u)' = Hooked(u) /\ unmatched[u] = 0
      BY <1>1, <1>6, <2>2, ExitHooked DEF Exit, TypeOK
    <3> QED
      BY <1>1, <2>1, <3>1
  <2>3. CASE u = t
    <3>1. Cardinality(Hooked(t))' = 0 /\ unmatched'[t] = unmatched[t] + Cardinality(Hooked(t))
      BY <1>6, ExitHooked
    <3> QED
      BY <1>1, <2>1, <2>3, <3>1
  <2> QED
    BY <2>2, <2>3
<1> QED
  BY <1>2, <1>3, <1>4, <1>5, <1>6 DEF Next

THEOREM DepthExact == Spec => []ExactDepth
<1>1. Init => TypeOK /\ NoStaleSlot /\ ExactDepth
  BY TypeInit, StaleInit, ExactInit
<1>2. TypeOK /\ NoStaleSlot /\ ExactDepth /\ [Next]_vars
        => (TypeOK /\ NoStaleSlot /\ ExactDepth)'
  BY TypeStep, StaleStep, ExactStep
<1> QED
  BY <1>1, <1>2, PTL DEF Spec
=============================================================================
