----------------------------- MODULE LuaStates -----------------------------
(***************************************************************************)
(* How the profiler knows which lua_State a thread runs: the uprobe and    *)
(* uretprobe handlers of bpf/profile.bpf.c over the map lua_states, main's *)
(* attachment of their five links, and the calls into the LuaJIT C API     *)
(* that fire them.                                                         *)
(*                                                                         *)
(* A handler runs on the thread that hit the probe and only touches that   *)
(* thread's entry, so one handler is one step. Links are attached one at a *)
(* time while the target runs: a call finds the probes that are attached   *)
(* when it starts, and its return is hooked for good at that moment.       *)
(***************************************************************************)
EXTENDS Naturals, Sequences, FiniteSets, BpfMap

CONSTANTS
  Threads,      \* threads of all processes that map the probed library
  Target,       \* those of the process with pid targ_pid
  Luas,         \* addresses of lua_States, none of them NULL
  MaxEntries,   \* MAX_ENTRIES, the capacity of lua_states
  DepthCap,     \* 0xffff in handle_entry_lua
  MaxNesting,   \* bound: calls a thread has open at once
  MaxUnmatched  \* bound: calls per thread that are counted in, never out

ASSUME LuaStatesAssumption ==
  /\ Target \subseteq Threads
  /\ MaxEntries \in Nat \ {0}
  /\ DepthCap \in Nat \ {0}
  /\ MaxNesting \in Nat
  /\ MaxUnmatched \in Nat

VARIABLES
  links,       \* how many of AttachOrder's links main has made
  calls,       \* calls[t]: the open C API calls of thread t, innermost last
  lua_states,  \* the map: thread -> struct lua_state_slot
  unmatched,   \* history: calls of t the entry probe saw and whose return
               \*   is not hooked, or that ended with their thread
  exact        \* history: no lua_yield return, refused insertion or depth
               \*   reset since t last had no hooked call open

vars == <<links, calls, lua_states, unmatched, exact>>

Probed == {"lua_resume", "lua_pcall"}

Call == [fn : Probed, L : Luas, hooked : BOOLEAN, yielding : BOOLEAN]

Slot == [ptr : Luas, depth : 1 .. DepthCap]

TypeOK ==
  /\ links \in 0 .. 5
  /\ calls \in [Threads -> Seq(Call)]
  /\ DOMAIN lua_states \subseteq Target
  /\ lua_states \in [DOMAIN lua_states -> Slot]
  /\ unmatched \in [Threads -> Nat]
  /\ exact \in [Threads -> BOOLEAN]

-----------------------------------------------------------------------------
(* The links main makes, in the order it makes them.                       *)
AttachOrderSwapped ==
  << <<"return", "lua_resume">>, <<"return", "lua_pcall">>,
     <<"return", "lua_yield">>,
     <<"entry", "lua_resume">>, <<"entry", "lua_pcall">> >>

AttachOrder ==
  << <<"entry", "lua_resume">>, <<"entry", "lua_pcall">>,
     <<"return", "lua_resume">>, <<"return", "lua_pcall">>,
     <<"return", "lua_yield">> >>

Attached(kind, fn) == \E i \in 1 .. links : AttachOrder[i] = <<kind, fn>>

Top(t) == calls[t][Len(calls[t])]

(* The lua_State is not executing on any thread.                           *)
Suspended(L) == \A t \in Threads : \A i \in DOMAIN calls[t] : calls[t][i].L # L

Hooked(t) == {i \in DOMAIN calls[t] : calls[t][i].hooked}

Depth(t) == IF t \in DOMAIN lua_states THEN lua_states[t].depth ELSE 0

-----------------------------------------------------------------------------
(* handle_entry_lua: the new slot names L whatever state the slot named    *)
(* before; at DepthCap the depth starts again at 1.                        *)
EntryDepthPastCap(t) == IF t \in DOMAIN lua_states /\ Depth(t) <= DepthCap
                        THEN Depth(t) + 1 ELSE 1

EntryDepth(t) == IF t \in DOMAIN lua_states /\ Depth(t) < DepthCap
                 THEN Depth(t) + 1 ELSE 1

handle_entry_lua(t, L) ==
  lua_states' =
    IF t \in Target
    THEN MapUpdate(lua_states, t, [ptr |-> L, depth |-> EntryDepth(t)], MaxEntries)
    ELSE lua_states

EntryCounted(t) == HasRoom(lua_states, t, MaxEntries) /\ Depth(t) < DepthCap

(* handle_return_lua: leaves the outermost level by deleting the entry, an *)
(* inner one by decrementing; the pointer is not put back.                 *)
handle_return_lua_keeps(t) ==
  lua_states' =
    IF t \notin Target \/ Depth(t) <= 1 THEN lua_states
    ELSE MapUpdate(lua_states, t, [lua_states[t] EXCEPT !.depth = @ - 1], MaxEntries)

handle_return_lua(t) ==
  lua_states' =
    IF t \notin Target THEN lua_states
    ELSE IF Depth(t) <= 1 THEN MapDelete(lua_states, t)
    ELSE MapUpdate(lua_states, t, [lua_states[t] EXCEPT !.depth = @ - 1], MaxEntries)

-----------------------------------------------------------------------------
Init ==
  /\ links = 0
  /\ calls = [t \in Threads |-> <<>>]
  /\ lua_states = EmptyMap
  /\ unmatched = [t \in Threads |-> 0]
  /\ exact = [t \in Threads |-> TRUE]

(* main makes the next link. A failure ends the profiler and its maps with *)
(* it: the behaviour stops there.                                          *)
AttachLink ==
  /\ links < Len(AttachOrder)
  /\ links' = links + 1
  /\ UNCHANGED <<calls, lua_states, unmatched, exact>>

(* The target calls lua_resume or lua_pcall. A state that is resumed is    *)
(* not running anywhere; lua_pcall runs in the state of the innermost call *)
(* or in one of its own.                                                   *)
Enter(t, fn, L) ==
  LET seen == Attached("entry", fn)
      hooked == Attached("return", fn)
  IN /\ Len(calls[t]) < MaxNesting
     /\ calls[t] # <<>> => ~Top(t).yielding
     /\ Suspended(L) \/ (fn = "lua_pcall" /\ calls[t] # <<>> /\ Top(t).L = L)
     /\ seen /\ ~hooked => unmatched[t] < MaxUnmatched
     /\ calls' = [calls EXCEPT ![t] =
                    Append(@, [fn |-> fn, L |-> L, hooked |-> hooked, yielding |-> FALSE])]
     /\ IF seen THEN handle_entry_lua(t, L) ELSE UNCHANGED lua_states
     /\ unmatched' = [unmatched EXCEPT ![t] = IF seen /\ ~hooked THEN @ + 1 ELSE @]
     /\ exact' = [exact EXCEPT ![t] = @ /\ (seen => EntryCounted(t))]
     /\ UNCHANGED links

(* A C function run by the innermost lua_resume returns lua_yield(..): the *)
(* uretprobe of lua_yield fires, then nothing but that lua_resume returns. *)
Yield(t) ==
  /\ calls[t] # <<>> /\ Top(t).fn = "lua_resume" /\ ~Top(t).yielding
  /\ calls' = [calls EXCEPT ![t][Len(calls[t])].yielding = TRUE]
  /\ IF Attached("return", "lua_yield")
     THEN /\ handle_return_lua(t)
          /\ exact' = [exact EXCEPT ![t] = FALSE]
     ELSE UNCHANGED <<lua_states, exact>>
  /\ UNCHANGED <<links, unmatched>>

(* The innermost call returns; its uretprobe fires if it was hooked.       *)
Return(t) ==
  /\ calls[t] # <<>>
  /\ calls' = [calls EXCEPT ![t] = SubSeq(@, 1, Len(@) - 1)]
  /\ IF Top(t).hooked
     THEN /\ handle_return_lua(t)
          /\ exact' = [exact EXCEPT ![t] = @ \/ Hooked(t) = {Len(calls[t])}]
     ELSE UNCHANGED <<lua_states, exact>>
  /\ UNCHANGED <<links, unmatched>>

(* The thread ends inside its calls: no return probe fires, the entry      *)
(* stays, and the kernel may give the thread's number to a new one.        *)
Exit(t) ==
  /\ calls[t] # <<>>
  /\ unmatched[t] + Cardinality(Hooked(t)) <= MaxUnmatched
  /\ calls' = [calls EXCEPT ![t] = <<>>]
  /\ unmatched' = [unmatched EXCEPT ![t] = @ + Cardinality(Hooked(t))]
  /\ UNCHANGED <<links, lua_states, exact>>

Next ==
  \/ AttachLink
  \/ \E t \in Threads, fn \in Probed, L \in Luas : Enter(t, fn, L)
  \/ \E t \in Threads : Yield(t)
  \/ \E t \in Threads : Return(t)
  \/ \E t \in Threads : Exit(t)

Spec == Init /\ [][Next]_vars

-----------------------------------------------------------------------------
(* A thread's depth never exceeds the calls that are still going to be     *)
(* counted out, plus the ones that never will: those that started between  *)
(* the attachment of the entry probe and that of the return probe, and     *)
(* those an earlier thread of the same number had open when it ended. So a *)
(* thread with none of the latter has no slot, and no lua_State that the   *)
(* sampler would walk, once it has left its last hooked call.              *)
NoStaleSlot ==
  \A t \in Target : Depth(t) <= Cardinality(Hooked(t)) + unmatched[t]

(* Without lua_yield returns, refused insertions and resets, the depth of  *)
(* such a thread is the number of its hooked calls; what an irregularity   *)
(* has put wrong is right again once the outermost hooked call returns.    *)
ExactDepth ==
  \A t \in Target :
    exact[t] /\ unmatched[t] = 0 => Depth(t) = Cardinality(Hooked(t))

-----------------------------------------------------------------------------
(* The premise of the two claims below: everything the handlers depend on  *)
(* has gone well for the thread.                                           *)
FullyProbed(t) ==
  /\ links = Len(AttachOrder)
  /\ unmatched[t] = 0
  /\ Hooked(t) = DOMAIN calls[t]

(* profile.bpf.c:42: the entry of a thread is the lua_State it is in: the  *)
(* slot names the state of a call that is still open.                      *)
SlotNamesOpenState ==
  \A t \in DOMAIN lua_states :
    FullyProbed(t) => \E i \in DOMAIN calls[t] : calls[t][i].L = lua_states[t].ptr

(* profile.bpf.c:42: depth is the nesting depth: a thread whose innermost  *)
(* call is running Lua has a slot.                                         *)
RunningHasSlot ==
  \A t \in Target :
    FullyProbed(t) /\ calls[t] # <<>> /\ ~Top(t).yielding => t \in DOMAIN lua_states
=============================================================================
