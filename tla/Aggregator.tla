----------------------------- MODULE Aggregator -----------------------------
(***************************************************************************)
(* The profiler's main thread (src/main.rs): it builds the two readers,    *)
(* polls them until SIGINT or the deadline, native events first, drops     *)
(* them, and folds what it has by sample key. The callbacks handle_native  *)
(* and handle_lua run inside a poll, one event at a time; programs on      *)
(* other CPUs output between any two of these steps.                       *)
(*                                                                         *)
(* A poll waits until a ring has something or 100 ms have passed, so it    *)
(* always returns, with the CPUs that are readable at that moment. Its     *)
(* error (EINTR, when SIGINT comes while nothing is readable) is ignored,  *)
(* and looks like the timeout.                                             *)
(***************************************************************************)
EXTENDS PerfBuffers, FiniteSets, BpfMap, Fold

CONSTANTS
  HasUnwinder,  \* UserUnwinder::new succeeded
  Timed         \* --duration is not 0

ASSUME AggregatorAssumption ==
  /\ HasUnwinder \in BOOLEAN /\ (HasUnwinder => IncludeNative)
  /\ Timed \in BOOLEAN

VARIABLES
  pc,         \* where main is
  ready,      \* the CPUs the current poll still has to read
  head,       \* head[c]: where the current read of c's ring ends, 0 without one
  at,         \* events that read has handled
  exiting,    \* EXITING
  expired,    \* start.elapsed() has reached the duration
  native,     \* Pending::native, with the events instead of their addresses
  lua,        \* Pending::lua
  succeeded, fallback,  \* unwind_stats
  folded      \* the stacks written, with their counts

pendingVars == <<native, lua, succeeded, fallback>>
loopVars == <<ready, head, at>>
aggregatorVars == <<pc, loopVars, exiting, expired, pendingVars, folded>>

LoopSteps == {"loop", "poll_native", "read_native", "poll_lua", "read_lua", "elapsed"}

Steps == LoopSteps \cup
  {"build_native", "build_lua", "drop_native", "drop_lua", "finalize", "done"}

AggregatorInit ==
  /\ pc = "build_native"
  /\ ready = {}
  /\ head = [c \in Cpus |-> 0]
  /\ at = 0
  /\ exiting = FALSE
  /\ expired = FALSE
  /\ native = EmptyMap
  /\ lua = EmptyMap
  /\ succeeded = 0
  /\ fallback = 0
  /\ folded = EmptyMap

-----------------------------------------------------------------------------
BuildReaders ==
  /\ \/ pc = "build_native" /\ Build("native_events") /\ pc' = "build_lua"
     \/ pc = "build_lua" /\ Build("lua_events_out") /\ pc' = "loop"
  /\ UNCHANGED <<loopVars, exiting, expired, pendingVars, folded>>

(* handle_sigint; it is installed after the readers are built, and EXITING *)
(* is not read after the loop.                                             *)
Interrupt ==
  /\ pc \in LoopSteps /\ ~exiting
  /\ exiting' = TRUE
  /\ UNCHANGED <<ringVars, pc, loopVars, expired, pendingVars, folded>>

Deadline ==
  /\ Timed /\ pc \in LoopSteps /\ ~expired
  /\ expired' = TRUE
  /\ UNCHANGED <<ringVars, pc, loopVars, exiting, pendingVars, folded>>

(* The loop's condition, and the break after both polls.                   *)
LoopHeadDeaf == pc = "loop" /\ pc' = "poll_native"

LoopHead == pc = "loop" /\ pc' = IF exiting THEN "drop_native" ELSE "poll_native"

Elapsed == pc = "elapsed" /\ pc' = IF expired THEN "drop_native" ELSE "loop"

Loop ==
  /\ LoopHead \/ Elapsed
  /\ UNCHANGED <<ringVars, loopVars, exiting, expired, pendingVars, folded>>

-----------------------------------------------------------------------------
(* Main polls b: the wait, the reads it makes, and what comes after them.  *)
PollStep == [native_events |-> "poll_native", lua_events_out |-> "poll_lua"]
ReadStep == [native_events |-> "read_native", lua_events_out |-> "read_lua"]
StepAfterNativeOnly == [native_events |-> "elapsed", lua_events_out |-> "elapsed"]
StepAfter == [native_events |-> "poll_lua", lua_events_out |-> "elapsed"]

Reading(c) == head[c] > 0

Poll(b) ==
  /\ pc = PollStep[b]
  /\ pc' = ReadStep[b]
  /\ ready' = Readable(b)
  /\ UNCHANGED <<ringVars, head, at, exiting, expired, pendingVars, folded>>

StartRead(b, c) ==
  /\ pc = ReadStep[b]
  /\ c \in ready /\ \A d \in Cpus : ~Reading(d)
  /\ ready' = ready \ {c}
  /\ head' = [head EXCEPT ![c] = Len(ring[b][c])]
  /\ UNCHANGED <<ringVars, pc, at, exiting, expired, pendingVars, folded>>

(* The read moves on; at its end the events' space is given back.          *)
Advance(b, c) ==
  /\ IF at + 1 = head[c]
     THEN /\ Release(b, c, head[c])
          /\ head' = [head EXCEPT ![c] = 0]
          /\ at' = 0
     ELSE /\ at' = at + 1
          /\ UNCHANGED <<ring, head>>
  /\ UNCHANGED <<open, lost, pc, ready, exiting, expired, folded>>

(* handle_native: a later event with the same key replaces the earlier one.*)
(* A failed unwind falls back to the addresses of bpf_get_stack.           *)
handle_native_by_thread(e) ==
  /\ native' = Put(native, [e.key EXCEPT !.seq = 0], e)
  /\ UNCHANGED <<lua, succeeded, fallback>>

handle_native_uncounted(e) ==
  /\ native' = Put(native, e.key, e)
  /\ \/ HasUnwinder /\ succeeded' = succeeded + 1
     \/ UNCHANGED succeeded
  /\ UNCHANGED <<lua, fallback>>

handle_native(e) ==
  /\ native' = Put(native, e.key, e)
  /\ \/ /\ HasUnwinder
        /\ succeeded' = succeeded + 1
        /\ UNCHANGED fallback
     \/ /\ IncludeNative
        /\ fallback' = fallback + 1
        /\ UNCHANGED succeeded
     \/ /\ ~IncludeNative
        /\ UNCHANGED <<succeeded, fallback>>
  /\ UNCHANGED lua

HandleNative(c) ==
  /\ pc = "read_native" /\ Reading(c)
  /\ handle_native(ring["native_events"][c][at + 1])
  /\ Advance("native_events", c)

LuaOf(k) == IF k \in DOMAIN lua THEN lua[k] ELSE <<>>

handle_lua_prepend(e) == lua' = Put(lua, e.key, <<e>> \o LuaOf(e.key))

handle_lua(e) == lua' = Put(lua, e.key, Append(LuaOf(e.key), e))

HandleLua(c) ==
  /\ pc = "read_lua" /\ Reading(c)
  /\ handle_lua(ring["lua_events_out"][c][at + 1])
  /\ UNCHANGED <<native, succeeded, fallback>>
  /\ Advance("lua_events_out", c)

EndRead(b) ==
  /\ pc = ReadStep[b]
  /\ ready = {} /\ \A c \in Cpus : ~Reading(c)
  /\ pc' = StepAfter[b]
  /\ UNCHANGED <<ringVars, loopVars, exiting, expired, pendingVars, folded>>

DropReaders ==
  /\ \/ pc = "drop_native" /\ Drop("native_events") /\ pc' = "drop_lua"
     \/ pc = "drop_lua" /\ Drop("lua_events_out") /\ pc' = "finalize"
  /\ UNCHANGED <<loopVars, exiting, expired, pendingVars, folded>>

-----------------------------------------------------------------------------
BuildStack(k) == build_stack(native[k].ips, [i \in DOMAIN LuaOf(k) |-> LuaOf(k)[i].level])

(* Every native sample is folded with the Lua frames of its key; frames of *)
(* a key without a native sample are left in Pending::lua.                 *)
Finalize ==
  /\ pc = "finalize"
  /\ folded' = [s \in {BuildStack(k) : k \in DOMAIN native} \ {NoStack} |->
                  Cardinality({k \in DOMAIN native : BuildStack(k) = s})]
  /\ native' = EmptyMap
  /\ lua' = [k \in DOMAIN lua \ DOMAIN native |-> lua[k]]
  /\ pc' = "done"
  /\ UNCHANGED <<ringVars, loopVars, exiting, expired, succeeded, fallback>>

MainStep ==
  \/ BuildReaders
  \/ Loop
  \/ \E b \in Buffers : Poll(b) \/ EndRead(b)
  \/ \E b \in Buffers, c \in Cpus : StartRead(b, c)
  \/ \E c \in Cpus : HandleNative(c) \/ HandleLua(c)
  \/ DropReaders
  \/ Finalize

AggregatorNext == MainStep \/ Interrupt \/ Deadline
=============================================================================
