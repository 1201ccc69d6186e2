------------------------------ MODULE Sampler ------------------------------
(***************************************************************************)
(* do_perf_event of bpf/profile.bpf.c on every CPU: the clock interrupts   *)
(* CPU c while a thread of the target runs there, the program draws the    *)
(* thread's next sequence number, outputs one native event, then one event *)
(* per Lua frame. The reader on another CPU may run between two outputs.   *)
(* The program ignores what its outputs and map updates return.            *)
(*                                                                         *)
(* The process id in a key is targ_pid, and is left out. Threads that are  *)
(* not the target's return early and change nothing.                       *)
(***************************************************************************)
EXTENDS PerfBuffers, FiniteSets, BpfMap

CONSTANTS
  Tids,          \* threads of the target process
  SeqEntries,    \* MAX_ENTRIES, the capacity of seq_map
  SeqWrap,       \* 2^32, where the sequence number wraps
  NativeStacks,  \* what the native part of a sample can be
  LuaDepths,     \* how many Lua frames a sample can have
  MaxSamples     \* bound: samples taken in a behaviour

ASSUME SamplerAssumption ==
  /\ SeqEntries \in Nat
  /\ SeqWrap \in Nat /\ SeqWrap > 1
  /\ LuaDepths \subseteq Nat
  /\ \A ips \in NativeStacks : ips \in Seq({ips[i] : i \in DOMAIN ips})
  /\ MaxSamples \in Nat

VARIABLES
  seq_map,   \* the map: tid -> the last sequence number of its samples
  prog,      \* prog[c]: the run of the program on c that is emitting frames
  taken      \* history: the samples, in the order they were taken

samplerVars == <<seq_map, prog, taken>>

Keys == [tid : Tids, seq : 0 .. SeqWrap - 1]

Sample == [key : Keys, ips : NativeStacks, frames : LuaDepths]

NativeEvent == [key : Keys, sample : 1 .. MaxSamples, ips : NativeStacks]

LuaEvent == [key : Keys, sample : 1 .. MaxSamples, level : Nat]

Event == [native_events |-> NativeEvent, lua_events_out |-> LuaEvent]

(* No run of the program is emitting frames.                               *)
Idle == [sample |-> 0, level |-> 0]

SamplerTypeOK ==
  /\ DOMAIN seq_map \subseteq Tids
  /\ seq_map \in [DOMAIN seq_map -> 0 .. SeqWrap - 1]
  /\ taken \in Seq(Sample) /\ Len(taken) <= MaxSamples
  /\ prog \in [Cpus -> [sample : 0 .. Len(taken), level : Nat]]
  /\ \A c \in Cpus : prog[c] # Idle =>
       prog[c].sample > 0 /\ prog[c].level < taken[prog[c].sample].frames

RingTypeOK ==
  /\ ring \in [Buffers -> [Cpus -> Seq(NativeEvent \cup LuaEvent)]]
  /\ \A b \in Buffers, c \in Cpus :
       /\ ring[b][c] \in Seq(Event[b])
       /\ Len(ring[b][c]) <= Capacity
       /\ b \notin open => ring[b][c] = <<>>
  /\ open \subseteq Buffers
  /\ lost \subseteq NativeEvent \cup LuaEvent

-----------------------------------------------------------------------------
SamplerInit ==
  /\ seq_map = EmptyMap
  /\ prog = [c \in Cpus |-> Idle]
  /\ taken = <<>>

(* next_seq: the number drawn for t; without an entry it is 1, and it is 1 *)
(* again next time if the map has no room for the entry.                   *)
NextSeqNoBump(t) == IF t \in DOMAIN seq_map THEN seq_map[t] ELSE 1

NextSeq(t) == IF t \in DOMAIN seq_map THEN (seq_map[t] + 1) % SeqWrap ELSE 1

Running(t) == \E c \in Cpus : prog[c] # Idle /\ taken[prog[c].sample].key.tid = t

(* do_perf_event up to the walk. t runs on c, so it runs on no other CPU,  *)
(* where a sample of t would still be in progress.                         *)
TakeSample(c, t) ==
  LET key == [tid |-> t, seq |-> NextSeq(t)]
      id == Len(taken) + 1
  IN /\ id <= MaxSamples
     /\ prog[c] = Idle
     /\ ~Running(t)
     /\ seq_map' = MapUpdate(seq_map, t, key.seq, SeqEntries)
     /\ \E ips \in NativeStacks, n \in LuaDepths :
          /\ taken' = Append(taken, [key |-> key, ips |-> ips, frames |-> n])
          /\ prog' = [prog EXCEPT ![c] = IF n > 0 THEN [sample |-> id, level |-> 0] ELSE Idle]
          /\ Output("native_events", c, [key |-> key, sample |-> id, ips |-> ips])

(* walk_lua_stack reaches the next frame and emit_lua outputs it.          *)
LevelAfterOver(p) ==
  IF p.level < taken[p.sample].frames THEN [p EXCEPT !.level = @ + 1] ELSE Idle

LevelAfter(p) ==
  IF p.level + 1 < taken[p.sample].frames THEN [p EXCEPT !.level = @ + 1] ELSE Idle

EmitLua(c) ==
  LET p == prog[c]
  IN /\ p # Idle
     /\ Output("lua_events_out", c,
               [key |-> taken[p.sample].key, sample |-> p.sample, level |-> p.level])
     /\ prog' = [prog EXCEPT ![c] = LevelAfter(p)]
     /\ UNCHANGED <<seq_map, taken>>

SamplerNext ==
  \/ \E c \in Cpus, t \in Tids : TakeSample(c, t)
  \/ \E c \in Cpus : EmitLua(c)
=============================================================================
