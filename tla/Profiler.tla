------------------------------ MODULE Profiler ------------------------------
(***************************************************************************)
(* The sampling pipeline from the interrupt to the folded stacks: the BPF  *)
(* program of Sampler and the main thread of Aggregator, joined by the     *)
(* rings of PerfBuffers alone. Behaviours start when the first CPU has its *)
(* perf event (perf_links in main), before any reader exists, and end when *)
(* main has folded.                                                        *)
(***************************************************************************)
EXTENDS Sampler, Aggregator

vars == <<ringVars, samplerVars, aggregatorVars>>

Init == RingInit /\ SamplerInit /\ AggregatorInit

Sampling == pc # "done" /\ SamplerNext /\ UNCHANGED aggregatorVars

Main == MainStep /\ UNCHANGED samplerVars

Next == Sampling \/ (AggregatorNext /\ UNCHANGED samplerVars)

Spec == Init /\ [][Next]_vars

(* The kernel schedules main, and a poll returns within 100 ms. Nothing    *)
(* else must happen: samples may stop, SIGINT may never come.              *)
FairSpec == Spec /\ WF_vars(Main)

AggregatorTypeOK ==
  /\ pc \in Steps
  /\ ready \subseteq Cpus
  /\ head \in [Cpus -> 0 .. Capacity]
  /\ at \in Nat
  /\ exiting \in BOOLEAN
  /\ expired \in BOOLEAN
  /\ DOMAIN native \subseteq Keys /\ native \in [DOMAIN native -> NativeEvent]
  /\ DOMAIN lua \subseteq Keys /\ lua \in [DOMAIN lua -> Seq(LuaEvent)]
  /\ succeeded \in Nat
  /\ fallback \in Nat
  /\ \A s \in DOMAIN folded : folded[s] \in Nat \ {0}

(* Main reads one ring at a time, of the buffer it polls. It never runs    *)
(* past its snapshot, nor the snapshot past the ring: meanwhile the        *)
(* program only appends.                                                   *)
ReadOK ==
  /\ \A c \in Cpus : Reading(c) =>
       \E b \in Buffers : pc = ReadStep[b] /\ head[c] <= Len(ring[b][c]) /\ at < head[c]
  /\ \A c, d \in Cpus : Reading(c) /\ Reading(d) => c = d
  /\ (\A c \in Cpus : ~Reading(c)) => at = 0

TypeOK == RingTypeOK /\ SamplerTypeOK /\ AggregatorTypeOK /\ ReadOK

-----------------------------------------------------------------------------
(* Where the events of sample s are.                                       *)
Samples == DOMAIN taken

NativeEventOf(s) == [key |-> taken[s].key, sample |-> s, ips |-> taken[s].ips]

LuaEventOf(s, l) == [key |-> taken[s].key, sample |-> s, level |-> l]

(* What main has not handled of c's ring of buffer b.                      *)
Unread(b, c) ==
  IF pc = ReadStep[b] /\ Reading(c)
  THEN SubSeq(ring[b][c], at + 1, Len(ring[b][c])) ELSE ring[b][c]

IsUnread(b, e) == \E c \in Cpus : \E i \in DOMAIN Unread(b, c) : Unread(b, c)[i] = e

(* The levels the program has output for s.                                *)
Emitted(s) ==
  {l \in 0 .. taken[s].frames - 1 :
     \A c \in Cpus : prog[c].sample = s => l < prog[c].level}

Counted(s) == NativeEventOf(s) \notin lost /\ ~IsUnread("native_events", NativeEventOf(s))

CountedLevels(s) ==
  {l \in Emitted(s) : /\ LuaEventOf(s, l) \notin lost
                      /\ ~IsUnread("lua_events_out", LuaEventOf(s, l))}

ArrivedSamples == {s \in Samples : Counted(s)}

ArrivedFrames == [s \in Samples |-> CountedLevels(s)]

(* What has reached main, and what it has done for its user so far.        *)
Arrival == INSTANCE Arrivals WITH
  samples <- taken, arrived <- ArrivedSamples, frames <- ArrivedFrames, written <- pc = "done"

Promise == INSTANCE Correlation WITH
  samples <- taken, arrived <- ArrivedSamples, frames <- ArrivedFrames, written <- pc = "done",
  profile <- folded

(* No other sample has the key of s.                                       *)
OwnKey(s) == \A r \in Samples \ {s} : taken[r].key # taken[s].key

Tracked(s) == taken[s].key.tid \in DOMAIN seq_map

-----------------------------------------------------------------------------
(* profile.bpf.c:4, the per-sample nonce: while next_seq has an entry for  *)
(* the thread, two of its samples share a key only SeqWrap samples apart.  *)
KeysAreNonces ==
  \A s \in Samples : \A r \in 1 .. s - 1 :
    Tracked(s) /\ taken[r].key = taken[s].key =>
      SeqWrap <= Cardinality({q \in r + 1 .. s : taken[q].key.tid = taken[s].key.tid})

(* Until it is folded, the native event of a sample with its own key is in *)
(* exactly one place: lost, in one ring once, or in Pending::native.       *)
NativeConserved ==
  pc # "done" => \A s \in Samples : OwnKey(s) =>
    LET e == NativeEventOf(s)
        inRings == {p \in Cpus \X (1 .. Capacity) :
                      p[2] \in DOMAIN Unread("native_events", p[1])
                        /\ Unread("native_events", p[1])[p[2]] = e}
        inMap == {k \in DOMAIN native : native[k].sample = s}
    IN /\ Cardinality(inRings) + Cardinality(inMap) = IF e \in lost THEN 0 ELSE 1
       /\ \A k \in inMap : k = e.key /\ native[k] = e

(* Until they are folded, the Lua frames of a sample with its own key that *)
(* were output and not lost are, in level order, those in Pending::lua and *)
(* then those in one ring: none is duplicated, overtaken or misfiled, with *)
(* main polling while the program is between two frames.                   *)
LuaInOrder ==
  pc # "done" => \A s \in Samples : OwnKey(s) =>
    LET handled == LuaOf(taken[s].key)
    IN /\ \A i \in DOMAIN handled : handled[i].sample = s
       /\ \E c \in Cpus :
            LET stream == handled \o Unread("lua_events_out", c)
                own == {i \in DOMAIN stream : stream[i].sample = s}
            IN /\ \A i, j \in own : i < j => stream[i].level < stream[j].level
               /\ {stream[i] : i \in own} = {LuaEventOf(s, l) : l \in Emitted(s)} \ lost
               /\ \A d \in Cpus \ {c} : \A i \in DOMAIN Unread("lua_events_out", d) :
                    Unread("lua_events_out", d)[i].sample # s

(* The unwind statistics main prints count every native event that reached *)
(* it once, whatever became of its key.                                    *)
StatsMatch ==
  IncludeNative => succeeded + fallback = Cardinality(ArrivedSamples)

(* What is written is the histogram of the counted samples' own stacks:    *)
(* each with the Lua frames that reached main, outermost first and in the  *)
(* places of unresolved addresses, and none of another sample.             *)
FoldedExact ==
  pc = "done" /\ (\A s \in Samples : OwnKey(s)) => folded = Promise!Histogram

(* Whatever becomes of keys, each part of a sample reaches main once and   *)
(* in order or not at all: no step makes a frame overtake another of its   *)
(* sample, two events arrive at once, or one that arrived go back.         *)
ImplementsArrivals == Arrival!ArrivalsSpec

(* main keeps what Correlation promises: its steps take samples, let their *)
(* halves arrive, each part once and in order, and write the histogram of  *)
(* them, and no step does anything else to what a reader of the profile    *)
(* can see. Keys must be unique for it, as they are while seq_map has room *)
(* and its numbers do not wrap.                                            *)
ImplementsCorrelation == Promise!Spec

(* SIGINT and the deadline both end the loop, however the program goes on  *)
(* sampling.                                                               *)
Terminates == exiting \/ expired ~> pc = "done"

(* Events that a ring accepted leave it: main comes to every readable ring *)
(* until it drops them all.                                                *)
RingsDrain ==
  \A b \in Buffers, c \in Cpus : \A s \in 1 .. MaxSamples :
    (\E i \in DOMAIN ring[b][c] : ring[b][c][i].sample = s)
      ~> (\A i \in DOMAIN ring[b][c] : ring[b][c][i].sample # s)

-----------------------------------------------------------------------------
(* profile.bpf.c:4 as it stands: the key of a sample is its own.           *)
KeysUnique == \A s \in Samples : OwnKey(s)
=============================================================================
