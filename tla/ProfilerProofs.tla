--------------------------- MODULE ProfilerProofs ---------------------------
(***************************************************************************)
(* TypeOK, KeysAreNonces, NativeConserved and StatsMatch of Profiler, for  *)
(* any CPUs, threads, ring and map capacities and any number of samples.   *)
(* The last two follow from one invariant on where native events are. It   *)
(* speaks of what main has not read of each ring, Queue, which an output   *)
(* extends at its end and main shortens at its front, whatever the reads   *)
(* and their snapshots do underneath.                                      *)
(***************************************************************************)
EXTENDS Profiler, HelperProofs, FiniteSetTheorems, SequenceTheorems

(* Adding to the end of a ring, and giving back its oldest events.         *)
LEMMA AppendInSeq ==
  ASSUME NEW S, NEW s \in Seq(S), NEW e \in S
  PROVE  Append(s, e) \in Seq(S) /\ Len(Append(s, e)) = Len(s) + 1
OBVIOUS

LEMMA SuffixInSeq ==
  ASSUME NEW S, NEW s \in Seq(S), NEW n \in 0 .. Len(s)
  PROVE  /\ SubSeq(s, n + 1, Len(s)) \in Seq(S)
         /\ Len(SubSeq(s, n + 1, Len(s))) = Len(s) - n
<1>1. Len(s) \in Nat
  OBVIOUS
<1>2. CASE n = Len(s)
  BY <1>1, <1>2
<1>3. CASE n < Len(s)
  BY <1>1, <1>3
<1> QED
  BY <1>1, <1>2, <1>3

-----------------------------------------------------------------------------
(* The operations of the rings keep their types.                           *)
LEMMA EventsOfBuffer ==
  ASSUME NEW b \in Buffers
  PROVE  /\ Event[b] \subseteq NativeEvent \cup LuaEvent
         /\ Seq(Event[b]) \subseteq Seq(NativeEvent \cup LuaEvent)
<1>1. Event[b] \subseteq NativeEvent \cup LuaEvent
  BY DEF Event, Buffers
<1> QED
  BY <1>1

LEMMA RingSet ==
  ASSUME RingTypeOK, NEW b \in Buffers, NEW c \in Cpus, NEW q \in Seq(Event[b]),
         Len(q) <= Capacity, b \notin open => q = <<>>,
         ring' = [ring EXCEPT ![b][c] = q], UNCHANGED <<open, lost>>
  PROVE  RingTypeOK'
<1>1. q \in Seq(NativeEvent \cup LuaEvent)
  BY EventsOfBuffer
<1>2. ring' \in [Buffers -> [Cpus -> Seq(NativeEvent \cup LuaEvent)]]
  BY <1>1 DEF RingTypeOK
<1>3. ASSUME NEW x \in Buffers, NEW d \in Cpus
      PROVE  /\ ring'[x][d] \in Seq(Event[x])
             /\ Len(ring'[x][d]) <= Capacity
             /\ x \notin open => ring'[x][d] = <<>>
  BY <1>3 DEF RingTypeOK
<1> QED
  BY <1>2, <1>3 DEF RingTypeOK

LEMMA OutputType ==
  ASSUME RingTypeOK, NEW b \in Buffers, NEW c \in Cpus, NEW e \in Event[b], Output(b, c, e)
  PROVE  RingTypeOK'
<1>1. CASE Accepts(b, c)
  <2> DEFINE q == Append(ring[b][c], e)
  <2>1. ring' = [ring EXCEPT ![b][c] = q] /\ UNCHANGED <<open, lost>>
    BY <1>1 DEF Output, RingTypeOK
  <2>2. ring[b][c] \in Seq(Event[b])
    BY DEF RingTypeOK
  <2>3. b \in open /\ Len(ring[b][c]) < Capacity
    BY <1>1 DEF Accepts
  <2>4. q \in Seq(Event[b]) /\ Len(q) <= Capacity
    <3>1. q \in Seq(Event[b]) /\ Len(q) = Len(ring[b][c]) + 1
      BY <2>2, AppendInSeq
    <3>2. Len(ring[b][c]) \in Nat
      BY <2>2
    <3> QED
      BY <2>3, <3>1, <3>2, PerfBuffersAssumption
  <2> HIDE DEF q
  <2> QED
    BY <2>1, <2>3, <2>4, RingSet
<1>2. CASE ~Accepts(b, c)
  <2>1. ring' = ring /\ open' = open /\ lost' = lost \cup {e}
    BY <1>2 DEF Output
  <2>2. e \in NativeEvent \cup LuaEvent
    BY EventsOfBuffer
  <2> QED
    BY <2>1, <2>2 DEF RingTypeOK
<1> QED
  BY <1>1, <1>2

LEMMA ReleaseType ==
  ASSUME RingTypeOK, NEW b \in Buffers, NEW c \in Cpus,
         NEW n \in 0 .. Len(ring[b][c]), Release(b, c, n), UNCHANGED <<open, lost>>
  PROVE  RingTypeOK'
<1> DEFINE q == SubSeq(ring[b][c], n + 1, Len(ring[b][c]))
<1>1. ring' = [ring EXCEPT ![b][c] = q]
  BY DEF Release, RingTypeOK
<1>2. /\ ring[b][c] \in Seq(Event[b])
      /\ Len(ring[b][c]) <= Capacity
      /\ b \notin open => ring[b][c] = <<>>
  BY DEF RingTypeOK
<1>3. q \in Seq(Event[b]) /\ Len(q) = Len(ring[b][c]) - n
  BY <1>2, SuffixInSeq
<1>4. Len(ring[b][c]) \in Nat
  BY <1>2
<1>5. Len(q) <= Capacity
  BY <1>2, <1>3, <1>4, PerfBuffersAssumption
<1>6. b \notin open => q = <<>>
  BY <1>2
<1> HIDE DEF q
<1> QED
  BY <1>1, <1>3, <1>5, <1>6, RingSet

LEMMA BuildType ==
  ASSUME RingTypeOK, NEW b \in Buffers, Build(b)
  PROVE  RingTypeOK'
BY DEF Build, RingTypeOK

LEMMA DropType ==
  ASSUME RingTypeOK, NEW b \in Buffers, Drop(b)
  PROVE  RingTypeOK'
<1>1. /\ open' = open \ {b}
      /\ ring' = [ring EXCEPT ![b] = [c \in Cpus |-> <<>>]]
      /\ lost' = lost \cup UNION {{ring[b][c][i] : i \in DOMAIN ring[b][c]} : c \in Cpus}
  BY DEF Drop
<1>2. ring' \in [Buffers -> [Cpus -> Seq(NativeEvent \cup LuaEvent)]]
  BY <1>1 DEF RingTypeOK
<1>3. ASSUME NEW x \in Buffers, NEW c \in Cpus
      PROVE  /\ ring'[x][c] \in Seq(Event[x])
             /\ Len(ring'[x][c]) <= Capacity
             /\ x \notin open' => ring'[x][c] = <<>>
  <2>1. ring'[x][c] = IF x = b THEN <<>> ELSE ring[x][c]
    BY <1>1, <1>3 DEF RingTypeOK
  <2>2. x \notin open' => x = b \/ x \notin open
    BY <1>1
  <2>3. <<>> \in Seq(Event[x]) /\ Len(<<>>) <= Capacity
    BY PerfBuffersAssumption
  <2>4. /\ ring[x][c] \in Seq(Event[x])
        /\ Len(ring[x][c]) <= Capacity
        /\ x \notin open => ring[x][c] = <<>>
    BY <1>3 DEF RingTypeOK
  <2> QED
    BY <2>1, <2>2, <2>3, <2>4
<1>4. lost' \subseteq NativeEvent \cup LuaEvent
  <2>1. ASSUME NEW c \in Cpus, NEW i \in DOMAIN ring[b][c]
        PROVE  ring[b][c][i] \in NativeEvent \cup LuaEvent
    BY <2>1 DEF RingTypeOK
  <2> QED
    BY <1>1, <2>1 DEF RingTypeOK
<1>5. open' \subseteq Buffers
  BY <1>1 DEF RingTypeOK
<1> QED
  BY <1>2, <1>3, <1>4, <1>5 DEF RingTypeOK

(* An output only adds to a ring, so a reader's snapshot stays valid.      *)
LEMMA OutputGrows ==
  ASSUME RingTypeOK, NEW b \in Buffers, NEW c \in Cpus, NEW e \in Event[b], Output(b, c, e)
  PROVE  \A x \in Buffers, d \in Cpus : Len(ring[x][d]) <= Len(ring'[x][d])
<1> SUFFICES ASSUME NEW x \in Buffers, NEW d \in Cpus
             PROVE  Len(ring[x][d]) <= Len(ring'[x][d])
  OBVIOUS
<1>1. ring[x][d] \in Seq(Event[x]) /\ Len(ring[x][d]) \in Nat
  BY DEF RingTypeOK
<1>2. CASE Accepts(b, c) /\ x = b /\ d = c
  <2>1. ring'[b][c] = Append(ring[b][c], e)
    BY <1>2 DEF Output, RingTypeOK
  <2>2. Len(ring'[b][c]) = Len(ring[b][c]) + 1
    BY <1>1, <1>2, <2>1, AppendInSeq
  <2> QED
    BY <1>1, <1>2, <2>2
<1>3. CASE ~(Accepts(b, c) /\ x = b /\ d = c)
  <2>1. ring'[x][d] = ring[x][d]
    BY <1>3 DEF Output, RingTypeOK
  <2> QED
    BY <1>1, <2>1
<1> QED
  BY <1>2, <1>3

LEMMA ReadOKGrows ==
  ASSUME RingTypeOK, ReadOK, UNCHANGED <<pc, head, at>>, RingTypeOK', AggregatorTypeOK,
         \A b \in Buffers, c \in Cpus : Len(ring[b][c]) <= Len(ring'[b][c])
  PROVE  ReadOK'
<1>1. \A b \in Buffers, c \in Cpus : Len(ring[b][c]) \in Nat /\ Len(ring'[b][c]) \in Nat
  BY DEF RingTypeOK
<1>2. \A c \in Cpus : head[c] \in Nat
  BY PerfBuffersAssumption DEF AggregatorTypeOK
<1>3. ASSUME NEW c \in Cpus, Reading(c)
      PROVE  \E b \in Buffers : pc = ReadStep[b] /\ head[c] <= Len(ring'[b][c]) /\ at < head[c]
  <2>1. PICK b \in Buffers : pc = ReadStep[b] /\ head[c] <= Len(ring[b][c]) /\ at < head[c]
    BY <1>3 DEF ReadOK
  <2>2. head[c] <= Len(ring'[b][c])
    BY <1>1, <1>2, <2>1
  <2> QED
    BY <2>1, <2>2
<1> QED
  BY <1>3 DEF ReadOK, Reading

-----------------------------------------------------------------------------
(* The program's steps keep the types: a run of it stays within its sample,*)
(* and what it outputs are events of its buffer.                           *)
LEMMA NextSeqType ==
  ASSUME SamplerTypeOK, NEW t \in Tids
  PROVE  NextSeq(t) \in 0 .. SeqWrap - 1
<1>1. CASE t \notin DOMAIN seq_map
  BY <1>1, SamplerAssumption DEF NextSeq
<1>2. CASE t \in DOMAIN seq_map
  <2>1. seq_map[t] \in 0 .. SeqWrap - 1
    BY <1>2 DEF SamplerTypeOK
  <2> QED
    BY <1>2, <2>1, SamplerAssumption DEF NextSeq
<1> QED
  BY <1>1, <1>2

LEMMA TakeSampleType ==
  ASSUME TypeOK, NEW c \in Cpus, NEW t \in Tids, TakeSample(c, t), UNCHANGED aggregatorVars
  PROVE  TypeOK'
<1> DEFINE key == [tid |-> t, seq |-> NextSeq(t)]
           id == Len(taken) + 1
<1>1. PICK ips \in NativeStacks, n \in LuaDepths :
        /\ taken' = Append(taken, [key |-> key, ips |-> ips, frames |-> n])
        /\ prog' = [prog EXCEPT ![c] = IF n > 0 THEN [sample |-> id, level |-> 0] ELSE Idle]
        /\ Output("native_events", c, [key |-> key, sample |-> id, ips |-> ips])
  BY DEF TakeSample
<1>2. id <= MaxSamples /\ seq_map' = MapUpdate(seq_map, t, key.seq, SeqEntries)
  BY DEF TakeSample
<1>3. NextSeq(t) \in 0 .. SeqWrap - 1
  BY NextSeqType DEF TypeOK
<1>4. key \in Keys /\ key.seq \in 0 .. SeqWrap - 1
  BY <1>3 DEF Keys
<1>5. /\ taken \in Seq(Sample) /\ Len(taken) \in Nat
      /\ prog \in [Cpus -> [sample : 0 .. Len(taken), level : Nat]]
      /\ \A d \in Cpus : prog[d] # Idle =>
           prog[d].sample > 0 /\ prog[d].level < taken[prog[d].sample].frames
  BY DEF TypeOK, SamplerTypeOK
<1> HIDE DEF key
<1>6. n \in Nat
  BY SamplerAssumption
<1> DEFINE sample == [key |-> key, ips |-> ips, frames |-> n]
<1>7. sample \in Sample /\ sample.frames = n
  BY <1>4 DEF Sample
<1> HIDE DEF sample
<1>8. taken' = Append(taken, sample)
  BY <1>1 DEF sample
<1>9. /\ taken' \in Seq(Sample) /\ Len(taken') = id
      /\ taken'[id] = sample
      /\ \A s \in 1 .. Len(taken) : taken'[s] = taken[s]
  BY <1>5, <1>7, <1>8
<1>10. DOMAIN seq_map' \subseteq Tids /\ seq_map' \in [DOMAIN seq_map' -> 0 .. SeqWrap - 1]
  <2>1. DOMAIN seq_map \subseteq Tids /\ seq_map \in [DOMAIN seq_map -> 0 .. SeqWrap - 1]
    BY DEF TypeOK, SamplerTypeOK
  <2>2. /\ DOMAIN MapUpdate(seq_map, t, key.seq, SeqEntries) \subseteq Tids
        /\ MapUpdate(seq_map, t, key.seq, SeqEntries)
             \in [DOMAIN MapUpdate(seq_map, t, key.seq, SeqEntries) -> 0 .. SeqWrap - 1]
    BY <1>4, <2>1, MapUpdateType
  <2> QED
    BY <1>2, <2>2
<1>11. prog' \in [Cpus -> [sample : 0 .. Len(taken'), level : Nat]]
  BY <1>1, <1>5, <1>9 DEF Idle
<1>12. ASSUME NEW d \in Cpus, prog'[d] # Idle
       PROVE  prog'[d].sample > 0 /\ prog'[d].level < taken'[prog'[d].sample].frames
  <2>1. CASE d = c
    BY <1>1, <1>5, <1>6, <1>7, <1>9, <1>12, <2>1
  <2>2. CASE d # c
    <3>1. prog'[d] = prog[d] /\ prog[d].sample \in 0 .. Len(taken)
      BY <1>1, <1>5, <2>2
    <3> QED
      BY <1>5, <1>9, <1>12, <3>1
  <2> QED
    BY <2>1, <2>2
<1>13. SamplerTypeOK'
  BY <1>2, <1>9, <1>10, <1>11, <1>12 DEF SamplerTypeOK
<1> DEFINE e == [key |-> key, sample |-> id, ips |-> ips]
<1>14. e \in Event["native_events"]
  BY <1>2, <1>4, <1>5 DEF Event, NativeEvent
<1> HIDE DEF e
<1>15. RingTypeOK' /\ \A x \in Buffers, d \in Cpus : Len(ring[x][d]) <= Len(ring'[x][d])
  <2>1. Output("native_events", c, e)
    BY <1>1 DEF e
  <2>2. RingTypeOK /\ "native_events" \in Buffers
    BY DEF TypeOK, Buffers
  <2> QED
    BY <1>14, <2>1, <2>2, OutputType, OutputGrows
<1>16. AggregatorTypeOK'
  BY DEF TypeOK, AggregatorTypeOK, aggregatorVars, pendingVars, loopVars
<1>17. ReadOK'
  BY <1>15, ReadOKGrows DEF TypeOK, aggregatorVars, loopVars
<1> QED
  BY <1>13, <1>15, <1>16, <1>17 DEF TypeOK

LEMMA EmitLuaType ==
  ASSUME TypeOK, NEW c \in Cpus, EmitLua(c), UNCHANGED aggregatorVars
  PROVE  TypeOK'
<1> DEFINE p == prog[c]
           e == [key |-> taken[p.sample].key, sample |-> p.sample, level |-> p.level]
<1>1. /\ p # Idle
      /\ Output("lua_events_out", c, e)
      /\ prog' = [prog EXCEPT ![c] = LevelAfter(p)]
      /\ UNCHANGED <<seq_map, taken>>
  BY DEF EmitLua
<1>2. /\ taken \in Seq(Sample) /\ Len(taken) \in Nat /\ Len(taken) <= MaxSamples
      /\ prog \in [Cpus -> [sample : 0 .. Len(taken), level : Nat]]
      /\ \A d \in Cpus : prog[d] # Idle =>
           prog[d].sample > 0 /\ prog[d].level < taken[prog[d].sample].frames
  BY DEF TypeOK, SamplerTypeOK
<1>3. p \in [sample : 0 .. Len(taken), level : Nat] /\ p.sample \in 1 .. Len(taken)
  BY <1>1, <1>2
<1>4. taken[p.sample] \in Sample
  BY <1>2, <1>3
<1>5. /\ LevelAfter(p) \in [sample : 0 .. Len(taken), level : Nat]
      /\ LevelAfter(p) # Idle =>
           /\ LevelAfter(p).sample = p.sample
           /\ LevelAfter(p).level < taken[p.sample].frames
  BY <1>3 DEF LevelAfter, Idle
<1>6. e \in Event["lua_events_out"]
  BY <1>2, <1>3, <1>4, SamplerAssumption DEF Event, LuaEvent, Sample
<1> HIDE DEF e, p
<1>7. prog' \in [Cpus -> [sample : 0 .. Len(taken'), level : Nat]]
  BY <1>1, <1>2, <1>5
<1>8. ASSUME NEW d \in Cpus, prog'[d] # Idle
      PROVE  prog'[d].sample > 0 /\ prog'[d].level < taken'[prog'[d].sample].frames
  BY <1>1, <1>2, <1>3, <1>5, <1>8
<1>9. SamplerTypeOK'
  <2>1. DOMAIN seq_map' \subseteq Tids /\ seq_map' \in [DOMAIN seq_map' -> 0 .. SeqWrap - 1]
    BY <1>1 DEF TypeOK, SamplerTypeOK
  <2>2. taken' \in Seq(Sample) /\ Len(taken') <= MaxSamples
    BY <1>1, <1>2
  <2> QED
    BY <1>7, <1>8, <2>1, <2>2 DEF SamplerTypeOK
<1>10. RingTypeOK' /\ \A x \in Buffers, d \in Cpus : Len(ring[x][d]) <= Len(ring'[x][d])
  <2>1. RingTypeOK /\ "lua_events_out" \in Buffers
    BY DEF TypeOK, Buffers
  <2> QED
    BY <1>1, <1>6, <2>1, OutputType, OutputGrows
<1>11. AggregatorTypeOK'
  BY DEF TypeOK, AggregatorTypeOK, aggregatorVars, pendingVars, loopVars
<1>12. ReadOK'
  BY <1>10, ReadOKGrows DEF TypeOK, aggregatorVars, loopVars
<1> QED
  BY <1>9, <1>10, <1>11, <1>12 DEF TypeOK

-----------------------------------------------------------------------------
(* Main's steps outside the callbacks keep the types. No read is under way *)
(* except where a poll is in its ReadStep.                                 *)
LEMMA NotReading ==
  ASSUME TypeOK, pc \notin {"read_native", "read_lua"}
  PROVE  \A c \in Cpus : ~Reading(c)
<1>1. \A b \in Buffers : ReadStep[b] \in {"read_native", "read_lua"}
  BY DEF ReadStep, Buffers
<1> QED
  BY <1>1 DEF TypeOK, ReadOK

LEMMA SamplerTypeStays ==
  ASSUME TypeOK, UNCHANGED samplerVars
  PROVE  SamplerTypeOK'
BY DEF TypeOK, SamplerTypeOK, samplerVars

LEMMA NothingReadOK ==
  ASSUME \A c \in Cpus : ~Reading(c), ReadOK, UNCHANGED <<head, at>>
  PROVE  ReadOK'
BY DEF ReadOK, Reading

LEMMA BuildReadersType ==
  ASSUME TypeOK, BuildReaders, UNCHANGED samplerVars
  PROVE  TypeOK'
<1>1. PICK b \in Buffers : Build(b)
  BY DEF BuildReaders, Buffers
<1>2. RingTypeOK'
  BY <1>1, BuildType DEF TypeOK
<1>3. AggregatorTypeOK'
  BY DEF BuildReaders, TypeOK, AggregatorTypeOK, loopVars, pendingVars, Steps, LoopSteps
<1>4. ReadOK'
  <2>1. \A c \in Cpus : ~Reading(c)
    BY NotReading DEF BuildReaders
  <2> QED
    BY <2>1, NothingReadOK DEF BuildReaders, loopVars, TypeOK
<1> QED
  BY <1>2, <1>3, <1>4, SamplerTypeStays DEF TypeOK

LEMMA DropReadersType ==
  ASSUME TypeOK, DropReaders, UNCHANGED samplerVars
  PROVE  TypeOK'
<1>1. PICK b \in Buffers : Drop(b)
  BY DEF DropReaders, Buffers
<1>2. RingTypeOK'
  BY <1>1, DropType DEF TypeOK
<1>3. AggregatorTypeOK'
  BY DEF DropReaders, TypeOK, AggregatorTypeOK, loopVars, pendingVars, Steps, LoopSteps
<1>4. ReadOK'
  <2>1. \A c \in Cpus : ~Reading(c)
    BY NotReading DEF DropReaders
  <2> QED
    BY <2>1, NothingReadOK DEF DropReaders, loopVars, TypeOK
<1> QED
  BY <1>2, <1>3, <1>4, SamplerTypeStays DEF TypeOK

LEMMA SignalsType ==
  ASSUME TypeOK, Interrupt \/ Deadline, UNCHANGED samplerVars
  PROVE  TypeOK'
<1>1. RingTypeOK'
  BY DEF Interrupt, Deadline, ringVars, TypeOK, RingTypeOK
<1>2. AggregatorTypeOK'
  BY DEF Interrupt, Deadline, TypeOK, AggregatorTypeOK, loopVars, pendingVars
<1>3. ReadOK'
  BY DEF Interrupt, Deadline, TypeOK, ReadOK, Reading, ringVars, loopVars
<1> QED
  BY <1>1, <1>2, <1>3, SamplerTypeStays DEF TypeOK

LEMMA LoopType ==
  ASSUME TypeOK, Loop, UNCHANGED samplerVars
  PROVE  TypeOK'
<1>1. RingTypeOK'
  BY DEF Loop, ringVars, TypeOK, RingTypeOK
<1>2. AggregatorTypeOK'
  BY DEF Loop, LoopHead, Elapsed, TypeOK, AggregatorTypeOK, loopVars, pendingVars, Steps, LoopSteps
<1>3. ReadOK'
  <2>1. \A c \in Cpus : ~Reading(c)
    BY NotReading DEF Loop, LoopHead, Elapsed
  <2> QED
    BY <2>1, NothingReadOK DEF Loop, loopVars, TypeOK
<1> QED
  BY <1>1, <1>2, <1>3, SamplerTypeStays DEF TypeOK

LEMMA PollType ==
  ASSUME TypeOK, NEW b \in Buffers, Poll(b), UNCHANGED samplerVars
  PROVE  TypeOK'
<1>1. RingTypeOK'
  BY DEF Poll, ringVars, TypeOK, RingTypeOK
<1>2. AggregatorTypeOK'
  <2>1. pc' \in Steps
    BY DEF Poll, ReadStep, Buffers, Steps, LoopSteps
  <2>2. ready' \subseteq Cpus
    BY DEF Poll, Readable
  <2> QED
    BY <2>1, <2>2 DEF Poll, TypeOK, AggregatorTypeOK, pendingVars
<1>3. ReadOK'
  <2>1. \A c \in Cpus : ~Reading(c)
    BY NotReading DEF Poll, PollStep, Buffers
  <2> QED
    BY <2>1, NothingReadOK DEF Poll, TypeOK
<1> QED
  BY <1>1, <1>2, <1>3, SamplerTypeStays DEF TypeOK

LEMMA EndReadType ==
  ASSUME TypeOK, NEW b \in Buffers, EndRead(b), UNCHANGED samplerVars
  PROVE  TypeOK'
<1>1. RingTypeOK'
  BY DEF EndRead, ringVars, TypeOK, RingTypeOK
<1>2. AggregatorTypeOK'
  <2>1. pc' \in Steps
    BY DEF EndRead, StepAfter, Buffers, Steps, LoopSteps
  <2> QED
    BY <2>1 DEF EndRead, TypeOK, AggregatorTypeOK, loopVars, pendingVars
<1>3. ReadOK'
  BY NothingReadOK DEF EndRead, loopVars, TypeOK
<1> QED
  BY <1>1, <1>2, <1>3, SamplerTypeStays DEF TypeOK

LEMMA StartReadType ==
  ASSUME TypeOK, NEW b \in Buffers, NEW c \in Cpus, StartRead(b, c), UNCHANGED samplerVars
  PROVE  TypeOK'
<1>1. RingTypeOK'
  BY DEF StartRead, ringVars, TypeOK, RingTypeOK
<1>2. ring[b][c] \in Seq(Event[b]) /\ Len(ring[b][c]) \in 0 .. Capacity
  BY PerfBuffersAssumption DEF TypeOK, RingTypeOK
<1>3. head \in [Cpus -> 0 .. Capacity] /\ head' = [head EXCEPT ![c] = Len(ring[b][c])]
  BY DEF StartRead, TypeOK, AggregatorTypeOK
<1>4. AggregatorTypeOK'
  BY <1>2, <1>3 DEF StartRead, TypeOK, AggregatorTypeOK, pendingVars
<1>5. at = 0 /\ at' = 0 /\ (\A d \in Cpus : ~Reading(d))
  BY DEF StartRead, TypeOK, ReadOK
<1>6. ASSUME NEW d \in Cpus, Reading(d)'
      PROVE  d = c
  BY <1>3, <1>5, <1>6 DEF Reading
<1>7. ReadOK'
  <2>1. \A d \in Cpus : Reading(d)' =>
          /\ d = c
          /\ pc' = ReadStep[b] /\ head'[d] <= Len(ring'[b][d]) /\ at' < head'[d]
    BY <1>2, <1>3, <1>5, <1>6 DEF StartRead, ringVars, Reading
  <2> QED
    BY <1>5, <2>1 DEF ReadOK
<1> QED
  BY <1>1, <1>4, <1>7, SamplerTypeStays DEF TypeOK

(* The end of a callback: main's place in the rings stays right, whichever *)
(* of the events of its snapshot it was.                                   *)
LEMMA AdvanceType ==
  ASSUME TypeOK, NEW b \in Buffers, NEW c \in Cpus,
         pc = ReadStep[b], Reading(c), Advance(b, c)
  PROVE  /\ RingTypeOK' /\ ReadOK'
         /\ pc' = pc /\ ready' = ready
         /\ head' \in [Cpus -> 0 .. Capacity] /\ at' \in Nat
<1>1. head[c] \in Nat /\ at \in Nat /\ head \in [Cpus -> 0 .. Capacity]
  BY PerfBuffersAssumption DEF TypeOK, AggregatorTypeOK
<1>2. head[c] > 0 /\ head[c] <= Len(ring[b][c]) /\ at < head[c]
  <2>1. PICK x \in Buffers : pc = ReadStep[x] /\ head[c] <= Len(ring[x][c]) /\ at < head[c]
    BY DEF TypeOK, ReadOK
  <2>2. x = b
    BY <2>1 DEF ReadStep, Buffers
  <2> QED
    BY <2>1, <2>2 DEF Reading
<1>3. \A d \in Cpus : Reading(d) => d = c
  BY DEF TypeOK, ReadOK
<1>4. pc' = pc /\ ready' = ready
  BY DEF Advance
<1>5. Len(ring[b][c]) \in Nat
  BY DEF TypeOK, RingTypeOK
<1>6. CASE at + 1 = head[c]
  <2>1. /\ Release(b, c, head[c]) /\ UNCHANGED <<open, lost>>
        /\ head' = [head EXCEPT ![c] = 0] /\ at' = 0
    BY <1>6 DEF Advance
  <2>2. RingTypeOK'
    BY <1>1, <1>2, <1>5, <2>1, ReleaseType DEF TypeOK
  <2>3. \A d \in Cpus : ~Reading(d)'
    BY <1>1, <1>3, <2>1 DEF Reading
  <2>4. ReadOK'
    BY <2>1, <2>3 DEF ReadOK
  <2> QED
    BY <1>1, <1>4, <2>1, <2>2, <2>4, PerfBuffersAssumption
<1>7. CASE at + 1 # head[c]
  <2>1. at' = at + 1 /\ UNCHANGED <<ring, head, open, lost>>
    BY <1>7 DEF Advance
  <2>2. RingTypeOK'
    BY <2>1 DEF TypeOK, RingTypeOK
  <2>3. at + 1 < head[c]
    BY <1>1, <1>2, <1>7
  <2>4. ReadOK'
    BY <1>2, <1>3, <1>4, <2>1, <2>3 DEF ReadOK, Reading
  <2> QED
    BY <1>1, <1>4, <2>1, <2>2, <2>4
<1> QED
  BY <1>6, <1>7

(* The callbacks get the event after the ones handled: one of their buffer.*)
LEMMA CurrentEvent ==
  ASSUME TypeOK, NEW b \in Buffers, NEW c \in Cpus, pc = ReadStep[b], Reading(c)
  PROVE  ring[b][c][at + 1] \in Event[b]
<1>1. PICK x \in Buffers : pc = ReadStep[x] /\ head[c] <= Len(ring[x][c]) /\ at < head[c]
  BY DEF TypeOK, ReadOK
<1>2. x = b
  BY <1>1 DEF ReadStep, Buffers
<1>3. ring[b][c] \in Seq(Event[b]) /\ Len(ring[b][c]) \in Nat
  BY DEF TypeOK, RingTypeOK
<1>4. at \in Nat /\ head[c] \in Nat
  BY PerfBuffersAssumption DEF TypeOK, AggregatorTypeOK
<1>5. at + 1 \in 1 .. Len(ring[b][c])
  BY <1>1, <1>2, <1>3, <1>4
<1> QED
  BY <1>3, <1>5

LEMMA HandleNativeType ==
  ASSUME TypeOK, NEW c \in Cpus, HandleNative(c), UNCHANGED samplerVars
  PROVE  TypeOK'
<1> DEFINE e == ring["native_events"][c][at + 1]
<1>1. /\ pc = ReadStep["native_events"] /\ Reading(c) /\ "native_events" \in Buffers
      /\ handle_native(e) /\ Advance("native_events", c)
  BY DEF HandleNative, ReadStep, Buffers
<1>2. e \in NativeEvent /\ e.key \in Keys
  BY <1>1, CurrentEvent DEF Event, NativeEvent
<1> HIDE DEF e
<1>3. /\ RingTypeOK' /\ ReadOK' /\ pc' = pc /\ ready' = ready
      /\ head' \in [Cpus -> 0 .. Capacity] /\ at' \in Nat
  BY <1>1, AdvanceType
<1>4. DOMAIN native' \subseteq Keys /\ native' \in [DOMAIN native' -> NativeEvent]
  <2>1. DOMAIN native \subseteq Keys /\ native \in [DOMAIN native -> NativeEvent]
    BY DEF TypeOK, AggregatorTypeOK
  <2>2. /\ DOMAIN Put(native, e.key, e) \subseteq Keys
        /\ Put(native, e.key, e) \in [DOMAIN Put(native, e.key, e) -> NativeEvent]
    BY <1>2, <2>1, PutType
  <2> QED
    BY <1>1, <2>2 DEF handle_native
<1>5. succeeded' \in Nat /\ fallback' \in Nat /\ lua' = lua
  BY <1>1 DEF handle_native, TypeOK, AggregatorTypeOK
<1>6. UNCHANGED <<exiting, expired, folded>>
  BY <1>1 DEF Advance
<1>7. AggregatorTypeOK'
  BY <1>3, <1>4, <1>5, <1>6 DEF TypeOK, AggregatorTypeOK
<1> QED
  BY <1>3, <1>7, SamplerTypeStays DEF TypeOK

LEMMA HandleLuaType ==
  ASSUME TypeOK, NEW c \in Cpus, HandleLua(c), UNCHANGED samplerVars
  PROVE  TypeOK'
<1> DEFINE e == ring["lua_events_out"][c][at + 1]
           frames == Append(LuaOf(e.key), e)
<1>1. /\ pc = ReadStep["lua_events_out"] /\ Reading(c) /\ "lua_events_out" \in Buffers
      /\ handle_lua(e) /\ Advance("lua_events_out", c)
      /\ UNCHANGED <<native, succeeded, fallback>>
  BY DEF HandleLua, ReadStep, Buffers
<1>2. e \in LuaEvent /\ e.key \in Keys
  BY <1>1, CurrentEvent DEF Event, LuaEvent
<1> HIDE DEF e
<1>3. /\ RingTypeOK' /\ ReadOK' /\ pc' = pc /\ ready' = ready
      /\ head' \in [Cpus -> 0 .. Capacity] /\ at' \in Nat
  BY <1>1, AdvanceType
<1>4. DOMAIN lua \subseteq Keys /\ lua \in [DOMAIN lua -> Seq(LuaEvent)]
  BY DEF TypeOK, AggregatorTypeOK
<1>5. LuaOf(e.key) \in Seq(LuaEvent)
  BY <1>4 DEF LuaOf
<1>6. frames \in Seq(LuaEvent)
  BY <1>2, <1>5, AppendInSeq
<1>7. lua' = Put(lua, e.key, frames)
  BY <1>1 DEF handle_lua
<1> HIDE DEF frames
<1>8. DOMAIN lua' \subseteq Keys /\ lua' \in [DOMAIN lua' -> Seq(LuaEvent)]
  <2>1. /\ DOMAIN Put(lua, e.key, frames) \subseteq Keys
        /\ Put(lua, e.key, frames) \in [DOMAIN Put(lua, e.key, frames) -> Seq(LuaEvent)]
    BY <1>2, <1>4, <1>6, PutType
  <2> QED
    BY <1>7, <2>1
<1>9. UNCHANGED <<exiting, expired, folded>>
  BY <1>1 DEF Advance
<1>10. AggregatorTypeOK'
  BY <1>1, <1>3, <1>8, <1>9 DEF TypeOK, AggregatorTypeOK
<1> QED
  BY <1>3, <1>10, SamplerTypeStays DEF TypeOK

-----------------------------------------------------------------------------
(* Finalize: Pending::native is finite, so every stack has a count, and it *)
(* is not 0.                                                               *)
NativeFinite == IsFiniteSet(DOMAIN native)

LEMMA FinalizeType ==
  ASSUME TypeOK, NativeFinite, Finalize, UNCHANGED samplerVars
  PROVE  TypeOK'
<1>1. RingTypeOK'
  BY DEF Finalize, ringVars, TypeOK, RingTypeOK
<1>2. \A s \in DOMAIN folded' : folded'[s] \in Nat \ {0}
  <2> SUFFICES ASSUME NEW s \in DOMAIN folded'
               PROVE  folded'[s] \in Nat \ {0}
    OBVIOUS
  <2> DEFINE keys == {k \in DOMAIN native : BuildStack(k) = s}
  <2>1. folded'[s] = Cardinality(keys) /\ s \in {BuildStack(k) : k \in DOMAIN native}
    BY DEF Finalize
  <2>2. keys \subseteq DOMAIN native /\ keys # {}
    BY <2>1
  <2>3. IsFiniteSet(keys)
    BY <2>2, FS_Subset DEF NativeFinite
  <2>4. Cardinality(keys) \in Nat /\ Cardinality(keys) # 0
    BY <2>2, <2>3, FS_CardinalityType, FS_EmptySet
  <2> QED
    BY <2>1, <2>4
<1>3. DOMAIN native' \subseteq Keys /\ native' \in [DOMAIN native' -> NativeEvent]
  BY DEF Finalize, EmptyMap
<1>4. DOMAIN lua' \subseteq Keys /\ lua' \in [DOMAIN lua' -> Seq(LuaEvent)]
  BY DEF Finalize, TypeOK, AggregatorTypeOK
<1>5. AggregatorTypeOK'
  BY <1>2, <1>3, <1>4
     DEF Finalize, TypeOK, AggregatorTypeOK, loopVars, Steps, LoopSteps
<1>6. ReadOK'
  <2>1. \A c \in Cpus : ~Reading(c)
    BY NotReading DEF Finalize
  <2> QED
    BY <2>1, NothingReadOK DEF Finalize, loopVars, TypeOK
<1> QED
  BY <1>1, <1>5, <1>6, SamplerTypeStays DEF TypeOK

LEMMA FiniteStep ==
  ASSUME NativeFinite, [Next]_vars
  PROVE  NativeFinite'
<1>1. CASE native' = native
  BY <1>1 DEF NativeFinite
<1>2. CASE Finalize
  BY <1>2, FS_EmptySet DEF Finalize, EmptyMap, NativeFinite
<1>3. ASSUME NEW c \in Cpus, HandleNative(c)
      PROVE  NativeFinite'
  <2>1. PICK e : native' = Put(native, e.key, e)
    BY <1>3 DEF HandleNative, handle_native
  <2>2. DOMAIN native' = DOMAIN native \cup {e.key}
    BY <2>1 DEF Put
  <2>3. IsFiniteSet(DOMAIN native \cup {e.key})
    BY FS_AddElement DEF NativeFinite
  <2> QED
    BY <2>2, <2>3 DEF NativeFinite
<1>4. native' = native \/ Finalize \/ \E c \in Cpus : HandleNative(c)
  BY DEF Next, Sampling, AggregatorNext, MainStep, BuildReaders, Loop, Poll, EndRead,
         StartRead, HandleLua, DropReaders, Interrupt, Deadline, vars, aggregatorVars,
         pendingVars
<1> QED
  BY <1>1, <1>2, <1>3, <1>4

-----------------------------------------------------------------------------
(* Every step of the program, of main and of the signals keeps the types,  *)
(* for any interleaving: among others a ring never holds more than its     *)
(* capacity, a closed one nothing, and main never handles an event that is *)
(* not there, although the program outputs while main reads.               *)
LEMMA TypeInit == Init => TypeOK /\ NativeFinite
<1> SUFFICES ASSUME Init PROVE TypeOK /\ NativeFinite
  OBVIOUS
<1>1. RingTypeOK
  BY PerfBuffersAssumption DEF Init, RingInit, RingTypeOK
<1>2. SamplerTypeOK
  BY SamplerAssumption DEF Init, SamplerInit, SamplerTypeOK, EmptyMap, Idle
<1>3. AggregatorTypeOK
  <2>1. /\ DOMAIN native \subseteq Keys /\ native \in [DOMAIN native -> NativeEvent]
        /\ DOMAIN lua \subseteq Keys /\ lua \in [DOMAIN lua -> Seq(LuaEvent)]
        /\ DOMAIN folded = {}
    BY EmptyMapType DEF Init, AggregatorInit
  <2>2. pc \in Steps /\ head \in [Cpus -> 0 .. Capacity]
    BY PerfBuffersAssumption DEF Init, AggregatorInit, Steps, LoopSteps
  <2> QED
    BY <2>1, <2>2 DEF Init, AggregatorInit, AggregatorTypeOK
<1>4. ReadOK
  BY DEF Init, AggregatorInit, ReadOK, Reading
<1>5. NativeFinite
  BY FS_EmptySet DEF Init, AggregatorInit, EmptyMap, NativeFinite
<1> QED
  BY <1>1, <1>2, <1>3, <1>4, <1>5 DEF TypeOK

LEMMA TypeStep == TypeOK /\ NativeFinite /\ [Next]_vars => TypeOK' /\ NativeFinite'
<1> SUFFICES ASSUME TypeOK, NativeFinite, [Next]_vars PROVE TypeOK'
  BY FiniteStep
<1>1. CASE UNCHANGED vars
  BY <1>1 DEF vars, ringVars, samplerVars, aggregatorVars, loopVars, pendingVars,
              TypeOK, RingTypeOK, SamplerTypeOK, AggregatorTypeOK, ReadOK, Reading
<1>2. CASE Sampling
  <2>1. CASE \E c \in Cpus, t \in Tids : TakeSample(c, t)
    BY <1>2, <2>1, TakeSampleType DEF Sampling
  <2>2. CASE \E c \in Cpus : EmitLua(c)
    BY <1>2, <2>2, EmitLuaType DEF Sampling
  <2> QED
    BY <1>2, <2>1, <2>2 DEF Sampling, SamplerNext
<1>3. CASE AggregatorNext /\ UNCHANGED samplerVars
  <2>1. CASE BuildReaders
    BY <1>3, <2>1, BuildReadersType
  <2>2. CASE Loop
    BY <1>3, <2>2, LoopType
  <2>3. CASE \E b \in Buffers : Poll(b) \/ EndRead(b)
    BY <1>3, <2>3, PollType, EndReadType
  <2>4. CASE \E b \in Buffers, c \in Cpus : StartRead(b, c)
    BY <1>3, <2>4, StartReadType
  <2>5. CASE \E c \in Cpus : HandleNative(c) \/ HandleLua(c)
    BY <1>3, <2>5, HandleNativeType, HandleLuaType
  <2>6. CASE DropReaders
    BY <1>3, <2>6, DropReadersType
  <2>7. CASE Finalize
    BY <1>3, <2>7, FinalizeType
  <2>8. CASE Interrupt \/ Deadline
    BY <1>3, <2>8, SignalsType
  <2> QED
    BY <1>3, <2>1, <2>2, <2>3, <2>4, <2>5, <2>6, <2>7, <2>8 DEF AggregatorNext, MainStep
<1> QED
  BY <1>1, <1>2, <1>3 DEF Next

THEOREM TypeCorrect == Spec => []TypeOK
<1>1. Init => TypeOK /\ NativeFinite
  BY TypeInit
<1>2. TypeOK /\ NativeFinite /\ [Next]_vars => (TypeOK /\ NativeFinite)'
  BY TypeStep
<1> QED
  BY <1>1, <1>2, PTL DEF Spec

-----------------------------------------------------------------------------
(* KeysAreNonces is not inductive: it says nothing of the number seq_map   *)
(* holds. The strengthening relates that number to every earlier sample of *)
(* a tracked thread, and says that a thread without an entry has samples   *)
(* only if the map is full, so an entry is never made late.                *)
Since(r) == {q \in r + 1 .. Len(taken) : taken[q].key.tid = taken[r].key.tid}

Shift(x, k) == IF x + k < SeqWrap THEN x + k ELSE x + k - SeqWrap

CountsOn ==
  \A r \in Samples :
    Tracked(r) /\ Cardinality(Since(r)) < SeqWrap =>
      seq_map[taken[r].key.tid] = Shift(taken[r].key.seq, Cardinality(Since(r)))

FullIfUntracked ==
  \A r \in Samples : ~Tracked(r) => ~HasRoom(seq_map, taken[r].key.tid, SeqEntries)

NonceInv == CountsOn /\ FullIfUntracked /\ KeysAreNonces

LEMMA ModNext ==
  ASSUME NEW w \in Nat, w > 1, NEW x \in 0 .. w - 1
  PROVE  (x + 1) % w = IF x + 1 = w THEN 0 ELSE x + 1
OBVIOUS

(* One more sample moves the number one further around.                    *)
LEMMA NextShift ==
  ASSUME NEW x \in 0 .. SeqWrap - 1, NEW k \in Nat, k + 1 < SeqWrap
  PROVE  (Shift(x, k) + 1) % SeqWrap = Shift(x, k + 1)
<1>1. Shift(x, k) \in 0 .. SeqWrap - 1
  BY SamplerAssumption DEF Shift
<1>2. (Shift(x, k) + 1) % SeqWrap =
        IF Shift(x, k) + 1 = SeqWrap THEN 0 ELSE Shift(x, k) + 1
  BY <1>1, ModNext, SamplerAssumption
<1> QED
  BY <1>2, SamplerAssumption DEF Shift

(* Fewer than SeqWrap samples further, the number is another one.          *)
LEMMA ShiftMoves ==
  ASSUME NEW x \in 0 .. SeqWrap - 1, NEW k \in Nat, k > 0, k < SeqWrap
  PROVE  Shift(x, k) # x
BY SamplerAssumption DEF Shift

LEMMA SinceType ==
  ASSUME TypeOK, NEW r \in Samples
  PROVE  /\ Since(r) \subseteq r + 1 .. Len(taken)
         /\ IsFiniteSet(Since(r))
         /\ Cardinality(Since(r)) \in Nat
<1>1. taken \in Seq(Sample) /\ r \in Nat /\ Len(taken) \in Nat
  BY DEF TypeOK, SamplerTypeOK, Samples
<1>2. IsFiniteSet(r + 1 .. Len(taken))
  BY <1>1, FS_Interval
<1>3. Since(r) \subseteq r + 1 .. Len(taken)
  BY DEF Since
<1>4. IsFiniteSet(Since(r))
  BY <1>2, <1>3, FS_Subset
<1> QED
  BY <1>3, <1>4, FS_CardinalityType

LEMMA NonceTake ==
  ASSUME TypeOK, NonceInv, NEW c \in Cpus, NEW t \in Tids, TakeSample(c, t)
  PROVE  NonceInv'
<1> DEFINE n == Len(taken)
           seq == NextSeq(t)
<1>0. PICK id : id = n + 1
  OBVIOUS
<1>1. /\ taken \in Seq(Sample) /\ n \in Nat /\ Samples = 1 .. n
      /\ DOMAIN seq_map \subseteq Tids
      /\ \A u \in DOMAIN seq_map : seq_map[u] \in 0 .. SeqWrap - 1
  BY DEF TypeOK, SamplerTypeOK, Samples
<1>2. \A r \in Samples : taken[r].key.seq \in 0 .. SeqWrap - 1 /\ taken[r].key.tid \in Tids
  <2>1. \A r \in Samples : taken[r] \in Sample
    BY <1>1
  <2> QED
    BY <2>1 DEF Sample, Keys
<1>3. /\ Samples' = 1 .. id
      /\ \A r \in 1 .. n : taken'[r] = taken[r]
      /\ taken'[id].key = [tid |-> t, seq |-> seq]
  <2>1. PICK ips \in NativeStacks, k \in LuaDepths :
          taken' = Append(taken, [key |-> [tid |-> t, seq |-> seq], ips |-> ips, frames |-> k])
    BY DEF TakeSample
  <2> QED
    BY <1>0, <1>1, <2>1 DEF Samples
<1>4. seq_map' = MapUpdate(seq_map, t, seq, SeqEntries)
  BY DEF TakeSample
<1> HIDE DEF seq
<1>5. \A r \in Samples : Since(r)' = IF taken[r].key.tid = t THEN Since(r) \cup {id} ELSE Since(r)
  <2>1. Len(taken') = id
    BY <1>0, <1>1, <1>3 DEF Samples, TakeSample
  <2> QED
    BY <1>0, <1>1, <1>3, <2>1 DEF Since
<1>6. \A r \in Samples :
        Cardinality(Since(r))' =
          Cardinality(Since(r)) + IF taken[r].key.tid = t THEN 1 ELSE 0
  <2> SUFFICES ASSUME NEW r \in Samples
               PROVE  Cardinality(Since(r))' =
                        Cardinality(Since(r)) + IF taken[r].key.tid = t THEN 1 ELSE 0
    OBVIOUS
  <2>1. CASE taken[r].key.tid = t
    <3>1. Since(r)' = Since(r) \cup {id}
      BY <1>5, <2>1
    <3>2. id \notin Since(r)
      BY <1>0, <1>1, SinceType
    <3>3. Cardinality(Since(r) \cup {id}) = Cardinality(Since(r)) + 1
      BY <3>2, SinceType, FS_AddElement
    <3> QED
      BY <2>1, <3>1, <3>3
  <2>2. CASE taken[r].key.tid # t
    <3>1. Since(r)' = Since(r)
      BY <1>5, <2>2
    <3> QED
      BY <2>2, <3>1, SinceType
  <2> QED
    BY <2>1, <2>2
<1>7. Since(id)' = {} /\ Cardinality(Since(id))' = 0
  <2>1. Len(taken') = id
    BY <1>0, <1>1, <1>3 DEF Samples, TakeSample
  <2>2. Since(id)' = {}
    BY <1>0, <1>1, <2>1 DEF Since
  <2> QED
    BY <2>2, FS_EmptySet
(* An entry is only made with the first sample of its thread.              *)
<1>8. \A r \in Samples : Tracked(r)' <=> Tracked(r)
  <2> SUFFICES ASSUME NEW r \in Samples
               PROVE  Tracked(r)' <=> Tracked(r)
    OBVIOUS
  <2>1. Tracked(r)' <=> taken[r].key.tid \in DOMAIN seq_map'
    BY <1>0, <1>1, <1>3 DEF Tracked
  <2>2. CASE HasRoom(seq_map, t, SeqEntries)
    <3>1. DOMAIN seq_map' = DOMAIN seq_map \cup {t}
      BY <1>4, <2>2 DEF MapUpdate, Put
    <3>2. taken[r].key.tid = t => Tracked(r)
      BY <2>2 DEF NonceInv, FullIfUntracked
    <3> QED
      BY <2>1, <3>1, <3>2 DEF Tracked
  <2>3. CASE ~HasRoom(seq_map, t, SeqEntries)
    BY <1>4, <2>1, <2>3 DEF MapUpdate, Tracked
  <2> QED
    BY <2>2, <2>3
<1>9. ASSUME NEW r \in Samples, Tracked(r), taken[r].key.tid = t,
             Cardinality(Since(r)) + 1 < SeqWrap
      PROVE  seq = Shift(taken[r].key.seq, Cardinality(Since(r)) + 1)
  <2>1. t \in DOMAIN seq_map
    BY <1>9 DEF Tracked
  <2>2. Cardinality(Since(r)) \in Nat
    BY SinceType
  <2>3. seq_map[t] = Shift(taken[r].key.seq, Cardinality(Since(r)))
    BY <1>9, <2>2, SamplerAssumption DEF NonceInv, CountsOn
  <2>4. seq = (seq_map[t] + 1) % SeqWrap
    BY <2>1 DEF NextSeq, seq
  <2> QED
    BY <1>2, <1>9, <2>2, <2>3, <2>4, NextShift
<1>10. CountsOn'
  <2> SUFFICES ASSUME NEW r \in Samples', Tracked(r)', Cardinality(Since(r))' < SeqWrap
               PROVE  seq_map'[taken'[r].key.tid] =
                        Shift(taken'[r].key.seq, Cardinality(Since(r))')
    BY DEF CountsOn, Shift
  <2>1. t \in DOMAIN seq_map' => seq_map'[t] = seq
    BY <1>4 DEF MapUpdate, Put, HasRoom
  <2>2. \A u \in DOMAIN seq_map \ {t} : seq_map'[u] = seq_map[u]
    BY <1>4 DEF MapUpdate, Put
  <2>3. CASE r = id
    <3>1. seq \in 0 .. SeqWrap - 1
      BY NextSeqType DEF TypeOK, seq
    <3>2. Shift(seq, 0) = seq
      BY <3>1, SamplerAssumption DEF Shift
    <3>3. taken'[r].key.tid = t /\ taken'[r].key.seq = seq
      BY <1>3, <2>3
    <3>4. seq_map'[t] = seq
      BY <2>1, <3>3 DEF Tracked
    <3>5. Cardinality(Since(r))' = 0
      BY <1>7, <2>3
    <3> QED
      BY <3>2, <3>3, <3>4, <3>5
  <2>4. CASE r \in Samples
    <3>1. Tracked(r) /\ taken'[r] = taken[r] /\ Cardinality(Since(r)) \in Nat
      BY <1>0, <1>1, <1>3, <1>8, <2>4, SinceType
    <3>2. CASE taken[r].key.tid = t
      <4>1. seq_map'[t] = seq
        BY <2>1, <3>1, <3>2 DEF Tracked
      <4> QED
        BY <1>6, <1>9, <2>4, <3>1, <3>2, <4>1
    <3>3. CASE taken[r].key.tid # t
      <4>1. Cardinality(Since(r))' = Cardinality(Since(r))
        BY <1>6, <2>4, <3>1, <3>3
      <4>2. seq_map'[taken[r].key.tid] = seq_map[taken[r].key.tid]
        BY <2>2, <3>1, <3>3 DEF Tracked
      <4> QED
        BY <2>4, <3>1, <4>1, <4>2 DEF NonceInv, CountsOn
    <3> QED
      BY <3>2, <3>3
  <2> QED
    BY <1>0, <1>1, <1>3, <2>3, <2>4
<1>11. FullIfUntracked'
  <2> SUFFICES ASSUME NEW r \in Samples', ~Tracked(r)'
               PROVE  ~HasRoom(seq_map', taken'[r].key.tid, SeqEntries)
    BY DEF FullIfUntracked
  <2>1. CASE HasRoom(seq_map, t, SeqEntries)
    <3>1. DOMAIN seq_map' = DOMAIN seq_map \cup {t}
      BY <1>4, <2>1 DEF MapUpdate, Put
    <3>2. r # id
      BY <1>3, <3>1 DEF Tracked
    <3>3. r \in Samples /\ ~Tracked(r) /\ taken'[r] = taken[r]
      BY <1>0, <1>1, <1>3, <1>8, <3>2
    <3>4. ~HasRoom(seq_map, taken[r].key.tid, SeqEntries)
      BY <3>3 DEF NonceInv, FullIfUntracked
    <3>5. t \in DOMAIN seq_map
      BY <2>1, <3>4 DEF HasRoom
    <3>6. DOMAIN seq_map' = DOMAIN seq_map
      BY <3>1, <3>5
    <3> QED
      BY <3>3, <3>4, <3>6 DEF HasRoom
  <2>2. CASE ~HasRoom(seq_map, t, SeqEntries)
    <3>1. seq_map' = seq_map
      BY <1>4, <2>2 DEF MapUpdate
    <3>2. CASE r = id
      BY <1>3, <2>2, <3>1, <3>2
    <3>3. CASE r \in Samples
      BY <1>0, <1>1, <1>3, <1>8, <3>1, <3>3 DEF NonceInv, FullIfUntracked
    <3> QED
      BY <1>0, <1>1, <1>3, <3>2, <3>3
  <2> QED
    BY <2>1, <2>2
<1>12. KeysAreNonces'
  <2> SUFFICES ASSUME NEW s \in Samples', NEW r \in 1 .. s - 1,
                      Tracked(s)', taken'[r].key = taken'[s].key
               PROVE  SeqWrap <= Cardinality({q \in r + 1 .. s : taken'[q].key.tid = taken'[s].key.tid})
    BY DEF KeysAreNonces
  <2>1. r \in Samples /\ taken'[r] = taken[r] /\ r < s
    BY <1>0, <1>1, <1>3
  <2>2. CASE s = id
    <3>1. taken[r].key.tid = t /\ taken[r].key.seq = seq
      BY <1>3, <2>1, <2>2
    <3>2. Tracked(r)
      <4>1. Tracked(r)'
        BY <1>3, <2>1, <2>2, <3>1 DEF Tracked
      <4> QED
        BY <1>8, <2>1, <4>1
    <3>3. {q \in r + 1 .. s : taken'[q].key.tid = taken'[s].key.tid} = Since(r)'
      <4>1. Len(taken') = id
        BY <1>0, <1>1, <1>3 DEF Samples, TakeSample
      <4> QED
        BY <1>0, <1>1, <1>3, <2>1, <2>2, <3>1, <4>1 DEF Since
    <3>4. Cardinality(Since(r))' = Cardinality(Since(r)) + 1 /\ Cardinality(Since(r)) \in Nat
      BY <1>6, <2>1, <3>1, SinceType
    <3>5. ~(Cardinality(Since(r)) + 1 < SeqWrap)
      <4> SUFFICES ASSUME Cardinality(Since(r)) + 1 < SeqWrap
                   PROVE  FALSE
        OBVIOUS
      <4>1. seq = Shift(taken[r].key.seq, Cardinality(Since(r)) + 1)
        BY <1>9, <2>1, <3>1, <3>2
      <4>2. Shift(taken[r].key.seq, Cardinality(Since(r)) + 1) # taken[r].key.seq
        BY <1>2, <2>1, <3>4, ShiftMoves
      <4> QED
        BY <3>1, <4>1, <4>2
    <3>6. SeqWrap <= Cardinality(Since(r))'
      BY <3>4, <3>5, SamplerAssumption
    <3> QED
      BY <3>3, <3>6
  <2>3. CASE s \in Samples
    <3>1. taken'[s] = taken[s] /\ Tracked(s)
      BY <1>0, <1>1, <1>3, <1>8, <2>3
    <3>2. {q \in r + 1 .. s : taken'[q].key.tid = taken'[s].key.tid}
            = {q \in r + 1 .. s : taken[q].key.tid = taken[s].key.tid}
      BY <1>0, <1>1, <1>3, <2>1, <2>3, <3>1
    <3>3. SeqWrap <= Cardinality({q \in r + 1 .. s : taken[q].key.tid = taken[s].key.tid})
      BY <2>1, <2>3, <3>1 DEF NonceInv, KeysAreNonces
    <3> QED
      BY <3>2, <3>3
  <2> QED
    BY <1>0, <1>1, <1>3, <2>2, <2>3
<1> QED
  BY <1>10, <1>11, <1>12 DEF NonceInv

LEMMA NonceStays ==
  ASSUME NonceInv, UNCHANGED <<seq_map, taken>>
  PROVE  NonceInv'
<1>1. Samples' = Samples /\ \A r \in Samples : Since(r)' = Since(r) /\ Tracked(r)' = Tracked(r)
  BY DEF Samples, Since, Tracked
<1>2. CountsOn'
  BY <1>1 DEF NonceInv, CountsOn, Shift
<1>3. FullIfUntracked'
  BY <1>1 DEF NonceInv, FullIfUntracked
<1>4. KeysAreNonces'
  BY <1>1 DEF NonceInv, KeysAreNonces
<1> QED
  BY <1>2, <1>3, <1>4 DEF NonceInv

LEMMA NonceAlways == Spec => [](TypeOK /\ NonceInv)
<1>1. Init => TypeOK /\ NativeFinite /\ NonceInv
  <2>1. Init => Samples = {}
    BY DEF Init, SamplerInit, Samples
  <2> QED
    BY <2>1, TypeInit DEF NonceInv, CountsOn, FullIfUntracked, KeysAreNonces
<1>2. TypeOK /\ NativeFinite /\ NonceInv /\ [Next]_vars
        => (TypeOK /\ NativeFinite /\ NonceInv)'
  <2> SUFFICES ASSUME TypeOK, NativeFinite, NonceInv, [Next]_vars
               PROVE  NonceInv'
    BY TypeStep
  <2>1. CASE \E c \in Cpus, t \in Tids : TakeSample(c, t)
    BY <2>1, NonceTake
  <2>2. CASE UNCHANGED <<seq_map, taken>>
    BY <2>2, NonceStays
  <2> QED
    BY <2>1, <2>2 DEF Next, Sampling, SamplerNext, EmitLua, vars, samplerVars
<1> QED
  BY <1>1, <1>2, PTL DEF Spec

(* The nonce of a tracked thread repeats only after SeqWrap samples, for   *)
(* any number of threads and entries, on whichever CPUs the samples fall.  *)
THEOREM NoncesHold == Spec => []KeysAreNonces
<1>1. NonceInv => KeysAreNonces
  BY DEF NonceInv
<1> QED BY <1>1, NonceAlways, PTL

-----------------------------------------------------------------------------
Queue(c) == Unread("native_events", c)

(* What is in a queue is the native event of a sample, not lost, and in no *)
(* other place of any queue.                                               *)
QueueInv ==
  /\ \A c \in Cpus : \A i \in DOMAIN Queue(c) :
       /\ Queue(c)[i].sample \in Samples
       /\ Queue(c)[i] = NativeEventOf(Queue(c)[i].sample)
       /\ Queue(c)[i] \notin lost
  /\ \A c, d \in Cpus : \A i \in DOMAIN Queue(c), j \in DOMAIN Queue(d) :
       Queue(c)[i].sample = Queue(d)[j].sample => c = d /\ i = j
  /\ \A e \in lost \cap NativeEvent : e.sample \in Samples

(* What is in Pending::native is the native event of a sample, under its   *)
(* key, neither lost nor in a queue.                                       *)
MapInv ==
  \A k \in DOMAIN native :
    /\ native[k].sample \in Samples
    /\ native[k] = NativeEventOf(native[k].sample)
    /\ native[k].key = k
    /\ native[k] \notin lost
    /\ \A c \in Cpus : \A i \in DOMAIN Queue(c) : Queue(c)[i].sample # native[k].sample

(* Where the native event of a sample can be.                              *)
InMap(s) == taken[s].key \in DOMAIN native /\ native[taken[s].key].sample = s

Covered(s) ==
  \/ NativeEventOf(s) \in lost
  \/ \E c \in Cpus : \E i \in DOMAIN Queue(c) : Queue(c)[i] = NativeEventOf(s)
  \/ InMap(s)

CoverInv == pc # "done" => \A s \in Samples : OwnKey(s) => Covered(s)

StatsInv ==
  /\ IncludeNative => succeeded + fallback = Cardinality(ArrivedSamples)
  /\ IsFiniteSet(ArrivedSamples)

DeliveryInv == QueueInv /\ MapInv /\ CoverInv /\ StatsInv

-----------------------------------------------------------------------------
LEMMA EventsDiffer == NativeEvent \cap LuaEvent = {}
<1> SUFFICES ASSUME NEW e \in NativeEvent, e \in LuaEvent PROVE FALSE
  OBVIOUS
<1>1. DOMAIN e = {"key", "sample", "ips"}
  BY DEF NativeEvent
<1>2. DOMAIN e = {"key", "sample", "level"}
  BY DEF LuaEvent
<1> QED BY <1>1, <1>2

LEMMA NativeEventOfType ==
  ASSUME TypeOK, NEW s \in Samples
  PROVE  /\ NativeEventOf(s) \in NativeEvent
         /\ NativeEventOf(s).sample = s
         /\ NativeEventOf(s).key = taken[s].key
<1>1. taken[s] \in Sample /\ s \in 1 .. MaxSamples
  BY SamplerAssumption DEF TypeOK, SamplerTypeOK, Samples
<1> QED BY <1>1 DEF NativeEventOf, NativeEvent, Sample

(* What main has not read of a ring.                                       *)
LEMMA UnreadType ==
  ASSUME TypeOK, NEW b \in Buffers, NEW c \in Cpus
  PROVE  /\ Unread(b, c) \in Seq(Event[b])
         /\ Len(Unread(b, c)) \in 0 .. Capacity
<1> DEFINE r == ring[b][c]
<1>1. r \in Seq(Event[b]) /\ Len(r) <= Capacity /\ Len(r) \in Nat /\ Capacity \in Nat
  BY PerfBuffersAssumption DEF TypeOK, RingTypeOK
<1>2. CASE pc = ReadStep[b] /\ Reading(c)
  <2>1. head[c] <= Len(r) /\ at < head[c] /\ at \in Nat /\ head[c] \in 0 .. Capacity
    BY <1>2 DEF TypeOK, ReadOK, ReadStep, Buffers, AggregatorTypeOK
  <2>2. Unread(b, c) = SubSeq(r, at + 1, Len(r))
    BY <1>2 DEF Unread
  <2> HIDE DEF r
  <2>3. at \in 0 .. Len(r)
    BY <1>1, <2>1
  <2>4. SubSeq(r, at + 1, Len(r)) \in Seq(Event[b]) /\ Len(SubSeq(r, at + 1, Len(r))) = Len(r) - at
    BY <1>1, <2>3, SuffixInSeq
  <2> QED BY <1>1, <2>2, <2>3, <2>4
<1>3. CASE ~(pc = ReadStep[b] /\ Reading(c))
  <2>1. Unread(b, c) = r
    BY <1>3 DEF Unread
  <2> QED BY <1>1, <2>1
<1> QED BY <1>2, <1>3

(* Steps that leave the ring alone leave that part alone: a read that is   *)
(* not in progress is not, under another name of the same step.            *)
LEMMA UnreadSame ==
  ASSUME NEW b \in Buffers, ring'[b] = ring[b],
         \/ UNCHANGED <<pc, head, at>>
         \/ pc' = pc /\ pc # ReadStep[b]
         \/ (\A c \in Cpus : ~Reading(c)) /\ head' = head
  PROVE  \A c \in Cpus : Unread(b, c)' = Unread(b, c)
BY DEF Unread, Reading, ReadStep

LEMMA QueueType ==
  ASSUME TypeOK, NEW c \in Cpus
  PROVE  /\ Queue(c) \in Seq(NativeEvent)
         /\ Len(Queue(c)) \in 0 .. Capacity
BY UnreadType DEF Queue, Buffers, Event

LEMMA QueueSame ==
  ASSUME ring'["native_events"] = ring["native_events"],
         \/ UNCHANGED <<pc, head, at>>
         \/ pc' = pc /\ pc # "read_native"
         \/ (\A c \in Cpus : ~Reading(c)) /\ head' = head
  PROVE  \A c \in Cpus : Queue(c)' = Queue(c)
<1>1. "native_events" \in Buffers /\ ReadStep["native_events"] = "read_native"
  BY DEF Buffers, ReadStep
<1>2. \A c \in Cpus : Unread("native_events", c)' = Unread("native_events", c)
  BY <1>1, UnreadSame
<1> QED BY <1>2 DEF Queue

(* A step that moves no native event.                                      *)
LEMMA QuietStep ==
  ASSUME TypeOK, DeliveryInv,
         \A c \in Cpus : Queue(c)' = Queue(c),
         \A e \in NativeEvent : e \in lost' <=> e \in lost,
         UNCHANGED <<taken, native, succeeded, fallback>>,
         pc' # "done" => pc # "done"
  PROVE  DeliveryInv' /\ ArrivedSamples' = ArrivedSamples
<1>1. Samples' = Samples /\ \A s \in Samples : NativeEventOf(s)' = NativeEventOf(s)
  BY DEF Samples, NativeEventOf
<1>2. \A s \in Samples : NativeEventOf(s) \in lost' <=> NativeEventOf(s) \in lost
  BY NativeEventOfType
<1>3. QueueInv'
  <2>1. \A e \in lost' \cap NativeEvent : e.sample \in Samples'
    BY <1>1 DEF DeliveryInv, QueueInv
  <2> QED
  BY <2>1, <1>1, <1>2 DEF DeliveryInv, QueueInv
<1>4. MapInv'
  BY <1>1, <1>2 DEF DeliveryInv, MapInv
<1>5. \A s \in Samples : OwnKey(s)' = OwnKey(s) /\ InMap(s)' = InMap(s)
  BY <1>1 DEF OwnKey, InMap
<1>6. CoverInv'
  BY <1>1, <1>2, <1>5 DEF DeliveryInv, CoverInv, Covered
<1>7. \A s \in Samples : Counted(s)' = Counted(s)
  BY <1>1, <1>2 DEF Counted, IsUnread, Queue
<1>8. ArrivedSamples' = ArrivedSamples
  BY <1>1, <1>7 DEF ArrivedSamples
<1>9. StatsInv'
  BY <1>8 DEF DeliveryInv, StatsInv
<1> QED BY <1>3, <1>4, <1>6, <1>8, <1>9 DEF DeliveryInv

-----------------------------------------------------------------------------
(* The steps that move native events: their effect on the queues.          *)
LEMMA SuffixOfAppend ==
  ASSUME NEW S, NEW r \in Seq(S), NEW e \in S, NEW n \in 0 .. Len(r) - 1
  PROVE  SubSeq(Append(r, e), n + 1, Len(Append(r, e))) = Append(SubSeq(r, n + 1, Len(r)), e)
<1> DEFINE a == SubSeq(Append(r, e), n + 1, Len(Append(r, e)))
           b == Append(SubSeq(r, n + 1, Len(r)), e)
<1>1. Len(r) \in Nat /\ Append(r, e) \in Seq(S) /\ Len(Append(r, e)) = Len(r) + 1
  OBVIOUS
<1>2. a \in Seq(S) /\ Len(a) = Len(r) + 1 - n
  BY <1>1, SuffixInSeq
<1>3. SubSeq(r, n + 1, Len(r)) \in Seq(S) /\ Len(SubSeq(r, n + 1, Len(r))) = Len(r) - n
  BY <1>1, SuffixInSeq
<1>4. b \in Seq(S) /\ Len(b) = Len(r) - n + 1
  BY <1>3, AppendInSeq
<1>5. \A i \in 1 .. Len(a) : a[i] = b[i]
  BY <1>1, <1>2, <1>3
<1> HIDE DEF a, b
<1> QED BY <1>1, <1>2, <1>4, <1>5, SeqEqual

LEMMA TailOfSuffix ==
  ASSUME NEW S, NEW r \in Seq(S), NEW n \in 0 .. Len(r) - 1
  PROVE  /\ SubSeq(r, n + 1, Len(r)) # <<>>
         /\ Head(SubSeq(r, n + 1, Len(r))) = r[n + 1]
         /\ SubSeq(r, n + 2, Len(r)) = Tail(SubSeq(r, n + 1, Len(r)))
<1> DEFINE q == SubSeq(r, n + 1, Len(r))
           a == SubSeq(r, n + 2, Len(r))
<1>1. Len(r) \in Nat /\ n + 1 \in 0 .. Len(r)
  OBVIOUS
<1>2. q \in Seq(S) /\ Len(q) = Len(r) - n
  BY SuffixInSeq
<1>3. a \in Seq(S) /\ Len(a) = Len(r) - n - 1
  <2>1. /\ SubSeq(r, (n + 1) + 1, Len(r)) \in Seq(S)
        /\ Len(SubSeq(r, (n + 1) + 1, Len(r))) = Len(r) - (n + 1)
    BY <1>1, SuffixInSeq
  <2> QED BY <1>1, <2>1
<1>4. q # <<>> /\ Head(q) = q[1] /\ q[1] = r[n + 1]
  <2>1. q[1] = r[n + 1]
    BY <1>1, <1>2
  <2> HIDE DEF q
  <2>2. q # <<>> /\ Head(q) = q[1]
    BY <1>1, <1>2
  <2> QED BY <2>1, <2>2
<1>5. Tail(q) \in Seq(S) /\ Len(Tail(q)) = Len(q) - 1
  <2> HIDE DEF q
  <2> QED BY <1>1, <1>2, <1>4
<1>6. \A i \in 1 .. Len(a) : a[i] = Tail(q)[i]
  <2> SUFFICES ASSUME NEW i \in 1 .. Len(r) - n - 1 PROVE a[i] = Tail(q)[i]
    BY <1>3
  <2>1. i \in Nat /\ i >= 1 /\ i + 1 \in 1 .. Len(r) - n /\ n + (i + 1) = n + 1 + i
    BY <1>1
  <2>2. q[i + 1] = r[n + 1 + i]
    BY <1>1, <1>2, <2>1
  <2>3. a[i] = r[n + 1 + i]
    BY <1>1, <1>3, <2>1
  <2> HIDE DEF a, q
  <2>4. i \in 1 .. Len(q) - 1
    BY <1>2, <2>1
  <2>5. Tail(q)[i] = q[i + 1]
    BY <1>2, <1>4, <2>4
  <2> QED BY <2>2, <2>3, <2>5
<1>7. a = Tail(q)
  <2> HIDE DEF a, q
  <2> QED BY <1>1, <1>2, <1>3, <1>5, <1>6, SeqEqual
<1> QED BY <1>4, <1>7

LEMMA UnreadAppend ==
  ASSUME TypeOK, NEW b \in Buffers, NEW c \in Cpus, NEW e \in Event[b], UNCHANGED <<pc, head, at>>,
         ring' = [ring EXCEPT ![b][c] = Append(@, e)]
  PROVE  \A d \in Cpus : Unread(b, d)' = IF d = c THEN Append(Unread(b, d), e) ELSE Unread(b, d)
<1> SUFFICES ASSUME NEW d \in Cpus
             PROVE  Unread(b, d)' = IF d = c THEN Append(Unread(b, d), e) ELSE Unread(b, d)
  OBVIOUS
<1> DEFINE r == ring[b][d]
<1>1. r \in Seq(Event[b])
  BY DEF TypeOK, RingTypeOK
<1>2. ring'[b][d] = IF d = c THEN Append(r, e) ELSE r
  BY DEF TypeOK, RingTypeOK
<1>3. CASE pc = ReadStep[b] /\ Reading(d)
  <2>1. at \in 0 .. Len(r) - 1
    BY <1>1, <1>3 DEF TypeOK, ReadOK, ReadStep, Buffers, AggregatorTypeOK
  <2>2. /\ Unread(b, d) = SubSeq(r, at + 1, Len(r))
        /\ Unread(b, d)' = SubSeq(ring'[b][d], at + 1, Len(ring'[b][d]))
    BY <1>3 DEF Unread, Reading, ReadStep
  <2> HIDE DEF r
  <2>3. SubSeq(Append(r, e), at + 1, Len(Append(r, e))) = Append(SubSeq(r, at + 1, Len(r)), e)
    BY <1>1, <2>1, SuffixOfAppend
  <2> QED BY <1>2, <2>2, <2>3
<1>4. CASE ~(pc = ReadStep[b] /\ Reading(d))
  BY <1>2, <1>4 DEF Unread, Reading, ReadStep
<1> QED BY <1>3, <1>4

LEMMA UnreadTail ==
  ASSUME TypeOK, NEW b \in Buffers, NEW c \in Cpus, pc = ReadStep[b], Reading(c), Advance(b, c)
  PROVE  /\ Unread(b, c) # <<>>
         /\ Head(Unread(b, c)) = ring[b][c][at + 1]
         /\ \A d \in Cpus : Unread(b, d)' = IF d = c THEN Tail(Unread(b, d)) ELSE Unread(b, d)
<1> DEFINE r == ring[b][c]
           n == head[c]
<1>1. /\ pc = ReadStep[b] /\ pc' = pc /\ Reading(c)
      /\ IF at + 1 = n
         THEN Release(b, c, n) /\ head' = [head EXCEPT ![c] = 0] /\ at' = 0
         ELSE at' = at + 1 /\ UNCHANGED <<ring, head>>
  BY DEF Advance
<1>2. /\ r \in Seq(Event[b]) /\ Len(r) \in Nat
      /\ ring \in [Buffers -> [Cpus -> Seq(NativeEvent \cup LuaEvent)]]
      /\ head \in [Cpus -> 0 .. Capacity] /\ Capacity \in Nat
      /\ at \in Nat /\ at < n /\ n <= Len(r)
  BY <1>1, PerfBuffersAssumption
     DEF TypeOK, RingTypeOK, AggregatorTypeOK, ReadOK, ReadStep, Buffers
<1>3. at \in 0 .. Len(r) - 1 /\ n \in Nat
  BY <1>2
<1>4. Unread(b, c) = SubSeq(r, at + 1, Len(r))
  BY <1>1 DEF Unread
<1>5. Unread(b, c)' = SubSeq(r, at + 2, Len(r))
  <2>1. CASE at + 1 = n
    <3>1. ring'[b][c] = SubSeq(r, n + 1, Len(r))
      BY <1>1, <1>2, <2>1 DEF Release
    <3>2. ~Reading(c)'
      BY <1>1, <1>2, <2>1 DEF Reading
    <3>3. Unread(b, c)' = ring'[b][c]
      BY <3>2 DEF Unread
    <3>4. n + 1 = at + 2
      BY <1>3, <2>1
    <3> HIDE DEF n, r
    <3> QED BY <3>1, <3>3, <3>4
  <2>2. CASE at + 1 # n
    <3>1. at' = at + 1 /\ ring' = ring /\ head' = head
      BY <1>1, <2>2
    <3>2. Unread(b, c)' = SubSeq(r, at' + 1, Len(r))
      BY <1>1, <3>1 DEF Unread, Reading, ReadStep
    <3>3. at' + 1 = at + 2
      BY <1>3, <3>1
    <3> HIDE DEF n, r
    <3> QED BY <3>2, <3>3
  <2> QED BY <2>1, <2>2
<1>6. ASSUME NEW d \in Cpus \ {c}
      PROVE  Unread(b, d)' = Unread(b, d)
  <2>1. ~Reading(d)
    BY <1>1 DEF TypeOK, ReadOK
  <2>2. ring'[b][d] = ring[b][d] /\ head'[d] = head[d]
    BY <1>1, <1>2 DEF Release
  <2> QED BY <2>1, <2>2 DEF Unread, Reading
<1> HIDE DEF n, r
<1>7. /\ SubSeq(r, at + 1, Len(r)) # <<>>
      /\ Head(SubSeq(r, at + 1, Len(r))) = r[at + 1]
      /\ SubSeq(r, at + 2, Len(r)) = Tail(SubSeq(r, at + 1, Len(r)))
  BY <1>2, <1>3, TailOfSuffix
<1> QED BY <1>4, <1>5, <1>6, <1>7 DEF r

(* A read of one buffer leaves the other alone.                            *)
LEMMA UnreadOther ==
  ASSUME TypeOK, NEW b \in Buffers, NEW c \in Cpus, pc = ReadStep[b], Advance(b, c),
         NEW o \in Buffers \ {b}
  PROVE  \A d \in Cpus : Unread(o, d)' = Unread(o, d)
<1>1. pc # ReadStep[o] /\ pc' = pc
  BY DEF ReadStep, Buffers, Advance
<1>2. ring'[o] = ring[o]
  BY DEF Advance, Release, TypeOK, RingTypeOK
<1> QED BY <1>1, <1>2, UnreadSame

(* A read that starts has still everything to handle.                      *)
LEMMA UnreadStart ==
  ASSUME TypeOK, NEW b \in Buffers, NEW c \in Cpus, StartRead(b, c)
  PROVE  \A o \in Buffers, d \in Cpus : Unread(o, d)' = Unread(o, d)
<1>1. /\ UNCHANGED <<ring, pc, at>>
      /\ \A d \in Cpus : ~Reading(d)
  BY DEF StartRead, ringVars
<1>2. at = 0
  BY <1>1 DEF TypeOK, ReadOK
<1> SUFFICES ASSUME NEW o \in Buffers, NEW d \in Cpus
             PROVE  Unread(o, d)' = Unread(o, d)
  OBVIOUS
<1> DEFINE r == ring[o][d]
<1>3. r \in Seq(Event[o])
  BY DEF TypeOK, RingTypeOK
<1>4. SubSeq(r, 1, Len(r)) = r
  <2> HIDE DEF r
  <2> QED BY <1>3
<1>5. Unread(o, d) = r
  BY <1>1 DEF Unread
<1>6. Unread(o, d)' = r \/ Unread(o, d)' = SubSeq(r, 1, Len(r))
  BY <1>1, <1>2 DEF Unread
<1> QED BY <1>4, <1>5, <1>6

(* Main's steps that touch neither a ring nor what has come out of one.    *)
LoopStep ==
  \/ BuildReaders \/ Loop \/ Interrupt \/ Deadline
  \/ \E b \in Buffers : Poll(b) \/ EndRead(b)

LEMMA LoopStepKeeps ==
  ASSUME TypeOK, UNCHANGED samplerVars, LoopStep
  PROVE  /\ UNCHANGED <<ring, lost, head, at, native, lua, succeeded, fallback, taken, prog>>
         /\ pc # "done"
         /\ \A b \in Buffers, c \in Cpus : Unread(b, c)' = Unread(b, c)
<1>1. UNCHANGED <<seq_map, prog, taken>>
  BY DEF samplerVars
<1>2. /\ UNCHANGED <<ring, lost, head, at, native, lua, succeeded, fallback, taken, prog>>
      /\ pc # "done"
      /\ pc' = pc \/ \A c \in Cpus : ~Reading(c)
  <2>2. CASE BuildReaders
    BY <1>1, <2>2, NotReading DEF BuildReaders, Build, loopVars, pendingVars
  <2>3. CASE Loop
    BY <1>1, <2>3, NotReading DEF Loop, LoopHead, Elapsed, ringVars, loopVars, pendingVars
  <2>4. CASE Interrupt \/ Deadline
    BY <1>1, <2>4 DEF Interrupt, Deadline, LoopSteps, ringVars, loopVars, pendingVars
  <2>5. CASE \E b \in Buffers : Poll(b)
    BY <1>1, <2>5, NotReading DEF Poll, PollStep, Buffers, ringVars, pendingVars
  <2>6. CASE \E b \in Buffers : EndRead(b)
    BY <1>1, <2>6 DEF EndRead, ReadStep, Buffers, ringVars, loopVars, pendingVars
  <2> QED BY <2>2, <2>3, <2>4, <2>5, <2>6 DEF LoopStep
<1>3. \A b \in Buffers, c \in Cpus : Unread(b, c)' = Unread(b, c)
  BY <1>2, UnreadSame
<1> QED BY <1>2, <1>3

LEMMA QueueAppend ==
  ASSUME TypeOK, NEW c \in Cpus, NEW e \in NativeEvent, UNCHANGED <<pc, head, at>>,
         ring' = [ring EXCEPT !["native_events"][c] = Append(@, e)]
  PROVE  \A d \in Cpus : Queue(d)' = IF d = c THEN Append(Queue(d), e) ELSE Queue(d)
<1>1. "native_events" \in Buffers /\ e \in Event["native_events"]
  BY DEF Buffers, Event
<1>2. \A d \in Cpus : Unread("native_events", d)'
                        = IF d = c THEN Append(Unread("native_events", d), e)
                          ELSE Unread("native_events", d)
  BY <1>1, UnreadAppend
<1> QED BY <1>2 DEF Queue

LEMMA QueueTail ==
  ASSUME TypeOK, NEW c \in Cpus, HandleNative(c)
  PROVE  /\ Queue(c) # <<>>
         /\ Head(Queue(c)) = ring["native_events"][c][at + 1]
         /\ \A d \in Cpus : Queue(d)' = IF d = c THEN Tail(Queue(d)) ELSE Queue(d)
<1>1. /\ "native_events" \in Buffers /\ pc = ReadStep["native_events"] /\ Reading(c)
      /\ Advance("native_events", c)
  BY DEF Buffers, ReadStep, HandleNative
<1>2. /\ Unread("native_events", c) # <<>>
      /\ Head(Unread("native_events", c)) = ring["native_events"][c][at + 1]
      /\ \A d \in Cpus : Unread("native_events", d)'
                           = IF d = c THEN Tail(Unread("native_events", d))
                             ELSE Unread("native_events", d)
  BY <1>1, UnreadTail
<1> QED BY <1>2 DEF Queue

-----------------------------------------------------------------------------
(* A sample's native event goes to the end of one queue, or is lost.       *)
LEMMA TakeDelivery ==
  ASSUME TypeOK, DeliveryInv, NEW c \in Cpus, NEW t \in Tids, TakeSample(c, t),
         UNCHANGED aggregatorVars, TypeOK'
  PROVE  DeliveryInv' /\ ArrivedSamples' = ArrivedSamples
<1>0. PICK id \in Nat : id = Len(taken) + 1
  BY DEF TypeOK, SamplerTypeOK
<1> DEFINE key == [tid |-> t, seq |-> NextSeq(t)]
<1>1. PICK ips \in NativeStacks, n \in LuaDepths :
        /\ taken' = Append(taken, [key |-> key, ips |-> ips, frames |-> n])
        /\ Output("native_events", c, [key |-> key, sample |-> id, ips |-> ips])
  BY <1>0 DEF TakeSample
<1> DEFINE sample == [key |-> key, ips |-> ips, frames |-> n]
           e == [key |-> key, sample |-> id, ips |-> ips]
<1>2. taken \in Seq(Sample) /\ taken' \in Seq(Sample) /\ Len(taken) \in Nat
  BY DEF TypeOK, SamplerTypeOK
<1>3. taken' = Append(taken, sample)
  BY <1>1
<1> HIDE DEF sample
<1>4. Len(taken') = id /\ taken'[id] = sample /\ \A s \in 1 .. Len(taken) : taken'[s] = taken[s]
  BY <1>0, <1>2, <1>3
<1>5. /\ Samples' = Samples \cup {id} /\ id \notin Samples
      /\ \A s \in Samples : taken'[s] = taken[s]
  BY <1>0, <1>2, <1>4 DEF Samples
<1>6. \A s \in Samples : NativeEventOf(s)' = NativeEventOf(s)
  BY <1>5 DEF NativeEventOf
<1>7. NativeEventOf(id)' = e
  BY <1>4 DEF NativeEventOf, sample
<1>8. e \in NativeEvent /\ e.sample = id
  <2>1. id \in Samples'
    BY <1>5
  <2>2. key \in Keys /\ ips \in NativeStacks
    <3>1. NextSeq(t) \in 0 .. SeqWrap - 1
      BY NextSeqType DEF TypeOK
    <3> QED BY <3>1 DEF Keys
  <2>3. id \in 1 .. MaxSamples
    BY <1>0, <1>2, SamplerAssumption DEF TakeSample
  <2> QED BY <2>2, <2>3 DEF NativeEvent
<1>9. UNCHANGED <<pc, ready, head, at, native, lua, succeeded, fallback>>
  BY DEF aggregatorVars, loopVars, pendingVars
<1>10. Output("native_events", c, e)
  BY <1>1
<1> HIDE DEF e, key
<1>11. \/ /\ \A d \in Cpus : Queue(d)' = IF d = c THEN Append(Queue(d), e) ELSE Queue(d)
         /\ lost' = lost
      \/ /\ \A d \in Cpus : Queue(d)' = Queue(d)
         /\ lost' = lost \cup {e}
  <2>1. CASE Accepts("native_events", c)
    <3>1. ring' = [ring EXCEPT !["native_events"][c] = Append(@, e)] /\ lost' = lost
      BY <1>10, <2>1 DEF Output
    <3> QED BY <1>8, <1>9, <3>1, QueueAppend
  <2>2. CASE ~Accepts("native_events", c)
    <3>1. ring' = ring /\ lost' = lost \cup {e}
      BY <1>10, <2>2 DEF Output
    <3> QED BY <1>9, <3>1, QueueSame
  <2> QED BY <2>1, <2>2
<1>12. \A d \in Cpus :
         /\ Queue(d) \in Seq(NativeEvent) /\ Len(Queue(d)) \in Nat
         /\ DOMAIN Queue(d) = 1 .. Len(Queue(d))
  BY QueueType
(* A place in a queue now was one before, or is the new event's.           *)
<1>13. ASSUME NEW d \in Cpus
       PROVE  \/ Queue(d)' = Queue(d)
              \/ /\ d = c /\ lost' = lost
                 /\ DOMAIN Queue(d)' = DOMAIN Queue(d) \cup {Len(Queue(d)) + 1}
                 /\ \A i \in DOMAIN Queue(d) : Queue(d)'[i] = Queue(d)[i]
                 /\ Queue(d)'[Len(Queue(d)) + 1] = e
  <2>1. CASE Queue(d)' = Append(Queue(d), e) /\ d = c /\ lost' = lost
    <3> DEFINE q == Queue(d)
    <3>1. q \in Seq(NativeEvent)
      BY <1>12
    <3> HIDE DEF q
    <3>2. /\ DOMAIN Append(q, e) = DOMAIN q \cup {Len(q) + 1}
          /\ \A i \in DOMAIN q : Append(q, e)[i] = q[i]
          /\ Append(q, e)[Len(q) + 1] = e
      BY <1>8, <3>1
    <3> QED BY <2>1, <3>2 DEF q
  <2> QED BY <1>11, <2>1
<1>14. ASSUME NEW d \in Cpus, NEW i \in DOMAIN Queue(d)'
       PROVE  \/ /\ i \in DOMAIN Queue(d) /\ Queue(d)'[i] = Queue(d)[i]
                 /\ Queue(d)[i].sample \in Samples
              \/ d = c /\ i = Len(Queue(c)) + 1 /\ Queue(d)'[i] = e /\ lost' = lost
  BY <1>13 DEF DeliveryInv, QueueInv
<1>15. e \notin lost
  BY <1>5, <1>8 DEF DeliveryInv, QueueInv
<1>16. QueueInv'
  <2>1. ASSUME NEW d \in Cpus, NEW i \in DOMAIN Queue(d)'
        PROVE  /\ Queue(d)'[i].sample \in Samples'
               /\ (Queue(d)[i] = NativeEventOf(Queue(d)[i].sample))'
               /\ Queue(d)'[i] \notin lost'
    <3>1. CASE Queue(d)'[i] = e /\ lost' = lost
      BY <1>5, <1>7, <1>8, <1>15, <3>1
    <3>2. CASE i \in DOMAIN Queue(d) /\ Queue(d)'[i] = Queue(d)[i]
      <4>1. /\ Queue(d)[i].sample \in Samples
            /\ Queue(d)[i] = NativeEventOf(Queue(d)[i].sample)
            /\ Queue(d)[i] \notin lost
        BY <3>2 DEF DeliveryInv, QueueInv
      <4>2. Queue(d)[i] # e
        BY <1>5, <1>8, <4>1
      <4>3. lost' \subseteq lost \cup {e}
        BY <1>11
      <4> QED BY <1>5, <3>2, <4>1, <4>2, <4>3 DEF NativeEventOf
    <3> QED BY <1>14, <3>1, <3>2
  <2>2. ASSUME NEW d \in Cpus, NEW f \in Cpus, NEW i \in DOMAIN Queue(d)', NEW j \in DOMAIN Queue(f)',
               Queue(d)'[i].sample = Queue(f)'[j].sample
        PROVE  d = f /\ i = j
    <3>1. \/ i \in DOMAIN Queue(d) /\ Queue(d)'[i] = Queue(d)[i] /\ Queue(d)[i].sample # id
          \/ d = c /\ i = Len(Queue(c)) + 1 /\ Queue(d)'[i].sample = id
      BY <1>5, <1>8, <1>14
    <3>2. \/ j \in DOMAIN Queue(f) /\ Queue(f)'[j] = Queue(f)[j] /\ Queue(f)[j].sample # id
          \/ f = c /\ j = Len(Queue(c)) + 1 /\ Queue(f)'[j].sample = id
      BY <1>5, <1>8, <1>14
    <3> QED BY <2>2, <3>1, <3>2 DEF DeliveryInv, QueueInv
  <2>3. \A x \in lost' \cap NativeEvent : x.sample \in Samples'
    BY <1>5, <1>8, <1>11 DEF DeliveryInv, QueueInv
  <2> QED BY <2>1, <2>2, <2>3 DEF QueueInv
<1>17. MapInv'
  <2> SUFFICES ASSUME NEW k \in DOMAIN native
               PROVE  /\ native[k].sample \in Samples'
                      /\ native[k] = NativeEventOf(native[k].sample)'
                      /\ native[k].key = k
                      /\ native[k] \notin lost'
                      /\ \A d \in Cpus : \A i \in DOMAIN Queue(d)' : Queue(d)'[i].sample # native[k].sample
    BY <1>9 DEF MapInv
  <2>1. /\ native[k].sample \in Samples
        /\ native[k] = NativeEventOf(native[k].sample)
        /\ native[k].key = k
        /\ native[k] \notin lost
        /\ \A d \in Cpus : \A i \in DOMAIN Queue(d) : Queue(d)[i].sample # native[k].sample
    BY DEF DeliveryInv, MapInv
  <2>2. native[k].sample # id /\ native[k] # e
    BY <1>5, <1>8, <2>1
  <2>3. lost' \subseteq lost \cup {e}
    BY <1>11
  <2>4. \A d \in Cpus : \A i \in DOMAIN Queue(d)' : Queue(d)'[i].sample # native[k].sample
    BY <1>8, <1>14, <2>1, <2>2
  <2> QED BY <1>5, <1>9, <2>1, <2>2, <2>3, <2>4 DEF NativeEventOf
(* Other samples' events are where they were.                              *)
<1>18. ASSUME NEW s \in Samples
       PROVE  /\ NativeEventOf(s) \in lost' <=> NativeEventOf(s) \in lost
              /\ (\E d \in Cpus : \E i \in DOMAIN Queue(d)' : Queue(d)'[i] = NativeEventOf(s))
                   <=> (\E d \in Cpus : \E i \in DOMAIN Queue(d) : Queue(d)[i] = NativeEventOf(s))
  <2>1. NativeEventOf(s) # e
    BY <1>5, <1>8, NativeEventOfType
  <2>2. lost' = lost \/ lost' = lost \cup {e}
    BY <1>11
  <2>3. \A d \in Cpus : \A i \in DOMAIN Queue(d) : i \in DOMAIN Queue(d)' /\ Queue(d)'[i] = Queue(d)[i]
    BY <1>13
  <2> QED BY <1>14, <2>1, <2>2, <2>3
<1>19. \/ e \in lost'
       \/ \E d \in Cpus : \E i \in DOMAIN Queue(d)' : Queue(d)'[i] = e
  <2>1. CASE \A d \in Cpus : Queue(d)' = IF d = c THEN Append(Queue(d), e) ELSE Queue(d)
    <3> DEFINE q == Queue(c)
    <3>1. Queue(c)' = Append(q, e) /\ q \in Seq(NativeEvent)
      BY <1>12, <2>1
    <3> HIDE DEF q
    <3>2. Len(q) + 1 \in DOMAIN Append(q, e) /\ Append(q, e)[Len(q) + 1] = e
      BY <1>8, <3>1
    <3> QED BY <3>1, <3>2
  <2> QED BY <1>11, <2>1
<1>20. CoverInv'
  <2> SUFFICES ASSUME pc # "done", NEW s \in Samples', OwnKey(s)'
               PROVE  Covered(s)'
    BY <1>9 DEF CoverInv
  <2>1. CASE s = id
    BY <1>7, <1>19, <2>1 DEF Covered
  <2>2. CASE s \in Samples
    <3>1. OwnKey(s)
      BY <1>5, <2>2 DEF OwnKey
    <3>2. Covered(s)
      BY <2>2, <3>1 DEF DeliveryInv, CoverInv
    <3>3. InMap(s)' <=> InMap(s)
      BY <1>5, <1>9, <2>2 DEF InMap
    <3> QED BY <1>6, <1>18, <2>2, <3>2, <3>3 DEF Covered
  <2> QED BY <1>5, <2>1, <2>2
<1>21. ArrivedSamples' = ArrivedSamples
  <2>1. ASSUME NEW s \in Samples PROVE Counted(s)' <=> Counted(s)
    BY <1>6, <1>18 DEF Counted, IsUnread, Queue
  <2>2. ~Counted(id)'
    BY <1>7, <1>19 DEF Counted, IsUnread, Queue
  <2> QED BY <1>5, <2>1, <2>2 DEF ArrivedSamples
<1>22. StatsInv'
  BY <1>9, <1>21 DEF DeliveryInv, StatsInv
<1> QED BY <1>16, <1>17, <1>20, <1>21, <1>22 DEF DeliveryInv

(* handle_native takes the first event of a queue into the map.            *)
LEMMA HandleDelivery ==
  ASSUME TypeOK, DeliveryInv, NEW c \in Cpus, HandleNative(c), UNCHANGED samplerVars
  PROVE  DeliveryInv' /\ \E s \in Samples \ ArrivedSamples : ArrivedSamples' = ArrivedSamples \cup {s}
<1>0. PICK e : e = ring["native_events"][c][at + 1]
  OBVIOUS
<1>1. /\ native' = Put(native, e.key, e)
      /\ IncludeNative => succeeded' + fallback' = succeeded + fallback + 1
      /\ UNCHANGED <<lost, pc, taken>>
  <2>1. succeeded \in Nat /\ fallback \in Nat
    BY DEF TypeOK, AggregatorTypeOK
  <2>2. handle_native(e) /\ UNCHANGED <<lost, pc, taken>>
    BY <1>0 DEF HandleNative, Advance, samplerVars
  <2> QED BY <2>1, <2>2 DEF handle_native
<1>2. /\ \A d \in Cpus : Queue(d) \in Seq(NativeEvent) /\ Len(Queue(d)) \in Nat
      /\ Queue(c) # <<>> /\ Head(Queue(c)) = e
      /\ \A d \in Cpus : Queue(d)' = IF d = c THEN Tail(Queue(d)) ELSE Queue(d)
  BY <1>0, QueueTail, QueueType
<1>3. /\ 1 \in DOMAIN Queue(c) /\ Queue(c)[1] = e
      /\ \A i \in DOMAIN Queue(c)' :
           i \in Nat /\ i > 0 /\ i + 1 \in DOMAIN Queue(c) /\ Queue(c)'[i] = Queue(c)[i + 1]
      /\ \A i \in DOMAIN Queue(c) \ {1} :
           i - 1 \in DOMAIN Queue(c)' /\ Queue(c)'[i - 1] = Queue(c)[i]
  <2> DEFINE q == Queue(c)
  <2>1. q \in Seq(NativeEvent) /\ q # <<>> /\ Queue(c)' = Tail(q) /\ Head(q) = e
    BY <1>2
  <2> HIDE DEF q
  <2>2. /\ DOMAIN q = 1 .. Len(q) /\ Len(q) \in Nat /\ Len(q) > 0 /\ q[1] = e
        /\ DOMAIN Tail(q) = 1 .. Len(q) - 1
        /\ \A i \in 1 .. Len(q) - 1 : Tail(q)[i] = q[i + 1]
    BY <2>1
  <2>3. 1 \in DOMAIN q /\ \A i \in DOMAIN Tail(q) :
          i \in Nat /\ i > 0 /\ i + 1 \in DOMAIN q /\ Tail(q)[i] = q[i + 1]
    BY <2>2
  <2>4. \A i \in DOMAIN q \ {1} : i - 1 \in DOMAIN Tail(q) /\ Tail(q)[i - 1] = q[i]
    BY <2>2
  <2> QED BY <2>1, <2>2, <2>3, <2>4 DEF q
<1>4. /\ e.sample \in Samples /\ e = NativeEventOf(e.sample) /\ e \notin lost
      /\ e.key = taken[e.sample].key
  BY <1>3, NativeEventOfType DEF DeliveryInv, QueueInv
<1>5. Samples' = Samples /\ \A s \in Samples : NativeEventOf(s)' = NativeEventOf(s)
  BY <1>1 DEF Samples, NativeEventOf
(* Where a place of a queue was before.                                    *)
<1>6. ASSUME NEW d \in Cpus, NEW i \in DOMAIN Queue(d)'
      PROVE  \E j \in DOMAIN Queue(d) :
               /\ Queue(d)'[i] = Queue(d)[j]
               /\ d = c => j = i + 1 /\ i \in Nat /\ i > 0
               /\ d # c => j = i
  <2>1. CASE d = c
    BY <1>3, <2>1
  <2>2. CASE d # c
    BY <1>2, <2>2
  <2> QED BY <2>1, <2>2
<1>7. ASSUME NEW d \in Cpus, NEW i \in DOMAIN Queue(d)'
      PROVE  Queue(d)'[i].sample # e.sample
  <2>1. PICK j \in DOMAIN Queue(d) :
       /\ Queue(d)'[i] = Queue(d)[j]
       /\ d = c => j = i + 1 /\ i \in Nat /\ i > 0
    BY <1>6
  <2>2. ASSUME Queue(d)[j].sample = e.sample PROVE FALSE
    <3>1. d = c /\ j = 1
      BY <1>3, <2>2 DEF DeliveryInv, QueueInv
    <3> QED BY <2>1, <3>1
  <2> QED BY <2>1, <2>2
<1>8. QueueInv'
  <2>1. ASSUME NEW d \in Cpus, NEW i \in DOMAIN Queue(d)'
        PROVE  /\ Queue(d)'[i].sample \in Samples'
               /\ (Queue(d)[i] = NativeEventOf(Queue(d)[i].sample))'
               /\ Queue(d)'[i] \notin lost'
    <3>1. PICK j \in DOMAIN Queue(d) : Queue(d)'[i] = Queue(d)[j]
      BY <1>6
    <3>2. /\ Queue(d)[j].sample \in Samples
          /\ Queue(d)[j] = NativeEventOf(Queue(d)[j].sample)
          /\ Queue(d)[j] \notin lost
      BY DEF DeliveryInv, QueueInv
    <3> QED BY <1>1, <1>5, <3>1, <3>2 DEF NativeEventOf
  <2>2. ASSUME NEW d \in Cpus, NEW f \in Cpus, NEW i \in DOMAIN Queue(d)', NEW j \in DOMAIN Queue(f)',
               Queue(d)'[i].sample = Queue(f)'[j].sample
        PROVE  d = f /\ i = j
    <3>1. PICK x \in DOMAIN Queue(d) :
         /\ Queue(d)'[i] = Queue(d)[x]
         /\ d = c => x = i + 1 /\ i \in Nat
         /\ d # c => x = i
      BY <1>6
    <3>2. PICK y \in DOMAIN Queue(f) :
         /\ Queue(f)'[j] = Queue(f)[y]
         /\ f = c => y = j + 1 /\ j \in Nat
         /\ f # c => y = j
      BY <1>6
    <3>3. d = f /\ x = y
      BY <2>2, <3>1, <3>2 DEF DeliveryInv, QueueInv
    <3> QED BY <3>1, <3>2, <3>3
  <2>3. \A x \in lost' \cap NativeEvent : x.sample \in Samples'
    BY <1>1, <1>5 DEF DeliveryInv, QueueInv
  <2> QED BY <2>1, <2>2, <2>3 DEF QueueInv
<1>9. DOMAIN native' = DOMAIN native \cup {e.key}
      /\ \A k \in DOMAIN native' : native'[k] = IF k = e.key THEN e ELSE native[k]
  BY <1>1 DEF Put
<1>10. MapInv'
  <2> SUFFICES ASSUME NEW k \in DOMAIN native'
               PROVE  /\ native'[k].sample \in Samples'
                      /\ (native[k] = NativeEventOf(native[k].sample))'
                      /\ native'[k].key = k
                      /\ native'[k] \notin lost'
                      /\ \A d \in Cpus : \A i \in DOMAIN Queue(d)' :
                           Queue(d)'[i].sample # native'[k].sample
    BY DEF MapInv
  <2>1. CASE k = e.key
    BY <1>1, <1>4, <1>5, <1>7, <1>9, <2>1 DEF NativeEventOf
  <2>2. CASE k # e.key
    <3>1. native'[k] = native[k] /\ k \in DOMAIN native
      BY <1>9, <2>2
    <3>2. /\ native[k].sample \in Samples
          /\ native[k] = NativeEventOf(native[k].sample)
          /\ native[k].key = k
          /\ native[k] \notin lost
          /\ \A d \in Cpus : \A i \in DOMAIN Queue(d) : Queue(d)[i].sample # native[k].sample
      BY <3>1 DEF DeliveryInv, MapInv
    <3>3. \A d \in Cpus : \A i \in DOMAIN Queue(d)' : Queue(d)'[i].sample # native[k].sample
      BY <1>6, <3>2
    <3> QED BY <1>1, <1>5, <3>1, <3>2, <3>3 DEF NativeEventOf
  <2> QED BY <2>1, <2>2
<1>11. CoverInv'
  <2> SUFFICES ASSUME pc # "done", NEW s \in Samples, OwnKey(s)'
               PROVE  Covered(s)'
    BY <1>1, <1>5 DEF CoverInv
  <2>1. OwnKey(s)
    BY <1>1, <1>5 DEF OwnKey
  <2>2. Covered(s)
    BY <2>1 DEF DeliveryInv, CoverInv
  <2>3. CASE s = e.sample
    BY <1>1, <1>4, <1>9, <2>3 DEF Covered, InMap
  <2>4. CASE s # e.sample
    <3>1. ASSUME InMap(s) PROVE InMap(s)'
      <4>1. taken[s].key # e.key
        BY <1>4, <2>1, <2>4 DEF OwnKey
      <4> QED BY <1>1, <1>9, <3>1, <4>1 DEF InMap
    <3>2. ASSUME NEW d \in Cpus, NEW i \in DOMAIN Queue(d), Queue(d)[i] = NativeEventOf(s)
          PROVE  \E j \in DOMAIN Queue(d)' : Queue(d)'[j] = NativeEventOf(s)
      <4>1. ~(d = c /\ i = 1)
        BY <1>3, <2>4, <3>2, NativeEventOfType
      <4>2. CASE d = c
        BY <1>3, <3>2, <4>1, <4>2
      <4>3. CASE d # c
        BY <1>2, <3>2, <4>3
      <4> QED BY <4>2, <4>3
    <3> QED BY <1>1, <1>5, <2>2, <3>1, <3>2 DEF Covered
  <2> QED BY <2>3, <2>4
<1>12. ArrivedSamples' = ArrivedSamples \cup {e.sample} /\ e.sample \notin ArrivedSamples
  <2>1. e.sample \notin ArrivedSamples
    BY <1>3, <1>4 DEF ArrivedSamples, Counted, IsUnread, Queue
  <2>2. Counted(e.sample)'
    <3>1. \A d \in Cpus : \A i \in DOMAIN Queue(d)' : Queue(d)'[i] # e
      BY <1>7
    <3>2. NativeEventOf(e.sample)' = e
      BY <1>4, <1>5
    <3> QED BY <1>1, <1>4, <3>1, <3>2 DEF Counted, IsUnread, Queue
  <2>3. ASSUME NEW s \in Samples, s # e.sample
        PROVE  Counted(s)' <=> Counted(s)
    <3>1. NativeEventOf(s) # e
      BY <2>3, NativeEventOfType
    <3>2. (\E d \in Cpus : \E i \in DOMAIN Queue(d)' : Queue(d)'[i] = NativeEventOf(s))
            <=> (\E d \in Cpus : \E i \in DOMAIN Queue(d) : Queue(d)[i] = NativeEventOf(s))
      <4>1. ASSUME NEW d \in Cpus, NEW i \in DOMAIN Queue(d), Queue(d)[i] = NativeEventOf(s)
            PROVE  \E j \in DOMAIN Queue(d)' : Queue(d)'[j] = NativeEventOf(s)
        <5>1. ~(d = c /\ i = 1)
          BY <1>3, <3>1, <4>1
        <5>2. CASE d = c
          BY <1>3, <4>1, <5>1, <5>2
        <5>3. CASE d # c
          BY <1>2, <4>1, <5>3
        <5> QED BY <5>2, <5>3
      <4> QED BY <1>6, <4>1
    <3> QED BY <1>1, <1>5, <3>2 DEF Counted, IsUnread, Queue
  <2> QED BY <1>4, <1>5, <2>1, <2>2, <2>3 DEF ArrivedSamples
<1>13. StatsInv'
  <2>1. IsFiniteSet(ArrivedSamples)
    BY DEF DeliveryInv, StatsInv
  <2>2. /\ IsFiniteSet(ArrivedSamples \cup {e.sample})
        /\ Cardinality(ArrivedSamples \cup {e.sample}) = Cardinality(ArrivedSamples) + 1
    BY <1>12, <2>1, FS_AddElement
  <2>3. succeeded \in Nat /\ fallback \in Nat
    BY DEF TypeOK, AggregatorTypeOK
  <2> QED BY <1>1, <1>12, <2>2, <2>3 DEF DeliveryInv, StatsInv
<1> QED BY <1>4, <1>8, <1>10, <1>11, <1>12, <1>13 DEF DeliveryInv

(* When the native reader goes, its queues go to lost.                     *)
LEMMA DropDelivery ==
  ASSUME TypeOK, DeliveryInv, pc = "drop_native", Drop("native_events"), pc' # "done",
         UNCHANGED <<head, at, taken, native, succeeded, fallback>>
  PROVE  DeliveryInv' /\ ArrivedSamples' = ArrivedSamples
<1>1. \A c \in Cpus : Queue(c) = ring["native_events"][c]
  BY DEF Queue, Unread, ReadStep, Buffers
<1>2. ASSUME NEW c \in Cpus PROVE Queue(c)' = <<>>
  <2>1. ring'["native_events"][c] = <<>>
    BY DEF Drop, TypeOK, RingTypeOK, Buffers
  <2>2. ~Reading(c)'
    <3>1. ~Reading(c)
      BY NotReading
    <3> QED BY <3>1 DEF Reading
  <2> QED BY <2>1, <2>2 DEF Queue, Unread
<1>3. \A e : e \in lost' <=> e \in lost \/ \E c \in Cpus : \E i \in DOMAIN Queue(c) : Queue(c)[i] = e
  BY <1>1 DEF Drop
<1>4. Samples' = Samples /\ \A s \in Samples : NativeEventOf(s)' = NativeEventOf(s)
  BY DEF Samples, NativeEventOf
<1>5. \A c \in Cpus : DOMAIN Queue(c)' = {}
  BY <1>2
<1>6. QueueInv'
  <2>1. ASSUME NEW e \in lost' \cap NativeEvent PROVE e.sample \in Samples
    BY <1>3, <2>1 DEF DeliveryInv, QueueInv
  <2> QED BY <1>4, <1>5, <2>1 DEF QueueInv
<1>7. MapInv'
  <2>1. ASSUME NEW k \in DOMAIN native PROVE native[k] \notin lost'
    BY <1>3, <2>1 DEF DeliveryInv, MapInv
  <2> QED BY <1>4, <1>5, <2>1 DEF DeliveryInv, MapInv, NativeEventOf
<1>8. ASSUME NEW s \in Samples PROVE Counted(s)' <=> Counted(s)
  BY <1>3, <1>4, <1>5 DEF Counted, IsUnread, Queue
<1>9. CoverInv'
  <2> SUFFICES ASSUME NEW s \in Samples, OwnKey(s) PROVE Covered(s)'
    BY <1>4 DEF CoverInv, OwnKey
  <2>1. Covered(s)
    BY DEF DeliveryInv, CoverInv
  <2>2. InMap(s)' <=> InMap(s)
    BY DEF InMap
  <2> QED BY <1>3, <1>4, <2>1, <2>2 DEF Covered
<1>10. ArrivedSamples' = ArrivedSamples
  BY <1>4, <1>8 DEF ArrivedSamples
<1> QED BY <1>6, <1>7, <1>9, <1>10 DEF DeliveryInv, StatsInv

LEMMA FinalizeDelivery ==
  ASSUME TypeOK, DeliveryInv, Finalize, UNCHANGED samplerVars
  PROVE  DeliveryInv' /\ ArrivedSamples' = ArrivedSamples
<1>1. /\ native' = EmptyMap /\ pc = "finalize" /\ pc' = "done"
      /\ UNCHANGED <<ring, lost, head, taken, succeeded, fallback>>
  BY DEF Finalize, ringVars, loopVars, samplerVars
<1>2. \A c \in Cpus : Queue(c)' = Queue(c)
  BY <1>1, NotReading, QueueSame
<1>3. Samples' = Samples /\ \A s \in Samples : NativeEventOf(s)' = NativeEventOf(s)
  BY <1>1 DEF Samples, NativeEventOf
<1>4. QueueInv'
  BY <1>1, <1>2, <1>3 DEF DeliveryInv, QueueInv
<1>5. MapInv' /\ CoverInv'
  BY <1>1, EmptyMapType DEF MapInv, CoverInv
<1>6. \A s \in Samples : Counted(s)' = Counted(s)
  BY <1>1, <1>2, <1>3 DEF Counted, IsUnread, Queue
<1>7. ArrivedSamples' = ArrivedSamples
  BY <1>3, <1>6 DEF ArrivedSamples
<1> QED BY <1>1, <1>4, <1>5, <1>7 DEF DeliveryInv, StatsInv

LEMMA EmitDelivery ==
  ASSUME TypeOK, DeliveryInv, NEW c \in Cpus, EmitLua(c), UNCHANGED aggregatorVars
  PROVE  DeliveryInv' /\ ArrivedSamples' = ArrivedSamples
<1> DEFINE p == prog[c]
           e == [key |-> taken[p.sample].key, sample |-> p.sample, level |-> p.level]
<1>1. Output("lua_events_out", c, e) /\ taken' = taken /\ p # Idle
  BY DEF EmitLua
<1>2. e \notin NativeEvent
  <2>1. "ips" \notin DOMAIN e
    OBVIOUS
  <2> HIDE DEF e
  <2> QED BY <2>1 DEF NativeEvent
<1> HIDE DEF e, p
<1>3. /\ ring'["native_events"] = ring["native_events"]
      /\ lost' = lost \/ lost' = lost \cup {e}
  BY <1>1 DEF Output, Buffers, TypeOK, RingTypeOK
<1>4. UNCHANGED <<pc, head, at, native, succeeded, fallback>>
  BY DEF aggregatorVars, loopVars, pendingVars
<1>5. \A d \in Cpus : Queue(d)' = Queue(d)
  BY <1>3, <1>4, QueueSame
<1> QED BY <1>1, <1>2, <1>3, <1>4, <1>5, QuietStep

LEMMA HandleLuaDelivery ==
  ASSUME TypeOK, DeliveryInv, NEW c \in Cpus, HandleLua(c), UNCHANGED samplerVars
  PROVE  DeliveryInv' /\ ArrivedSamples' = ArrivedSamples
<1>1. /\ pc = "read_lua" /\ pc' = pc
      /\ UNCHANGED <<lost, native, succeeded, fallback, taken>>
      /\ ring'["native_events"] = ring["native_events"]
  BY DEF HandleLua, Advance, Release, samplerVars, TypeOK, RingTypeOK, Buffers
<1>2. \A d \in Cpus : Queue(d)' = Queue(d)
  BY <1>1, QueueSame
<1> QED BY <1>1, <1>2, QuietStep

(* Main's other steps.                                                     *)
LEMMA DropReadersDelivery ==
  ASSUME TypeOK, DeliveryInv, DropReaders, UNCHANGED samplerVars
  PROVE  DeliveryInv' /\ ArrivedSamples' = ArrivedSamples
<1>1. /\ UNCHANGED <<head, at, taken, native, succeeded, fallback>>
      /\ pc \in {"drop_native", "drop_lua"} /\ pc' # "done"
  BY DEF DropReaders, loopVars, pendingVars, samplerVars
<1>2. CASE pc = "drop_native" /\ Drop("native_events")
  BY <1>1, <1>2, DropDelivery
<1>3. CASE pc = "drop_lua" /\ Drop("lua_events_out")
  <2>1. ring'["native_events"] = ring["native_events"]
    BY <1>3 DEF Drop, TypeOK, RingTypeOK, Buffers
  <2>2. \A e \in NativeEvent : e \in lost' <=> e \in lost
    <3>1. \A c \in Cpus : \A i \in DOMAIN ring["lua_events_out"][c] :
            ring["lua_events_out"][c][i] \in LuaEvent
      BY DEF TypeOK, RingTypeOK, Buffers, Event
    <3> QED BY <1>3, <3>1, EventsDiffer DEF Drop
  <2>3. \A c \in Cpus : Queue(c)' = Queue(c)
    BY <1>1, <2>1, NotReading, QueueSame
  <2> QED BY <1>1, <2>2, <2>3, QuietStep
<1> QED BY <1>2, <1>3 DEF DropReaders

LEMMA StartReadDelivery ==
  ASSUME TypeOK, DeliveryInv, NEW b \in Buffers, NEW c \in Cpus, StartRead(b, c), UNCHANGED samplerVars
  PROVE  DeliveryInv' /\ ArrivedSamples' = ArrivedSamples
<1>1. UNCHANGED <<lost, pc, native, succeeded, fallback, taken>>
  BY DEF StartRead, ringVars, pendingVars, samplerVars
<1>2. \A d \in Cpus : Queue(d)' = Queue(d)
  BY UnreadStart DEF Queue, Buffers
<1> QED BY <1>1, <1>2, QuietStep

LEMMA LoopStepDelivery ==
  ASSUME TypeOK, DeliveryInv, UNCHANGED samplerVars, LoopStep
  PROVE  DeliveryInv' /\ ArrivedSamples' = ArrivedSamples
<1>1. UNCHANGED <<lost, native, succeeded, fallback, taken>> /\ pc # "done"
  BY LoopStepKeeps
<1>2. \A c \in Cpus : Queue(c)' = Queue(c)
  BY LoopStepKeeps DEF Queue, Buffers
<1> QED BY <1>1, <1>2, QuietStep

-----------------------------------------------------------------------------
LEMMA DeliveryInit == Init => DeliveryInv
<1> SUFFICES ASSUME Init PROVE DeliveryInv
  OBVIOUS
<1>1. Samples = {}
  BY DEF Init, SamplerInit, Samples
<1>2. \A c \in Cpus : Queue(c) = <<>>
  <2>1. pc = "build_native" /\ \A c \in Cpus : ring["native_events"][c] = <<>>
    BY DEF Init, RingInit, AggregatorInit, Buffers
  <2>2. pc # ReadStep["native_events"]
    BY <2>1 DEF ReadStep
  <2> QED BY <2>1, <2>2 DEF Queue, Unread
<1>3. DOMAIN native = {} /\ lost = {} /\ succeeded = 0 /\ fallback = 0
  BY EmptyMapType DEF Init, RingInit, AggregatorInit
<1>4. ArrivedSamples = {}
  BY <1>1 DEF ArrivedSamples
<1>5. IsFiniteSet({}) /\ Cardinality({}) = 0
  BY FS_EmptySet
<1>6. QueueInv /\ MapInv /\ CoverInv
  BY <1>1, <1>2, <1>3 DEF QueueInv, MapInv, CoverInv
<1> QED BY <1>3, <1>4, <1>5, <1>6 DEF DeliveryInv, StatsInv

LEMMA DeliveryStep == TypeOK /\ TypeOK' /\ DeliveryInv /\ [Next]_vars => DeliveryInv'
<1> SUFFICES ASSUME TypeOK, TypeOK', DeliveryInv, [Next]_vars PROVE DeliveryInv'
  OBVIOUS
<1>1. CASE UNCHANGED vars
  <2>1. UNCHANGED <<ring, lost, pc, head, at, native, succeeded, fallback, taken>>
    BY <1>1 DEF vars, ringVars, samplerVars, aggregatorVars, loopVars, pendingVars
  <2>2. \A c \in Cpus : Queue(c)' = Queue(c)
    BY <2>1, QueueSame
  <2> QED BY <2>1, <2>2, QuietStep
<1>2. CASE Sampling
  <2>1. UNCHANGED aggregatorVars /\ SamplerNext
    BY <1>2 DEF Sampling
  <2>2. CASE \E c \in Cpus, t \in Tids : TakeSample(c, t)
    BY <2>1, <2>2, TakeDelivery
  <2>3. CASE \E c \in Cpus : EmitLua(c)
    BY <2>1, <2>3, EmitDelivery
  <2> QED BY <2>1, <2>2, <2>3 DEF SamplerNext
<1>3. CASE AggregatorNext /\ UNCHANGED samplerVars
  <2>1. CASE LoopStep
    BY <1>3, <2>1, LoopStepDelivery
  <2>2. CASE \E b \in Buffers, c \in Cpus : StartRead(b, c)
    BY <1>3, <2>2, StartReadDelivery
  <2>3. CASE \E c \in Cpus : HandleNative(c)
    BY <1>3, <2>3, HandleDelivery
  <2>4. CASE \E c \in Cpus : HandleLua(c)
    BY <1>3, <2>4, HandleLuaDelivery
  <2>5. CASE DropReaders
    BY <1>3, <2>5, DropReadersDelivery
  <2>6. CASE Finalize
    BY <1>3, <2>6, FinalizeDelivery
  <2> QED BY <1>3, <2>1, <2>2, <2>3, <2>4, <2>5, <2>6 DEF AggregatorNext, MainStep, LoopStep
<1> QED BY <1>1, <1>2, <1>3 DEF Next

LEMMA DeliveryAlways == Spec => [](TypeOK /\ DeliveryInv)
<1>1. Init => TypeOK /\ NativeFinite /\ DeliveryInv
  BY TypeInit, DeliveryInit
<1>2. TypeOK /\ NativeFinite /\ DeliveryInv /\ [Next]_vars => (TypeOK /\ NativeFinite /\ DeliveryInv)'
  BY TypeStep, DeliveryStep
<1> QED BY <1>1, <1>2, PTL DEF Spec

-----------------------------------------------------------------------------
(* The unwind statistics count every native event that reached main once,  *)
(* whatever became of its key: no event is read twice, and none is both    *)
(* read and lost.                                                          *)
THEOREM StatsAlwaysMatch == Spec => []StatsMatch
<1>1. DeliveryInv => StatsMatch
  BY DEF DeliveryInv, StatsInv, StatsMatch, ArrivedSamples
<1> QED BY <1>1, DeliveryAlways, PTL

(* The native event of a sample with its own key is in exactly one place   *)
(* until it is folded: lost, once in one ring, or in Pending::native.      *)
THEOREM NativeAlwaysConserved == Spec => []NativeConserved
<1>1. TypeOK /\ DeliveryInv => NativeConserved
  <2> SUFFICES ASSUME TypeOK, DeliveryInv, pc # "done", NEW s \in Samples, OwnKey(s)
               PROVE  LET e == NativeEventOf(s)
                          inRings == {p \in Cpus \X (1 .. Capacity) :
                                        p[2] \in DOMAIN Unread("native_events", p[1])
                                          /\ Unread("native_events", p[1])[p[2]] = e}
                          inMap == {k \in DOMAIN native : native[k].sample = s}
                      IN /\ Cardinality(inRings) + Cardinality(inMap) = IF e \in lost THEN 0 ELSE 1
                         /\ \A k \in inMap : k = e.key /\ native[k] = e
    BY DEF NativeConserved
  <2> DEFINE e == NativeEventOf(s)
             inRings == {p \in Cpus \X (1 .. Capacity) :
                           p[2] \in DOMAIN Queue(p[1]) /\ Queue(p[1])[p[2]] = e}
             inMap == {k \in DOMAIN native : native[k].sample = s}
  <2>1. e.sample = s /\ e.key = taken[s].key
    BY NativeEventOfType
  <2>2. \A k \in inMap : k = e.key /\ native[k] = e
    BY <2>1 DEF DeliveryInv, MapInv
  <2>3. \A p, q \in inRings : p = q
    BY <2>1 DEF DeliveryInv, QueueInv
  <2>4. \A c \in Cpus : \A i \in DOMAIN Queue(c) : Queue(c)[i] = e => <<c, i>> \in inRings
    <3>1. \A c \in Cpus : DOMAIN Queue(c) \subseteq 1 .. Capacity
      <4> SUFFICES ASSUME NEW c \in Cpus PROVE DOMAIN Queue(c) \subseteq 1 .. Capacity
        OBVIOUS
      <4>1. Queue(c) \in Seq(NativeEvent) /\ Len(Queue(c)) \in 0 .. Capacity
        BY QueueType
      <4> QED BY <4>1, PerfBuffersAssumption
    <3> QED BY <3>1
  <2>5. Covered(s)
    BY DEF DeliveryInv, CoverInv
  <2>6. InMap(s) => e.key \in inMap
    BY <2>1 DEF InMap
  <2>7. inRings # {} => inMap = {} /\ e \notin lost
    BY <2>1 DEF DeliveryInv, QueueInv, MapInv
  <2>8. inMap # {} => e \notin lost
    BY <2>2 DEF DeliveryInv, MapInv
  <2>9. e \in lost \/ inRings # {} \/ inMap # {}
    BY <2>4, <2>5, <2>6 DEF Covered
  <2>10. Cardinality({}) = 0 /\ \A x : Cardinality({x}) = 1
    BY FS_EmptySet, FS_Singleton
  <2>11. Cardinality(inRings) = IF inRings = {} THEN 0 ELSE 1
    <3> HIDE DEF inRings
    <3>1. ASSUME inRings # {} PROVE \E x : inRings = {x}
      BY <2>3, <3>1
    <3> QED BY <2>10, <3>1
  <2>12. Cardinality(inMap) = IF inMap = {} THEN 0 ELSE 1
    <3>1. inMap # {} => inMap = {e.key}
      BY <2>2
    <3> HIDE DEF inMap, e
    <3> QED BY <2>10, <3>1
  <2>13. Cardinality(inRings) + Cardinality(inMap) = IF e \in lost THEN 0 ELSE 1
    <3> HIDE DEF inRings, inMap, e
    <3> QED BY <2>7, <2>8, <2>9, <2>11, <2>12
  <2> QED BY <2>2, <2>13 DEF Queue
<1> QED BY <1>1, DeliveryAlways, PTL
=============================================================================
