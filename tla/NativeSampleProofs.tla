------------------------- MODULE NativeSampleProofs -------------------------
(***************************************************************************)
(* Proofs about NativeSample: for any sizes of snapshot, chunk and word,   *)
(* any small reads that leave no gap of a factor of two, and stacks of any *)
(* extent, the unwinder gets the sample's own bytes and enough of them.    *)
(***************************************************************************)
EXTENDS NativeSample, HelperProofs

LEMMA Multiple ==
  ASSUME NEW e \in Nat, NEW c \in Nat \ {0}
  PROVE  /\ e % c \in 0 .. c - 1
         /\ e - (e % c) \in Nat
         /\ e - (e % c) = 0 <=> e < c
         /\ e - (e % c) > 0 => e - (e % c) >= c
OBVIOUS

(* Whole chunks lose less than a chunk of a stack that has one.            *)
LEMMA ChunksBounds ==
  ASSUME NEW e \in Nat
  PROVE  /\ Chunks(e) \in 0 .. SnapshotSize
         /\ Chunks(e) <= e
         /\ Chunks(e) = 0 <=> e < ChunkSize
         /\ e >= ChunkSize => Chunks(e) >= ChunkSize /\ 2 * Chunks(e) > Min({e, SnapshotSize})
<1> DEFINE r == e % ChunkSize
<1>1. ChunkSize \in Nat \ {0} /\ SnapshotSize \in Nat \ {0} /\ SnapshotSize >= ChunkSize
  BY NativeSampleAssumption, Multiple
<1>2. /\ r \in 0 .. ChunkSize - 1
      /\ e - r \in Nat
      /\ e - r = 0 <=> e < ChunkSize
      /\ e - r > 0 => e - r >= ChunkSize
  BY <1>1, Multiple
<1>3. Chunks(e) = IF e - r <= SnapshotSize THEN e - r ELSE SnapshotSize
  BY <1>1, <1>2, MinOfTwo DEF Chunks
<1>4. Min({e, SnapshotSize}) = IF e <= SnapshotSize THEN e ELSE SnapshotSize
  BY <1>1, MinOfTwo
<1> HIDE DEF r
<1> QED BY <1>1, <1>2, <1>3, <1>4

LEMMA SnapshotLenBounds ==
  ASSUME NEW e \in Nat
  PROVE  /\ SnapshotLen(e) \in 0 .. SnapshotSize
         /\ SnapshotLen(e) <= e
         /\ e >= Word => /\ SnapshotLen(e) >= Word
                         /\ 2 * SnapshotLen(e) > Min({e, SnapshotSize})
<1>1. /\ ChunkSize \in Nat \ {0} /\ SnapshotSize \in Nat \ {0} /\ SnapshotSize >= ChunkSize
      /\ Word \in 1 .. ChunkSize
      /\ SmallReads \subseteq Word .. ChunkSize - 1
      /\ \A n \in Word .. ChunkSize - 1 : \E m \in SmallReads : m <= n /\ n < 2 * m
  <2>1. SnapshotSize >= ChunkSize
    BY NativeSampleAssumption, Multiple
  <2> QED BY <2>1, NativeSampleAssumption
<1>2. CASE e >= ChunkSize
  <2>1. Chunks(e) \in Nat /\ Chunks(e) > 0 /\ Chunks(e) >= ChunkSize
    <3>1. Chunks(e) \in 0 .. SnapshotSize /\ Chunks(e) >= ChunkSize
      BY <1>2, ChunksBounds
    <3> QED BY <1>1, <3>1
  <2>2. SnapshotLen(e) = Chunks(e)
    BY <2>1, Zenon DEF SnapshotLen
  <2>3. Chunks(e) \in 0 .. SnapshotSize /\ Chunks(e) <= e /\ 2 * Chunks(e) > Min({e, SnapshotSize})
    BY <1>2, ChunksBounds
  <2> QED BY <1>1, <2>1, <2>2, <2>3
<1>3. CASE e < ChunkSize
  <2> DEFINE S == {0} \cup {n \in SmallReads : n <= e}
  <2>1. Chunks(e) = 0
    BY <1>3, ChunksBounds
  <2>6. SnapshotLen(e) = Max(S)
    <3>1. ~(Chunks(e) > 0)
      BY <2>1
    <3> QED BY <3>1, Zenon DEF SnapshotLen
  <2>2. S \in SUBSET Nat /\ S # {} /\ \A x \in S : x <= e
    <3>1. \A n \in SmallReads : n \in Nat
      BY <1>1
    <3>2. \A x \in S : x \in Nat /\ x <= e
      BY <3>1
    <3>3. 0 \in S
      OBVIOUS
    <3> HIDE DEF S
    <3> QED BY <3>2, <3>3
  <2>3. Max(S) \in S /\ \A x \in S : x <= Max(S)
    <3> HIDE DEF S
    <3> QED BY <2>2, MaxBounded
  <2>4. ASSUME e >= Word PROVE Max(S) >= Word /\ e < 2 * Max(S)
    <3>1. PICK m \in SmallReads : m <= e /\ e < 2 * m
      BY <1>1, <1>3, <2>4
    <3>2. m \in S /\ m \in Nat /\ m >= Word
      BY <1>1, <3>1
    <3> HIDE DEF S
    <3>3. Max(S) \in Nat /\ m <= Max(S)
      BY <2>2, <2>3, <3>2
    <3> QED BY <1>1, <3>1, <3>2, <3>3
  <2>5. Min({e, SnapshotSize}) = e
    BY <1>1, <1>3, MinOfTwo
  <2> HIDE DEF S
  <2>7. Max(S) \in Nat /\ Max(S) <= e
    BY <2>2, <2>3
  <2> QED BY <1>1, <1>3, <2>4, <2>5, <2>6, <2>7
<1> QED BY <1>1, <1>2, <1>3

-----------------------------------------------------------------------------
(* Bytes of the last sample, as many as its stack let the program read.    *)
HoldsSample(n) ==
  /\ n.stack_len = SnapshotLen(sample.extent)
  /\ \A o \in 0 .. n.stack_len - 1 : n.stack[o] = Byte(sample.id, o)

Unwindable == collect /\ sample.sp # 0

(* The scratch event holds the sample that was captured, whatever it held  *)
(* before, and the event main copied out of the ring holds it until the    *)
(* next is captured.                                                       *)
CaptureInv ==
  step = "output" =>
    IF Unwindable THEN HoldsSample(scratch) ELSE scratch.stack_len = 0

EventInv == step \in {"unwinding", "done"} /\ Unwindable => HoldsSample(event)

IInv ==
  /\ TypeOK
  /\ CaptureInv
  /\ EventInv
  /\ step = "unwinding" => Unwindable
  /\ WordsTrue

LEMMA ConstantFacts ==
  /\ ChunkSize \in Nat \ {0} /\ SnapshotSize \in Nat \ {0}
  /\ Word \in Nat \ {0} /\ Padding \in Nat
  /\ MaxDepth \in Nat \ {0} /\ MaxSamples \in Nat
  /\ StackPointers \subseteq Nat /\ Extents \subseteq Nat
BY NativeSampleAssumption

LEMMA SampleNumbers ==
  ASSUME TypeOK
  PROVE  sample.id \in 0 .. MaxSamples /\ sample.sp \in Nat /\ sample.extent \in Nat
<1>1. /\ sample.id \in 0 .. MaxSamples
      /\ sample.sp \in StackPointers \cup {0}
      /\ sample.extent \in Extents \cup {0}
  BY DEF TypeOK
<1>2. \A n \in StackPointers \cup {0} : n \in Nat
  BY ConstantFacts
<1>3. \A n \in Extents \cup {0} : n \in Nat
  BY ConstantFacts
<1> QED BY <1>1, <1>2, <1>3

LEMMA InitIInv == Init => IInv
<1> SUFFICES ASSUME Init PROVE IInv
  OBVIOUS
<1>1. Blank \in Native
  BY ConstantFacts DEF Blank, Native, Offsets, Bytes, Zero, Byte
<1>2. NoWord \in [address : Nat, ok : BOOLEAN, bytes : [0 .. Word - 1 -> Bytes]]
  BY ConstantFacts DEF NoWord, Bytes, Zero, Byte
<1>3. TypeOK
  <2>1. sample \in [id : 0 .. MaxSamples, sp : StackPointers \cup {0}, extent : Extents \cup {0}]
    BY ConstantFacts DEF Init
  <2>2. frames \in 0 .. MaxDepth
    BY ConstantFacts DEF Init
  <2>4. truncated \in BOOLEAN /\ limited \in BOOLEAN /\ ~limited
    BY Zenon DEF Init
  <2>3. scratch \in Native /\ event \in Native /\ collect \in BOOLEAN
    BY <1>1 DEF Init
  <2> QED BY <1>2, <2>1, <2>2, <2>3, <2>4 DEF Init, TypeOK
<1>4. ~got.ok
  BY DEF Init, NoWord
<1> QED BY <1>3, <1>4 DEF Init, IInv, CaptureInv, EventInv, WordsTrue

(* One capture, of a sample with a stack.                                  *)
LEMMA SnapshotHolds ==
  ASSUME NEW s \in 0 .. MaxSamples, NEW e \in Nat, NEW old \in [Offsets -> Bytes]
  PROVE  LET n == read_user_stack_snapshot(s, e, old)
         IN /\ n \in Native
            /\ n.stack_len = SnapshotLen(e)
            /\ \A o \in 0 .. n.stack_len - 1 : n.stack[o] = Byte(s, o)
<1>1. SnapshotLen(e) \in 0 .. SnapshotSize
  BY SnapshotLenBounds
<1>2. \A o \in Offsets : Byte(s, o) \in Bytes /\ Zero \in Bytes /\ old[o] \in Bytes
  BY ConstantFacts DEF Offsets, Bytes, Byte, Zero
<1>3. SnapshotLen(e) \in Nat /\ \A o \in 0 .. SnapshotLen(e) - 1 : o \in Offsets /\ o < SnapshotLen(e)
  BY <1>1, ConstantFacts DEF Offsets
<1> QED BY <1>1, <1>2, <1>3 DEF read_user_stack_snapshot, Native

LEMMA CaptureStep ==
  ASSUME IInv, Capture
  PROVE  IInv'
<1> USE DEF IInv
<1>1. PICK sp \in StackPointers, e \in Extents :
        /\ sample' = [id |-> sample.id + 1, sp |-> sp, extent |-> e]
        /\ scratch' = IF collect /\ sp # 0
                      THEN read_user_stack_snapshot(sample'.id, e, scratch.stack)
                      ELSE [scratch EXCEPT !.stack_len = 0]
  BY DEF Capture
<1>2. sample.id + 1 \in 0 .. MaxSamples /\ e \in Nat /\ sp \in Nat
  BY ConstantFacts DEF Capture, TypeOK
<1>3. sample' \in [id : 0 .. MaxSamples, sp : StackPointers \cup {0}, extent : Extents \cup {0}]
  BY <1>1, <1>2
<1>4. scratch.stack \in [Offsets -> Bytes]
  BY DEF TypeOK, Native
<1>5. scratch' \in Native /\ CaptureInv'
  <2>1. CASE collect /\ sp # 0
    <3> DEFINE n == read_user_stack_snapshot(sample.id + 1, e, scratch.stack)
    <3>1. scratch' = n /\ sample'.id = sample.id + 1 /\ sample'.extent = e
      BY <1>1, <2>1
    <3>2. /\ n \in Native
          /\ n.stack_len = SnapshotLen(e)
          /\ \A o \in 0 .. n.stack_len - 1 : n.stack[o] = Byte(sample.id + 1, o)
      BY <1>2, <1>4, SnapshotHolds
    <3> HIDE DEF n
    <3>3. Unwindable'
      BY <1>1, <2>1 DEF Capture, Unwindable
    <3> QED BY <3>1, <3>2, <3>3 DEF CaptureInv, HoldsSample
  <2>2. CASE ~(collect /\ sp # 0)
    <3>1. scratch' = [scratch EXCEPT !.stack_len = 0] /\ ~Unwindable'
      BY <1>1, <2>2 DEF Capture, Unwindable
    <3>2. scratch' \in Native /\ scratch'.stack_len = 0
      <4>1. scratch \in Native /\ 0 \in 0 .. SnapshotSize
        BY ConstantFacts DEF TypeOK
      <4> QED BY <3>1, <4>1 DEF Native
    <3> QED BY <3>1, <3>2 DEF CaptureInv
  <2> QED BY <2>1, <2>2
<1>6. step' = "output"
  BY DEF Capture
<1>7. TypeOK'
  BY <1>3, <1>5, <1>6 DEF Capture, TypeOK
<1> QED BY <1>5, <1>6, <1>7 DEF EventInv, WordsTrue

LEMMA DeliverStep ==
  ASSUME IInv, Deliver
  PROVE  IInv'
<1> USE DEF IInv
<1> DEFINE n == native_event_from_bytes
<1>1. /\ event' = n
      /\ frames' = 0 /\ limited' = FALSE
      /\ truncated' = (Unwindable /\ event'.stack_len < Word)
      /\ step' = IF Unwindable /\ ~(event'.stack_len < Word) THEN "unwinding" ELSE "done"
      /\ got' = NoWord
      /\ UNCHANGED <<collect, sample, scratch>>
  BY DEF Deliver, Unwindable
<1>2. scratch.stack \in [Offsets -> Bytes] /\ scratch.stack_len \in 0 .. SnapshotSize
  BY DEF TypeOK, Native
<1>3. n.stack_len = IF collect THEN scratch.stack_len ELSE IF scratch.stack_len <= Padding
                                                      THEN scratch.stack_len ELSE Padding
  BY <1>2, ConstantFacts, MinOfTwo DEF native_event_from_bytes
<1>4. n \in Native
  <2>1. n.stack \in [Offsets -> Bytes]
    BY <1>2, ConstantFacts DEF native_event_from_bytes, Offsets, Bytes, Stale, Zero, Byte
  <2>2. n.stack_len \in 0 .. SnapshotSize
    BY <1>2, <1>3, ConstantFacts
  <2> QED BY <2>1, <2>2 DEF native_event_from_bytes, Native
<1>5. collect => n.stack = scratch.stack
  BY DEF native_event_from_bytes
<1>6. Unwindable' = Unwindable
  BY <1>1 DEF Unwindable
<1>7. EventInv'
  <2>1. ASSUME Unwindable PROVE HoldsSample(event)'
    <3>1. HoldsSample(scratch)
      BY <2>1 DEF CaptureInv, Deliver
    <3>2. collect
      BY <2>1 DEF Unwindable
    <3> HIDE DEF n
    <3> QED BY <1>1, <1>3, <1>5, <3>1, <3>2 DEF HoldsSample
  <2> QED BY <1>6, <2>1 DEF EventInv
<1>8. /\ step' \in {"unwinding", "done"}
      /\ step' = "unwinding" => Unwindable'
  BY <1>1, <1>6
<1>9. NoWord \in [address : Nat, ok : BOOLEAN, bytes : [0 .. Word - 1 -> Bytes]] /\ ~NoWord.ok
  BY ConstantFacts DEF NoWord, Bytes, Zero, Byte
<1>10. TypeOK'
  <2> HIDE DEF n
  <2>1. truncated' \in BOOLEAN /\ limited' \in BOOLEAN /\ ~limited'
    BY <1>1, Zenon
  <2>2. frames' \in 0 .. MaxDepth
    BY <1>1, ConstantFacts
  <2>3. event' \in Native /\ got' \in [address : Nat, ok : BOOLEAN, bytes : [0 .. Word - 1 -> Bytes]]
    BY <1>1, <1>4, <1>9
  <2>4. collect' = collect /\ sample' = sample /\ scratch' = scratch
    BY <1>1
  <2> QED BY <1>8, <2>1, <2>2, <2>3, <2>4 DEF TypeOK
<1> QED BY <1>1, <1>7, <1>8, <1>9, <1>10 DEF CaptureInv, WordsTrue

LEMMA ReadWordStep ==
  ASSUME IInv, NEW address \in Nat, ReadWord(address)
  PROVE  IInv'
<1> USE DEF IInv
<1> DEFINE offset == address - sample.sp
           ok == Inside(offset, event.stack_len)
           bytes == IF ok THEN [i \in 0 .. Word - 1 |-> event.stack[offset + i]] ELSE NoWord.bytes
<1>1. /\ step = "unwinding" /\ Unwindable
      /\ got' = [address |-> address, ok |-> ok, bytes |-> bytes]
      /\ truncated' = (truncated \/ ~ok)
      /\ UNCHANGED <<collect, sample, scratch, event, step, frames, limited>>
  BY DEF ReadWord, read_stack_word
<1>2. /\ sample.sp \in Nat /\ sample.extent \in Nat /\ offset \in Int
      /\ event.stack \in [Offsets -> Bytes] /\ event.stack_len \in 0 .. SnapshotSize
  <2>1. sample.sp \in Nat /\ sample.extent \in Nat /\ offset \in Int
    BY SampleNumbers
  <2>2. event.stack \in [Offsets -> Bytes] /\ event.stack_len \in 0 .. SnapshotSize
    BY DEF TypeOK, Native
  <2> QED BY <2>1, <2>2
<1>3. HoldsSample(event)
  BY <1>1 DEF EventInv
<1>4. SnapshotLen(sample.extent) <= sample.extent /\ SnapshotLen(sample.extent) \in Nat
  <2>1. SnapshotLen(sample.extent) \in 0 .. SnapshotSize /\ SnapshotLen(sample.extent) <= sample.extent
    BY <1>2, SnapshotLenBounds
  <2> QED BY <2>1, ConstantFacts
<1>5. ok \in BOOLEAN
  BY DEF Inside
<1>6. ASSUME ok, NEW i \in 0 .. Word - 1
      PROVE  /\ offset >= 0 /\ offset + i \in Offsets
             /\ offset + i < sample.extent
             /\ event.stack[offset + i] = Byte(sample.id, offset + i)
  <2>1. offset >= 0 /\ offset + Word <= event.stack_len
    BY <1>6 DEF Inside
  <2>2. event.stack_len = SnapshotLen(sample.extent)
    BY <1>3 DEF HoldsSample
  <2> HIDE DEF offset, ok
  <2>3. offset + i \in 0 .. event.stack_len - 1
    BY <1>2, <2>1, ConstantFacts
  <2> QED BY <1>2, <1>3, <1>4, <2>1, <2>2, <2>3, ConstantFacts DEF HoldsSample, Offsets
<1>7. bytes \in [0 .. Word - 1 -> Bytes]
  <2>1. CASE ok
    <3>1. \A i \in 0 .. Word - 1 : event.stack[offset + i] \in Bytes
      BY <1>2, <1>6, <2>1
    <3> QED BY <2>1, <3>1
  <2>2. CASE ~ok
    <3>1. NoWord.bytes \in [0 .. Word - 1 -> Bytes]
      BY ConstantFacts DEF NoWord, Bytes, Zero, Byte
    <3> QED BY <2>2, <3>1
  <2> QED BY <2>1, <2>2
<1>8. WordsTrue'
  <2>1. ASSUME ok
        PROVE  /\ address >= sample.sp
               /\ \A i \in 0 .. Word - 1 :
                    address - sample.sp + i < sample.extent
                      /\ bytes[i] = Byte(sample.id, address - sample.sp + i)
    <3>1. address >= sample.sp
      BY <1>2, <2>1 DEF Inside
    <3>2. bytes = [i \in 0 .. Word - 1 |-> event.stack[offset + i]]
      BY <2>1
    <3> QED BY <1>6, <2>1, <3>1, <3>2
  <2> HIDE DEF ok, bytes
  <2> QED BY <1>1, <2>1 DEF WordsTrue
<1>9. TypeOK'
  <2> HIDE DEF ok, bytes
  <2>1. truncated' \in BOOLEAN
    BY <1>1, Zenon DEF TypeOK
  <2>2. got' \in [address : Nat, ok : BOOLEAN, bytes : [0 .. Word - 1 -> Bytes]]
    BY <1>1, <1>5, <1>7
  <2> QED BY <1>1, <2>1, <2>2 DEF TypeOK
<1> QED BY <1>1, <1>8, <1>9 DEF CaptureInv, EventInv, HoldsSample, Unwindable

LEMMA UnwindStep ==
  ASSUME IInv, Unwind
  PROVE  IInv'
<1> USE DEF IInv
<1>1. /\ step = "unwinding" /\ step' \in {"unwinding", "done"}
      /\ UNCHANGED <<collect, sample, scratch, event, truncated, got>>
  BY DEF Unwind
<1>2. frames' \in 0 .. MaxDepth /\ limited' \in BOOLEAN /\ (limited' => frames' = MaxDepth)
  <2>1. CASE frames = MaxDepth /\ limited' = TRUE /\ frames' = frames
    BY <2>1 DEF TypeOK
  <2>2. CASE frames # MaxDepth /\ frames' \in {frames, frames + 1} /\ limited' = limited
    BY <2>2, ConstantFacts DEF TypeOK
  <2> QED BY <2>1, <2>2 DEF Unwind, Full
<1>3. TypeOK'
  BY <1>1, <1>2 DEF TypeOK
<1> QED BY <1>1, <1>3 DEF CaptureInv, EventInv, HoldsSample, Unwindable, WordsTrue

LEMMA NextIInv == IInv /\ [Next]_vars => IInv'
<1> SUFFICES ASSUME IInv, [Next]_vars PROVE IInv'
  OBVIOUS
<1>1. CASE Capture
  BY <1>1, CaptureStep
<1>2. CASE Deliver
  BY <1>2, DeliverStep
<1>3. CASE \E address \in 0 .. sample.sp + SnapshotSize : ReadWord(address)
  <2>1. PICK address \in 0 .. sample.sp + SnapshotSize : ReadWord(address)
    BY <1>3
  <2>2. address \in Nat
    BY <2>1
  <2> QED BY <2>1, <2>2, ReadWordStep
<1>4. CASE Unwind
  BY <1>4, UnwindStep
<1>5. CASE UNCHANGED vars
  BY <1>5 DEF vars, IInv, TypeOK, CaptureInv, EventInv, HoldsSample, Unwindable, WordsTrue
<1> QED BY <1>1, <1>2, <1>3, <1>4, <1>5 DEF Next

-----------------------------------------------------------------------------
(* unwind.rs:150: the unwinder pushes at most PERF_MAX_STACK_DEPTH frames, *)
(* and says it was limited only there; lengths stay within the snapshot.   *)
THEOREM TypeCorrect == Spec => []TypeOK
<1>1. IInv => TypeOK
  BY DEF IInv
<1> QED BY <1>1, InitIInv, NextIInv, PTL DEF Spec

(* read_stack_word gives framehop the words of the sample's own stack,     *)
(* whatever addresses it asks for and whatever the event held before.      *)
THEOREM WordsAlwaysTrue == Spec => []WordsTrue
<1>1. IInv => WordsTrue
  BY DEF IInv
<1> QED BY <1>1, InitIInv, NextIInv, PTL DEF Spec

(* profile.bpf.c:315-335: a stack that ends anywhere above the first word  *)
(* leaves more than half of what there is, up to the size of a snapshot.   *)
THEOREM PrefixUseful == Spec => []UsefulPrefix
<1>1. IInv => UsefulPrefix
  <2> SUFFICES ASSUME IInv, step \in {"unwinding", "done"}, Unwindable, sample.extent >= Word
               PROVE  /\ event.stack_len >= Word /\ event.stack_len <= sample.extent
                      /\ 2 * event.stack_len > Min({sample.extent, SnapshotSize})
    BY DEF UsefulPrefix, Unwindable
  <2>1. sample.extent \in Nat
    BY SampleNumbers DEF IInv
  <2>2. event.stack_len = SnapshotLen(sample.extent)
    BY DEF IInv, EventInv, HoldsSample
  <2> QED BY <2>1, <2>2, SnapshotLenBounds
<1> QED BY <1>1, InitIInv, NextIInv, PTL DEF Spec
=============================================================================
