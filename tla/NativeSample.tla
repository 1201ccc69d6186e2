---------------------------- MODULE NativeSample ----------------------------
(***************************************************************************)
(* The native part of one sample after another on one CPU: do_perf_event   *)
(* copies the user stack into the scratch event of the CPU, which keeps    *)
(* what earlier samples left there; the event, or only the part before its *)
(* stack, goes through the ring; main copies it out and unwinds it with    *)
(* framehop, which reads the captured stack word by word.                  *)
(*                                                                         *)
(* A byte of a stack is known by its sample and its offset from sp. What   *)
(* framehop asks for, and when it stops, is external to this repository.   *)
(***************************************************************************)
EXTENDS Integers, FiniteSetsExt

CONSTANTS
  SnapshotSize,  \* USER_STACK_SNAPSHOT_SIZE
  ChunkSize,     \* USER_STACK_SNAPSHOT_CHUNK_SIZE
  SmallReads,    \* what is tried when the first chunk is not readable
  Word,          \* bytes of a word of the stack, 8
  Padding,       \* what perf adds to a raw event so that it ends aligned, 4
  MaxDepth,      \* PERF_MAX_STACK_DEPTH
  StackPointers, \* sampled values of sp; 0 is none
  Extents,       \* how many bytes can be read from sp on
  MaxSamples     \* bound: samples in a behaviour

ASSUME NativeSampleAssumption ==
  /\ ChunkSize \in Nat \ {0}
  /\ SnapshotSize \in Nat \ {0} /\ SnapshotSize % ChunkSize = 0
  /\ Word \in 1 .. ChunkSize
  /\ IsFiniteSet(SmallReads) /\ SmallReads \subseteq Word .. ChunkSize - 1
  /\ \A e \in Word .. ChunkSize - 1 : \E n \in SmallReads : n <= e /\ e < 2 * n
  /\ Padding \in 0 .. Word - 1
  /\ MaxDepth \in Nat \ {0}
  /\ StackPointers \subseteq Nat /\ Extents \subseteq Nat
  /\ MaxSamples \in Nat

VARIABLES
  collect,    \* collect_native_stacks; the events have stacks, main unwinds
  sample,     \* the last sample: its number, its sp, its readable bytes
  scratch,    \* native_buf: stack and stack_len
  event,      \* what native_event_from_bytes made of the event
  step,       \* "sampling", "output", "unwinding" or "done" with the event
  frames,     \* addresses the unwinder has pushed
  truncated, limited,  \* snapshot_truncated, depth_limited
  got         \* history: the last word the unwinder asked for

vars == <<collect, sample, scratch, event, step, frames, truncated, limited, got>>

Byte(s, o) == [of |-> s, at |-> o]
Zero == Byte(0, 0)
Stale == Byte(0, 1)   \* bytes of the ring that perf skips as padding

Offsets == 0 .. SnapshotSize - 1

Bytes == [of : 0 .. MaxSamples, at : 0 .. SnapshotSize]

Native == [stack : [Offsets -> Bytes], stack_len : 0 .. SnapshotSize]

Blank == [stack |-> [o \in Offsets |-> Zero], stack_len |-> 0]

NoWord == [address |-> 0, ok |-> FALSE, bytes |-> [i \in 0 .. Word - 1 |-> Zero]]

TypeOK ==
  /\ collect \in BOOLEAN
  /\ sample \in [id : 0 .. MaxSamples, sp : StackPointers \cup {0}, extent : Extents \cup {0}]
  /\ scratch \in Native
  /\ event \in Native
  /\ step \in {"sampling", "output", "unwinding", "done"}
  /\ frames \in 0 .. MaxDepth
  /\ truncated \in BOOLEAN
  /\ limited \in BOOLEAN /\ (limited => frames = MaxDepth)
  /\ got \in [address : Nat, ok : BOOLEAN, bytes : [0 .. Word - 1 -> Bytes]]

Init ==
  /\ collect \in BOOLEAN
  /\ sample = [id |-> 0, sp |-> 0, extent |-> 0]
  /\ scratch = Blank
  /\ event = Blank
  /\ step = "sampling"
  /\ frames = 0
  /\ truncated = FALSE /\ limited = FALSE
  /\ got = NoWord

-----------------------------------------------------------------------------
(* read_user_stack_snapshot: whole chunks up to the first that cannot be   *)
(* read, which the kernel zeroes; when that is the first one, the largest  *)
(* of the smaller reads that succeeds.                                     *)
Chunks(e) == Min({e - (e % ChunkSize), SnapshotSize})

SnapshotLenRounded(e) == Min({Chunks(e) + ChunkSize, SnapshotSize})

SnapshotLenChunks(e) == Chunks(e)

SnapshotLen(e) ==
  IF Chunks(e) > 0 THEN Chunks(e) ELSE Max({0} \cup {n \in SmallReads : n <= e})

read_user_stack_snapshot(s, e, old) ==
  [stack |-> [o \in Offsets |->
                IF o < SnapshotLen(e) THEN Byte(s, o)
                ELSE IF o < Chunks(e) + ChunkSize THEN Zero
                ELSE old[o]],
   stack_len |-> SnapshotLen(e)]

(* do_perf_event up to the output. The event before may have been lost.    *)
Capture ==
  /\ step # "unwinding" /\ sample.id < MaxSamples
  /\ \E sp \in StackPointers, e \in Extents :
       /\ sample' = [id |-> sample.id + 1, sp |-> sp, extent |-> e]
       /\ scratch' = IF collect /\ sp # 0
                     THEN read_user_stack_snapshot(sample'.id, e, scratch.stack)
                     ELSE [scratch EXCEPT !.stack_len = 0]
  /\ step' = "output"
  /\ UNCHANGED <<collect, event, frames, truncated, limited, got>>

(* native_event_from_bytes: the bytes after the prefix are the stack, all  *)
(* of it or only padding; stack_len cannot claim more than there are.      *)
native_event_from_bytes ==
  [stack |-> IF collect THEN scratch.stack
             ELSE [o \in Offsets |-> IF o < Padding THEN Stale ELSE Zero],
   stack_len |-> Min({scratch.stack_len, IF collect THEN SnapshotSize ELSE Padding})]

(* Main gets the event, and UserUnwinder::unwind starts or gives up.       *)
Deliver ==
  /\ step = "output"
  /\ event' = native_event_from_bytes
  /\ frames' = 0
  /\ limited' = FALSE
  /\ LET starts == collect /\ sample.sp # 0
         short == event'.stack_len < Word
     IN /\ truncated' = (starts /\ short)
        /\ step' = IF starts /\ ~short THEN "unwinding" ELSE "done"
  /\ got' = NoWord
  /\ UNCHANGED <<collect, sample, scratch>>

(* read_stack_word, at whatever address framehop asks for.                 *)
Inside(offset, len) == offset >= 0 /\ offset + Word <= len

read_stack_word(address) ==
  LET offset == address - sample.sp
      ok == Inside(offset, event.stack_len)
  IN /\ got' = [address |-> address, ok |-> ok,
                bytes |-> IF ok THEN [i \in 0 .. Word - 1 |-> event.stack[offset + i]]
                          ELSE NoWord.bytes]
     /\ truncated' = (truncated \/ ~ok)

ReadWord(address) ==
  /\ step = "unwinding"
  /\ read_stack_word(address)
  /\ UNCHANGED <<collect, sample, scratch, event, step, frames, limited>>

(* The loop of unwind: its test of the depth, a frame, the end.            *)
FullPast(n) == n > MaxDepth

Full(n) == n = MaxDepth

Unwind ==
  /\ step = "unwinding"
  /\ \/ Full(frames) /\ limited' = TRUE /\ step' = "done" /\ UNCHANGED frames
     \/ ~Full(frames) /\ frames' = frames + 1 /\ UNCHANGED <<limited, step>>
     \/ ~Full(frames) /\ step' = "done" /\ UNCHANGED <<limited, frames>>
  /\ UNCHANGED <<collect, sample, scratch, event, truncated, got>>

Next ==
  \/ Capture
  \/ Deliver
  \/ \E address \in 0 .. sample.sp + SnapshotSize : ReadWord(address)
  \/ Unwind

Spec == Init /\ [][Next]_vars

-----------------------------------------------------------------------------
(* Every word the unwinder is given is the word the target had at that     *)
(* address when it was sampled: no byte that an earlier sample, the kernel *)
(* or the ring left in the event.                                          *)
WordsTrue ==
  step \in {"unwinding", "done"} /\ got.ok =>
    /\ got.address >= sample.sp
    /\ \A i \in 0 .. Word - 1 :
         LET o == got.address - sample.sp + i
         IN o < sample.extent /\ got.bytes[i] = Byte(sample.id, o)

(* A sample with a readable word gets unwound, and more than half of what  *)
(* can be read, up to the size of a snapshot, was captured.                *)
UsefulPrefix ==
  step \in {"unwinding", "done"} /\ collect /\ sample.sp # 0 /\ sample.extent >= Word =>
    /\ event.stack_len >= Word /\ event.stack_len <= sample.extent
    /\ 2 * event.stack_len > Min({sample.extent, SnapshotSize})
=============================================================================
