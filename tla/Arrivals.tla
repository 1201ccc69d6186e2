------------------------------ MODULE Arrivals ------------------------------
(***************************************************************************)
(* How the parts of samples reach the profiler, without programs, rings or *)
(* polls: the native half of a sample arrives at most once; its Lua frames *)
(* arrive in the order of the walk, each at most once, though some never   *)
(* do; and nothing arrives any more once the profile has been written.     *)
(***************************************************************************)
EXTENDS Naturals, Sequences

CONSTANT Sample  \* samples: the native addresses, leaf first, and how many Lua frames

VARIABLES
  samples,  \* the samples taken
  arrived,  \* those whose native half has reached the profiler
  frames,   \* frames[s]: the levels of s that have
  written   \* the profile has been written

arrivalsVars == <<samples, arrived, frames, written>>

ArrivalsInit ==
  /\ samples = <<>>
  /\ arrived = {}
  /\ frames = <<>>
  /\ written = FALSE

TakeSample ==
  /\ \E s \in Sample : samples' = Append(samples, s)
  /\ frames' = Append(frames, {})
  /\ UNCHANGED <<arrived, written>>

NativeArrives(s) ==
  /\ s \notin arrived
  /\ arrived' = arrived \cup {s}
  /\ UNCHANGED <<samples, frames, written>>

FrameArrives(s, l) ==
  /\ \A k \in frames[s] : k < l
  /\ frames' = [frames EXCEPT ![s] = @ \cup {l}]
  /\ UNCHANGED <<samples, arrived, written>>

Write ==
  /\ written' = TRUE
  /\ UNCHANGED <<samples, arrived, frames>>

ArrivalsNext ==
  /\ ~written
  /\ \/ TakeSample
     \/ \E s \in DOMAIN samples : NativeArrives(s)
     \/ \E s \in DOMAIN samples : \E l \in 0 .. samples[s].frames - 1 : FrameArrives(s, l)
     \/ Write

ArrivalsSpec == ArrivalsInit /\ [][ArrivalsNext]_arrivalsVars
=============================================================================
