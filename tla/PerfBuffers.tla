---------------------------- MODULE PerfBuffers ----------------------------
(***************************************************************************)
(* The two perf event arrays between the BPF programs and the profiler, as *)
(* the kernel and libbpf implement them: one ring per buffer and CPU. A    *)
(* program on CPU c outputs to the ring of c; an event is refused while no *)
(* ring exists (before PerfBufferBuilder::build, after the drop) or when   *)
(* the ring has no space. A reader takes the events there are when it      *)
(* starts, and gives their space back when it has handled the last one.    *)
(***************************************************************************)
EXTENDS Naturals, Sequences

CONSTANTS
  Cpus,      \* possible CPUs
  Capacity   \* events a ring holds (64 pages)

ASSUME PerfBuffersAssumption == Capacity \in Nat \ {0}

VARIABLES
  ring,   \* ring[b][c]: the events of buffer b on CPU c, oldest first
  open,   \* the buffers that exist
  lost    \* history: events that were refused, or in a ring when it went

ringVars == <<ring, open, lost>>

Buffers == {"native_events", "lua_events_out"}

RingInit ==
  /\ ring = [b \in Buffers |-> [c \in Cpus |-> <<>>]]
  /\ open = {}
  /\ lost = {}

Accepts(b, c) == b \in open /\ Len(ring[b][c]) < Capacity

OutputOverwriting(b, c, e) ==
  /\ IF b \notin open
     THEN lost' = lost \cup {e} /\ UNCHANGED ring
     ELSE /\ ring' = [ring EXCEPT ![b][c] = Append(IF Len(@) < Capacity THEN @ ELSE Tail(@), e)]
          /\ UNCHANGED lost
  /\ UNCHANGED open

(* bpf_perf_event_output(ctx, b, BPF_F_CURRENT_CPU, e) on CPU c.           *)
Output(b, c, e) ==
  /\ IF Accepts(b, c)
     THEN /\ ring' = [ring EXCEPT ![b][c] = Append(@, e)]
          /\ UNCHANGED lost
     ELSE /\ lost' = lost \cup {e}
          /\ UNCHANGED ring
  /\ UNCHANGED open

Build(b) ==
  /\ open' = open \cup {b}
  /\ UNCHANGED <<ring, lost>>

Drop(b) ==
  /\ open' = open \ {b}
  /\ lost' = lost \cup UNION {{ring[b][c][i] : i \in DOMAIN ring[b][c]} : c \in Cpus}
  /\ ring' = [ring EXCEPT ![b] = [c \in Cpus |-> <<>>]]

(* The CPUs epoll reports: those with something to read.                   *)
Readable(b) == {c \in Cpus : ring[b][c] # <<>>}

(* The reader of buffer b on CPU c gives back its n oldest events.         *)
Release(b, c, n) ==
  ring' = [ring EXCEPT ![b][c] = SubSeq(@, n + 1, Len(@))]
=============================================================================
