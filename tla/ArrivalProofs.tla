---------------------------- MODULE ArrivalProofs ----------------------------
(***************************************************************************)
(* Lua frames of Profiler reach main in order, and the pipeline implements *)
(* Arrivals, for any CPUs, threads, ring and map capacities and any number *)
(* of samples. Both follow from an invariant on where frames are, FrameInv,*)
(* which says of the frames of a sample, whatever its key, that they are   *)
(* in one ring and in Pending::lua in the order of the walk. It is stated  *)
(* with the places of events, so that what a step does to a sequence is    *)
(* what it does to places.                                                 *)
(***************************************************************************)
EXTENDS ProfilerProofs

Frames(c) == Unread("lua_events_out", c)

InRing(c, i, e) == i \in DOMAIN Frames(c) /\ Frames(c)[i] = e

Handled(k, i, e) == k \in DOMAIN lua /\ i \in DOMAIN lua[k] /\ lua[k][i] = e

(* e is a frame that the program output and no ring refused.               *)
Survived(e) ==
  /\ e.sample \in Samples
  /\ e = LuaEventOf(e.sample, e.level)
  /\ e.level \in Emitted(e.sample)
  /\ e \notin lost

(* The frames of a sample are in one ring, in the order of the walk.       *)
RingFrames ==
  /\ \A c \in Cpus, i \in Nat, e \in LuaEvent : InRing(c, i, e) => Survived(e)
  /\ \A c, d \in Cpus, i, j \in Nat, e, f \in LuaEvent :
       InRing(c, i, e) /\ InRing(d, j, f) /\ e.sample = f.sample =>
         c = d /\ (i < j => e.level < f.level)

(* Those main has handled are under their key, in that order, and come     *)
(* before those in the ring.                                               *)
MapFrames ==
  /\ \A k \in Keys, i \in Nat, e \in LuaEvent : Handled(k, i, e) => Survived(e) /\ e.key = k
  /\ \A k \in Keys, i, j \in Nat, e, f \in LuaEvent :
       Handled(k, i, e) /\ Handled(k, j, f) /\ e.sample = f.sample /\ i < j => e.level < f.level
  /\ \A k \in Keys, c \in Cpus, i, j \in Nat, e, f \in LuaEvent :
       Handled(k, i, e) /\ InRing(c, j, f) /\ e.sample = f.sample => e.level < f.level

(* A frame that was output is somewhere.                                   *)
Found(e) ==
  \/ e \in lost
  \/ \E c \in Cpus, i \in Nat : InRing(c, i, e)
  \/ \E i \in Nat : Handled(e.key, i, e)

CoverFrames ==
  pc # "done" => \A s \in Samples : \A l \in Emitted(s) : Found(LuaEventOf(s, l))

(* A sample is walked on one CPU, and has frames in no other ring.         *)
WalkFrames ==
  /\ \A c, d \in Cpus : prog[c] # Idle /\ prog[c].sample = prog[d].sample => c = d
  /\ \A c, d \in Cpus, i \in Nat, e \in LuaEvent :
       prog[c] # Idle /\ InRing(d, i, e) /\ e.sample = prog[c].sample => c = d
  /\ \A e \in lost \cap LuaEvent : e.sample \in Samples /\ e.level \in Emitted(e.sample)
  /\ Samples # {} => Cpus # {}

FrameInv == RingFrames /\ MapFrames /\ CoverFrames /\ WalkFrames

-----------------------------------------------------------------------------
LEMMA FramesType ==
  ASSUME TypeOK, NEW c \in Cpus
  PROVE  /\ Frames(c) \in Seq(LuaEvent)
         /\ \A i, e : InRing(c, i, e) => i \in Nat /\ i > 0 /\ e \in LuaEvent
<1>1. Frames(c) \in Seq(LuaEvent)
  BY UnreadType DEF Frames, Buffers, Event
<1>2. \A i \in DOMAIN Frames(c) : i \in Nat /\ i > 0 /\ Frames(c)[i] \in LuaEvent
  BY <1>1
<1> QED BY <1>1, <1>2 DEF InRing

LEMMA LuaType ==
  ASSUME TypeOK, NEW k \in DOMAIN lua
  PROVE  k \in Keys /\ lua[k] \in Seq(LuaEvent)
BY DEF TypeOK, AggregatorTypeOK

LEMMA LuaEventOfType ==
  ASSUME TypeOK, NEW s \in Samples, NEW l \in Nat
  PROVE  /\ LuaEventOf(s, l) \in LuaEvent
         /\ LuaEventOf(s, l).sample = s /\ LuaEventOf(s, l).level = l
         /\ LuaEventOf(s, l).key = taken[s].key
<1>1. taken[s] \in Sample /\ s \in 1 .. MaxSamples
  BY SamplerAssumption DEF TypeOK, SamplerTypeOK, Samples
<1> QED BY <1>1 DEF LuaEventOf, LuaEvent, Sample

LEMMA EmittedType ==
  ASSUME TypeOK, NEW s \in Samples
  PROVE  Emitted(s) \subseteq Nat
<1>1. taken[s] \in Sample
  BY DEF TypeOK, SamplerTypeOK, Samples
<1>2. taken[s].frames \in Nat
  BY <1>1, SamplerAssumption DEF Sample
<1> QED BY <1>2 DEF Emitted

(* What the steps do to the places of frames.                              *)
LEMMA SamePlaces ==
  ASSUME NEW c \in Cpus, Frames(c)' = Frames(c)
  PROVE  \A i, e : InRing(c, i, e)' <=> InRing(c, i, e)
BY DEF InRing

LEMMA OutputPlaces ==
  ASSUME TypeOK, NEW c \in Cpus, NEW e \in LuaEvent, UNCHANGED <<pc, head, at>>,
         Output("lua_events_out", c, e)
  PROVE  \/ /\ lost' = lost \cup {e}
            /\ \A d \in Cpus : \A i, f : InRing(d, i, f)' <=> InRing(d, i, f)
         \/ /\ lost' = lost
            /\ \E n \in Nat :
                 /\ \A i, f : InRing(c, i, f) => i < n
                 /\ \A d \in Cpus : \A i, f : InRing(d, i, f)' <=> InRing(d, i, f) \/ (d = c /\ i = n /\ f = e)
<1>1. "lua_events_out" \in Buffers /\ e \in Event["lua_events_out"]
  BY DEF Buffers, Event
<1>2. CASE Accepts("lua_events_out", c)
  <2>1. ring' = [ring EXCEPT !["lua_events_out"][c] = Append(@, e)] /\ lost' = lost
    BY <1>2 DEF Output
  <2>2. \A d \in Cpus : Frames(d)' = IF d = c THEN Append(Frames(d), e) ELSE Frames(d)
    BY <1>1, <2>1, UnreadAppend DEF Frames
  <2>3. PICK q : q = Frames(c)
    OBVIOUS
  <2>4. q \in Seq(LuaEvent) /\ Len(q) \in Nat
    BY <2>3, FramesType
  <2>5. DOMAIN Append(q, e) = DOMAIN q \cup {Len(q) + 1} /\ DOMAIN q = 1 .. Len(q)
    BY <2>4
  <2>6. /\ \A i \in DOMAIN q : Append(q, e)[i] = q[i]
        /\ Append(q, e)[Len(q) + 1] = e
    BY <2>4
  <2>7. \A i, f : InRing(c, i, f) <=> i \in DOMAIN q /\ q[i] = f
    BY <2>3 DEF InRing
  <2>8. Frames(c)' = Append(q, e)
    BY <2>2, <2>3
  <2>9. \A i, f : InRing(c, i, f)' <=> i \in DOMAIN Append(q, e) /\ Append(q, e)[i] = f
    BY <2>8 DEF InRing
  <2>10. Len(q) + 1 \in Nat /\ \A i \in DOMAIN q : i < Len(q) + 1
    BY <2>4, <2>5
  <2>11. \A i, f : InRing(c, i, f)' <=> InRing(c, i, f) \/ (i = Len(q) + 1 /\ f = e)
    BY <2>5, <2>6, <2>7, <2>9, <2>10
  <2>12. \A d \in Cpus : d # c => Frames(d)' = Frames(d)
    BY <2>2
  <2>13. \A d \in Cpus : d # c => \A i, f : InRing(d, i, f)' <=> InRing(d, i, f)
    BY <2>12, SamePlaces
  <2> QED BY <2>1, <2>7, <2>10, <2>11, <2>13
<1>3. CASE ~Accepts("lua_events_out", c)
  <2>1. ring' = ring /\ lost' = lost \cup {e}
    BY <1>3 DEF Output
  <2>2. \A d \in Cpus : Frames(d)' = Frames(d)
    BY <1>1, <2>1, UnreadSame DEF Frames
  <2> QED BY <2>1, <2>2, SamePlaces
<1> QED BY <1>2, <1>3

(* handle_lua moves the first frame of a ring to the end of its key's.     *)
LEMMA HandlePlaces ==
  ASSUME TypeOK, NEW c \in Cpus, HandleLua(c)
  PROVE  \E e \in LuaEvent, n \in Nat :
           /\ InRing(c, 1, e)
           /\ \A i, f : Handled(e.key, i, f) => i < n
           /\ \A d \in Cpus, i \in Nat : \A f :
                InRing(d, i, f)' <=> IF d = c THEN i > 0 /\ InRing(c, i + 1, f) ELSE InRing(d, i, f)
           /\ \A d \in Cpus : \A i, f : InRing(d, i, f)' => i \in Nat
           /\ \A k, i, f : Handled(k, i, f)' <=> Handled(k, i, f) \/ (k = e.key /\ i = n /\ f = e)
<1>1. /\ "lua_events_out" \in Buffers /\ pc = ReadStep["lua_events_out"] /\ Reading(c)
      /\ Advance("lua_events_out", c)
      /\ handle_lua(ring["lua_events_out"][c][at + 1])
  BY DEF Buffers, ReadStep, HandleLua
<1>2. /\ Frames(c) # <<>>
      /\ Head(Frames(c)) = ring["lua_events_out"][c][at + 1]
      /\ \A d \in Cpus : Frames(d)' = IF d = c THEN Tail(Frames(d)) ELSE Frames(d)
  BY <1>1, UnreadTail DEF Frames
<1>3. PICK q : q = Frames(c)
  OBVIOUS
<1>4. q \in Seq(LuaEvent) /\ q # <<>> /\ Len(q) \in Nat /\ Len(q) > 0
  BY <1>2, <1>3, FramesType
<1>5. PICK e : e = q[1]
  OBVIOUS
<1>6. e \in LuaEvent /\ e.key \in Keys /\ Head(q) = e /\ 1 \in DOMAIN q
  <2>1. q[1] \in LuaEvent /\ Head(q) = q[1] /\ 1 \in DOMAIN q
    BY <1>4
  <2> QED BY <1>5, <2>1 DEF LuaEvent
<1>7. \A i, f : InRing(c, i, f) <=> i \in DOMAIN q /\ q[i] = f
  BY <1>3 DEF InRing
<1>8. Frames(c)' = Tail(q)
  BY <1>2, <1>3
<1>9. /\ DOMAIN q = 1 .. Len(q) /\ DOMAIN Tail(q) = 1 .. Len(q) - 1
      /\ \A i \in 1 .. Len(q) - 1 : Tail(q)[i] = q[i + 1]
  BY <1>4
<1>10. \A i \in Nat : \A f : InRing(c, i, f)' <=> i > 0 /\ InRing(c, i + 1, f)
  <2>1. \A i, f : InRing(c, i, f)' <=> i \in DOMAIN Tail(q) /\ Tail(q)[i] = f
    BY <1>8 DEF InRing
  <2>2. \A i \in Nat : i \in DOMAIN Tail(q) <=> i > 0 /\ i + 1 \in DOMAIN q
    BY <1>4, <1>9
  <2> QED BY <1>7, <1>9, <2>1, <2>2
<1>11. \A d \in Cpus : d # c => \A i, f : InRing(d, i, f)' <=> InRing(d, i, f)
  <2>1. \A d \in Cpus : d # c => Frames(d)' = Frames(d)
    BY <1>2
  <2> QED BY <2>1, SamePlaces
<1>12. PICK h : h = LuaOf(e.key)
  OBVIOUS
<1>13. h \in Seq(LuaEvent) /\ Len(h) \in Nat
  BY <1>12, LuaType DEF LuaOf
<1>14. lua' = [x \in DOMAIN lua \cup {e.key} |-> IF x = e.key THEN Append(h, e) ELSE lua[x]]
  BY <1>1, <1>2, <1>3, <1>6, <1>12 DEF handle_lua, Put
<1>15. /\ DOMAIN h = 1 .. Len(h) /\ DOMAIN Append(h, e) = DOMAIN h \cup {Len(h) + 1}
       /\ \A i \in DOMAIN h : Append(h, e)[i] = h[i] /\ i < Len(h) + 1
       /\ Append(h, e)[Len(h) + 1] = e
  BY <1>6, <1>13
<1>16. \A i, f : Handled(e.key, i, f) <=> i \in DOMAIN h /\ h[i] = f
  <2>1. e.key \notin DOMAIN lua => DOMAIN h = {}
    BY <1>12, <1>15 DEF LuaOf
  <2>2. e.key \in DOMAIN lua => h = lua[e.key]
    BY <1>12 DEF LuaOf
  <2> QED BY <2>1, <2>2 DEF Handled
<1>17. \A i, f : Handled(e.key, i, f)' <=> i \in DOMAIN Append(h, e) /\ Append(h, e)[i] = f
  BY <1>14 DEF Handled
<1>18. \A k, i, f : k # e.key => (Handled(k, i, f)' <=> Handled(k, i, f))
  BY <1>14 DEF Handled
<1>19. \A i, f : Handled(e.key, i, f)' <=> Handled(e.key, i, f) \/ (i = Len(h) + 1 /\ f = e)
  BY <1>15, <1>16, <1>17
<1>20. Len(h) + 1 \in Nat /\ \A i, f : Handled(e.key, i, f) => i < Len(h) + 1
  BY <1>13, <1>15, <1>16
<1>21. InRing(c, 1, e)
  BY <1>5, <1>6, <1>7
<1>22. \A d \in Cpus : \A i, f : InRing(d, i, f)' => i \in Nat
  <2>1. \A i, f : InRing(c, i, f)' => i \in Nat
    <3>1. DOMAIN Frames(c)' \subseteq Nat
      BY <1>4, <1>8, <1>9
    <3> QED BY <3>1 DEF InRing
  <2> QED BY <1>11, <2>1, FramesType
<1> QED BY <1>6, <1>10, <1>11, <1>18, <1>19, <1>20, <1>21, <1>22

-----------------------------------------------------------------------------
(* No frame reaches main.                                                  *)
SameLevels == \A s \in Samples : CountedLevels(s)' = CountedLevels(s)

LEMMA UnreadPlaces ==
  ASSUME NEW e
  PROVE  IsUnread("lua_events_out", e) <=> \E c \in Cpus : \E i : InRing(c, i, e)
BY DEF IsUnread, InRing, Frames

(* Where a frame can be that has not reached main.                         *)
Away(e) == e \in lost \/ \E c \in Cpus : \E i : InRing(c, i, e)

LEMMA LevelAway ==
  ASSUME NEW s, NEW l
  PROVE  /\ l \in CountedLevels(s) <=> l \in Emitted(s) /\ ~Away(LuaEventOf(s, l))
         /\ l \in CountedLevels(s)' <=> l \in Emitted(s)' /\ ~Away(LuaEventOf(s, l))'
BY DEF CountedLevels, Away, IsUnread, InRing, Frames

LEMMA NoneArrive ==
  ASSUME \A s \in Samples : Emitted(s) \subseteq Emitted(s)',
         \A s \in Samples : \A l \in Emitted(s)' :
           Away(LuaEventOf(s, l))' <=> l \notin Emitted(s) \/ Away(LuaEventOf(s, l))
  PROVE  SameLevels
<1> SUFFICES ASSUME NEW s \in Samples, NEW l \in Emitted(s)'
             PROVE  l \in CountedLevels(s)' <=> l \in CountedLevels(s)
  BY DEF SameLevels, CountedLevels
<1> QED BY LevelAway

LEMMA SameAway ==
  ASSUME UNCHANGED taken, \A s \in Samples : Emitted(s)' = Emitted(s),
         \A e : Away(e)' <=> Away(e)
  PROVE  SameLevels
<1>1. ASSUME NEW s \in Samples, NEW l \in Emitted(s)
      PROVE  Away(LuaEventOf(s, l))' <=> Away(LuaEventOf(s, l))
  <2>1. PICK e : e = LuaEventOf(s, l)
    OBVIOUS
  <2>2. LuaEventOf(s, l)' = e
    BY <2>1 DEF LuaEventOf
  <2> QED BY <2>1, <2>2 DEF Away
<1> QED BY <1>1, NoneArrive

(* A step that moves no frame.                                             *)
LEMMA SameSurvivors ==
  ASSUME UNCHANGED taken, NEW e, e \in lost' <=> e \in lost,
         \A s \in Samples : Emitted(s)' = Emitted(s)
  PROVE  Survived(e)' <=> Survived(e)
<1>1. Samples' = Samples /\ LuaEventOf(e.sample, e.level)' = LuaEventOf(e.sample, e.level)
  BY DEF Samples, LuaEventOf
<1> QED BY <1>1 DEF Survived

LEMMA QuietFrames ==
  ASSUME TypeOK, FrameInv, UNCHANGED <<taken, prog, lua>>,
         \A c \in Cpus : Frames(c)' = Frames(c),
         \A e \in LuaEvent : e \in lost' <=> e \in lost,
         pc' # "done" => pc # "done"
  PROVE  FrameInv' /\ SameLevels
<1>1. \A s \in Samples : Emitted(s)' = Emitted(s)
  BY DEF Emitted
<1>2. \A e \in LuaEvent : Survived(e)' <=> Survived(e)
  BY <1>1, SameSurvivors
<1>3. \A c \in Cpus : \A i, e : InRing(c, i, e)' <=> InRing(c, i, e)
  BY SamePlaces
<1>4. \A k, i, e : Handled(k, i, e)' <=> Handled(k, i, e)
  BY DEF Handled
<1>5. Samples' = Samples /\ \A s, l : LuaEventOf(s, l)' = LuaEventOf(s, l)
  BY DEF Samples, LuaEventOf
<1>6. RingFrames'
  BY <1>2, <1>3 DEF FrameInv, RingFrames
<1>7. MapFrames'
  BY <1>2, <1>3, <1>4 DEF FrameInv, MapFrames
<1>8. CoverFrames'
  <2> SUFFICES ASSUME pc' # "done", NEW s \in Samples, NEW l \in Emitted(s)
               PROVE  Found(LuaEventOf(s, l))'
    BY <1>1, <1>5 DEF CoverFrames
  <2>1. PICK e : e = LuaEventOf(s, l)
    OBVIOUS
  <2>2. e \in LuaEvent /\ LuaEventOf(s, l)' = e
    BY <1>5, <2>1, LuaEventOfType, EmittedType
  <2>3. Found(e)
    BY <2>1 DEF FrameInv, CoverFrames
  <2>4. Found(e)'
    BY <1>3, <1>4, <2>2, <2>3 DEF Found
  <2> QED BY <2>2, <2>4 DEF Found
<1>9. WalkFrames'
  <2>1. \A e \in lost' \cap LuaEvent : e.sample \in Samples /\ e.level \in Emitted(e.sample)'
    BY <1>1 DEF FrameInv, WalkFrames
  <2>2. \A c, d \in Cpus : prog'[c] # Idle /\ prog'[c].sample = prog'[d].sample => c = d
    BY DEF FrameInv, WalkFrames
  <2>3. \A c, d \in Cpus, i \in Nat, e \in LuaEvent :
          prog'[c] # Idle /\ InRing(d, i, e)' /\ e.sample = prog'[c].sample => c = d
    BY <1>3 DEF FrameInv, WalkFrames
  <2> QED BY <1>5, <2>1, <2>2, <2>3 DEF FrameInv, WalkFrames
<1>10. SameLevels
  <2>1. ASSUME NEW s \in Samples, NEW l \in Emitted(s)
        PROVE  Away(LuaEventOf(s, l))' <=> Away(LuaEventOf(s, l))
    <3>1. PICK e : e = LuaEventOf(s, l)
      OBVIOUS
    <3>2. e \in LuaEvent /\ LuaEventOf(s, l)' = e
      BY <1>5, <3>1, LuaEventOfType, EmittedType
    <3>3. Away(e)' <=> Away(e)
      BY <1>3, <3>2 DEF Away
    <3> QED BY <3>1, <3>2, <3>3 DEF Away
  <2> QED BY <1>1, <1>5, <2>1, NoneArrive
<1> QED BY <1>6, <1>7, <1>8, <1>9, <1>10 DEF FrameInv

-----------------------------------------------------------------------------
(* The steps that move frames. A new sample has none yet.                  *)
LEMMA TakeFrames ==
  ASSUME TypeOK, FrameInv, NEW c \in Cpus, NEW t \in Tids, TakeSample(c, t), UNCHANGED aggregatorVars
  PROVE  FrameInv' /\ SameLevels /\ \A s \in Samples' \ Samples : CountedLevels(s)' = {}
<1>0. PICK id \in Nat : id = Len(taken) + 1
  BY DEF TypeOK, SamplerTypeOK
<1> DEFINE key == [tid |-> t, seq |-> NextSeq(t)]
<1>1. PICK ips \in NativeStacks, n \in LuaDepths :
        /\ taken' = Append(taken, [key |-> key, ips |-> ips, frames |-> n])
        /\ prog' = [prog EXCEPT ![c] = IF n > 0 THEN [sample |-> id, level |-> 0] ELSE Idle]
        /\ Output("native_events", c, [key |-> key, sample |-> id, ips |-> ips])
  BY <1>0 DEF TakeSample
<1> HIDE DEF key
<1>2. n \in Nat
  BY SamplerAssumption
<1>3. /\ taken \in Seq(Sample) /\ Len(taken) \in Nat
      /\ prog \in [Cpus -> [sample : 0 .. Len(taken), level : Nat]]
      /\ \A d \in Cpus : prog[d] # Idle => prog[d].sample > 0
  BY DEF TypeOK, SamplerTypeOK
<1>4. /\ Samples' = Samples \cup {id} /\ Samples = 1 .. Len(taken)
      /\ \A s \in Samples : taken'[s] = taken[s]
      /\ taken'[id].frames = n
  <2> DEFINE sample == [key |-> key, ips |-> ips, frames |-> n]
  <2>1. taken' = Append(taken, sample) /\ sample.frames = n
    BY <1>1
  <2> HIDE DEF sample
  <2>2. Samples = 1 .. Len(taken) /\ Samples' = 1 .. Len(taken) + 1
    BY <1>3, <2>1 DEF Samples
  <2>3. taken'[id] = sample /\ \A s \in 1 .. Len(taken) : taken'[s] = taken[s]
    BY <1>0, <1>3, <2>1
  <2> QED BY <1>0, <1>3, <2>1, <2>2, <2>3
<1>5. PICK p : p = IF n > 0 THEN [sample |-> id, level |-> 0] ELSE Idle
  OBVIOUS
<1>6. prog'[c] = p /\ \A d \in Cpus : d # c => prog'[d] = prog[d]
  BY <1>1, <1>3, <1>5
<1>7. p.sample \in {0, id} /\ p.level = 0 /\ (p # Idle => p.sample = id) /\ prog[c].sample = 0
  BY <1>5 DEF TakeSample, Idle
<1>8. id \notin Samples /\ 0 \notin Samples /\ id # 0 /\ \A d \in Cpus : prog[d].sample # id
  BY <1>0, <1>3, <1>4
<1>9. \A s \in Samples : Emitted(s)' = Emitted(s)
  <2> SUFFICES ASSUME NEW s \in Samples PROVE Emitted(s)' = Emitted(s)
    OBVIOUS
  <2>1. p.sample # s /\ prog[c].sample # s
    BY <1>7, <1>8
  <2>2. \A l : (\A d \in Cpus : prog'[d].sample = s => l < prog'[d].level)
                 <=> (\A d \in Cpus : prog[d].sample = s => l < prog[d].level)
    BY <1>6, <2>1
  <2> QED BY <1>4, <2>2 DEF Emitted
<1>10. Emitted(id)' = {}
  <2>1. Emitted(id)' = {l \in 0 .. n - 1 : \A d \in Cpus : prog'[d].sample = id => l < prog'[d].level}
    BY <1>4 DEF Emitted
  <2>2. CASE n = 0
    BY <2>1, <2>2
  <2>3. CASE n # 0
    <3>1. prog'[c].sample = id /\ prog'[c].level = 0
      BY <1>2, <1>5, <1>6, <1>7, <2>3
    <3>2. \A l \in 0 .. n - 1 : ~(l < prog'[c].level)
      BY <1>2, <3>1
    <3> QED BY <2>1, <3>1, <3>2
  <2> QED BY <2>2, <2>3
<1>11. \A d \in Cpus : Frames(d)' = Frames(d)
  <2>1. "lua_events_out" \in Buffers /\ ring'["lua_events_out"] = ring["lua_events_out"]
    BY <1>1 DEF Output, Buffers, TypeOK, RingTypeOK
  <2>2. UNCHANGED <<pc, head, at>>
    BY DEF aggregatorVars, loopVars
  <2> QED BY <2>1, <2>2, UnreadSame DEF Frames
<1>12. \A e \in LuaEvent : e \in lost' <=> e \in lost
  <2>1. [key |-> key, sample |-> id, ips |-> ips] \notin LuaEvent
    BY DEF LuaEvent
  <2> QED BY <1>1, <2>1 DEF Output
<1>13. \A d \in Cpus : \A i, e : InRing(d, i, e)' <=> InRing(d, i, e)
  BY <1>11, SamePlaces
<1>14. \A k, i, e : Handled(k, i, e)' <=> Handled(k, i, e)
  BY DEF Handled, aggregatorVars, pendingVars
<1>15. \A s \in Samples : \A l : LuaEventOf(s, l)' = LuaEventOf(s, l)
  BY <1>4 DEF LuaEventOf
<1>16. \A e \in LuaEvent : Survived(e) => Survived(e)'
  <2> SUFFICES ASSUME NEW e \in LuaEvent, Survived(e) PROVE Survived(e)'
    OBVIOUS
  <2>1. e.sample \in Samples /\ e.sample \in Samples'
    BY <1>4 DEF Survived
  <2>2. e = LuaEventOf(e.sample, e.level)'
    BY <1>15, <2>1 DEF Survived
  <2>3. e.level \in Emitted(e.sample)' /\ e \notin lost'
    BY <1>9, <1>12, <2>1 DEF Survived
  <2> QED BY <2>1, <2>2, <2>3 DEF Survived
<1>17. RingFrames'
  BY <1>13, <1>16 DEF FrameInv, RingFrames
<1>18. MapFrames'
  BY <1>13, <1>14, <1>16 DEF FrameInv, MapFrames
<1>19. CoverFrames'
  <2> SUFFICES ASSUME pc' # "done", NEW s \in Samples, NEW l \in Emitted(s)
               PROVE  Found(LuaEventOf(s, l))'
    BY <1>4, <1>9, <1>10 DEF CoverFrames
  <2>1. PICK e : e = LuaEventOf(s, l)
    OBVIOUS
  <2>2. e \in LuaEvent /\ LuaEventOf(s, l)' = e
    BY <1>15, <2>1, LuaEventOfType, EmittedType
  <2>3. Found(e)
    BY <2>1 DEF FrameInv, CoverFrames, aggregatorVars
  <2>4. Found(e)'
    BY <1>12, <1>13, <1>14, <2>2, <2>3 DEF Found
  <2> QED BY <2>2, <2>4 DEF Found
<1>20. WalkFrames'
  <2>1. \A e \in lost' \cap LuaEvent : e.sample \in Samples' /\ e.level \in Emitted(e.sample)'
    BY <1>4, <1>9, <1>12 DEF FrameInv, WalkFrames
  <2>2. \A d, f \in Cpus : prog'[d] # Idle /\ prog'[d].sample = prog'[f].sample => d = f
    BY <1>3, <1>6, <1>7, <1>8 DEF FrameInv, WalkFrames
  <2>3. \A d, f \in Cpus, i \in Nat, e \in LuaEvent :
          prog'[d] # Idle /\ InRing(f, i, e)' /\ e.sample = prog'[d].sample => d = f
    <3>1. \A f \in Cpus, i \in Nat, e \in LuaEvent : InRing(f, i, e) => e.sample \in Samples
      BY DEF FrameInv, RingFrames, Survived
    <3> QED BY <1>6, <1>7, <1>8, <1>13, <3>1 DEF FrameInv, WalkFrames
  <2> QED BY <2>1, <2>2, <2>3 DEF WalkFrames
<1>21. SameLevels
  <2>1. ASSUME NEW s \in Samples, NEW l \in Emitted(s)
        PROVE  Away(LuaEventOf(s, l))' <=> Away(LuaEventOf(s, l))
    <3>1. PICK e : e = LuaEventOf(s, l)
      OBVIOUS
    <3>2. e \in LuaEvent /\ LuaEventOf(s, l)' = e
      BY <1>15, <3>1, LuaEventOfType, EmittedType
    <3>3. Away(e)' <=> Away(e)
      BY <1>12, <1>13, <3>2 DEF Away
    <3> QED BY <3>1, <3>2, <3>3 DEF Away
  <2> QED BY <1>9, <2>1, NoneArrive
<1>22. \A s \in Samples' \ Samples : CountedLevels(s)' = {}
  BY <1>4, <1>10 DEF CountedLevels
<1> QED BY <1>17, <1>18, <1>19, <1>20, <1>21, <1>22 DEF FrameInv

(* The next frame of c's sample goes behind those before it, or is lost.   *)
LEMMA EmitFrames ==
  ASSUME TypeOK, FrameInv, NEW c \in Cpus, EmitLua(c), UNCHANGED aggregatorVars
  PROVE  FrameInv' /\ SameLevels
<1>1. PICK p, s, L : p = prog[c] /\ s = p.sample /\ L = p.level
  OBVIOUS
<1>2. PICK e : e = LuaEventOf(s, L)
  OBVIOUS
<1>3. /\ p # Idle
      /\ Output("lua_events_out", c, e)
      /\ prog' = [prog EXCEPT ![c] = LevelAfter(p)]
      /\ taken' = taken
  BY <1>1, <1>2 DEF EmitLua, LuaEventOf
<1>4. /\ taken \in Seq(Sample) /\ Len(taken) \in Nat
      /\ prog \in [Cpus -> [sample : 0 .. Len(taken), level : Nat]]
      /\ \A d \in Cpus : prog[d] # Idle =>
           prog[d].sample > 0 /\ prog[d].level < taken[prog[d].sample].frames
  BY DEF TypeOK, SamplerTypeOK
<1>5. s \in Samples /\ L \in Nat /\ s # 0
  BY <1>1, <1>3, <1>4 DEF Samples
<1>6. PICK F : F = taken[s].frames
  OBVIOUS
<1>7. F \in Nat /\ L < F
  <2>1. taken[s] \in Sample
    BY <1>4, <1>5 DEF Samples
  <2>2. F \in Nat
    BY <1>6, <2>1, SamplerAssumption DEF Sample
  <2> QED BY <1>1, <1>3, <1>4, <1>6, <2>2
<1>8. e \in LuaEvent /\ e.sample = s /\ e.level = L
  BY <1>2, <1>5, LuaEventOfType
<1>9. \A d \in Cpus : prog[d].sample = s => d = c
  BY <1>1, <1>3 DEF FrameInv, WalkFrames
<1>10. PICK q : q = LevelAfter(p)
  OBVIOUS
<1>11. prog'[c] = q /\ \A d \in Cpus : d # c => prog'[d] = prog[d]
  BY <1>3, <1>4, <1>10
<1>12. /\ q.sample \in {0, s} /\ (q # Idle => q.sample = s)
       /\ IF L + 1 < F THEN q.sample = s /\ q.level = L + 1 ELSE q.sample = 0
  <2>1. p \in [sample : 0 .. Len(taken), level : Nat]
    BY <1>1, <1>4
  <2>2. CASE L + 1 < F
    <3>1. q = [p EXCEPT !.level = @ + 1]
      BY <1>1, <1>6, <1>10, <2>2 DEF LevelAfter
    <3>2. q.sample = s /\ q.level = L + 1
      BY <1>1, <2>1, <3>1
    <3> QED BY <2>2, <3>2
  <2>3. CASE ~(L + 1 < F)
    <3>1. q = Idle
      BY <1>1, <1>6, <1>10, <2>3 DEF LevelAfter
    <3> QED BY <2>3, <3>1 DEF Idle
  <2> QED BY <2>2, <2>3
<1>13. Emitted(s) = {l \in 0 .. F - 1 : l < L}
  <2>1. \A l : (\A d \in Cpus : prog[d].sample = s => l < prog[d].level) <=> l < L
    BY <1>1, <1>9
  <2> QED BY <1>6, <2>1 DEF Emitted
<1>14. Emitted(s)' = {l \in 0 .. F - 1 : l <= L}
  <2>1. Emitted(s)' = {l \in 0 .. F - 1 : \A d \in Cpus : prog'[d].sample = s => l < prog'[d].level}
    BY <1>3, <1>6 DEF Emitted
  <2>2. \A d \in Cpus : d # c => prog'[d].sample # s
    BY <1>9, <1>11
  <2>3. \A l \in 0 .. F - 1 : (\A d \in Cpus : prog'[d].sample = s => l < prog'[d].level) <=> l <= L
    <3>1. CASE L + 1 < F
      <4>1. q.sample = s /\ q.level = L + 1
        BY <1>12, <3>1
      <4>2. \A l : (\A d \in Cpus : prog'[d].sample = s => l < prog'[d].level) <=> l < L + 1
        BY <1>11, <2>2, <4>1
      <4> QED BY <1>5, <1>7, <4>2
    <3>2. CASE ~(L + 1 < F)
      <4>1. q.sample # s
        BY <1>5, <1>12, <3>2
      <4>2. \A d \in Cpus : prog'[d].sample # s
        BY <1>11, <2>2, <4>1
      <4>3. \A l \in 0 .. F - 1 : l <= L
        BY <1>5, <1>7, <3>2
      <4> QED BY <4>2, <4>3
    <3> QED BY <3>1, <3>2
  <2> QED BY <2>1, <2>3
<1>15. /\ L \notin Emitted(s) /\ L \in Emitted(s)' /\ Emitted(s) \subseteq Emitted(s)'
       /\ \A l \in Emitted(s) : l < L
       /\ \A l \in Emitted(s)' : l \in Emitted(s) \/ l = L
  BY <1>5, <1>7, <1>13, <1>14
<1>16. ASSUME NEW r \in Samples, r # s PROVE Emitted(r)' = Emitted(r)
  <2>1. r # 0
    BY <1>4 DEF Samples
  <2>2. q.sample # r /\ prog[c].sample # r
    BY <1>1, <1>12, <1>16, <2>1
  <2>3. \A l : (\A d \in Cpus : prog'[d].sample = r => l < prog'[d].level)
                 <=> (\A d \in Cpus : prog[d].sample = r => l < prog[d].level)
    BY <1>11, <2>2
  <2> QED BY <1>3, <2>3 DEF Emitted
<1>17. Samples' = Samples /\ \A r, l : LuaEventOf(r, l)' = LuaEventOf(r, l)
  BY <1>3 DEF Samples, LuaEventOf
<1>18. lost' = lost \/ lost' = lost \cup {e}
  BY <1>3 DEF Output
<1>19. e \notin lost
  BY <1>8, <1>15 DEF FrameInv, WalkFrames
<1>20. ASSUME NEW f, Survived(f) PROVE Survived(f)' /\ (f.sample = s => f.level < L)
  <2>1. f.sample \in Samples /\ f.level \in Emitted(f.sample) /\ f \notin lost
    BY <1>20 DEF Survived
  <2>2. f # e
    BY <1>8, <1>15, <2>1
  <2>3. f \notin lost'
    BY <1>18, <2>1, <2>2
  <2>4. f.level \in Emitted(f.sample)'
    BY <1>15, <1>16, <2>1
  <2>5. f = LuaEventOf(f.sample, f.level)
    BY <1>20 DEF Survived
  <2>6. f = LuaEventOf(f.sample, f.level)'
    BY <1>17, <2>1, <2>5
  <2>7. Survived(f)'
    BY <1>17, <2>1, <2>3, <2>4, <2>6 DEF Survived
  <2>8. f.sample = s => f.level < L
    BY <1>15, <2>1
  <2> QED BY <2>7, <2>8
<1>21. \A k, i, f : Handled(k, i, f)' <=> Handled(k, i, f)
  BY DEF Handled, aggregatorVars, pendingVars
<1>22. UNCHANGED <<pc, head, at>>
  BY DEF aggregatorVars, loopVars
<1>23. \/ /\ lost' = lost \cup {e}
          /\ \A d \in Cpus : \A i, f : InRing(d, i, f)' <=> InRing(d, i, f)
       \/ /\ lost' = lost
          /\ \E n \in Nat :
               /\ \A i, f : InRing(c, i, f) => i < n
               /\ \A d \in Cpus : \A i, f : InRing(d, i, f)' <=> InRing(d, i, f) \/ (d = c /\ i = n /\ f = e)
  BY <1>3, <1>8, <1>22, OutputPlaces
<1>24. /\ \A d \in Cpus : \A i, f : InRing(d, i, f) => InRing(d, i, f)'
       /\ \A d \in Cpus : \A i, f : InRing(d, i, f)' => InRing(d, i, f) \/ (d = c /\ f = e /\ lost' = lost)
       /\ e \in lost' \/ \E i \in Nat : InRing(c, i, e)'
       /\ \A d \in Cpus : \A i, j, f : InRing(d, i, f) /\ InRing(c, j, e)' => InRing(c, j, e) \/ d # c \/ i < j
       /\ \A i, j : InRing(c, i, e)' /\ InRing(c, j, e)' => i = j \/ InRing(c, i, e) \/ InRing(c, j, e)
  BY <1>23
<1>25. \A d \in Cpus : \A i : ~InRing(d, i, e)
  <2> SUFFICES ASSUME NEW d \in Cpus, NEW i, InRing(d, i, e) PROVE FALSE
    OBVIOUS
  <2>1. i \in Nat
    BY FramesType
  <2>2. Survived(e)
    BY <1>8, <2>1 DEF FrameInv, RingFrames
  <2> QED BY <1>8, <1>5, <1>20, <2>2
<1>26. lost' = lost => Survived(e)'
  <2>1. e = LuaEventOf(e.sample, e.level)'
    BY <1>2, <1>8, <1>17
  <2> QED BY <1>5, <1>8, <1>15, <1>17, <1>19, <2>1 DEF Survived
<1>27. RingFrames'
  <2>1. \A d \in Cpus, i \in Nat, f \in LuaEvent : InRing(d, i, f)' => Survived(f)'
    BY <1>20, <1>24, <1>26 DEF FrameInv, RingFrames
  <2>2. ASSUME NEW d1 \in Cpus, NEW d2 \in Cpus, NEW i \in Nat, NEW j \in Nat,
               NEW f \in LuaEvent, NEW g \in LuaEvent,
               InRing(d1, i, f)', InRing(d2, j, g)', f.sample = g.sample
        PROVE  d1 = d2 /\ (i < j => f.level < g.level)
    <3>1. CASE InRing(d1, i, f) /\ InRing(d2, j, g)
      BY <2>2, <3>1 DEF FrameInv, RingFrames
    <3>2. CASE InRing(d1, i, f) /\ g = e /\ d2 = c
      <4>1. Survived(f) /\ f.sample = s
        BY <1>8, <2>2, <3>2 DEF FrameInv, RingFrames
      <4>2. d1 = c
        BY <1>1, <1>3, <3>2, <4>1 DEF FrameInv, WalkFrames
      <4>3. f.level < L
        BY <1>20, <4>1
      <4> QED BY <1>8, <3>2, <4>2, <4>3
    <3>3. CASE f = e /\ d1 = c /\ InRing(d2, j, g)
      <4>1. Survived(g) /\ g.sample = s
        BY <1>8, <2>2, <3>3 DEF FrameInv, RingFrames
      <4>2. d2 = c
        BY <1>1, <1>3, <3>3, <4>1 DEF FrameInv, WalkFrames
      <4>3. j < i
        BY <1>24, <1>25, <2>2, <3>3, <4>2
      <4> QED BY <3>3, <4>2, <4>3
    <3>4. CASE f = e /\ d1 = c /\ g = e /\ d2 = c
      <4>1. i = j
        BY <1>24, <1>25, <2>2, <3>4
      <4> QED BY <3>4, <4>1
    <3> QED BY <1>24, <2>2, <3>1, <3>2, <3>3, <3>4
  <2> QED BY <2>1, <2>2 DEF RingFrames
<1>28. MapFrames'
  <2>1. \A k \in Keys, i \in Nat, f \in LuaEvent : Handled(k, i, f)' => Survived(f)' /\ f.key = k
    BY <1>20, <1>21 DEF FrameInv, MapFrames
  <2>2. \A k \in Keys, i, j \in Nat, f, g \in LuaEvent :
          Handled(k, i, f)' /\ Handled(k, j, g)' /\ f.sample = g.sample /\ i < j => f.level < g.level
    BY <1>21 DEF FrameInv, MapFrames
  <2>3. ASSUME NEW k \in Keys, NEW d \in Cpus, NEW i \in Nat, NEW j \in Nat,
               NEW f \in LuaEvent, NEW g \in LuaEvent,
               Handled(k, i, f)', InRing(d, j, g)', f.sample = g.sample
        PROVE  f.level < g.level
    <3>1. Handled(k, i, f) /\ Survived(f)
      BY <1>21, <2>3 DEF FrameInv, MapFrames
    <3>2. CASE InRing(d, j, g)
      BY <2>3, <3>1, <3>2 DEF FrameInv, MapFrames
    <3>3. CASE g = e
      BY <1>8, <1>20, <2>3, <3>1, <3>3
    <3> QED BY <1>24, <2>3, <3>2, <3>3
  <2> QED BY <2>1, <2>2, <2>3 DEF MapFrames
<1>29. CoverFrames'
  <2> SUFFICES ASSUME pc' # "done", NEW r \in Samples, NEW l \in Emitted(r)'
               PROVE  Found(LuaEventOf(r, l))'
    BY <1>17 DEF CoverFrames
  <2>1. CASE l \in Emitted(r)
    <3>1. PICK f : f = LuaEventOf(r, l)
      OBVIOUS
    <3>2. Found(f) /\ LuaEventOf(r, l)' = f
      BY <1>17, <1>22, <2>1, <3>1 DEF FrameInv, CoverFrames
    <3>3. Found(f)'
      BY <1>18, <1>21, <1>24, <3>2 DEF Found
    <3> QED BY <3>2, <3>3 DEF Found
  <2>2. CASE l \notin Emitted(r)
    <3>1. r = s /\ l = L
      BY <1>15, <1>16, <2>2
    <3>2. LuaEventOf(r, l)' = e
      BY <1>2, <1>17, <3>1
    <3>3. Found(e)'
      BY <1>24 DEF Found
    <3> QED BY <3>2, <3>3 DEF Found
  <2> QED BY <2>1, <2>2
<1>30. WalkFrames'
  <2>1. ASSUME NEW f \in lost' \cap LuaEvent PROVE f.sample \in Samples /\ f.level \in Emitted(f.sample)'
    <3>1. CASE f \in lost
      <4>1. f.sample \in Samples /\ f.level \in Emitted(f.sample)
        BY <3>1 DEF FrameInv, WalkFrames
      <4> QED BY <1>15, <1>16, <4>1
    <3>2. CASE f = e
      BY <1>5, <1>8, <1>15, <3>2
    <3> QED BY <1>18, <3>1, <3>2
  <2>2. ASSUME NEW d \in Cpus, NEW f \in Cpus, prog'[d] # Idle, prog'[d].sample = prog'[f].sample
        PROVE  d = f
    BY <1>4, <1>5, <1>9, <1>11, <1>12, <2>2 DEF FrameInv, WalkFrames
  <2>3. ASSUME NEW d \in Cpus, NEW f \in Cpus, NEW i \in Nat, NEW g \in LuaEvent,
               prog'[d] # Idle, InRing(f, i, g)', g.sample = prog'[d].sample
        PROVE  d = f
    <3>1. CASE d = c
      <4>1. g.sample = s
        BY <1>11, <1>12, <2>3, <3>1
      <4>2. CASE InRing(f, i, g)
        BY <1>1, <1>3, <3>1, <4>1, <4>2 DEF FrameInv, WalkFrames
      <4> QED BY <1>24, <2>3, <3>1, <4>2
    <3>2. CASE d # c
      <4>1. prog'[d] = prog[d] /\ g.sample # s
        BY <1>9, <1>11, <2>3, <3>2
      <4>2. InRing(f, i, g)
        BY <1>8, <1>24, <2>3, <4>1
      <4> QED BY <2>3, <4>1, <4>2 DEF FrameInv, WalkFrames
    <3> QED BY <3>1, <3>2
  <2> QED BY <1>17, <2>1, <2>2, <2>3 DEF FrameInv, WalkFrames
<1>31. SameLevels
  <2>1. ASSUME NEW r \in Samples, NEW l \in Emitted(r)'
        PROVE  Away(LuaEventOf(r, l))' <=> l \notin Emitted(r) \/ Away(LuaEventOf(r, l))
    <3>1. PICK f : f = LuaEventOf(r, l)
      OBVIOUS
    <3>2. LuaEventOf(r, l)' = f
      BY <1>17, <3>1
    <3>3. CASE l \in Emitted(r)
      <4>1. f.sample = r /\ f.level = l
        BY <3>1, <3>3, LuaEventOfType, EmittedType
      <4>2. f # e
        BY <1>8, <1>15, <3>3, <4>1
      <4>3. Away(f)' <=> Away(f)
        BY <1>18, <1>24, <4>2 DEF Away
      <4> QED BY <3>1, <3>2, <3>3, <4>3 DEF Away
    <3>4. CASE l \notin Emitted(r)
      <4>1. f = e
        BY <1>2, <1>15, <1>16, <3>1, <3>4
      <4>2. Away(e)'
        BY <1>24 DEF Away
      <4> QED BY <3>2, <3>4, <4>1, <4>2 DEF Away
    <3> QED BY <3>3, <3>4
  <2> QED BY <1>15, <1>16, <2>1, NoneArrive
<1> QED BY <1>27, <1>28, <1>29, <1>30, <1>31 DEF FrameInv

(* A step of main leaves the sample history alone.                         *)
LEMMA MainSurvivors ==
  ASSUME UNCHANGED samplerVars
  PROVE  /\ UNCHANGED <<taken, prog>>
         /\ Samples' = Samples
         /\ \A s \in Samples : Emitted(s)' = Emitted(s)
         /\ \A s, l : LuaEventOf(s, l)' = LuaEventOf(s, l)
         /\ \A e : (e \in lost' <=> e \in lost) => (Survived(e)' <=> Survived(e))
<1>1. UNCHANGED <<taken, prog>>
  BY DEF samplerVars
<1>2. \A s \in Samples : Emitted(s)' = Emitted(s)
  BY <1>1 DEF Emitted
<1>3. \A e : (e \in lost' <=> e \in lost) => (Survived(e)' <=> Survived(e))
  BY <1>1, <1>2, SameSurvivors
<1> QED BY <1>1, <1>2, <1>3 DEF Samples, LuaEventOf

(* The first frame of a ring becomes the last of its key's.                *)
LEMMA HandleFrames ==
  ASSUME TypeOK, FrameInv, NEW c \in Cpus, HandleLua(c), UNCHANGED samplerVars
  PROVE  /\ FrameInv'
         /\ \E s \in Samples : \E l \in Emitted(s) :
              /\ \A m \in CountedLevels(s) : m < l
              /\ CountedLevels(s)' = CountedLevels(s) \cup {l}
              /\ \A r \in Samples \ {s} : CountedLevels(r)' = CountedLevels(r)
<1>1. PICK e \in LuaEvent, n \in Nat :
        /\ InRing(c, 1, e)
        /\ \A i, f : Handled(e.key, i, f) => i < n
        /\ \A d \in Cpus, i \in Nat : \A f :
             InRing(d, i, f)' <=> IF d = c THEN i > 0 /\ InRing(c, i + 1, f) ELSE InRing(d, i, f)
        /\ \A d \in Cpus : \A i, f : InRing(d, i, f)' => i \in Nat
        /\ \A k, i, f : Handled(k, i, f)' <=> Handled(k, i, f) \/ (k = e.key /\ i = n /\ f = e)
  BY HandlePlaces
<1>2. lost' = lost /\ pc' = pc /\ pc # "done"
  BY DEF HandleLua, Advance
<1>3. /\ UNCHANGED <<taken, prog>> /\ Samples' = Samples
      /\ \A s \in Samples : Emitted(s)' = Emitted(s)
      /\ \A s, l : LuaEventOf(s, l)' = LuaEventOf(s, l)
      /\ \A f : Survived(f)' <=> Survived(f)
  BY <1>2, MainSurvivors
<1>4. Survived(e) /\ e.key \in Keys
  BY <1>1 DEF FrameInv, RingFrames, LuaEvent
(* Where a place of a ring was before.                                     *)
<1>5. ASSUME NEW d \in Cpus, NEW i \in Nat, NEW f, InRing(d, i, f)'
      PROVE  \E j \in Nat : InRing(d, j, f) /\ IF d = c THEN j = i + 1 /\ i > 0 ELSE j = i
  <2>1. CASE d = c
    <3>1. i + 1 \in Nat /\ i > 0 /\ InRing(c, i + 1, f)
      BY <1>1, <1>5, <2>1
    <3> QED BY <2>1, <3>1
  <2>2. CASE d # c
    BY <1>1, <1>5, <2>2
  <2> QED BY <2>1, <2>2
<1>6. RingFrames'
  <2>1. \A d \in Cpus, i \in Nat, f \in LuaEvent : InRing(d, i, f)' => Survived(f)'
    BY <1>3, <1>5 DEF FrameInv, RingFrames
  <2>2. ASSUME NEW d1 \in Cpus, NEW d2 \in Cpus, NEW i \in Nat, NEW j \in Nat,
               NEW f \in LuaEvent, NEW g \in LuaEvent,
               InRing(d1, i, f)', InRing(d2, j, g)', f.sample = g.sample
        PROVE  d1 = d2 /\ (i < j => f.level < g.level)
    <3>1. PICK p \in Nat : InRing(d1, p, f) /\ IF d1 = c THEN p = i + 1 /\ i > 0 ELSE p = i
      BY <1>5, <2>2
    <3>2. PICK q \in Nat : InRing(d2, q, g) /\ IF d2 = c THEN q = j + 1 /\ j > 0 ELSE q = j
      BY <1>5, <2>2
    <3>3. d1 = d2 /\ (p < q => f.level < g.level)
      BY <2>2, <3>1, <3>2 DEF FrameInv, RingFrames
    <3>4. i < j => p < q
      BY <3>1, <3>2, <3>3
    <3> QED BY <3>3, <3>4
  <2> QED BY <2>1, <2>2 DEF RingFrames
<1>7. MapFrames'
  <2>1. \A k \in Keys, i \in Nat, f \in LuaEvent : Handled(k, i, f)' => Survived(f)' /\ f.key = k
    BY <1>1, <1>3, <1>4 DEF FrameInv, MapFrames
  <2>2. ASSUME NEW k \in Keys, NEW i \in Nat, NEW j \in Nat, NEW f \in LuaEvent, NEW g \in LuaEvent,
               Handled(k, i, f)', Handled(k, j, g)', f.sample = g.sample, i < j
        PROVE  f.level < g.level
    <3>1. CASE Handled(k, i, f) /\ Handled(k, j, g)
      BY <2>2, <3>1 DEF FrameInv, MapFrames
    <3>2. CASE Handled(k, i, f) /\ g = e
      BY <1>1, <2>2, <3>2 DEF FrameInv, MapFrames
    <3>3. CASE ~Handled(k, i, f)
      <4>1. k = e.key /\ i = n
        BY <1>1, <2>2, <3>3
      <4>2. ~(j < n) /\ j # n
        BY <2>2, <4>1
      <4> QED BY <1>1, <2>2, <4>1, <4>2
    <3> QED BY <1>1, <2>2, <3>1, <3>2, <3>3
  <2>3. ASSUME NEW k \in Keys, NEW d \in Cpus, NEW i \in Nat, NEW j \in Nat,
               NEW f \in LuaEvent, NEW g \in LuaEvent,
               Handled(k, i, f)', InRing(d, j, g)', f.sample = g.sample
        PROVE  f.level < g.level
    <3>1. PICK q \in Nat : InRing(d, q, g) /\ IF d = c THEN q = j + 1 /\ j > 0 ELSE q = j
      BY <1>5, <2>3
    <3>2. CASE Handled(k, i, f)
      BY <2>3, <3>1, <3>2 DEF FrameInv, MapFrames
    <3>3. CASE f = e
      <4>1. d = c /\ (1 < q => e.level < g.level)
        BY <1>1, <2>3, <3>1, <3>3 DEF FrameInv, RingFrames
      <4>2. 1 < q
        BY <3>1, <4>1
      <4> QED BY <3>3, <4>1, <4>2
    <3> QED BY <1>1, <2>3, <3>2, <3>3
  <2> QED BY <2>1, <2>2, <2>3 DEF MapFrames
<1>8. ASSUME NEW f, Found(f) PROVE Found(f)'
  <2>1. CASE f \in lost
    BY <1>2, <2>1 DEF Found
  <2>2. ASSUME NEW d \in Cpus, NEW i \in Nat, InRing(d, i, f) PROVE Found(f)'
    <3>1. i > 0
      BY <2>2, FramesType
    <3>2. CASE d # c
      BY <1>1, <2>2, <3>2 DEF Found
    <3>3. CASE d = c /\ i = 1
      <4>1. f = e
        BY <1>1, <2>2, <3>3 DEF InRing
      <4>2. Handled(f.key, n, f)'
        BY <1>1, <4>1
      <4> QED BY <4>2 DEF Found
    <3>4. CASE d = c /\ i # 1
      <4>1. i - 1 \in Nat /\ i - 1 > 0 /\ (i - 1) + 1 = i
        BY <3>1, <3>4
      <4>2. InRing(c, i - 1, f)'
        BY <1>1, <2>2, <3>4, <4>1
      <4> QED BY <4>1, <4>2 DEF Found
    <3> QED BY <3>2, <3>3, <3>4
  <2>3. CASE \E i \in Nat : Handled(f.key, i, f)
    BY <1>1, <2>3 DEF Found
  <2> QED BY <1>8, <2>1, <2>2, <2>3 DEF Found
<1>9. CoverFrames'
  <2> SUFFICES ASSUME NEW s \in Samples, NEW l \in Emitted(s)
               PROVE  Found(LuaEventOf(s, l))'
    BY <1>3 DEF CoverFrames
  <2>1. PICK f : f = LuaEventOf(s, l)
    OBVIOUS
  <2>2. Found(f) /\ LuaEventOf(s, l)' = f
    BY <1>2, <1>3, <2>1 DEF FrameInv, CoverFrames
  <2> QED BY <1>8, <2>2 DEF Found
<1>10. WalkFrames'
  <2>1. \A f \in lost' \cap LuaEvent : f.sample \in Samples /\ f.level \in Emitted(f.sample)'
    BY <1>2, <1>3 DEF FrameInv, WalkFrames
  <2>2. \A d, f \in Cpus : prog'[d] # Idle /\ prog'[d].sample = prog'[f].sample => d = f
    BY <1>3 DEF FrameInv, WalkFrames
  <2>3. \A d, f \in Cpus, i \in Nat, g \in LuaEvent :
          prog'[d] # Idle /\ InRing(f, i, g)' /\ g.sample = prog'[d].sample => d = f
    BY <1>3, <1>5 DEF FrameInv, WalkFrames
  <2> QED BY <1>3, <2>1, <2>2, <2>3 DEF FrameInv, WalkFrames
(* The frame that has arrived, and those that had.                         *)
<1>11. e.sample \in Samples /\ e.level \in Emitted(e.sample)
  BY <1>4 DEF Survived
<1>12. ASSUME NEW m \in CountedLevels(e.sample)
       PROVE  m < e.level
  <2>1. PICK f : f = LuaEventOf(e.sample, m)
    OBVIOUS
  <2>2. m \in Emitted(e.sample) /\ ~Away(f)
    BY <2>1, LevelAway
  <2>3. f \in LuaEvent /\ f.sample = e.sample /\ f.level = m /\ f.key \in Keys
    BY <1>11, <2>1, <2>2, LuaEventOfType, EmittedType DEF LuaEvent
  <2>4. Found(f)
    BY <1>2, <1>11, <2>1, <2>2 DEF FrameInv, CoverFrames
  <2>5. PICK i \in Nat : Handled(f.key, i, f)
    BY <2>2, <2>4 DEF Found, Away
  <2> QED BY <1>1, <2>3, <2>5 DEF FrameInv, MapFrames
<1>13. \A f : Away(f)' <=> Away(f) /\ f # e
  <2>1. ASSUME NEW d \in Cpus, NEW i, InRing(d, i, e)' PROVE FALSE
    <3>1. i \in Nat
      BY <1>1, <2>1
    <3>2. PICK j \in Nat : InRing(d, j, e) /\ IF d = c THEN j = i + 1 /\ i > 0 ELSE j = i
      BY <1>5, <2>1, <3>1
    <3>3. d = c /\ (1 < j => e.level < e.level)
      BY <1>1, <3>2 DEF FrameInv, RingFrames
    <3>4. 1 < j /\ e.level \in Nat
      BY <3>1, <3>2, <3>3 DEF LuaEvent
    <3> QED BY <3>3, <3>4
  <2>2. ASSUME NEW f, Away(f), f # e PROVE Away(f)'
    <3>1. CASE f \in lost
      BY <1>2, <3>1 DEF Away
    <3>2. ASSUME NEW d \in Cpus, NEW i, InRing(d, i, f) PROVE Away(f)'
      <4>1. i \in Nat /\ i > 0
        BY <3>2, FramesType
      <4>2. CASE d # c
        BY <1>1, <3>2, <4>1, <4>2 DEF Away
      <4>3. CASE d = c
        <5>1. i # 1
          BY <1>1, <2>2, <3>2, <4>3 DEF InRing
        <5>2. i - 1 \in Nat /\ i - 1 > 0 /\ (i - 1) + 1 = i
          BY <4>1, <5>1
        <5>3. InRing(c, i - 1, f)'
          BY <1>1, <3>2, <4>3, <5>2
        <5> QED BY <5>3 DEF Away
      <4> QED BY <4>2, <4>3
    <3> QED BY <2>2, <3>1, <3>2 DEF Away
  <2>3. ASSUME NEW f, Away(f)' PROVE Away(f) /\ f # e
    <3>1. CASE f \in lost
      BY <1>2, <1>4, <3>1 DEF Away, Survived
    <3>2. ASSUME NEW d \in Cpus, NEW i, InRing(d, i, f)' PROVE Away(f) /\ f # e
      <4>1. i \in Nat
        BY <1>1, <3>2
      <4>2. \E j \in Nat : InRing(d, j, f)
        BY <1>5, <3>2, <4>1
      <4> QED BY <2>1, <3>2, <4>2 DEF Away
    <3> QED BY <1>2, <2>3, <3>1, <3>2 DEF Away
  <2> QED BY <2>2, <2>3
<1>14. ASSUME NEW r \in Samples, NEW l \in Emitted(r)
       PROVE  l \in CountedLevels(r)' <=> l \in CountedLevels(r) \/ (r = e.sample /\ l = e.level)
  <2>1. PICK f : f = LuaEventOf(r, l)
    OBVIOUS
  <2>2. LuaEventOf(r, l)' = f /\ Emitted(r)' = Emitted(r)
    BY <1>3, <2>1
  <2>3. f = e <=> r = e.sample /\ l = e.level
    BY <1>4, <2>1, LuaEventOfType, EmittedType DEF Survived
  <2>4. l \in CountedLevels(r) <=> ~Away(f)
    BY <2>1, LevelAway
  <2>5. l \in CountedLevels(r)' <=> ~Away(f)'
    <3>1. l \in CountedLevels(r)' <=> ~Away(LuaEventOf(r, l))'
      BY <2>2, LevelAway
    <3> QED BY <2>2, <3>1 DEF Away
  <2>6. Away(e)
    BY <1>1 DEF Away
  <2> QED BY <1>13, <2>3, <2>4, <2>5, <2>6
<1>15. /\ CountedLevels(e.sample)' = CountedLevels(e.sample) \cup {e.level}
       /\ \A r \in Samples \ {e.sample} : CountedLevels(r)' = CountedLevels(r)
  <2>1. \A r \in Samples : CountedLevels(r) \subseteq Emitted(r) /\ CountedLevels(r)' \subseteq Emitted(r)
    BY <1>3 DEF CountedLevels
  <2> QED BY <1>11, <1>14, <2>1
<1> QED BY <1>6, <1>7, <1>9, <1>10, <1>11, <1>12, <1>15 DEF FrameInv

LEMMA HandleNativeFrames ==
  ASSUME TypeOK, FrameInv, NEW c \in Cpus, HandleNative(c), UNCHANGED samplerVars
  PROVE  FrameInv' /\ SameLevels
<1>1. /\ "native_events" \in Buffers /\ "lua_events_out" \in Buffers \ {"native_events"}
      /\ pc = ReadStep["native_events"] /\ Advance("native_events", c)
  BY DEF Buffers, ReadStep, HandleNative
<1>2. \A d \in Cpus : Frames(d)' = Frames(d)
  BY <1>1, UnreadOther DEF Frames
<1>3. UNCHANGED <<lost, pc, lua, taken, prog>>
  BY DEF HandleNative, handle_native, Advance, samplerVars
<1> QED BY <1>2, <1>3, QuietFrames

(* When the reader of Lua frames goes, its rings go to lost; what main has *)
(* handled was not in them.                                                *)
LEMMA DropFrames ==
  ASSUME TypeOK, FrameInv, pc = "drop_lua", pc' # "done", Drop("lua_events_out"),
         UNCHANGED <<head, lua>>, UNCHANGED samplerVars
  PROVE  FrameInv' /\ SameLevels
<1>1. \A c \in Cpus : Frames(c) = ring["lua_events_out"][c]
  BY DEF Frames, Unread, ReadStep, Buffers
<1>2. ASSUME NEW c \in Cpus, NEW i, NEW e PROVE ~InRing(c, i, e)'
  <2>1. ring'["lua_events_out"][c] = <<>>
    BY DEF Drop, TypeOK, RingTypeOK, Buffers
  <2>2. ~Reading(c)'
    <3>1. ~Reading(c)
      BY NotReading
    <3> QED BY <3>1 DEF Reading
  <2>3. Frames(c)' = <<>>
    BY <2>1, <2>2 DEF Frames, Unread
  <2>4. DOMAIN Frames(c)' = {}
    BY <2>3
  <2> QED BY <2>4 DEF InRing
<1>3. \A e : e \in lost' <=> e \in lost \/ \E c \in Cpus : \E i : InRing(c, i, e)
  BY <1>1 DEF Drop, InRing
<1>4. \A k, i, e : Handled(k, i, e)' <=> Handled(k, i, e)
  BY DEF Handled
<1>5. /\ UNCHANGED <<taken, prog>> /\ Samples' = Samples
      /\ \A s \in Samples : Emitted(s)' = Emitted(s)
      /\ \A s, l : LuaEventOf(s, l)' = LuaEventOf(s, l)
      /\ \A e : (e \in lost' <=> e \in lost) => (Survived(e)' <=> Survived(e))
  BY MainSurvivors
<1>6. \A c \in Cpus : \A i, e : InRing(c, i, e) => i \in Nat /\ e \in LuaEvent
  BY FramesType
<1>7. RingFrames'
  BY <1>2 DEF RingFrames
<1>8. MapFrames'
  <2>1. ASSUME NEW k \in Keys, NEW i \in Nat, NEW e \in LuaEvent, Handled(k, i, e)
        PROVE  Survived(e)'
    <3>1. Survived(e)
      BY <2>1 DEF FrameInv, MapFrames
    <3>2. ASSUME NEW c \in Cpus, NEW j, InRing(c, j, e) PROVE FALSE
      <4>1. j \in Nat /\ e.level \in Nat
        BY <1>6, <3>2 DEF LuaEvent
      <4>2. e.level < e.level
        BY <2>1, <3>2, <4>1 DEF FrameInv, MapFrames
      <4> QED BY <4>1, <4>2
    <3>3. e \in lost' <=> e \in lost
      BY <1>3, <3>2
    <3> QED BY <1>5, <3>1, <3>3
  <2> QED BY <1>2, <1>4, <2>1 DEF FrameInv, MapFrames
<1>9. CoverFrames'
  <2> SUFFICES ASSUME NEW s \in Samples, NEW l \in Emitted(s)
               PROVE  Found(LuaEventOf(s, l))'
    BY <1>5 DEF CoverFrames
  <2>1. PICK f : f = LuaEventOf(s, l)
    OBVIOUS
  <2>2. Found(f) /\ LuaEventOf(s, l)' = f
    BY <1>5, <2>1 DEF FrameInv, CoverFrames
  <2> QED BY <1>3, <1>4, <2>2 DEF Found
<1>10. WalkFrames'
  <2>1. ASSUME NEW e \in lost' \cap LuaEvent PROVE e.sample \in Samples /\ e.level \in Emitted(e.sample)'
    <3>1. CASE e \in lost
      BY <1>5, <3>1 DEF FrameInv, WalkFrames
    <3>2. ASSUME NEW c \in Cpus, NEW i, InRing(c, i, e)
          PROVE  e.sample \in Samples /\ e.level \in Emitted(e.sample)'
      <4>1. Survived(e)
        BY <1>6, <3>2 DEF FrameInv, RingFrames
      <4> QED BY <1>5, <4>1 DEF Survived
    <3> QED BY <1>3, <3>1, <3>2
  <2>2. \A c, d \in Cpus : prog'[c] # Idle /\ prog'[c].sample = prog'[d].sample => c = d
    BY <1>5 DEF FrameInv, WalkFrames
  <2> QED BY <1>2, <1>5, <2>1, <2>2 DEF FrameInv, WalkFrames
<1>11. SameLevels
  <2>1. \A e : Away(e)' <=> Away(e)
    BY <1>2, <1>3 DEF Away
  <2> QED BY <1>5, <2>1, SameAway
<1> QED BY <1>7, <1>8, <1>9, <1>10, <1>11 DEF FrameInv

LEMMA DropReadersFrames ==
  ASSUME TypeOK, FrameInv, DropReaders, UNCHANGED samplerVars
  PROVE  FrameInv' /\ SameLevels
<1>1. /\ UNCHANGED <<head, at, lua, taken, prog>>
      /\ pc \in {"drop_native", "drop_lua"} /\ pc' # "done"
  BY DEF DropReaders, loopVars, pendingVars, samplerVars
<1>2. CASE pc = "drop_lua" /\ Drop("lua_events_out")
  BY <1>1, <1>2, DropFrames
<1>3. CASE pc = "drop_native" /\ Drop("native_events")
  <2>1. "lua_events_out" \in Buffers /\ ring'["lua_events_out"] = ring["lua_events_out"]
    BY <1>3 DEF Drop, TypeOK, RingTypeOK, Buffers
  <2>2. \A e \in LuaEvent : e \in lost' <=> e \in lost
    <3>1. \A c \in Cpus : \A i \in DOMAIN ring["native_events"][c] :
            ring["native_events"][c][i] \in NativeEvent
      BY DEF TypeOK, RingTypeOK, Buffers, Event
    <3> QED BY <1>3, <3>1, EventsDiffer DEF Drop
  <2>3. \A c \in Cpus : Frames(c)' = Frames(c)
    BY <1>1, <2>1, NotReading, UnreadSame DEF Frames
  <2> QED BY <1>1, <2>2, <2>3, QuietFrames
<1> QED BY <1>2, <1>3 DEF DropReaders

(* Folding takes frames out of Pending::lua.                               *)
LEMMA FinalizeFrames ==
  ASSUME TypeOK, FrameInv, Finalize, UNCHANGED samplerVars
  PROVE  FrameInv' /\ SameLevels
<1>1. /\ lua' = [k \in DOMAIN lua \ DOMAIN native |-> lua[k]] /\ pc = "finalize" /\ pc' = "done"
      /\ UNCHANGED <<ring, lost, head>>
  BY DEF Finalize, ringVars, loopVars
<1>2. "lua_events_out" \in Buffers
  BY DEF Buffers
<1>3. \A c \in Cpus : Frames(c)' = Frames(c)
  BY <1>1, <1>2, NotReading, UnreadSame DEF Frames
<1>4. \A c \in Cpus : \A i, e : InRing(c, i, e)' <=> InRing(c, i, e)
  BY <1>3, SamePlaces
<1>5. \A k, i, e : Handled(k, i, e)' => Handled(k, i, e)
  BY <1>1 DEF Handled
<1>6. /\ UNCHANGED <<taken, prog>> /\ Samples' = Samples
      /\ \A s \in Samples : Emitted(s)' = Emitted(s)
      /\ \A e : Survived(e)' <=> Survived(e)
  BY <1>1, MainSurvivors
<1>7. RingFrames'
  BY <1>4, <1>6 DEF FrameInv, RingFrames
<1>8. MapFrames'
  BY <1>4, <1>5, <1>6 DEF FrameInv, MapFrames
<1>9. CoverFrames'
  BY <1>1 DEF CoverFrames
<1>10. WalkFrames'
  <2>1. \A e \in lost' \cap LuaEvent : e.sample \in Samples /\ e.level \in Emitted(e.sample)'
    BY <1>1, <1>6 DEF FrameInv, WalkFrames
  <2>2. \A c, d \in Cpus : prog'[c] # Idle /\ prog'[c].sample = prog'[d].sample => c = d
    BY <1>6 DEF FrameInv, WalkFrames
  <2>3. \A c, d \in Cpus, i \in Nat, e \in LuaEvent :
          prog'[c] # Idle /\ InRing(d, i, e)' /\ e.sample = prog'[c].sample => c = d
    BY <1>4, <1>6 DEF FrameInv, WalkFrames
  <2> QED BY <1>6, <2>1, <2>2, <2>3 DEF FrameInv, WalkFrames
<1>11. SameLevels
  <2>1. \A e : Away(e)' <=> Away(e)
    BY <1>1, <1>4 DEF Away
  <2> QED BY <1>6, <2>1, SameAway
<1> QED BY <1>7, <1>8, <1>9, <1>10, <1>11 DEF FrameInv

LEMMA StartReadFrames ==
  ASSUME TypeOK, FrameInv, NEW b \in Buffers, NEW c \in Cpus, StartRead(b, c), UNCHANGED samplerVars
  PROVE  FrameInv' /\ SameLevels
<1>1. UNCHANGED <<lost, pc, lua, taken, prog>>
  BY DEF StartRead, ringVars, pendingVars, samplerVars
<1>2. \A d \in Cpus : Frames(d)' = Frames(d)
  BY UnreadStart DEF Frames, Buffers
<1> QED BY <1>1, <1>2, QuietFrames

LEMMA LoopStepFrames ==
  ASSUME TypeOK, FrameInv, UNCHANGED samplerVars, LoopStep
  PROVE  FrameInv' /\ SameLevels
<1>1. UNCHANGED <<lost, lua, taken, prog>> /\ pc # "done"
  BY LoopStepKeeps
<1>2. \A c \in Cpus : Frames(c)' = Frames(c)
  BY LoopStepKeeps DEF Frames, Buffers
<1> QED BY <1>1, <1>2, QuietFrames

LEMMA FrameInit == Init => FrameInv
<1> SUFFICES ASSUME Init PROVE FrameInv
  OBVIOUS
<1>1. Samples = {} /\ \A c \in Cpus : prog[c] = Idle
  BY DEF Init, SamplerInit, Samples
<1>2. \A c \in Cpus : \A i, e : ~InRing(c, i, e)
  <2> SUFFICES ASSUME NEW c \in Cpus PROVE DOMAIN Frames(c) = {}
    BY DEF InRing
  <2>1. pc = "build_native" /\ ring["lua_events_out"][c] = <<>>
    BY DEF Init, RingInit, AggregatorInit, Buffers
  <2>2. pc # ReadStep["lua_events_out"]
    BY <2>1 DEF ReadStep
  <2>3. Frames(c) = <<>>
    BY <2>1, <2>2 DEF Frames, Unread
  <2> QED BY <2>3
<1>3. DOMAIN lua = {} /\ lost = {}
  BY EmptyMapType DEF Init, RingInit, AggregatorInit
<1>4. \A k, i, e : ~Handled(k, i, e)
  BY <1>3 DEF Handled
<1> QED BY <1>1, <1>2, <1>3, <1>4 DEF FrameInv, RingFrames, MapFrames, CoverFrames, WalkFrames

LEMMA FrameStep == TypeOK /\ FrameInv /\ [Next]_vars => FrameInv'
<1> SUFFICES ASSUME TypeOK, FrameInv, [Next]_vars PROVE FrameInv'
  OBVIOUS
<1>1. CASE UNCHANGED vars
  <2>1. UNCHANGED <<ring, lost, pc, head, at, lua, taken, prog>>
    BY <1>1 DEF vars, ringVars, samplerVars, aggregatorVars, loopVars, pendingVars
  <2>2. \A c \in Cpus : Frames(c)' = Frames(c)
    BY <2>1, UnreadSame DEF Frames, Buffers
  <2> QED BY <2>1, <2>2, QuietFrames
<1>2. CASE Sampling
  <2>1. UNCHANGED aggregatorVars /\ SamplerNext
    BY <1>2 DEF Sampling
  <2>2. CASE \E c \in Cpus, t \in Tids : TakeSample(c, t)
    BY <2>1, <2>2, TakeFrames
  <2>3. CASE \E c \in Cpus : EmitLua(c)
    BY <2>1, <2>3, EmitFrames
  <2> QED BY <2>1, <2>2, <2>3 DEF SamplerNext
<1>3. CASE AggregatorNext /\ UNCHANGED samplerVars
  <2>1. CASE LoopStep
    BY <1>3, <2>1, LoopStepFrames
  <2>2. CASE \E b \in Buffers, c \in Cpus : StartRead(b, c)
    BY <1>3, <2>2, StartReadFrames
  <2>3. CASE \E c \in Cpus : HandleNative(c)
    BY <1>3, <2>3, HandleNativeFrames
  <2>4. CASE \E c \in Cpus : HandleLua(c)
    BY <1>3, <2>4, HandleFrames
  <2>5. CASE DropReaders
    BY <1>3, <2>5, DropReadersFrames
  <2>6. CASE Finalize
    BY <1>3, <2>6, FinalizeFrames
  <2> QED BY <1>3, <2>1, <2>2, <2>3, <2>4, <2>5, <2>6 DEF AggregatorNext, MainStep, LoopStep
<1> QED BY <1>1, <1>2, <1>3 DEF Next

LEMMA FrameAlways == Spec => [](TypeOK /\ FrameInv)
<1>1. Init => TypeOK /\ NativeFinite /\ FrameInv
  BY TypeInit, FrameInit
<1>2. TypeOK /\ NativeFinite /\ FrameInv /\ [Next]_vars => (TypeOK /\ NativeFinite /\ FrameInv)'
  BY TypeStep, FrameStep
<1> QED BY <1>1, <1>2, PTL DEF Spec

-----------------------------------------------------------------------------
(* The Lua frames of a sample with its own key that were output and not    *)
(* lost are, in level order, those in Pending::lua and then those in one   *)
(* ring.                                                                   *)
THEOREM LuaAlwaysInOrder == Spec => []LuaInOrder
<1>1. TypeOK /\ FrameInv => LuaInOrder
  <2> SUFFICES ASSUME TypeOK, FrameInv, pc # "done", NEW s \in Samples, OwnKey(s)
               PROVE  LET handled == LuaOf(taken[s].key)
                      IN /\ \A i \in DOMAIN handled : handled[i].sample = s
                         /\ \E c \in Cpus :
                              LET stream == handled \o Unread("lua_events_out", c)
                                  own == {i \in DOMAIN stream : stream[i].sample = s}
                              IN /\ \A i, j \in own : i < j => stream[i].level < stream[j].level
                                 /\ {stream[i] : i \in own} = {LuaEventOf(s, l) : l \in Emitted(s)} \ lost
                                 /\ \A d \in Cpus \ {c} : \A i \in DOMAIN Unread("lua_events_out", d) :
                                      Unread("lua_events_out", d)[i].sample # s
    BY DEF LuaInOrder
  <2>1. PICK k, h : k = taken[s].key /\ h = LuaOf(k)
    OBVIOUS
  <2>2. k \in Keys
    <3>1. taken[s] \in Sample
      BY DEF TypeOK, SamplerTypeOK, Samples
    <3> QED BY <2>1, <3>1 DEF Sample
  <2>3. h \in Seq(LuaEvent)
    BY <2>1, LuaType DEF LuaOf
  <2>4. \A i, e : Handled(k, i, e) <=> i \in DOMAIN h /\ h[i] = e
    <3>1. k \notin DOMAIN lua => DOMAIN h = {}
      <4>1. k \notin DOMAIN lua => h = <<>>
        BY <2>1 DEF LuaOf
      <4> QED BY <4>1
    <3>2. k \in DOMAIN lua => h = lua[k]
      BY <2>1 DEF LuaOf
    <3> QED BY <3>1, <3>2 DEF Handled
  <2>5. \A i \in DOMAIN h : i \in Nat /\ i > 0 /\ h[i] \in LuaEvent /\ h[i].sample = s /\ Survived(h[i])
    <3> SUFFICES ASSUME NEW i \in DOMAIN h
                 PROVE  i \in Nat /\ i > 0 /\ h[i] \in LuaEvent /\ h[i].sample = s /\ Survived(h[i])
      OBVIOUS
    <3>1. i \in Nat /\ i > 0 /\ h[i] \in LuaEvent
      BY <2>3
    <3>2. Survived(h[i]) /\ h[i].key = k
      BY <2>2, <2>4, <3>1 DEF FrameInv, MapFrames
    <3>3. h[i].sample \in Samples /\ taken[h[i].sample].key = k
      <4>1. h[i].sample \in Samples /\ h[i] = LuaEventOf(h[i].sample, h[i].level)
        BY <3>2 DEF Survived
      <4>2. h[i].key = taken[h[i].sample].key
        BY <4>1 DEF LuaEventOf
      <4> QED BY <3>2, <4>1, <4>2
    <3>4. h[i].sample = s
      BY <2>1, <3>3 DEF OwnKey
    <3> QED BY <3>1, <3>2, <3>4
  (* The ring with frames of s, if there is one.                           *)
  <2>6. PICK c \in Cpus : \A d \in Cpus \ {c} : \A i \in DOMAIN Frames(d) : Frames(d)[i].sample # s
    <3>1. CASE \E d \in Cpus : \E i \in DOMAIN Frames(d) : Frames(d)[i].sample = s
      <4>1. PICK d \in Cpus : \E i \in DOMAIN Frames(d) : Frames(d)[i].sample = s
        BY <3>1
      <4>2. ASSUME NEW f \in Cpus \ {d}, NEW j \in DOMAIN Frames(f), Frames(f)[j].sample = s
            PROVE  FALSE
        <5>1. PICK i \in DOMAIN Frames(d) : Frames(d)[i].sample = s
          BY <4>1
        <5>2. InRing(d, i, Frames(d)[i]) /\ InRing(f, j, Frames(f)[j])
          BY DEF InRing
        <5>3. i \in Nat /\ j \in Nat /\ Frames(d)[i] \in LuaEvent /\ Frames(f)[j] \in LuaEvent
          BY <5>2, FramesType
        <5> QED BY <4>2, <5>1, <5>2, <5>3 DEF FrameInv, RingFrames
      <4> QED BY <4>2
    <3>2. CASE ~\E d \in Cpus : \E i \in DOMAIN Frames(d) : Frames(d)[i].sample = s
      <4>1. Cpus # {}
        BY DEF FrameInv, WalkFrames
      <4> QED BY <3>2, <4>1
    <3> QED BY <3>1, <3>2
  <2>7. PICK q : q = Frames(c)
    OBVIOUS
  <2>8. q \in Seq(LuaEvent)
    BY <2>7, FramesType
  <2>9. \A i, e : InRing(c, i, e) <=> i \in DOMAIN q /\ q[i] = e
    BY <2>7 DEF InRing
  <2>10. \A i \in DOMAIN q : i \in Nat /\ i > 0 /\ q[i] \in LuaEvent /\ Survived(q[i])
    <3>1. \A i \in DOMAIN q : i \in Nat /\ i > 0 /\ q[i] \in LuaEvent
      BY <2>8
    <3> QED BY <2>9, <3>1 DEF FrameInv, RingFrames
  <2> DEFINE stream == h \o q
             own == {i \in DOMAIN stream : stream[i].sample = s}
  <2>11. /\ DOMAIN h = 1 .. Len(h) /\ DOMAIN q = 1 .. Len(q) /\ Len(h) \in Nat /\ Len(q) \in Nat
         /\ DOMAIN stream = 1 .. Len(h) + Len(q)
    BY <2>3, <2>8
  <2>12. ASSUME NEW i \in DOMAIN stream
         PROVE  \/ i \in DOMAIN h /\ stream[i] = h[i]
                \/ i > Len(h) /\ i - Len(h) \in DOMAIN q /\ stream[i] = q[i - Len(h)]
    BY <2>3, <2>8, <2>11
  <2>13. /\ \A i \in DOMAIN h : i \in DOMAIN stream /\ stream[i] = h[i]
         /\ \A i \in DOMAIN q : Len(h) + i \in DOMAIN stream /\ stream[Len(h) + i] = q[i]
    BY <2>3, <2>8, <2>11
  <2> HIDE DEF stream
  <2>14. ASSUME NEW i \in own, NEW j \in own, i < j
         PROVE  stream[i].level < stream[j].level
    <3>1. i \in DOMAIN stream /\ j \in DOMAIN stream /\ i \in Nat /\ j \in Nat
          /\ stream[i].sample = s /\ stream[j].sample = s
      BY <2>11
    <3>2. CASE i \in DOMAIN h /\ stream[i] = h[i] /\ j \in DOMAIN h /\ stream[j] = h[j]
      BY <2>2, <2>4, <2>5, <2>14, <3>1, <3>2 DEF FrameInv, MapFrames
    <3>3. CASE i \in DOMAIN h /\ stream[i] = h[i]
                 /\ j > Len(h) /\ j - Len(h) \in DOMAIN q /\ stream[j] = q[j - Len(h)]
      <4>1. /\ Handled(k, i, stream[i]) /\ InRing(c, j - Len(h), stream[j])
            /\ stream[i] \in LuaEvent /\ stream[j] \in LuaEvent /\ j - Len(h) \in Nat
        BY <2>4, <2>5, <2>9, <2>10, <3>3
      <4> QED BY <2>2, <3>1, <4>1 DEF FrameInv, MapFrames
    <3>4. CASE i > Len(h) /\ i - Len(h) \in DOMAIN q /\ stream[i] = q[i - Len(h)]
                 /\ j > Len(h) /\ j - Len(h) \in DOMAIN q /\ stream[j] = q[j - Len(h)]
      <4>1. /\ InRing(c, i - Len(h), stream[i]) /\ InRing(c, j - Len(h), stream[j])
            /\ stream[i] \in LuaEvent /\ stream[j] \in LuaEvent
            /\ i - Len(h) \in Nat /\ j - Len(h) \in Nat
        BY <2>9, <2>10, <3>4
      <4>2. i - Len(h) < j - Len(h)
        BY <2>11, <2>14, <3>1
      <4> QED BY <3>1, <4>1, <4>2 DEF FrameInv, RingFrames
    <3>5. ~(i > Len(h) /\ j \in DOMAIN h)
      BY <2>11, <2>14, <3>1
    <3> QED BY <2>12, <3>1, <3>2, <3>3, <3>4, <3>5
  <2>15. ASSUME NEW i \in own PROVE stream[i] \in {LuaEventOf(s, l) : l \in Emitted(s)} \ lost
    <3>1. Survived(stream[i]) /\ stream[i].sample = s
      BY <2>5, <2>10, <2>12
    <3> QED BY <3>1 DEF Survived
  <2>16. ASSUME NEW l \in Emitted(s), LuaEventOf(s, l) \notin lost
         PROVE  \E i \in own : stream[i] = LuaEventOf(s, l)
    <3>1. PICK e : e = LuaEventOf(s, l)
      OBVIOUS
    <3>2. e \in LuaEvent /\ e.sample = s /\ e.key = k
      BY <2>1, <3>1, LuaEventOfType, EmittedType
    <3>3. Found(e) /\ e \notin lost
      BY <2>16, <3>1 DEF FrameInv, CoverFrames
    <3>4. CASE \E i \in Nat : Handled(e.key, i, e)
      <4>1. PICK i : i \in DOMAIN h /\ h[i] = e
        BY <2>4, <3>2, <3>4
      <4>2. i \in own /\ stream[i] = e
        BY <2>13, <3>2, <4>1
      <4> QED BY <3>1, <4>2
    <3>5. CASE \E d \in Cpus, i \in Nat : InRing(d, i, e)
      <4>1. PICK d \in Cpus, i \in Nat : InRing(d, i, e)
        BY <3>5
      <4>2. d = c
        BY <2>6, <3>2, <4>1 DEF InRing
      <4>3. i \in DOMAIN q /\ q[i] = e
        BY <2>9, <4>1, <4>2
      <4>4. Len(h) + i \in own /\ stream[Len(h) + i] = e
        BY <2>13, <3>2, <4>3
      <4> QED BY <3>1, <4>4
    <3> QED BY <3>3, <3>4, <3>5 DEF Found
  <2>17. {stream[i] : i \in own} = {LuaEventOf(s, l) : l \in Emitted(s)} \ lost
    <3> HIDE DEF own
    <3> QED BY <2>15, <2>16
  <2>18. \A d \in Cpus \ {c} : \A i \in DOMAIN Unread("lua_events_out", d) :
           Unread("lua_events_out", d)[i].sample # s
    BY <2>6 DEF Frames
  <2>19. LuaOf(taken[s].key) = h /\ Unread("lua_events_out", c) = q
    BY <2>1, <2>7 DEF Frames
  <2>20. \A i, j \in own : i < j => stream[i].level < stream[j].level
    BY <2>14
  <2>21. LET all == LuaOf(taken[s].key) \o Unread("lua_events_out", c)
             ofS == {i \in DOMAIN all : all[i].sample = s}
         IN /\ \A i, j \in ofS : i < j => all[i].level < all[j].level
            /\ {all[i] : i \in ofS} = {LuaEventOf(s, l) : l \in Emitted(s)} \ lost
    BY <2>17, <2>19, <2>20 DEF stream
  <2> HIDE DEF own
  <2> QED BY <2>5, <2>18, <2>19, <2>21
<1> QED BY <1>1, FrameAlways, PTL

-----------------------------------------------------------------------------
(* What each step is to Arrivals.                                          *)
LEMMA SamplesAre ==
  ASSUME TypeOK
  PROVE  Samples = 1 .. Len(taken) /\ Len(taken) \in Nat
BY DEF Samples, TypeOK, SamplerTypeOK

LEMMA QuietArrival ==
  ASSUME UNCHANGED taken, ArrivedSamples' = ArrivedSamples, SameLevels,
         pc # "done", pc' # "done"
  PROVE  UNCHANGED Arrival!arrivalsVars
<1>1. Samples' = Samples
  BY DEF Samples
<1>2. ArrivedFrames' = ArrivedFrames
  BY <1>1 DEF ArrivedFrames, SameLevels
<1>3. (pc = "done")' <=> (pc = "done")
  OBVIOUS
<1> QED BY <1>2, <1>3 DEF Arrival!arrivalsVars

LEMMA TakeArrival ==
  ASSUME TypeOK, TypeOK', DeliveryInv, FrameInv, pc # "done", NEW c \in Cpus, NEW t \in Tids,
         TakeSample(c, t), UNCHANGED aggregatorVars
  PROVE  Arrival!ArrivalsNext
<1>1. /\ ArrivedSamples' = ArrivedSamples
      /\ SameLevels /\ \A s \in Samples' \ Samples : CountedLevels(s)' = {}
  BY TakeDelivery, TakeFrames
<1>2. PICK x : taken' = Append(taken, x)
  BY DEF TakeSample
<1>3. taken \in Seq(Sample) /\ taken' \in Seq(Sample) /\ Len(taken) \in Nat
  BY DEF TypeOK, SamplerTypeOK
<1>4. x \in Sample /\ Len(taken') = Len(taken) + 1
  <2>1. Len(taken') = Len(taken) + 1 /\ taken'[Len(taken) + 1] = x
    BY <1>2, <1>3
  <2> QED BY <1>3, <2>1
<1>5. Samples = 1 .. Len(taken) /\ Samples' = 1 .. Len(taken) + 1
  BY <1>3, <1>4 DEF Samples
<1>6. PICK f : f = ArrivedFrames
  OBVIOUS
<1>7. f \in Seq(SUBSET Nat) /\ Len(f) = Len(taken)
  <2>1. \A s \in Samples : CountedLevels(s) \in SUBSET Nat
    BY EmittedType DEF CountedLevels
  <2>2. f \in [1 .. Len(taken) -> SUBSET Nat]
    BY <1>5, <1>6, <2>1 DEF ArrivedFrames
  <2> QED BY <1>3, <2>2
<1>8. ArrivedFrames' = Append(f, {})
  <2>1. ArrivedFrames' = [s \in 1 .. Len(taken) + 1 |-> CountedLevels(s)']
    BY <1>5 DEF ArrivedFrames
  <2>2. \A s \in 1 .. Len(taken) : CountedLevels(s)' = f[s]
    BY <1>1, <1>5, <1>6 DEF SameLevels, ArrivedFrames
  <2>3. PICK n \in Nat : n = Len(taken)
    BY <1>3
  <2>4. n + 1 \in Samples' \ Samples
    BY <1>5, <2>3
  <2>5. ArrivedFrames' = [s \in 1 .. n + 1 |-> IF s = n + 1 THEN {} ELSE f[s]]
    BY <1>1, <2>1, <2>2, <2>3, <2>4
  <2> DEFINE g == [s \in 1 .. n + 1 |-> IF s = n + 1 THEN {} ELSE f[s]]
  <2>6. g \in Seq(SUBSET Nat) /\ Len(g) = n + 1
    <3>1. g \in [1 .. n + 1 -> SUBSET Nat]
      BY <1>7, <2>3
    <3> HIDE DEF g
    <3> QED BY <2>3, <3>1
  <2>7. Append(f, {}) \in Seq(SUBSET Nat) /\ Len(Append(f, {})) = n + 1
    BY <1>7, <2>3
  <2>8. \A i \in 1 .. n + 1 : g[i] = Append(f, {})[i]
    BY <1>7, <2>3
  <2>9. g = Append(f, {})
    <3> HIDE DEF g
    <3> QED BY <2>6, <2>7, <2>8, SeqEqual
  <2> QED BY <2>5, <2>9
<1>9. Arrival!TakeSample
  BY <1>1, <1>2, <1>4, <1>6, <1>8 DEF Arrival!TakeSample, aggregatorVars
<1> QED BY <1>9 DEF Arrival!ArrivalsNext

LEMMA HandleNativeArrival ==
  ASSUME TypeOK, DeliveryInv, FrameInv, NEW c \in Cpus, HandleNative(c), UNCHANGED samplerVars
  PROVE  Arrival!ArrivalsNext
<1>1. PICK s \in Samples \ ArrivedSamples : ArrivedSamples' = ArrivedSamples \cup {s}
  <2>1. \E s \in Samples \ ArrivedSamples : ArrivedSamples' = ArrivedSamples \cup {s}
    BY HandleDelivery
  <2> QED BY <2>1
<1>2. SameLevels /\ UNCHANGED taken /\ pc = "read_native" /\ pc' = pc
  BY HandleNativeFrames DEF samplerVars, HandleNative, Advance
<1>3. ArrivedFrames' = ArrivedFrames
  BY <1>2 DEF ArrivedFrames, SameLevels, Samples
<1>4. Arrival!NativeArrives(s)
  BY <1>1, <1>2, <1>3 DEF Arrival!NativeArrives
<1> QED BY <1>1, <1>2, <1>4 DEF Arrival!ArrivalsNext, Samples

LEMMA HandleLuaArrival ==
  ASSUME TypeOK, DeliveryInv, FrameInv, NEW c \in Cpus, HandleLua(c), UNCHANGED samplerVars
  PROVE  Arrival!ArrivalsNext
<1>1. PICK s \in Samples : \E l \in Emitted(s) :
        /\ \A m \in CountedLevels(s) : m < l
        /\ CountedLevels(s)' = CountedLevels(s) \cup {l}
        /\ \A r \in Samples \ {s} : CountedLevels(r)' = CountedLevels(r)
  BY HandleFrames
<1>2. PICK l \in Emitted(s) :
        /\ \A m \in CountedLevels(s) : m < l
        /\ CountedLevels(s)' = CountedLevels(s) \cup {l}
        /\ \A r \in Samples \ {s} : CountedLevels(r)' = CountedLevels(r)
  BY <1>1
<1>3. ArrivedSamples' = ArrivedSamples /\ UNCHANGED taken /\ pc = "read_lua" /\ pc' = pc
  BY HandleLuaDelivery DEF samplerVars, HandleLua, Advance
<1>4. ArrivedFrames' = [ArrivedFrames EXCEPT ![s] = @ \cup {l}]
  BY <1>1, <1>2, <1>3 DEF ArrivedFrames, Samples
<1>5. \A m \in ArrivedFrames[s] : m < l
  BY <1>1, <1>2 DEF ArrivedFrames
<1>6. Arrival!FrameArrives(s, l)
  BY <1>3, <1>4, <1>5 DEF Arrival!FrameArrives
<1>7. l \in 0 .. taken[s].frames - 1 /\ s \in DOMAIN taken
  BY <1>1, <1>2 DEF Emitted, Samples
<1> QED BY <1>3, <1>6, <1>7 DEF Arrival!ArrivalsNext

LEMMA FinalizeArrival ==
  ASSUME TypeOK, DeliveryInv, FrameInv, Finalize, UNCHANGED samplerVars
  PROVE  Arrival!ArrivalsNext
<1>1. SameLevels /\ ArrivedSamples' = ArrivedSamples
  BY FinalizeFrames, FinalizeDelivery
<1>2. UNCHANGED taken /\ pc = "finalize" /\ pc' = "done"
  BY DEF samplerVars, Finalize
<1>3. ArrivedFrames' = ArrivedFrames
  BY <1>1, <1>2 DEF ArrivedFrames, SameLevels, Samples
<1>4. Arrival!Write
  BY <1>1, <1>2, <1>3 DEF Arrival!Write
<1> QED BY <1>2, <1>4 DEF Arrival!ArrivalsNext

LEMMA ArrivalStep ==
  TypeOK /\ TypeOK' /\ DeliveryInv /\ FrameInv /\ [Next]_vars
    => [Arrival!ArrivalsNext]_(Arrival!arrivalsVars)
<1> SUFFICES ASSUME TypeOK, TypeOK', DeliveryInv, FrameInv, [Next]_vars
             PROVE  [Arrival!ArrivalsNext]_(Arrival!arrivalsVars)
  OBVIOUS
<1>1. CASE UNCHANGED vars
  <2>1. UNCHANGED <<ring, lost, pc, head, at, prog, taken>>
    BY <1>1 DEF vars, ringVars, samplerVars, aggregatorVars, loopVars, pendingVars
  <2>2. ArrivedSamples' = ArrivedSamples
    BY <2>1 DEF ArrivedSamples, Samples, Counted, NativeEventOf, IsUnread, Unread, Reading
  <2>3. ArrivedFrames' = ArrivedFrames
    BY <2>1 DEF ArrivedFrames, Samples, CountedLevels, Emitted, LuaEventOf, IsUnread, Unread, Reading
  <2> QED BY <2>1, <2>2, <2>3 DEF Arrival!arrivalsVars
<1>2. CASE Sampling
  <2>1. UNCHANGED aggregatorVars /\ pc # "done" /\ SamplerNext
    BY <1>2 DEF Sampling
  <2>2. CASE \E c \in Cpus, t \in Tids : TakeSample(c, t)
    BY <2>1, <2>2, TakeArrival
  <2>3. CASE \E c \in Cpus : EmitLua(c)
    <3>1. ArrivedSamples' = ArrivedSamples /\ SameLevels /\ UNCHANGED taken /\ pc' # "done"
      BY <2>1, <2>3, EmitDelivery, EmitFrames DEF EmitLua, aggregatorVars
    <3> QED BY <2>1, <3>1, QuietArrival
  <2> QED BY <2>1, <2>2, <2>3 DEF SamplerNext
<1>3. CASE AggregatorNext /\ UNCHANGED samplerVars
  <2>1. CASE LoopStep
    <3>1. ArrivedSamples' = ArrivedSamples /\ SameLevels /\ UNCHANGED taken
      BY <1>3, <2>1, LoopStepDelivery, LoopStepFrames DEF samplerVars
    <3>2. pc # "done" /\ pc' # "done"
      BY <2>1 DEF LoopStep, BuildReaders, Loop, LoopHead, Elapsed, Interrupt, Deadline, LoopSteps,
                  Poll, EndRead, PollStep, ReadStep, StepAfter, Buffers
    <3> QED BY <3>1, <3>2, QuietArrival
  <2>2. CASE \E b \in Buffers, c \in Cpus : StartRead(b, c)
    <3>1. ArrivedSamples' = ArrivedSamples /\ SameLevels /\ UNCHANGED taken
      BY <1>3, <2>2, StartReadDelivery, StartReadFrames DEF samplerVars
    <3>2. pc # "done" /\ pc' # "done"
      BY <2>2 DEF StartRead, ReadStep, Buffers
    <3> QED BY <3>1, <3>2, QuietArrival
  <2>3. CASE \E c \in Cpus : HandleNative(c)
    BY <1>3, <2>3, HandleNativeArrival
  <2>4. CASE \E c \in Cpus : HandleLua(c)
    BY <1>3, <2>4, HandleLuaArrival
  <2>5. CASE DropReaders
    <3>1. ArrivedSamples' = ArrivedSamples /\ SameLevels /\ UNCHANGED taken
      BY <1>3, <2>5, DropReadersDelivery, DropReadersFrames DEF samplerVars
    <3>2. pc # "done" /\ pc' # "done"
      BY <2>5 DEF DropReaders
    <3> QED BY <3>1, <3>2, QuietArrival
  <2>6. CASE Finalize
    BY <1>3, <2>6, FinalizeArrival
  <2> QED BY <1>3, <2>1, <2>2, <2>3, <2>4, <2>5, <2>6 DEF AggregatorNext, MainStep, LoopStep
<1> QED BY <1>1, <1>2, <1>3 DEF Next

(* The pipeline implements Arrivals: whatever becomes of keys, each part   *)
(* of a sample reaches main at most once, its frames in the order of the   *)
(* walk, none after the profile is written, and none goes back.            *)
THEOREM ArrivalsImplemented == Spec => ImplementsArrivals
<1>1. Init => Arrival!ArrivalsInit
  <2> SUFFICES ASSUME Init PROVE Arrival!ArrivalsInit
    OBVIOUS
  <2>1. taken = <<>> /\ pc # "done"
    BY DEF Init, SamplerInit, AggregatorInit
  <2>2. Samples = {}
    BY <2>1 DEF Samples
  <2>3. ArrivedSamples = {} /\ ArrivedFrames = <<>>
    BY <2>2 DEF ArrivedSamples, ArrivedFrames
  <2> QED BY <2>1, <2>3 DEF Arrival!ArrivalsInit
<1>2. Spec => [](TypeOK /\ DeliveryInv /\ FrameInv)
  BY DeliveryAlways, FrameAlways, PTL
<1> QED BY <1>1, <1>2, ArrivalStep, PTL DEF Spec, ImplementsArrivals, Arrival!ArrivalsSpec
=============================================================================
