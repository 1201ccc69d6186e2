-------------------------- MODULE CorrelationProofs --------------------------
(***************************************************************************)
(* What is written is the promised histogram, and the pipeline implements  *)
(* Correlation, for any samples, addresses, symbols and schedules. The     *)
(* first part is about one stack: build_stack, a loop over the addresses   *)
(* that takes Lua frames from the front of a list, gives each address and  *)
(* each frame the place that StackOf defines directly. The second is about *)
(* finalize: the keys it goes through are those of the arrived samples,    *)
(* each with the addresses and the frames of its own sample.               *)
(***************************************************************************)
EXTENDS ArrivalProofs

(* The promise has its own copies of the list operators.                   *)
LEMMA PromisedCardinality ==
  ASSUME NEW S
  PROVE  Promise!Cardinality(S) = Cardinality(S)
BY DEF Promise!Cardinality, Cardinality

LEMMA PromisedRanked ==
  ASSUME NEW S
  PROVE  Promise!Ranked(S, >) = Ranked(S, >)
BY DEF Promise!Ranked, Ranked, Promise!Cardinality, Cardinality

LEMMA PromisedConcat ==
  ASSUME NEW ss
  PROVE  Promise!Concat(ss) = Concat(ss)
BY DEF Promise!Concat, Concat

(* Different elements with different images are as many as their images.   *)
LEMMA SameCount ==
  ASSUME NEW S, IsFiniteSet(S), NEW f, S \subseteq DOMAIN f,
         \A x, y \in S : f[x] = f[y] => x = y
  PROVE  /\ IsFiniteSet({f[x] : x \in S})
         /\ Cardinality({f[x] : x \in S}) = Cardinality(S)
<1> DEFINE T == {f[x] : x \in S}
           g == [x \in S |-> f[x]]
<1>1. g \in Injection(S, T)
  <2>1. g \in [S -> T] /\ \A x, y \in S : g[x] = g[y] => x = y
    OBVIOUS
  <2> QED BY <2>1 DEF Injection, IsInjective
<1>2. g \in Surjection(S, T)
  BY DEF Surjection
<1>3. ExistsBijection(S, T)
  BY <1>1, <1>2 DEF ExistsBijection, Bijection
<1> HIDE DEF T
<1> QED BY <1>3, FS_Bijection DEF T

-----------------------------------------------------------------------------
(* The levels of the Lua frames that finalize finds ascend.                *)
Ascending(s) ==
  /\ s \in Seq(Nat)
  /\ \A i, j \in DOMAIN s : i < j => s[i] < s[j]

LevelSet(s) == {s[i] : i \in DOMAIN s}

(* From the outermost: the last first.                                     *)
Backwards(s) == [n \in 1 .. Len(s) |-> s[Len(s) + 1 - n]]

LEMMA RankedLevels ==
  ASSUME NEW s, Ascending(s)
  PROVE  Ranked(LevelSet(s), >) = Backwards(s)
<1> DEFINE k == Len(s)
           L == LevelSet(s)
           Above(x) == {y \in L : y > x}
<1>1. k \in Nat /\ DOMAIN s = 1 .. k /\ s \in [1 .. k -> Nat]
  BY DEF Ascending
<1>2. \A i, j \in 1 .. k : s[i] = s[j] => i = j
  BY <1>1 DEF Ascending
<1>3. \A i, j \in 1 .. k : s[j] > s[i] <=> j > i
  BY <1>1 DEF Ascending
<1> HIDE DEF k
<1>4. Cardinality(L) = k
  <2>1. IsFiniteSet(1 .. k) /\ Cardinality(1 .. k) = k
    BY <1>1, FS_Interval
  <2> QED BY <1>1, <1>2, <2>1, SameCount DEF LevelSet
<1>5. ASSUME NEW i \in 1 .. k
      PROVE  Cardinality(Above(s[i])) = k - i
  <2>1. IsFiniteSet(i + 1 .. k) /\ Cardinality(i + 1 .. k) = k - i
    BY <1>1, FS_Interval
  <2>2. i + 1 .. k \subseteq 1 .. k
    OBVIOUS
  <2>3. Above(s[i]) = {s[j] : j \in i + 1 .. k}
    BY <1>1, <1>3, <2>2 DEF LevelSet
  <2>4. Cardinality({s[j] : j \in i + 1 .. k}) = Cardinality(i + 1 .. k)
    BY <1>1, <1>2, <2>1, <2>2, SameCount
  <2> QED BY <2>1, <2>3, <2>4
<1>6. ASSUME NEW n \in 1 .. k
      PROVE  (CHOOSE x \in L : Cardinality(Above(x)) = n - 1) = s[k + 1 - n]
  <2>1. k + 1 - n \in 1 .. k
    BY <1>1
  <2>2. s[k + 1 - n] \in L /\ Cardinality(Above(s[k + 1 - n])) = n - 1
    <3>1. Cardinality(Above(s[k + 1 - n])) = k - (k + 1 - n)
      BY <1>5, <2>1
    <3>2. k - (k + 1 - n) = n - 1
      BY <1>1
    <3> QED BY <1>1, <2>1, <3>1, <3>2 DEF LevelSet
  <2>3. ASSUME NEW x \in L, Cardinality(Above(x)) = n - 1
        PROVE  x = s[k + 1 - n]
    <3>1. PICK i \in 1 .. k : x = s[i]
      BY <1>1 DEF LevelSet
    <3>2. k - i = n - 1
      BY <1>5, <2>3, <3>1
    <3>3. i = k + 1 - n
      BY <1>1, <3>2
    <3> QED BY <3>1, <3>3
  <2> HIDE DEF Above, L
  <2> QED BY <2>2, <2>3
<1>7. Ranked(L, >) = [n \in 1 .. k |-> CHOOSE x \in L : Cardinality(Above(x)) = n - 1]
  BY <1>4 DEF Ranked
<1> QED BY <1>6, <1>7 DEF Backwards, k

(* The stable sort by level turns them round.                              *)
LEMMA OutermostLevels ==
  ASSUME NEW s, Ascending(s)
  PROVE  Outermost(s) = Backwards(s)
<1> DEFINE k == Len(s)
           Before(i, j) == s[i] > s[j] \/ (s[i] = s[j] /\ i < j)
           Ahead(j) == {i \in DOMAIN s : Before(i, j)}
<1>1. k \in Nat /\ DOMAIN s = 1 .. k /\ s \in [1 .. k -> Nat]
  BY DEF Ascending
<1>2. \A i, j \in 1 .. k : Before(i, j) <=> i > j
  BY <1>1 DEF Ascending
<1> HIDE DEF k
<1>3. Cardinality(DOMAIN s) = k
  BY <1>1, FS_Interval
<1>4. ASSUME NEW j \in 1 .. k
      PROVE  Cardinality(Ahead(j)) = k - j
  <2>1. Ahead(j) = j + 1 .. k
    <3> HIDE DEF Before
    <3> QED BY <1>1, <1>2
  <2>2. Cardinality(j + 1 .. k) = k - j
    BY <1>1, FS_Interval
  <2> QED BY <2>1, <2>2
<1>5. ASSUME NEW n \in 1 .. k
      PROVE  (CHOOSE x \in DOMAIN s : Cardinality(Ahead(x)) = n - 1) = k + 1 - n
  <2>1. k + 1 - n \in DOMAIN s /\ Cardinality(Ahead(k + 1 - n)) = n - 1
    BY <1>1, <1>4
  <2>2. ASSUME NEW x \in DOMAIN s, Cardinality(Ahead(x)) = n - 1
        PROVE  x = k + 1 - n
    <3>1. k - x = n - 1 /\ x \in 1 .. k
      BY <1>1, <1>4, <2>2
    <3> QED BY <1>1, <3>1
  <2> HIDE DEF Ahead
  <2> QED BY <2>1, <2>2
<1> DEFINE order == [n \in 1 .. k |-> CHOOSE x \in DOMAIN s : Cardinality(Ahead(x)) = n - 1]
<1>6. Outermost(s) = [i \in DOMAIN s |-> s[order[i]]]
  <2>1. Ranked(DOMAIN s, Before) = order
    BY <1>3, Zenon DEF Ranked
  <2> QED BY <2>1, Zenon DEF Outermost
<1>7. \A n \in 1 .. k : order[n] = k + 1 - n
  BY <1>5
<1> HIDE DEF order
<1> QED BY <1>1, <1>6, <1>7 DEF Backwards, k

-----------------------------------------------------------------------------
(* The loop over the addresses, step by step. Y has all values of frames.  *)
FoldStates(Y) == [frames : Seq(Y), lua : Seq(Nat)]

LEMMA FoldFrameType ==
  ASSUME NEW Y, Nat \subseteq Y, Unknown \in Y, NEW acc \in FoldStates(Y), NEW ip \in Y
  PROVE  FoldFrame(acc, ip) \in FoldStates(Y)
<1>1. acc.frames \in Seq(Y) /\ acc.lua \in Seq(Nat)
  BY DEF FoldStates
<1>2. CASE ip \in Named
  <2>1. FoldFrame(acc, ip) = [frames |-> Append(acc.frames, ip), lua |-> acc.lua]
    BY <1>2 DEF FoldFrame, FoldStates
  <2> QED BY <1>1, <2>1 DEF FoldStates
<1>3. CASE ip \notin Named /\ acc.lua = <<>>
  <2>1. FoldFrame(acc, ip) = [frames |-> Append(acc.frames, Unknown), lua |-> acc.lua]
    BY <1>3 DEF FoldFrame, FoldStates
  <2> QED BY <1>1, <2>1 DEF FoldStates
<1>4. CASE ip \notin Named /\ acc.lua # <<>>
  <2>1. FoldFrame(acc, ip) = [frames |-> acc.frames \o format_lua_frame(Head(acc.lua)),
                              lua |-> Tail(acc.lua)]
    BY <1>4 DEF FoldFrame
  <2>2. Head(acc.lua) \in Y /\ Tail(acc.lua) \in Seq(Nat)
    BY <1>1, <1>4
  <2>3. format_lua_frame(Head(acc.lua)) \in Seq(Y)
    BY <2>2 DEF format_lua_frame
  <2> QED BY <1>1, <2>1, <2>2, <2>3 DEF FoldStates
<1> QED BY <1>2, <1>3, <1>4

FoldsUp(acc, fs, s) ==
  /\ acc[0] = [frames |-> <<>>, lua |-> Backwards(s)]
  /\ \A n \in 0 .. Len(fs) - 1 : acc[n + 1] = FoldFrame(acc[n], fs[n + 1])
  /\ LET left == acc[Len(fs)].lua
     IN fold_symbolized_stack(fs, s) =
          acc[Len(fs)].frames \o Concat([i \in DOMAIN left |-> format_lua_frame(left[i])])

LEMMA FoldSteps ==
  ASSUME NEW Y, Nat \subseteq Y, Unknown \in Y, NEW fs \in Seq(Y), NEW s, Ascending(s)
  PROVE  \E acc \in [0 .. Len(fs) -> FoldStates(Y)] : FoldsUp(acc, fs, s)
<1> DEFINE N == Len(fs)
           A == FoldStates(Y)
           Folds(f) == f = [n \in 0 .. N |-> IF n = 0 THEN FoldStart(s) ELSE FoldFrame(f[n - 1], fs[n])]
           g == [p \in A \X Nat |-> IF p[2] \in 1 .. N THEN FoldFrame(p[1], fs[p[2]]) ELSE p[1]]
           acc == CHOOSE f : Folds(f)
<1>0. N \in Nat /\ \A n \in 1 .. N : fs[n] \in Y
  OBVIOUS
<1>1. FoldStart(s) = [frames |-> <<>>, lua |-> Backwards(s)]
  BY OutermostLevels DEF FoldStart
<1>2. FoldStart(s) \in A
  <2>1. Backwards(s) \in Seq(Nat)
    BY DEF Backwards, Ascending
  <2> QED BY <1>1, <2>1 DEF FoldStates
<1>3. g \in [A \X Nat -> A]
  <2>1. ASSUME NEW a \in A, NEW n \in Nat
        PROVE  (IF n \in 1 .. N THEN FoldFrame(a, fs[n]) ELSE a) \in A
    BY <1>0, FoldFrameType
  <2> HIDE DEF A
  <2> QED BY <2>1
<1>4. PICK f \in [0 .. N -> A] : Stepwise(f, N, FoldStart(s), g)
  <2>1. N \in Nat
    BY <1>0
  <2> HIDE DEF g, N, A
  <2> QED BY <1>2, <1>3, <2>1, StepwiseExists
<1> HIDE DEF A
<1>5. Folds(f)
  <2>1. ASSUME NEW n \in 0 .. N - 1
        PROVE  f[n + 1] = FoldFrame(f[n], fs[n + 1])
    <3>1. n \in 0 .. N /\ n + 1 \in Nat /\ n + 1 \in 1 .. N
      BY <1>0
    <3>2. f[n] \in A
      BY <3>1
    <3>3. g[<<f[n], n + 1>>] = FoldFrame(f[n], fs[n + 1])
      BY <3>1, <3>2
    <3> QED BY <1>4, <3>3 DEF Stepwise
  <2>2. ASSUME NEW n \in 0 .. N
        PROVE  f[n] = IF n = 0 THEN FoldStart(s) ELSE FoldFrame(f[n - 1], fs[n])
    <3>1. CASE n = 0
      BY <1>4, <3>1 DEF Stepwise
    <3>2. CASE n # 0
      <4>1. n - 1 \in 0 .. N - 1 /\ (n - 1) + 1 = n
        BY <1>0, <3>2
      <4> QED BY <2>1, <3>2, <4>1
    <3> QED BY <3>1, <3>2
  <2> QED BY <2>2
<1>6. Folds(acc)
  <2> HIDE DEF Folds
  <2> QED BY <1>5
<1>7. LET left == acc[Len(fs)].lua
      IN fold_symbolized_stack(fs, s) =
           acc[Len(fs)].frames \o Concat([i \in DOMAIN left |-> format_lua_frame(left[i])])
  BY DEF fold_symbolized_stack
<1>8. /\ acc[0] = FoldStart(s)
      /\ \A n \in 0 .. N - 1 : acc[n + 1] = FoldFrame(acc[n], fs[n + 1])
  <2> HIDE DEF acc
  <2>1. \A n \in 0 .. N : acc[n] = IF n = 0 THEN FoldStart(s) ELSE FoldFrame(acc[n - 1], fs[n])
    BY <1>6
  <2>2. acc[0] = FoldStart(s)
    BY <1>0, <2>1
  <2>3. ASSUME NEW n \in 0 .. N - 1
        PROVE  acc[n + 1] = FoldFrame(acc[n], fs[n + 1])
    <3>1. n + 1 \in 0 .. N /\ n + 1 # 0 /\ (n + 1) - 1 = n
      BY <1>0
    <3> QED BY <2>1, <3>1
  <2> QED BY <2>2, <2>3
<1>9. DOMAIN acc = 0 .. N /\ acc = [n \in 0 .. N |-> acc[n]]
  <2> HIDE DEF acc
  <2> QED BY <1>6
<1> HIDE DEF acc
<1>10. \A n \in 0 .. N : acc[n] \in A
  <2> DEFINE S == {n \in 0 .. N : acc[n] \in A}
  <2>1. 0 \in S
    BY <1>0, <1>2, <1>8
  <2>2. ASSUME NEW n \in 0 .. N - 1, n \in S PROVE n + 1 \in S
    <3>1. n + 1 \in 0 .. N /\ acc[n] \in A /\ fs[n + 1] \in Y
      BY <1>0, <2>2
    <3>2. FoldFrame(acc[n], fs[n + 1]) \in A
      BY <3>1, FoldFrameType DEF A
    <3> QED BY <1>8, <3>1, <3>2
  <2> HIDE DEF S
  <2>3. \A n \in 0 .. N : n \in S
    BY <1>0, <2>1, <2>2, CountUp
  <2> QED BY <2>3 DEF S
<1>11. acc \in [0 .. N -> A]
  BY <1>9, <1>10
<1> QED BY <1>1, <1>7, <1>8, <1>11 DEF A, FoldsUp

-----------------------------------------------------------------------------
(* a is what fs begins with.                                               *)
Begins(a, fs) == Len(a) \in 0 .. Len(fs) /\ \A i \in 1 .. Len(a) : a[i] = fs[i]

(* Each part of Concat is where the parts before it end.                   *)
LEMMA ConcatPrefix ==
  ASSUME NEW Y, NEW ss \in Seq(Seq(Y)), NEW m, m = Len(ss),
         NEW upto \in [0 .. m -> Seq(Y)], Concats(upto, ss), NEW fs, fs = upto[m]
  PROVE  \A n \in 0 .. m : Begins(upto[n], fs)
<1> DEFINE Good(n) == Begins(upto[n], fs)
           S == {d \in 0 .. m : Good(m - d)}
<1>0. m \in Nat
  OBVIOUS
<1>1. 0 \in S
  <2>1. m \in 0 .. m /\ m - 0 = m
    BY <1>0
  <2>2. fs \in Seq(Y) /\ fs = upto[m]
    BY <2>1
  <2>3. Good(m)
    BY <2>2 DEF Begins
  <2> QED BY <1>0, <2>1, <2>3
<1>2. ASSUME NEW d \in 0 .. m - 1, d \in S
      PROVE  d + 1 \in S
  <2>1. PICK n : n = m - d - 1
    OBVIOUS
  <2>2. n \in 0 .. m - 1 /\ n + 1 = m - d /\ n = m - (d + 1)
    BY <1>0, <2>1
  <2>3. Good(n + 1)
    BY <1>2, <2>2
  <2>4. n \in 0 .. m /\ n + 1 \in 1 .. m
    BY <1>0, <2>2
  <2>5. PICK a, b, c : a = upto[n] /\ b = ss[n + 1] /\ c = upto[n + 1]
    OBVIOUS
  <2>6. a \in Seq(Y) /\ b \in Seq(Y) /\ c = a \o b
    <3>1. upto[n + 1] = upto[n] \o ss[n + 1]
      BY <2>2 DEF Concats
    <3>2. upto[n] \in Seq(Y)
      BY <2>4
    <3>3. ss[n + 1] \in Seq(Y)
      BY <2>4
    <3> QED BY <2>5, <3>1, <3>2, <3>3
  <2>7. Good(n)
    <3>1. Len(a) \in Nat /\ Len(b) \in Nat /\ Len(c) = Len(a) + Len(b)
      BY <2>6
    <3>2. \A i \in 1 .. Len(a) : i \in 1 .. Len(c) /\ c[i] = a[i]
      BY <2>6, <3>1
    <3>3. fs \in Seq(Y)
      <4>1. m \in 0 .. m
        BY <1>0
      <4> QED BY <4>1
    <3>4. Begins(c, fs)
      BY <2>3, <2>5
    <3>5. Begins(a, fs)
      BY <3>1, <3>2, <3>3, <3>4 DEF Begins
    <3> QED BY <2>5, <3>5
  <2>8. d + 1 \in 0 .. m
    BY <1>0
  <2> QED BY <2>2, <2>7, <2>8
<1>3. \A d \in 0 .. m : d \in S
  <2> HIDE DEF S
  <2> QED BY <1>0, <1>1, <1>2, CountUp
<1>4. ASSUME NEW n \in 0 .. m
      PROVE  Good(n)
  <2>1. m - n \in 0 .. m /\ m - (m - n) = n
    BY <1>0
  <2>2. Good(m - (m - n))
    BY <1>3, <2>1
  <2> QED BY <2>1, <2>2
<1> QED BY <1>4

(* How many unresolved addresses there are among the n nearest the root.   *)
PlacesUp(used, ips, m) ==
  /\ used[0] = 0
  /\ used[m] = Cardinality(Promise!Unresolved(ips))
  /\ \A n \in 0 .. m - 1 :
       /\ m - n \notin Promise!Unresolved(ips) => used[n + 1] = used[n]
       /\ m - n \in Promise!Unresolved(ips) =>
            used[n + 1] = used[n] + 1 /\ Promise!Place(ips, m - n) = used[n + 1]

LEMMA PlaceSteps ==
  ASSUME NEW Y, NEW ips \in Seq(Y), NEW m, m = Len(ips)
  PROVE  \E used \in [0 .. m -> Nat] : PlacesUp(used, ips, m)
<1> DEFINE R == Promise!Unresolved(ips)
           From(a) == {j \in R : j >= a}
           used == [n \in 0 .. m |-> Cardinality(From(m + 1 - n))]
<1>1. m \in Nat /\ R \subseteq 1 .. m
  BY DEF Promise!Unresolved
<1>2. IsFiniteSet(R)
  <2>1. IsFiniteSet(1 .. m)
    BY <1>1, FS_Interval
  <2> HIDE DEF R
  <2> QED BY <1>1, <2>1, FS_Subset
<1>3. ASSUME NEW a
      PROVE  IsFiniteSet(From(a)) /\ Cardinality(From(a)) \in Nat
  <2>1. From(a) \in SUBSET R
    OBVIOUS
  <2>2. IsFiniteSet(From(a))
    <3> HIDE DEF From
    <3> QED BY <1>2, <2>1, FS_Subset
  <2> HIDE DEF From
  <2> QED BY <2>2, FS_CardinalityType
<1>4. used \in [0 .. m -> Nat]
  <2> HIDE DEF From
  <2> QED BY <1>3
<1> HIDE DEF R
<1>5. used[0] = 0
  <2>1. \A j \in R : ~(j >= m + 1 - 0)
    BY <1>1
  <2>2. From(m + 1 - 0) = {}
    BY <2>1
  <2>3. 0 \in 0 .. m
    BY <1>1
  <2> HIDE DEF From
  <2> QED BY <2>2, <2>3, FS_EmptySet
<1>6. used[m] = Cardinality(R)
  <2>1. \A j \in R : j >= m + 1 - m
    BY <1>1
  <2>2. From(m + 1 - m) = R
    BY <2>1
  <2>3. m \in 0 .. m
    BY <1>1
  <2> HIDE DEF From
  <2> QED BY <2>2, <2>3
<1>7. ASSUME NEW n \in 0 .. m - 1, m - n \notin R
      PROVE  used[n + 1] = used[n]
  <2>0. \A j \in R : j >= m + 1 - (n + 1) <=> j >= m + 1 - n
    BY <1>1, <1>7
  <2>1. From(m + 1 - (n + 1)) = From(m + 1 - n)
    BY <2>0
  <2>2. n \in 0 .. m /\ n + 1 \in 0 .. m
    BY <1>1
  <2> HIDE DEF From
  <2> QED BY <2>1, <2>2
<1>8. ASSUME NEW n \in 0 .. m - 1, m - n \in R
      PROVE  used[n + 1] = used[n] + 1 /\ Promise!Place(ips, m - n) = used[n + 1]
  <2>0. /\ \A j \in R : j >= m + 1 - (n + 1) <=> j >= m + 1 - n \/ j = m - n
        /\ ~(m - n >= m + 1 - n)
    BY <1>1, <1>8
  <2>1. From(m + 1 - (n + 1)) = From(m + 1 - n) \cup {m - n} /\ m - n \notin From(m + 1 - n)
    BY <1>8, <2>0
  <2>2. n \in 0 .. m /\ n + 1 \in 0 .. m /\ m + 1 - (n + 1) = m - n
    BY <1>1
  <2>3. Promise!Place(ips, m - n) = Cardinality(From(m - n))
    BY PromisedCardinality DEF Promise!Place, R
  <2> HIDE DEF From
  <2>4. Cardinality(From(m + 1 - n) \cup {m - n}) = Cardinality(From(m + 1 - n)) + 1
    BY <1>3, <2>1, FS_AddElement
  <2> QED BY <2>1, <2>2, <2>3, <2>4
<1> HIDE DEF used
<1> QED BY <1>4, <1>5, <1>6, <1>7, <1>8 DEF R, PlacesUp

(* The Lua frames left over when j have been used.                         *)
Rest(lua_sorted, j) ==
  [i \in 1 .. IF j < Len(lua_sorted) THEN Len(lua_sorted) - j ELSE 0 |-> lua_sorted[j + i]]

LEMMA RestFacts ==
  ASSUME NEW q \in Seq(Nat), NEW j \in Nat
  PROVE  /\ Rest(q, 0) = q
         /\ j >= Len(q) => Rest(q, j) = <<>>
         /\ j < Len(q) => /\ Rest(q, j) # <<>>
                          /\ Head(Rest(q, j)) = q[j + 1]
                          /\ Tail(Rest(q, j)) = Rest(q, j + 1)
<1>1. Len(q) \in Nat /\ q = [i \in 1 .. Len(q) |-> q[i]]
  OBVIOUS
<1>2. Rest(q, 0) = q
  BY <1>1 DEF Rest
<1>3. ASSUME j >= Len(q) PROVE Rest(q, j) = <<>>
  BY <1>1, <1>3 DEF Rest
<1>4. ASSUME j < Len(q)
      PROVE  /\ Rest(q, j) # <<>>
             /\ Head(Rest(q, j)) = q[j + 1]
             /\ Tail(Rest(q, j)) = Rest(q, j + 1)
  <2>1. PICK w : w = Len(q) - j
    OBVIOUS
  <2>2. w \in Nat /\ w > 0
    BY <1>1, <1>4, <2>1
  <2>3. Rest(q, j) = [i \in 1 .. w |-> q[j + i]]
    BY <1>4, <2>1 DEF Rest
  <2>4. Rest(q, j) \in Seq(Nat) /\ Len(Rest(q, j)) = w
    <3>1. \A i \in 1 .. w : q[j + i] \in Nat
      BY <1>1, <2>1, <2>2
    <3> QED BY <2>2, <2>3, <3>1
  <2>9. PICK r : r = Rest(q, j)
    OBVIOUS
  <2>10. r \in Seq(Nat) /\ Len(r) = w /\ r # <<>> /\ r[1] = q[j + 1]
    BY <2>2, <2>3, <2>4, <2>9
  <2>5. Rest(q, j) # <<>> /\ Head(Rest(q, j)) = q[j + 1]
    BY <2>9, <2>10
  <2>6. Tail(Rest(q, j)) = [i \in 1 .. w - 1 |-> q[j + (i + 1)]]
    <3>1. Tail(Rest(q, j)) = [i \in 1 .. Len(Rest(q, j)) - 1 |-> Rest(q, j)[i + 1]]
      <4>1. /\ Tail(r) \in Seq(Nat) /\ Len(Tail(r)) = Len(r) - 1
            /\ \A i \in 1 .. Len(r) - 1 : Tail(r)[i] = r[i + 1]
        BY <2>10, HeadTailProperties
      <4>2. PICK t : t = Tail(r)
        OBVIOUS
      <4>3. t = [i \in 1 .. Len(r) - 1 |-> r[i + 1]]
        <5>1. t \in Seq(Nat) /\ Len(t) = Len(r) - 1
          BY <4>1, <4>2
        <5>2. t = [i \in 1 .. Len(t) |-> t[i]]
          BY <5>1
        <5>3. \A i \in 1 .. Len(t) : t[i] = r[i + 1]
          BY <4>1, <4>2, <5>1
        <5> QED BY <5>1, <5>2, <5>3
      <4> QED BY <2>9, <4>2, <4>3
    <3>2. \A i \in 1 .. w - 1 : Rest(q, j)[i + 1] = q[j + (i + 1)]
      BY <2>2, <2>3
    <3> QED BY <2>4, <3>1, <3>2
  <2>7. Rest(q, j + 1) = [i \in 1 .. w - 1 |-> q[(j + 1) + i]]
    BY <1>1, <1>4, <2>1, <2>2 DEF Rest
  <2>8. \A i \in 1 .. w - 1 : j + (i + 1) = (j + 1) + i
    BY <2>2
  <2> QED BY <2>5, <2>6, <2>7, <2>8
<1> QED BY <1>2, <1>3, <1>4

-----------------------------------------------------------------------------
(* One address, the n + 1st from the root, to the loop and to the promise: *)
(* fs are the addresses the loop goes through, done how many of them the   *)
(* first n addresses are.                                                  *)
FoldedTo(acc, n, shown, q, used) == acc[n] = [frames |-> shown, lua |-> Rest(q, used)]

ComesNext(ip, fs, done) == NativeFrame(ip) # <<>> => done + 1 <= Len(fs) /\ fs[done + 1] = ip

LEMMA AddressStep ==
  ASSUME NEW Y, Nat \subseteq Y, Unknown \in Y, NEW ips \in Seq(Y), NEW i \in DOMAIN ips,
         NEW fs \in Seq(Y), NEW done \in 0 .. Len(fs),
         NEW q \in Seq(Nat), NEW used \in Nat,
         NEW acc, NEW s, FoldsUp(acc, fs, s),
         NEW shown \in Seq(Y), FoldedTo(acc, done, shown, q, used),
         ComesNext(ips[i], fs, done),
         i \in Promise!Unresolved(ips) => Promise!Place(ips, i) = used + 1
  PROVE  FoldedTo(acc, done + Len(NativeFrame(ips[i])), shown \o Promise!Shown(ips, q, i), q,
                  IF i \in Promise!Unresolved(ips) THEN used + 1 ELSE used)
<1>1. PICK ip : ip = ips[i]
  OBVIOUS
<1>2. ip \in Y /\ Len(fs) \in Nat /\ Len(q) \in Nat
  BY <1>1
<1>3. i \in Promise!Unresolved(ips) <=> IncludeNative /\ ip \notin Named /\ ip # NullIp
  BY <1>1 DEF Promise!Unresolved
<1>4. CASE ~IncludeNative \/ ip = NullIp
  <2>1. NativeFrame(ip) = <<>> /\ i \notin Promise!Unresolved(ips)
    BY <1>3, <1>4 DEF NativeFrame
  <2>2. Promise!Shown(ips, q, i) = <<>>
    BY <1>1, <1>4, <2>1, FoldAssumption DEF Promise!Shown
  <2>3. done + Len(NativeFrame(ip)) = done
    BY <2>1
  <2>4. shown \o <<>> = shown
    OBVIOUS
  <2> QED BY <1>1, <2>1, <2>2, <2>3, <2>4 DEF FoldedTo
<1>5. ASSUME IncludeNative, ip # NullIp
      PROVE  acc[done + Len(NativeFrame(ip))] = FoldFrame([frames |-> shown, lua |-> Rest(q, used)], ip)
  <2>1. NativeFrame(ip) = <<ip>>
    BY <1>5 DEF NativeFrame
  <2>2. Len(NativeFrame(ip)) = 1 /\ NativeFrame(ip) # <<>>
    BY <2>1
  <2>3. done \in 0 .. Len(fs) - 1 /\ fs[done + 1] = ip
    BY <1>1, <1>2, <2>2 DEF ComesNext
  <2> QED BY <2>2, <2>3 DEF FoldsUp, FoldedTo
<1>6. CASE IncludeNative /\ ip # NullIp /\ ip \in Named
  <2>1. Promise!Shown(ips, q, i) = <<ip>> /\ i \notin Promise!Unresolved(ips)
    BY <1>1, <1>3, <1>6 DEF Promise!Shown
  <2>2. FoldFrame([frames |-> shown, lua |-> Rest(q, used)], ip)
          = [frames |-> Append(shown, ip), lua |-> Rest(q, used)]
    BY <1>6 DEF FoldFrame
  <2>3. Append(shown, ip) = shown \o <<ip>>
    BY <1>2
  <2> QED BY <1>1, <1>5, <1>6, <2>1, <2>2, <2>3 DEF FoldedTo
<1>7. CASE i \in Promise!Unresolved(ips) /\ used >= Len(q)
  <2>1. Rest(q, used) = <<>> /\ Rest(q, used + 1) = <<>>
    BY <1>2, <1>7, RestFacts
  <2>2. Promise!Shown(ips, q, i) = <<Unknown>>
    <3>1. Promise!Place(ips, i) > Len(q) /\ ~(Promise!Place(ips, i) <= Len(q))
      BY <1>2, <1>7
    <3> QED BY <1>7, <3>1 DEF Promise!Shown
  <2>3. FoldFrame([frames |-> shown, lua |-> Rest(q, used)], ip)
          = [frames |-> Append(shown, Unknown), lua |-> Rest(q, used)]
    BY <1>3, <1>7, <2>1 DEF FoldFrame
  <2>4. Append(shown, Unknown) = shown \o <<Unknown>>
    OBVIOUS
  <2> QED BY <1>1, <1>3, <1>5, <1>7, <2>1, <2>2, <2>3, <2>4 DEF FoldedTo
<1>8. CASE i \in Promise!Unresolved(ips) /\ used < Len(q)
  <2>1. /\ Rest(q, used) # <<>> /\ Head(Rest(q, used)) = q[used + 1]
        /\ Tail(Rest(q, used)) = Rest(q, used + 1)
    BY <1>8, RestFacts
  <2>2. Promise!Shown(ips, q, i) = format_lua_frame(q[used + 1])
    <3>1. Promise!Place(ips, i) <= Len(q) /\ ~(Promise!Place(ips, i) > Len(q))
      BY <1>2, <1>8
    <3> QED BY <1>8, <3>1 DEF Promise!Shown, Promise!LuaFrame, format_lua_frame
  <2>3. FoldFrame([frames |-> shown, lua |-> Rest(q, used)], ip)
          = [frames |-> shown \o format_lua_frame(q[used + 1]), lua |-> Rest(q, used + 1)]
    BY <1>3, <1>8, <2>1 DEF FoldFrame
  <2> QED BY <1>1, <1>3, <1>5, <1>8, <2>2, <2>3 DEF FoldedTo
<1> QED BY <1>2, <1>3, <1>4, <1>6, <1>7, <1>8

(* The loop makes the stack the promise defines: the frames of ascending   *)
(* levels, from the outermost, in the places of unresolved addresses, and  *)
(* those left over at the leaf.                                            *)
LEMMA StackAsPromised ==
  ASSUME NEW ips, ips \in Seq({ips[i] : i \in DOMAIN ips}), NEW s, Ascending(s)
  PROVE  build_stack(ips, s) = Promise!StackOf(ips, LevelSet(s))
<1> DEFINE Y == {ips[i] : i \in DOMAIN ips} \cup Nat \cup {Unknown}
           R == Promise!Unresolved(ips)
<1>1. PICK m, q : m = Len(ips) /\ q = Backwards(s)
  OBVIOUS
<1> DEFINE own == [n \in DOMAIN ips |-> NativeFrame(ips[m + 1 - n])]
           shown == [n \in DOMAIN ips |-> Promise!Shown(ips, q, m + 1 - n)]
<1>2. m \in Nat /\ DOMAIN ips = 1 .. m /\ ips \in Seq(Y) /\ Nat \subseteq Y /\ Unknown \in Y
  <2>1. {ips[i] : i \in DOMAIN ips} \subseteq Y
    OBVIOUS
  <2>2. ips \in Seq(Y)
    <3> HIDE DEF Y
    <3> QED BY <2>1
  <2> QED BY <1>1, <2>2
<1>3. q \in Seq(Nat)
  BY <1>1 DEF Backwards, Ascending
<1> HIDE DEF Y
<1>4. ASSUME NEW n \in 1 .. m
      PROVE  /\ m + 1 - n \in DOMAIN ips
             /\ own[n] \in Seq(Y)
             /\ shown[n] \in Seq(Y)
  <2>1. m + 1 - n \in DOMAIN ips /\ ips[m + 1 - n] \in Y
    BY <1>2
  <2>2. own[n] \in Seq(Y)
    BY <1>2, <2>1 DEF NativeFrame
  <2>3. ASSUME m + 1 - n \in R, Promise!Place(ips, m + 1 - n) <= Len(q)
        PROVE  Promise!LuaFrame(q[Promise!Place(ips, m + 1 - n)]) \in Seq(Y)
    <3>1. Promise!Place(ips, m + 1 - n) \in 1 .. Len(q)
      <4>1. PICK used \in [0 .. m -> Nat] : PlacesUp(used, ips, m)
        BY <1>1, <1>2, PlaceSteps
      <4>2. n - 1 \in 0 .. m - 1 /\ n - 1 \in 0 .. m /\ m - (n - 1) = m + 1 - n
        BY <1>2
      <4>3. used[n - 1] \in Nat /\ Promise!Place(ips, m + 1 - n) = used[n - 1] + 1
        BY <2>3, <4>1, <4>2 DEF PlacesUp
      <4>4. Len(q) \in Nat
        BY <1>3
      <4> QED BY <2>3, <4>3, <4>4
    <3>2. q[Promise!Place(ips, m + 1 - n)] \in Y
      BY <1>2, <1>3, <3>1
    <3> QED BY <3>2 DEF Promise!LuaFrame
  <2>4. shown[n] \in Seq(Y)
    <3>1. PICK i : i = m + 1 - n
      OBVIOUS
    <3>0. n \in DOMAIN ips
      BY <1>2
    <3>2. CASE i \in R /\ Promise!Place(ips, i) <= Len(q)
      <4>1. Promise!Shown(ips, q, i) = Promise!LuaFrame(q[Promise!Place(ips, i)])
              \/ Promise!Shown(ips, q, i) = <<Unknown>>
        BY <3>2 DEF Promise!Shown
      <4>2. <<Unknown>> \in Seq(Y) /\ Promise!LuaFrame(q[Promise!Place(ips, i)]) \in Seq(Y)
        BY <1>2, <2>3, <3>1, <3>2
      <4> QED BY <3>0, <3>1, <4>1, <4>2
    <3>3. CASE i \in R /\ ~(Promise!Place(ips, i) <= Len(q))
      <4>1. Promise!Shown(ips, q, i) = <<Unknown>>
        <5>1. Promise!Place(ips, i) \in Nat /\ Len(q) \in Nat
          <6>1. IsFiniteSet({j \in R : j >= i})
            <7>1. IsFiniteSet(1 .. m) /\ {j \in R : j >= i} \subseteq 1 .. m
              BY <1>2, FS_Interval DEF Promise!Unresolved
            <7> HIDE DEF R
            <7> QED BY <7>1, FS_Subset
          <6> HIDE DEF R
          <6>2. Cardinality({j \in R : j >= i}) \in Nat
            BY <6>1, FS_CardinalityType
          <6> QED BY <1>3, <6>2, PromisedCardinality DEF Promise!Place, R
        <5>2. Promise!Place(ips, i) > Len(q)
          BY <3>3, <5>1
        <5> QED BY <3>3, <5>2 DEF Promise!Shown
      <4>2. <<Unknown>> \in Seq(Y)
        BY <1>2
      <4> QED BY <3>0, <3>1, <4>1, <4>2
    <3>4. CASE i \notin R
      <4>1. Promise!Shown(ips, q, i) = <<ips[i]>> \/ Promise!Shown(ips, q, i) = <<>>
        BY <3>4 DEF Promise!Shown
      <4>2. <<ips[i]>> \in Seq(Y) /\ <<>> \in Seq(Y)
        BY <2>1, <3>1
      <4> QED BY <3>0, <3>1, <4>1, <4>2
    <3> QED BY <3>2, <3>3, <3>4
  <2> QED BY <2>1, <2>2, <2>4
<1>5. own \in Seq(Seq(Y)) /\ Len(own) = m /\ shown \in Seq(Seq(Y)) /\ Len(shown) = m
  <2> SUFFICES ASSUME NEW f, f = [n \in 1 .. m |-> f[n]], \A n \in 1 .. m : f[n] \in Seq(Y)
               PROVE  f \in Seq(Seq(Y)) /\ Len(f) = m
    <3>1. own = [n \in 1 .. m |-> own[n]] /\ shown = [n \in 1 .. m |-> shown[n]]
      BY <1>2
    <3> HIDE DEF own, shown
    <3> QED BY <1>4, <3>1
  <2>1. f \in [1 .. m -> Seq(Y)]
    OBVIOUS
  <2> QED BY <1>2, <2>1
<1>6. \A n \in 0 .. m - 1 : /\ own[n + 1] = NativeFrame(ips[m - n])
                            /\ shown[n + 1] = Promise!Shown(ips, q, m - n)
                            /\ m - n \in DOMAIN ips
  <2> SUFFICES ASSUME NEW n \in 0 .. m - 1
               PROVE  /\ own[n + 1] = NativeFrame(ips[m - n])
                      /\ shown[n + 1] = Promise!Shown(ips, q, m - n)
                      /\ m - n \in DOMAIN ips
    OBVIOUS
  <2>1. n + 1 \in DOMAIN ips /\ m + 1 - (n + 1) = m - n /\ m - n \in DOMAIN ips
    BY <1>2
  <2> QED BY <2>1
<1>7. NativeFrames(ips) = Concat(own)
  BY <1>1 DEF NativeFrames
<1>8. Promise!StackOf(ips, LevelSet(s)) =
        Concat(shown) \o Concat([n \in 1 .. Cardinality(Cardinality(R) + 1 .. Len(q)) |->
                                   format_lua_frame(q[Cardinality(R) + n])])
  <2>1. Promise!Ranked(LevelSet(s), >) = q
    BY <1>1, PromisedRanked, RankedLevels
  <2>2. \A level : Promise!LuaFrame(level) = format_lua_frame(level)
    BY DEF Promise!LuaFrame, format_lua_frame
  <2> QED BY <1>1, <2>1, <2>2, PromisedConcat, PromisedCardinality DEF Promise!StackOf
<1> HIDE DEF own, shown
<1>9. PICK up1 \in [0 .. m -> Seq(Y)] : Concats(up1, own)
  BY <1>5, ConcatSteps
<1>10. PICK up2 \in [0 .. m -> Seq(Y)] : Concats(up2, shown)
  BY <1>5, ConcatSteps
<1>11. PICK fs : fs = NativeFrames(ips)
  OBVIOUS
<1>12. /\ fs \in Seq(Y) /\ fs = up1[m] /\ up1[0] = <<>>
       /\ \A n \in 0 .. m - 1 : up1[n + 1] = up1[n] \o own[n + 1]
  <2>1. m \in 0 .. m
    BY <1>2
  <2>2. Concat(own) = up1[m] /\ up1[0] = <<>>
    BY <1>5, <1>9 DEF Concats
  <2>3. \A n \in 0 .. m - 1 : up1[n + 1] = up1[n] \o own[n + 1]
    BY <1>5, <1>9 DEF Concats
  <2>4. up1[m] \in Seq(Y)
    BY <2>1
  <2> QED BY <1>7, <1>11, <2>2, <2>3, <2>4
<1>13. \A n \in 0 .. m : Begins(up1[n], fs)
  BY <1>5, <1>9, <1>12, ConcatPrefix
<1>14. PICK acc : FoldsUp(acc, fs, s)
  BY <1>2, <1>12, FoldSteps
<1>15. PICK used \in [0 .. m -> Nat] : PlacesUp(used, ips, m)
  BY <1>1, <1>2, PlaceSteps
<1> HIDE DEF R
<1> DEFINE InStep(n) == acc[Len(up1[n])] = [frames |-> up2[n], lua |-> Rest(q, used[n])]
           S == {n \in 0 .. m : InStep(n)}
<1>16. 0 \in S
  <2>1. Len(<<>>) = 0 /\ Rest(q, 0) = q /\ 0 \in 0 .. m
    BY <1>2, <1>3, RestFacts
  <2>2. acc[0] = [frames |-> <<>>, lua |-> q] /\ up2[0] = <<>> /\ used[0] = 0
    BY <1>1, <1>10, <1>14, <1>15 DEF Concats, FoldsUp, PlacesUp
  <2> QED BY <1>12, <2>1, <2>2
<1>17. ASSUME NEW n \in 0 .. m - 1, n \in S
       PROVE  n + 1 \in S
  <2>1. n \in 0 .. m /\ n + 1 \in 0 .. m /\ m - n \in DOMAIN ips
    BY <1>2
  <2>2. PICK a, b, c : a = up1[n] /\ b = NativeFrame(ips[m - n]) /\ c = up1[n + 1]
    OBVIOUS
  <2>3. a \in Seq(Y) /\ b \in Seq(Y) /\ c = a \o b
    <3>1. a \in Seq(Y) /\ b \in Seq(Y)
      BY <1>2, <2>1, <2>2 DEF NativeFrame
    <3>2. c = a \o b
      BY <1>6, <1>12, <2>2
    <3> QED BY <3>1, <3>2
  <2>4. Len(a) \in 0 .. Len(fs) /\ Len(c) \in 0 .. Len(fs) /\ \A i \in 1 .. Len(c) : c[i] = fs[i]
    BY <1>13, <2>1, <2>2 DEF Begins
  <2>5. Len(c) = Len(a) + Len(b)
    BY <2>3
  <2>6. b # <<>> => Len(a) + 1 <= Len(fs) /\ fs[Len(a) + 1] = ips[m - n]
    <3> SUFFICES ASSUME b # <<>>
                 PROVE  Len(a) + 1 <= Len(fs) /\ fs[Len(a) + 1] = ips[m - n]
      OBVIOUS
    <3>1. b = <<ips[m - n]>>
      BY <2>2 DEF NativeFrame
    <3>2. Len(b) = 1 /\ b[1] = ips[m - n]
      BY <3>1
    <3>3. Len(a) \in Nat /\ Len(fs) \in Nat /\ Len(a) + 1 \in 1 .. Len(c)
      BY <2>4, <2>5, <3>2
    <3>4. c[Len(a) + 1] = b[1]
      BY <2>3, <3>2
    <3> QED BY <2>4, <2>5, <3>2, <3>3, <3>4
  <2>7. /\ used[n + 1] = IF m - n \in R THEN used[n] + 1 ELSE used[n]
        /\ m - n \in R => Promise!Place(ips, m - n) = used[n] + 1
    BY <1>15 DEF PlacesUp, R
  <2>8. acc[Len(a)] = [frames |-> up2[n], lua |-> Rest(q, used[n])]
    BY <1>17, <2>2
  <2>9. acc[Len(a) + Len(b)] =
          [frames |-> up2[n] \o Promise!Shown(ips, q, m - n),
           lua |-> Rest(q, IF m - n \in R THEN used[n] + 1 ELSE used[n])]
    <3>1. up2[n] \in Seq(Y) /\ used[n] \in Nat
      BY <2>1
    <3>3. PICK i, sh, u, done : i = m - n /\ sh = up2[n] /\ u = used[n] /\ done = Len(a)
      OBVIOUS
    <3>4. /\ i \in DOMAIN ips /\ sh \in Seq(Y) /\ u \in Nat /\ done \in 0 .. Len(fs)
          /\ i \in Promise!Unresolved(ips) => Promise!Place(ips, i) = u + 1
      BY <2>1, <2>4, <2>7, <3>1, <3>3 DEF R
    <3>6. FoldedTo(acc, done, sh, q, u)
      BY <2>8, <3>3 DEF FoldedTo
    <3>7. ComesNext(ips[i], fs, done)
      BY <2>2, <2>6, <3>3 DEF ComesNext
    <3>5. FoldedTo(acc, done + Len(NativeFrame(ips[i])), sh \o Promise!Shown(ips, q, i), q,
                   IF i \in Promise!Unresolved(ips) THEN u + 1 ELSE u)
      BY <1>2, <1>3, <1>12, <1>14, <3>4, <3>6, <3>7, AddressStep
    <3> QED BY <2>2, <3>3, <3>5 DEF R, FoldedTo
  <2>11. up2[n + 1] = up2[n] \o Promise!Shown(ips, q, m - n)
    BY <1>5, <1>6, <1>10 DEF Concats
  <2>12. InStep(n + 1)
    BY <2>2, <2>5, <2>7, <2>9, <2>11
  <2> QED BY <2>1, <2>12
<1>18. InStep(m)
  <2>1. \A n \in 0 .. m : n \in S
    <3> HIDE DEF S
    <3> QED BY <1>2, <1>16, <1>17, CountUp
  <2>2. m \in 0 .. m
    BY <1>2
  <2> QED BY <2>1, <2>2
<1>19. acc[Len(fs)] = [frames |-> Concat(shown), lua |-> Rest(q, Cardinality(R))]
  <2>1. Concat(shown) = up2[m] /\ used[m] = Cardinality(R)
    BY <1>5, <1>10, <1>15 DEF Concats, PlacesUp, R
  <2> QED BY <1>12, <1>18, <2>1
<1>20. LET left == Rest(q, Cardinality(R))
       IN [i \in DOMAIN left |-> format_lua_frame(left[i])]
            = [n \in 1 .. Cardinality(Cardinality(R) + 1 .. Len(q)) |->
                 format_lua_frame(q[Cardinality(R) + n])]
  <2>1. PICK u, k : u = Cardinality(R) /\ k = Len(q)
    OBVIOUS
  <2>2. u \in Nat /\ k \in Nat
    <3>1. m \in 0 .. m
      BY <1>2
    <3>2. used[m] \in Nat /\ used[m] = Cardinality(R)
      BY <1>15, <3>1 DEF PlacesUp, R
    <3> QED BY <1>3, <2>1, <3>2
  <2>3. Cardinality(u + 1 .. k) = IF u < k THEN k - u ELSE 0
    <3>1. Cardinality(u + 1 .. k) = IF u + 1 > k THEN 0 ELSE k - (u + 1) + 1
      BY <2>2, FS_Interval
    <3> QED BY <2>2, <3>1
  <2>4. DOMAIN Rest(q, u) = 1 .. Cardinality(u + 1 .. k)
    BY <2>1, <2>3 DEF Rest
  <2>5. \A n \in DOMAIN Rest(q, u) : Rest(q, u)[n] = q[u + n]
    BY DEF Rest
  <2> QED BY <2>1, <2>4, <2>5
<1>21. fold_symbolized_stack(fs, s) =
         Concat(shown) \o Concat([n \in 1 .. Cardinality(Cardinality(R) + 1 .. Len(q)) |->
                                    format_lua_frame(q[Cardinality(R) + n])])
  <2>1. PICK left : left = Rest(q, Cardinality(R))
    OBVIOUS
  <2>2. acc[Len(fs)].lua = left /\ acc[Len(fs)].frames = Concat(shown)
    BY <1>19, <2>1
  <2>3. fold_symbolized_stack(fs, s) =
          Concat(shown) \o Concat([i \in DOMAIN left |-> format_lua_frame(left[i])])
    BY <1>14, <2>2 DEF FoldsUp
  <2> QED BY <1>20, <2>1, <2>3
<1> QED BY <1>8, <1>11, <1>21 DEF build_stack

-----------------------------------------------------------------------------
(* What finalize finds under the key of a sample.                          *)
Levels(k) == [i \in DOMAIN LuaOf(k) |-> LuaOf(k)[i].level]

(* The Lua frames are those that arrived, in the order of the walk.        *)
LEMMA LevelsArrived ==
  ASSUME TypeOK, FrameInv, pc # "done", NEW s \in Samples, OwnKey(s)
  PROVE  Ascending(Levels(taken[s].key)) /\ LevelSet(Levels(taken[s].key)) = CountedLevels(s)
<1>1. PICK k, h : k = taken[s].key /\ h = LuaOf(k)
  OBVIOUS
<1>2. k \in Keys
  <2>1. taken[s] \in Sample
    BY DEF TypeOK, SamplerTypeOK, Samples
  <2> QED BY <1>1, <2>1 DEF Sample
<1>3. h \in Seq(LuaEvent)
  BY <1>1, LuaType DEF LuaOf
<1>4. \A i, e : Handled(k, i, e) <=> i \in DOMAIN h /\ h[i] = e
  <2>1. k \notin DOMAIN lua => DOMAIN h = {}
    <3>1. k \notin DOMAIN lua => h = <<>>
      BY <1>1 DEF LuaOf
    <3> QED BY <3>1
  <2>2. k \in DOMAIN lua => h = lua[k]
    BY <1>1 DEF LuaOf
  <2> QED BY <2>1, <2>2 DEF Handled
<1>5. ASSUME NEW i \in DOMAIN h
      PROVE  /\ i \in Nat /\ i > 0 /\ h[i] \in LuaEvent /\ h[i].level \in Nat
             /\ h[i].sample = s /\ h[i].level \in CountedLevels(s)
  <2>1. i \in Nat /\ i > 0 /\ h[i] \in LuaEvent
    BY <1>3
  <2>2. h[i].level \in Nat
    BY <2>1 DEF LuaEvent
  <2>3. Handled(k, i, h[i]) /\ Survived(h[i]) /\ h[i].key = k
    BY <1>2, <1>4, <2>1 DEF FrameInv, MapFrames
  <2>4. h[i].sample = s
    <3>1. h[i].sample \in Samples /\ taken[h[i].sample].key = k
      <4>1. h[i].sample \in Samples /\ h[i] = LuaEventOf(h[i].sample, h[i].level)
        BY <2>3 DEF Survived
      <4>2. h[i].key = taken[h[i].sample].key
        BY <4>1 DEF LuaEventOf
      <4> QED BY <2>3, <4>1, <4>2
    <3> QED BY <1>1, <3>1 DEF OwnKey
  <2>5. /\ h[i] = LuaEventOf(s, h[i].level) /\ h[i].level \in Emitted(s) /\ h[i] \notin lost
    BY <2>3, <2>4 DEF Survived
  <2>6. ~IsUnread("lua_events_out", h[i])
    <3> SUFFICES ASSUME NEW c \in Cpus, NEW j, InRing(c, j, h[i]) PROVE FALSE
      BY DEF IsUnread, InRing, Frames
    <3>1. j \in Nat
      BY FramesType
    <3>2. h[i].level < h[i].level
      BY <1>2, <2>1, <2>3, <3>1 DEF FrameInv, MapFrames
    <3> QED BY <2>2, <3>2
  <2>7. PICK l : l = h[i].level
    OBVIOUS
  <2>8. l \in CountedLevels(s)
    BY <2>5, <2>6, <2>7 DEF CountedLevels
  <2> QED BY <2>1, <2>2, <2>4, <2>7, <2>8
<1>6. ASSUME NEW l \in CountedLevels(s)
      PROVE  \E i \in DOMAIN h : h[i].level = l
  <2>1. l \in Emitted(s) /\ LuaEventOf(s, l) \notin lost /\ ~IsUnread("lua_events_out", LuaEventOf(s, l))
    BY DEF CountedLevels
  <2>2. l \in Nat
    BY <2>1, EmittedType
  <2>3. PICK e : e = LuaEventOf(s, l)
    OBVIOUS
  <2>4. e \in LuaEvent /\ e.key = k /\ e.level = l
    BY <1>1, <2>2, <2>3, LuaEventOfType
  <2>5. Found(e)
    BY <2>1, <2>3 DEF FrameInv, CoverFrames
  <2>6. \A c \in Cpus, i \in Nat : ~InRing(c, i, e)
    BY <2>1, <2>3 DEF IsUnread, InRing, Frames
  <2>7. PICK i \in Nat : Handled(k, i, e)
    BY <2>1, <2>3, <2>4, <2>5, <2>6 DEF Found
  <2> QED BY <1>4, <2>4, <2>7
<1>7. ASSUME NEW i \in DOMAIN h, NEW j \in DOMAIN h, i < j
      PROVE  h[i].level < h[j].level
  <2>1. /\ i \in Nat /\ j \in Nat /\ h[i] \in LuaEvent /\ h[j] \in LuaEvent /\ h[i].sample = h[j].sample
        /\ Handled(k, i, h[i]) /\ Handled(k, j, h[j])
    BY <1>4, <1>5
  <2> QED BY <1>2, <1>7, <2>1 DEF FrameInv, MapFrames
<1>8. PICK v : v = Levels(k)
  OBVIOUS
<1>9. v = [i \in DOMAIN h |-> h[i].level]
  BY <1>1, <1>8 DEF Levels
<1>10. v \in Seq(Nat)
  <2>1. PICK n \in Nat : DOMAIN h = 1 .. n
    BY <1>3
  <2>2. v \in [1 .. n -> Nat]
    BY <1>5, <1>9, <2>1
  <2> QED BY <2>1, <2>2
<1>11. Ascending(v)
  BY <1>7, <1>9, <1>10 DEF Ascending
<1>12. LevelSet(v) = CountedLevels(s)
  BY <1>5, <1>6, <1>9 DEF LevelSet
<1> QED BY <1>1, <1>8, <1>11, <1>12

(* The stack of a sample's key is that of the sample.                      *)
StackOfSample(s) == Promise!StackOf(taken[s].ips, ArrivedFrames[s])

LEMMA StackOfKey ==
  ASSUME TypeOK, DeliveryInv, FrameInv, pc # "done", NEW s \in ArrivedSamples, OwnKey(s)
  PROVE  /\ taken[s].key \in DOMAIN native
         /\ BuildStack(taken[s].key) = StackOfSample(s)
<1>1. s \in Samples /\ Counted(s)
  BY DEF ArrivedSamples
<1>2. InMap(s)
  <2>1. Covered(s)
    BY <1>1 DEF DeliveryInv, CoverInv
  <2> QED BY <1>1, <2>1 DEF Covered, Counted, IsUnread, Queue
<1>3. PICK k, ips, v : k = taken[s].key /\ ips = taken[s].ips /\ v = Levels(k)
  OBVIOUS
<1>4. k \in DOMAIN native /\ native[k].ips = ips
  <2>1. native[k] = NativeEventOf(s)
    BY <1>2, <1>3 DEF InMap, DeliveryInv, MapInv
  <2> QED BY <1>2, <1>3, <2>1 DEF InMap, NativeEventOf
<1>5. Ascending(v) /\ LevelSet(v) = ArrivedFrames[s]
  BY <1>1, <1>3, LevelsArrived DEF ArrivedFrames
<1>6. ips \in Seq({ips[i] : i \in DOMAIN ips})
  <2>1. taken[s] \in Sample
    BY <1>1 DEF TypeOK, SamplerTypeOK, Samples
  <2> QED BY <1>3, <2>1, SamplerAssumption DEF Sample
<1>7. build_stack(ips, v) = Promise!StackOf(ips, LevelSet(v))
  BY <1>5, <1>6, StackAsPromised
<1> QED BY <1>3, <1>4, <1>5, <1>7 DEF BuildStack, StackOfSample, Levels

(* Finalize writes the histogram of the arrived samples.                   *)
LEMMA FinalizeFolds ==
  ASSUME TypeOK, DeliveryInv, FrameInv, KeysUnique, Finalize
  PROVE  folded' = Promise!Histogram
<1>1. pc # "done"
  BY DEF Finalize
<1>2. \A s \in ArrivedSamples : s \in Samples /\ OwnKey(s)
  BY DEF ArrivedSamples, KeysUnique
<1>3. \A s \in ArrivedSamples : /\ taken[s].key \in DOMAIN native
                                /\ BuildStack(taken[s].key) = StackOfSample(s)
  BY <1>1, <1>2, StackOfKey
<1>4. ASSUME NEW k \in DOMAIN native
      PROVE  \E s \in ArrivedSamples : taken[s].key = k
  <2>1. PICK s : s = native[k].sample
    OBVIOUS
  <2>2. /\ s \in Samples /\ native[k] = NativeEventOf(s) /\ native[k].key = k /\ native[k] \notin lost
        /\ \A c \in Cpus : \A i \in DOMAIN Queue(c) : Queue(c)[i].sample # s
    BY <2>1 DEF DeliveryInv, MapInv
  <2>3. taken[s].key = k
    BY <2>2, NativeEventOfType
  <2>4. Counted(s)
    BY <2>2, NativeEventOfType DEF Counted, IsUnread, Queue
  <2> QED BY <2>2, <2>3, <2>4 DEF ArrivedSamples
<1> DEFINE Stacks == {StackOfSample(s) : s \in ArrivedSamples}
<1>5. {BuildStack(k) : k \in DOMAIN native} = Stacks
  <2> HIDE DEF StackOfSample, BuildStack
  <2> QED BY <1>3, <1>4
<1>6. ASSUME NEW st
      PROVE  Cardinality({k \in DOMAIN native : BuildStack(k) = st})
               = Cardinality({s \in ArrivedSamples : StackOfSample(s) = st})
  <2> DEFINE from == {s \in ArrivedSamples : StackOfSample(s) = st}
             key == [s \in Samples |-> taken[s].key]
  <2>1. {k \in DOMAIN native : BuildStack(k) = st} = {key[s] : s \in from}
    BY <1>2, <1>3, <1>4
  <2>2. IsFiniteSet(from)
    <3>1. IsFiniteSet(ArrivedSamples)
      BY DEF DeliveryInv, StatsInv
    <3> QED BY <3>1, FS_Subset
  <2>3. from \subseteq DOMAIN key /\ \A x, y \in from : key[x] = key[y] => x = y
    BY <1>2 DEF OwnKey
  <2> HIDE DEF from, key
  <2>4. Cardinality({key[s] : s \in from}) = Cardinality(from)
    BY <2>2, <2>3, SameCount
  <2> QED BY <2>1, <2>4 DEF from
<1>7. Promise!Histogram =
        [st \in Stacks \ {<<>>} |-> Cardinality({s \in ArrivedSamples : StackOfSample(s) = st})]
  BY PromisedCardinality DEF Promise!Histogram, StackOfSample
<1>8. folded' = [st \in {BuildStack(k) : k \in DOMAIN native} \ {<<>>} |->
                   Cardinality({k \in DOMAIN native : BuildStack(k) = st})]
  BY DEF Finalize, NoStack
<1> HIDE DEF Stacks
<1> QED BY <1>5, <1>6, <1>7, <1>8

-----------------------------------------------------------------------------
LEMMA HistogramStays ==
  ASSUME UNCHANGED taken, ArrivedSamples' = ArrivedSamples, ArrivedFrames' = ArrivedFrames
  PROVE  Promise!Histogram' = Promise!Histogram
BY DEF Promise!Histogram

LEMMA FinalizeHistogram ==
  ASSUME TypeOK, DeliveryInv, FrameInv, Finalize, UNCHANGED samplerVars
  PROVE  Promise!Histogram' = Promise!Histogram /\ (KeysUnique' <=> KeysUnique)
<1>1. SameLevels /\ ArrivedSamples' = ArrivedSamples
  BY FinalizeFrames, FinalizeDelivery
<1>2. UNCHANGED taken
  BY DEF samplerVars
<1>3. ArrivedFrames' = ArrivedFrames
  BY <1>1, <1>2 DEF ArrivedFrames, SameLevels, Samples
<1> QED BY <1>1, <1>2, <1>3, HistogramStays DEF KeysUnique, OwnKey, Samples

(* Only Finalize ends the run, and nothing happens after it.               *)
LEMMA EndSteps ==
  ASSUME [Next]_vars
  PROVE  \/ Finalize /\ UNCHANGED samplerVars
         \/ pc # "done" /\ pc' # "done" /\ UNCHANGED folded
         \/ UNCHANGED vars
<1>1. CASE UNCHANGED vars
  BY <1>1
<1>2. CASE Sampling
  BY <1>2 DEF Sampling, aggregatorVars
<1>3. CASE AggregatorNext /\ UNCHANGED samplerVars
  <2>1. CASE BuildReaders \/ Loop \/ DropReaders
    BY <2>1 DEF BuildReaders, Loop, LoopHead, Elapsed, DropReaders
  <2>2. CASE Interrupt \/ Deadline
    BY <2>2 DEF Interrupt, Deadline, LoopSteps
  <2>3. CASE \E b \in Buffers : Poll(b) \/ EndRead(b)
    BY <2>3 DEF Poll, EndRead, PollStep, ReadStep, StepAfter, Buffers
  <2>4. CASE \E b \in Buffers, c \in Cpus : StartRead(b, c)
    BY <2>4 DEF StartRead, ReadStep, Buffers
  <2>5. CASE \E c \in Cpus : HandleNative(c) \/ HandleLua(c)
    BY <2>5 DEF HandleNative, HandleLua, Advance
  <2>6. CASE Finalize
    BY <1>3, <2>6
  <2> QED BY <1>3, <2>1, <2>2, <2>3, <2>4, <2>5, <2>6 DEF AggregatorNext, MainStep
<1> QED BY <1>1, <1>2, <1>3 DEF Next

LEMMA FoldedStep ==
  TypeOK /\ DeliveryInv /\ FrameInv /\ FoldedExact /\ [Next]_vars => FoldedExact'
<1> SUFFICES ASSUME TypeOK, DeliveryInv, FrameInv, FoldedExact, [Next]_vars PROVE FoldedExact'
  OBVIOUS
<1>1. CASE Finalize /\ UNCHANGED samplerVars
  <2>1. KeysUnique' => folded' = Promise!Histogram'
    BY <1>1, FinalizeFolds, FinalizeHistogram
  <2> QED BY <2>1 DEF FoldedExact, KeysUnique
<1>2. CASE pc # "done" /\ pc' # "done" /\ UNCHANGED folded
  BY <1>2 DEF FoldedExact
<1>3. CASE UNCHANGED vars
  <2>1. UNCHANGED <<ring, lost, pc, head, at, prog, taken, folded>>
    BY <1>3 DEF vars, ringVars, samplerVars, aggregatorVars, loopVars, pendingVars
  <2>2. ArrivedSamples' = ArrivedSamples
    BY <2>1 DEF ArrivedSamples, Samples, Counted, NativeEventOf, IsUnread, Unread, Reading
  <2>3. ArrivedFrames' = ArrivedFrames
    BY <2>1 DEF ArrivedFrames, Samples, CountedLevels, Emitted, LuaEventOf, IsUnread, Unread, Reading
  <2>4. Promise!Histogram' = Promise!Histogram
    BY <2>1, <2>2, <2>3, HistogramStays
  <2>5. KeysUnique' <=> KeysUnique
    BY <2>1 DEF KeysUnique, OwnKey, Samples
  <2> QED BY <2>1, <2>4, <2>5 DEF FoldedExact, KeysUnique
<1> QED BY <1>1, <1>2, <1>3, EndSteps

LEMMA PlacesAlways == Spec => [](TypeOK /\ DeliveryInv /\ FrameInv)
BY DeliveryAlways, FrameAlways, PTL

(* Once it is written, the profile is the histogram of the arrived         *)
(* samples' own stacks, whatever was lost, late or in flight, if no two    *)
(* samples share a key.                                                    *)
THEOREM AlwaysFoldedExact == Spec => []FoldedExact
<1>1. Init => FoldedExact
  BY DEF Init, AggregatorInit, FoldedExact
<1> QED BY <1>1, PlacesAlways, FoldedStep, PTL DEF Spec

-----------------------------------------------------------------------------
LEMMA CorrelationStep ==
  TypeOK /\ TypeOK' /\ DeliveryInv /\ FrameInv /\ KeysUnique /\ [Next]_vars
    => [Promise!Next]_(<<Promise!arrivalsVars, folded>>)
<1> SUFFICES ASSUME TypeOK, TypeOK', DeliveryInv, FrameInv, KeysUnique, [Next]_vars
             PROVE  [Promise!Next]_(<<Promise!arrivalsVars, folded>>)
  OBVIOUS
<1>1. [Promise!ArrivalsNext]_(Promise!arrivalsVars)
  BY ArrivalStep DEF Arrival!ArrivalsNext, Promise!ArrivalsNext, Arrival!arrivalsVars,
     Promise!arrivalsVars, Arrival!TakeSample, Promise!TakeSample,
     Arrival!NativeArrives, Promise!NativeArrives, Arrival!FrameArrives, Promise!FrameArrives,
     Arrival!Write, Promise!Write
<1>2. CASE Finalize /\ UNCHANGED samplerVars
  <2>1. folded' = Promise!Histogram
    BY <1>2, FinalizeFolds
  <2>2. pc # "done" /\ pc' = "done"
    BY <1>2 DEF Finalize
  <2>3. Promise!ArrivalsNext
    BY <1>1, <2>2 DEF Promise!arrivalsVars
  <2> QED BY <2>1, <2>2, <2>3 DEF Promise!Next
<1>3. CASE pc # "done" /\ pc' # "done" /\ UNCHANGED folded
  BY <1>1, <1>3 DEF Promise!Next
<1>4. CASE UNCHANGED vars
  <2>1. UNCHANGED <<ring, lost, pc, head, at, prog, taken, folded>>
    BY <1>4 DEF vars, ringVars, samplerVars, aggregatorVars, loopVars, pendingVars
  <2>2. ArrivedSamples' = ArrivedSamples
    BY <2>1 DEF ArrivedSamples, Samples, Counted, NativeEventOf, IsUnread, Unread, Reading
  <2>3. ArrivedFrames' = ArrivedFrames
    BY <2>1 DEF ArrivedFrames, Samples, CountedLevels, Emitted, LuaEventOf, IsUnread, Unread, Reading
  <2> QED BY <2>1, <2>2, <2>3 DEF Promise!arrivalsVars
<1> QED BY <1>2, <1>3, <1>4, EndSteps

(* While keys are unique, the pipeline implements Correlation.             *)
THEOREM CorrelationImplemented == Spec /\ []KeysUnique => ImplementsCorrelation
<1>1. Init => Promise!Init
  <2> SUFFICES ASSUME Init PROVE Promise!Init
    OBVIOUS
  <2>1. taken = <<>> /\ pc # "done" /\ folded = EmptyMap
    BY DEF Init, SamplerInit, AggregatorInit
  <2>2. Samples = {}
    BY <2>1 DEF Samples
  <2>3. ArrivedSamples = {} /\ ArrivedFrames = <<>>
    BY <2>2 DEF ArrivedSamples, ArrivedFrames
  <2>4. folded = <<>>
    BY <2>1 DEF EmptyMap
  <2> QED BY <2>1, <2>3, <2>4 DEF Promise!Init, Promise!ArrivalsInit
<1> QED BY <1>1, PlacesAlways, CorrelationStep, PTL DEF Spec, ImplementsCorrelation, Promise!Spec

-----------------------------------------------------------------------------
(* seq_map has room for every thread of the target, and no more samples    *)
(* are taken than there are sequence numbers.                              *)
NoncesFit ==
  /\ IsFiniteSet(Tids) /\ Cardinality(Tids) <= SeqEntries
  /\ MaxSamples <= SeqWrap

(* Then keys are unique, on whichever CPUs the samples of a thread fall.   *)
THEOREM KeysAlwaysUnique == ASSUME NoncesFit PROVE Spec => []KeysUnique
<1>1. TypeOK /\ NonceInv => KeysUnique
  <2> SUFFICES ASSUME TypeOK, NonceInv PROVE KeysUnique
    OBVIOUS
  <2>1. ASSUME NEW s \in Samples, NEW r \in Samples, r < s, taken[r].key = taken[s].key
        PROVE  FALSE
    <3>1. Tracked(s)
      <4> SUFFICES ASSUME ~Tracked(s) PROVE FALSE
        OBVIOUS
      <4>1. PICK t : t = taken[s].key.tid
        OBVIOUS
      <4>2. t \in Tids /\ t \notin DOMAIN seq_map /\ DOMAIN seq_map \subseteq Tids
        <5>1. taken[s] \in Sample
          BY DEF TypeOK, SamplerTypeOK, Samples
        <5> QED BY <4>1, <5>1 DEF TypeOK, SamplerTypeOK, Sample, Keys, Tracked
      <4>3. ~HasRoom(seq_map, t, SeqEntries)
        BY <4>1 DEF NonceInv, FullIfUntracked
      <4>4. IsFiniteSet(DOMAIN seq_map) /\ IsFiniteSet(Tids)
        BY <4>2, FS_Subset DEF NoncesFit
      <4>5. Cardinality(DOMAIN seq_map) < Cardinality(Tids)
        <5>1. DOMAIN seq_map # Tids
          BY <4>2
        <5>2. /\ Cardinality(DOMAIN seq_map) <= Cardinality(Tids)
              /\ Cardinality(DOMAIN seq_map) # Cardinality(Tids)
          BY <4>2, <4>4, <5>1, FS_Subset
        <5> QED BY <4>4, <5>2, FS_CardinalityType
      <4>6. /\ Cardinality(DOMAIN seq_map) \in Nat /\ Cardinality(Tids) \in Nat /\ SeqEntries \in Nat
            /\ Cardinality(Tids) <= SeqEntries
        BY <4>4, FS_CardinalityType, SamplerAssumption DEF NoncesFit
      <4> QED BY <4>3, <4>5, <4>6 DEF HasRoom
    <3>2. Samples = 1 .. Len(taken) /\ Len(taken) \in Nat /\ Len(taken) <= MaxSamples
      BY SamplesAre DEF TypeOK, SamplerTypeOK
    <3>3. r \in 1 .. s - 1
      BY <2>1, <3>2
    <3> DEFINE between == {q \in r + 1 .. s : taken[q].key.tid = taken[s].key.tid}
    <3>4. SeqWrap <= Cardinality(between)
      BY <2>1, <3>1, <3>3 DEF NonceInv, KeysAreNonces
    <3>5. Cardinality(between) <= s - r /\ Cardinality(between) \in Nat
      <4>1. IsFiniteSet(r + 1 .. s) /\ Cardinality(r + 1 .. s) = s - r
        BY <2>1, <3>2, FS_Interval
      <4>2. between \in SUBSET (r + 1 .. s)
        OBVIOUS
      <4> HIDE DEF between
      <4> QED BY <4>1, <4>2, FS_Subset, FS_CardinalityType
    <3> HIDE DEF between
    <3> QED BY <2>1, <3>2, <3>4, <3>5, SamplerAssumption DEF NoncesFit
  <2>2. \A s \in Samples : s \in Nat
    BY SamplesAre DEF TypeOK, SamplerTypeOK
  <2> QED BY <2>1, <2>2 DEF KeysUnique, OwnKey
<1> QED BY <1>1, NonceAlways, PTL

(* Together: with room for the sequence numbers, the pipeline implements   *)
(* Correlation.                                                            *)
THEOREM CorrelationWithRoom == ASSUME NoncesFit PROVE Spec => ImplementsCorrelation
BY KeysAlwaysUnique, CorrelationImplemented, PTL
=============================================================================
