---------------------------- MODULE HelperProofs ----------------------------
(***************************************************************************)
(* Lemmas on the operators the specifications are built from: what those   *)
(* of BpfMap return, for maps of any size, Min and Max of sets of numbers, *)
(* and what the recursive functions of Lists are, step by step.            *)
(***************************************************************************)
EXTENDS BpfMap, Lists, Integers, FiniteSetsExt, WellFoundedInduction, TLAPS

(* The empty map has any type.                                             *)
LEMMA EmptyMapType ==
  ASSUME NEW V
  PROVE  DOMAIN EmptyMap = {} /\ EmptyMap \in [DOMAIN EmptyMap -> V]
BY DEF EmptyMap

(* Put keeps a map within its keys and values.                             *)
LEMMA PutType ==
  ASSUME NEW K, NEW V, NEW m, DOMAIN m \subseteq K, m \in [DOMAIN m -> V],
         NEW k \in K, NEW v \in V
  PROVE  /\ DOMAIN Put(m, k, v) \subseteq K
         /\ Put(m, k, v) \in [DOMAIN Put(m, k, v) -> V]
BY DEF Put

(* bpf_map_update_elem keeps a map within its keys and values, whether it  *)
(* is refused or not.                                                      *)
LEMMA MapUpdateType ==
  ASSUME NEW K, NEW V, NEW m, DOMAIN m \subseteq K, m \in [DOMAIN m -> V],
         NEW k \in K, NEW v \in V, NEW max
  PROVE  /\ DOMAIN MapUpdate(m, k, v, max) \subseteq K
         /\ MapUpdate(m, k, v, max) \in [DOMAIN MapUpdate(m, k, v, max) -> V]
<1>1. CASE HasRoom(m, k, max)
  <2>1. MapUpdate(m, k, v, max) = Put(m, k, v)
    BY <1>1 DEF MapUpdate
  <2>2. /\ DOMAIN Put(m, k, v) \subseteq K
        /\ Put(m, k, v) \in [DOMAIN Put(m, k, v) -> V]
    BY PutType
  <2> QED
    BY <2>1, <2>2
<1>2. CASE ~HasRoom(m, k, max)
  BY <1>2 DEF MapUpdate
<1> QED
  BY <1>1, <1>2

(* A present key is always replaced.                                       *)
LEMMA MapUpdatePresent ==
  ASSUME NEW m, NEW k \in DOMAIN m, NEW v, NEW max
  PROVE  MapUpdate(m, k, v, max) = Put(m, k, v)
BY DEF MapUpdate, HasRoom

-----------------------------------------------------------------------------
LEMMA MinOfTwo ==
  ASSUME NEW a \in Int, NEW b \in Int
  PROVE  Min({a, b}) = IF a <= b THEN a ELSE b
BY DEF Min

(* A set of numbers with a bound has a largest element, and Max is it.     *)
LEMMA MaxBounded ==
  ASSUME NEW S \in SUBSET Nat, NEW b \in Nat, S # {}, \A x \in S : x <= b
  PROVE  Max(S) \in S /\ \A x \in S : x <= Max(S)
<1> DEFINE T == {n \in 0 .. b : b - n \in S}
<1>1. T # {}
  <2>1. PICK x \in S : x \in Nat /\ x <= b
    OBVIOUS
  <2>2. b - x \in T
    BY <2>1
  <2> QED BY <2>2
<1>2. PICK n \in T : \A k \in T : ~(k < n)
  <2> DEFINE R == {p \in Nat \X Nat : p[1] < p[2]}
  <2>1. IsWellFoundedOn(R, Nat)
    BY NatLessThanWellFounded DEF OpToRel
  <2>2. T \subseteq Nat
    OBVIOUS
  <2>3. \E n \in T : \A k \in T : <<k, n>> \notin R
    <3> HIDE DEF T, R
    <3> QED BY <1>1, <2>1, <2>2, WFMin
  <2> QED BY <2>2, <2>3
<1>4. b - n \in S /\ \A x \in S : b - n >= x
  <2>1. \A x \in S : b - x \in T
    OBVIOUS
  <2> QED BY <1>2, <2>1
<1> QED BY <1>4 DEF Max

LEMMA MaxIs ==
  ASSUME NEW S \in SUBSET Int, NEW x \in S, \A y \in S : y <= x
  PROVE  Max(S) = x
<1>1. Max(S) \in S /\ Max(S) >= x
  BY DEF Max
<1>2. Max(S) \in Int /\ x \in Int /\ Max(S) <= x
  BY <1>1
<1> QED BY <1>1, <1>2

LEMMA MinIs ==
  ASSUME NEW S \in SUBSET Int, NEW x \in S, \A y \in S : x <= y
  PROVE  Min(S) = x
<1>1. Min(S) \in S /\ Min(S) <= x
  BY DEF Min
<1>2. Min(S) \in Int /\ x \in Int /\ x <= Min(S)
  BY <1>1
<1> QED BY <1>1, <1>2

(* A set of natural numbers has a least element, and Min is it.            *)
LEMMA MinExists ==
  ASSUME NEW S \in SUBSET Nat, S # {}
  PROVE  Min(S) \in S /\ \A x \in S : Min(S) <= x
<1> DEFINE R == {p \in Nat \X Nat : p[1] < p[2]}
<1>1. IsWellFoundedOn(R, Nat)
  BY NatLessThanWellFounded DEF OpToRel
<1>2. \E n \in S : \A k \in S : <<k, n>> \notin R
  <2> HIDE DEF R
  <2> QED BY <1>1, WFMin
<1>3. PICK n \in S : \A k \in S : <<k, n>> \notin R
  BY <1>2
<1>4. \A k \in S : n <= k
  <2> SUFFICES ASSUME NEW k \in S PROVE n <= k
    OBVIOUS
  <2>1. n \in Nat /\ k \in Nat
    OBVIOUS
  <2>2. ~(k < n)
    BY <1>3, <2>1
  <2> QED BY <2>1, <2>2
<1> QED BY <1>4, MinIs

-----------------------------------------------------------------------------
(* A set with 0 that goes on from each number below N has them all.        *)
LEMMA CountUp ==
  ASSUME NEW N \in Nat, NEW S, 0 \in S, \A n \in 0 .. N - 1 : n \in S => n + 1 \in S
  PROVE  \A n \in 0 .. N : n \in S
<1> DEFINE T == {n \in 0 .. N : n \notin S}
<1>1. CASE T = {}
  BY <1>1
<1>2. CASE T # {}
  <2>1. T \in SUBSET Nat
    OBVIOUS
  <2>2. PICK m : m \in T /\ \A x \in T : m <= x
    <3> HIDE DEF T
    <3> QED BY <1>2, <2>1, MinExists
  <2>3. m # 0 /\ m \in 0 .. N /\ m \notin S
    BY <2>2
  <2>4. m - 1 \in 0 .. N - 1
    BY <2>3
  <2>5. m - 1 \in S
    BY <2>2, <2>4
  <2>6. m \in S
    BY <2>3, <2>4, <2>5
  <2> QED BY <2>3, <2>6
<1> QED BY <1>1, <1>2

(* f starts with b and goes on by g.                                       *)
Stepwise(f, N, b, g) == f[0] = b /\ \A n \in 0 .. N - 1 : f[n + 1] = g[<<f[n], n + 1>>]

LEMMA StepwiseExists ==
  ASSUME NEW N \in Nat, NEW A, NEW b \in A, NEW g \in [A \X Nat -> A]
  PROVE  \E f \in [0 .. N -> A] : Stepwise(f, N, b, g)
<1> DEFINE P(m) == \E f \in [0 .. m -> A] :
                     f[0] = b /\ \A n \in 0 .. m - 1 : f[n + 1] = g[<<f[n], n + 1>>]
           S == {m \in Nat : P(m)}
<1>1. 0 \in S
  <2> DEFINE f == [n \in 0 .. 0 |-> b]
  <2>1. f \in [0 .. 0 -> A] /\ f[0] = b /\ \A n \in 0 .. 0 - 1 : f[n + 1] = g[<<f[n], n + 1>>]
    OBVIOUS
  <2> QED BY <2>1
<1>2. ASSUME NEW m \in 0 .. N - 1, m \in S
      PROVE  m + 1 \in S
  <2>1. PICK f \in [0 .. m -> A] :
          f[0] = b /\ \A n \in 0 .. m - 1 : f[n + 1] = g[<<f[n], n + 1>>]
    BY <1>2
  <2> DEFINE h == [n \in 0 .. m + 1 |-> IF n = m + 1 THEN g[<<f[m], m + 1>>] ELSE f[n]]
  <2>2. g[<<f[m], m + 1>>] \in A
    OBVIOUS
  <2>3. h \in [0 .. m + 1 -> A]
    BY <2>2
  <2>4. h[0] = b
    BY <2>1
  <2>5. ASSUME NEW n \in 0 .. (m + 1) - 1
        PROVE  h[n + 1] = g[<<h[n], n + 1>>]
    <3>1. n \in 0 .. m /\ n + 1 \in 0 .. m + 1 /\ h[n] = f[n]
      OBVIOUS
    <3>2. CASE n = m
      BY <3>1, <3>2
    <3>3. CASE n # m
      <4>1. n \in 0 .. m - 1 /\ h[n + 1] = f[n + 1]
        BY <3>1, <3>3
      <4> QED BY <2>1, <3>1, <4>1
    <3> QED BY <3>2, <3>3
  <2>6. P(m + 1)
    <3> HIDE DEF h
    <3> QED BY <2>3, <2>4, <2>5
  <2> QED BY <2>6
<1>3. \A m \in 0 .. N : m \in S
  <2> HIDE DEF S
  <2> QED BY <1>1, <1>2, CountUp
<1> QED BY <1>3 DEF Stepwise

(* Concat takes one sequence after the other.                              *)
Concats(upto, ss) ==
  /\ upto[0] = <<>>
  /\ \A n \in 0 .. Len(ss) - 1 : upto[n + 1] = upto[n] \o ss[n + 1]
  /\ Concat(ss) = upto[Len(ss)]

LEMMA ConcatSteps ==
  ASSUME NEW X, NEW ss \in Seq(Seq(X))
  PROVE  \E upto \in [0 .. Len(ss) -> Seq(X)] : Concats(upto, ss)
<1> DEFINE N == Len(ss)
           Appends(f) == f = [n \in 0 .. N |-> IF n = 0 THEN <<>> ELSE f[n - 1] \o ss[n]]
           g == [p \in Seq(X) \X Nat |-> IF p[2] \in 1 .. N THEN p[1] \o ss[p[2]] ELSE p[1]]
           upto == CHOOSE f : Appends(f)
<1>0. N \in Nat /\ \A n \in 1 .. N : ss[n] \in Seq(X)
  OBVIOUS
<1>1. g \in [Seq(X) \X Nat -> Seq(X)]
  BY <1>0
<1>2. PICK f \in [0 .. N -> Seq(X)] : Stepwise(f, N, <<>>, g)
  <2>1. N \in Nat /\ <<>> \in Seq(X)
    BY <1>0
  <2> HIDE DEF g, N
  <2> QED BY <1>1, <2>1, StepwiseExists
<1>3. Appends(f)
  <2>1. ASSUME NEW n \in 0 .. N - 1
        PROVE  f[n + 1] = f[n] \o ss[n + 1]
    <3>1. n \in 0 .. N /\ n + 1 \in Nat /\ n + 1 \in 1 .. N
      BY <1>0
    <3>2. f[n] \in Seq(X)
      BY <3>1
    <3>3. g[<<f[n], n + 1>>] = f[n] \o ss[n + 1]
      BY <3>1, <3>2
    <3> QED BY <1>2, <3>3 DEF Stepwise
  <2>2. ASSUME NEW n \in 0 .. N
        PROVE  f[n] = IF n = 0 THEN <<>> ELSE f[n - 1] \o ss[n]
    <3>1. CASE n = 0
      BY <1>2, <3>1 DEF Stepwise
    <3>2. CASE n # 0
      <4>1. n - 1 \in 0 .. N - 1 /\ (n - 1) + 1 = n
        BY <1>0, <3>2
      <4> QED BY <2>1, <3>2, <4>1
    <3> QED BY <3>1, <3>2
  <2> QED BY <2>2
<1>4. Appends(upto)
  <2> HIDE DEF Appends
  <2> QED BY <1>3
<1>5. Concat(ss) = upto[Len(ss)]
  BY DEF Concat
<1>6. upto[0] = <<>> /\ \A n \in 0 .. N - 1 : upto[n + 1] = upto[n] \o ss[n + 1]
  <2> HIDE DEF upto
  <2>1. \A n \in 0 .. N : upto[n] = IF n = 0 THEN <<>> ELSE upto[n - 1] \o ss[n]
    BY <1>4
  <2>2. upto[0] = <<>>
    BY <1>0, <2>1
  <2>3. ASSUME NEW n \in 0 .. N - 1
        PROVE  upto[n + 1] = upto[n] \o ss[n + 1]
    <3>1. n + 1 \in 0 .. N /\ n + 1 # 0 /\ (n + 1) - 1 = n
      BY <1>0
    <3> QED BY <2>1, <3>1
  <2> QED BY <2>2, <2>3
<1> HIDE DEF upto
<1>7. \A n \in 0 .. N : upto[n] \in Seq(X)
  <2> DEFINE S == {n \in 0 .. N : upto[n] \in Seq(X)}
  <2>1. 0 \in S
    <3>1. 0 \in 0 .. N /\ <<>> \in Seq(X)
      BY <1>0
    <3> QED BY <1>6, <3>1
  <2>2. ASSUME NEW n \in 0 .. N - 1, n \in S PROVE n + 1 \in S
    <3>1. n + 1 \in 0 .. N /\ upto[n] \in Seq(X) /\ ss[n + 1] \in Seq(X)
      BY <1>0, <2>2
    <3>2. upto[n] \o ss[n + 1] \in Seq(X)
      BY <3>1
    <3> QED BY <1>6, <3>1, <3>2
  <2> HIDE DEF S
  <2>3. \A n \in 0 .. N : n \in S
    BY <1>0, <2>1, <2>2, CountUp
  <2> QED BY <2>3 DEF S
<1>8. upto \in [0 .. N -> Seq(X)]
  BY <1>4, <1>7
<1> QED BY <1>5, <1>6, <1>8 DEF Concats
=============================================================================
