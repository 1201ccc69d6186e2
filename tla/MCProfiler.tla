----------------------------- MODULE MCProfiler -----------------------------
(* Instances of Profiler for TLC.                                          *)
EXTENDS Profiler, TLC

CONSTANTS c1, c2, t1, t2, main_fn, leaf_fn, anon, null, unknown

OneCpu == {c1}
TwoCpus == {c1, c2}
TwoTids == {t1, t2}
NoNames == {}
TwoNames == {main_fn, leaf_fn}
NoNative == {<<>>}
OneNative == {<<anon, main_fn, anon>>}
AnyNative == {<<>>, <<leaf_fn, anon, null, anon, main_fn>>}
NoLua == {0}
TwoFrames == {0, 2}
UpToOne == {0, 1}
OuterLevel == {1}
Symmetric == Permutations(TwoCpus) \cup Permutations(TwoTids)

SE == INSTANCE SequencesExt

(* The operators of Lists are those of SequencesExt.                       *)
ASSUME ListsAssumption ==
  /\ \A S \in SUBSET (0 .. 4) : Ranked(S, >) = SE!SetToSortSeq(S, >)
  /\ \A n \in 0 .. 4 : \A ss \in [1 .. n -> {<<>>, <<1>>, <<2, 3>>}] :
       Concat(ss) = SE!FlattenSeq(ss)
=============================================================================
