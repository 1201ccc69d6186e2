---------------------------- MODULE MCLuaStates ----------------------------
(* Instances of LuaStates for TLC.                                         *)
EXTENDS LuaStates, TLC

CONSTANTS t1, t2, o1, A, B

TargetThreads == {t1, t2}
AllThreads == {t1, t2, o1}
OneThread == {t1}
States == {A, B}
Threadwise == Permutations(TargetThreads) \cup Permutations(States)
=============================================================================
