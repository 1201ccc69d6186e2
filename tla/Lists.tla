------------------------------- MODULE Lists -------------------------------
(***************************************************************************)
(* Lists that stacks are put together from, as the fold and its promise    *)
(* both use them. They are SetToSortSeq and FlattenSeq of SequencesExt, in *)
(* a form that the proofs can take apart.                                  *)
(***************************************************************************)
EXTENDS Naturals, Sequences, FiniteSets

(* The elements of S in the strict total order Before: each has as many    *)
(* before it as it has predecessors in the list.                           *)
Ranked(S, Before(_, _)) ==
  [n \in 1 .. Cardinality(S) |->
     CHOOSE x \in S : Cardinality({y \in S : Before(y, x)}) = n - 1]

(* The sequences of ss, one after the other.                               *)
Concat(ss) ==
  LET upto[n \in 0 .. Len(ss)] == IF n = 0 THEN <<>> ELSE upto[n - 1] \o ss[n]
  IN upto[Len(ss)]
=============================================================================
