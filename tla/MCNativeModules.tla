--------------------------- MODULE MCNativeModules ---------------------------
(* Instances of NativeModules for TLC.                                     *)
EXTENDS NativeModules, TLC

CONSTANTS app, lib

R(offset, vaddr, memsz) == [offset |-> offset, vaddr |-> vaddr, memsz |-> memsz, executable |-> FALSE]
X(offset, vaddr, memsz) == [offset |-> offset, vaddr |-> vaddr, memsz |-> memsz, executable |-> TRUE]

(* Position dependent; code on its own pages; code in the middle of a page *)
(* that earlier data also uses; data that is longer in memory than in the  *)
(* file; stripped of unwind data; two pieces of code in one page of the    *)
(* file. Long and High do not fit where the target has the file they       *)
(* replace; NotElf is read and does not parse.                             *)
Fixed == [segments |-> <<X(0, 8, 3), R(3, 15, 5)>>, cfi |-> TRUE, pie |-> FALSE]
Separate == [segments |-> <<R(0, 0, 4), X(4, 4, 3), R(8, 9, 6)>>, cfi |-> TRUE, pie |-> TRUE]
Packed == [segments |-> <<R(0, 0, 5), X(5, 9, 2)>>, cfi |-> TRUE, pie |-> TRUE]
Tiny == [segments |-> <<R(0, 0, 2), X(2, 6, 2)>>, cfi |-> TRUE, pie |-> TRUE]
Bare == [segments |-> <<X(0, 0, 4)>>, cfi |-> FALSE, pie |-> TRUE]
Split == [segments |-> <<X(0, 0, 2), X(2, 6, 2)>>, cfi |-> TRUE, pie |-> TRUE]
Long == [segments |-> <<X(0, 0, 40)>>, cfi |-> TRUE, pie |-> TRUE]
High == [segments |-> <<X(0, 62, 2)>>, cfi |-> TRUE, pie |-> TRUE]
NotElf == [segments |-> <<>>, cfi |-> FALSE, pie |-> TRUE]

TwoFiles == {app, lib}
Layouts == {Fixed, Separate, Packed, Tiny, Bare, Split}
Corrupt == {High, Long, NotElf}
Places == {0, 16, 32}
EitherFile == Permutations(TwoFiles)
==============================================================================
