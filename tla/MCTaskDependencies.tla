------------------------- MODULE MCTaskDependencies -------------------------
(* Instances of TaskDependencies small enough for TLC. *)
EXTENDS TaskDependencies, TLC

CONSTANTS t1, t2, t3, p1, p2

\* t1 waits for t2.
OneEdge == {<<t2, t1>>}
\* t3 waits for t1 and for t2.
JoinEdges == {<<t1, t3>>, <<t2, t3>>}

Symmetry == Permutations(Requests)
=============================================================================
