--------------------------- MODULE MCRecurrences ---------------------------
(* Instances of Recurrences small enough for TLC. *)
EXTENDS Recurrences, TLC

CONSTANTS w1, w2, c1

\* A single instant, or every one of them.
MCSchedules == {{1}, Slots}

Symmetry == Permutations(Workers)
=============================================================================
