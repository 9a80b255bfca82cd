----------------------------- MODULE MCSchedule -----------------------------
(***************************************************************************)
(* Schedule for TLC: the edges of the frequency (negative, zero, one),     *)
(* frequencies that batches jump over, and one that is larger than any     *)
(* batch.                                                                  *)
(***************************************************************************)
EXTENDS Schedule

TestedFrequencies == {-1, 0, 1, 2, 3, 4, 7}

Symmetry == Permutations(TodoIds) \cup Permutations(Texts)
=============================================================================
