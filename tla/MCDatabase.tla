----------------------------- MODULE MCDatabase -----------------------------
(* A database of up to two tables, with three names for their columns. *)
EXTENDS Database

Symmetry == Permutations(Tables) \cup Permutations(Cols)
=============================================================================
