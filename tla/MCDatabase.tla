----------------------------- MODULE MCDatabase -----------------------------
(* Model checking of Database with any callers. *)
EXTENDS Database, TLC

Symmetry == Permutations(Url)
=============================================================================
