------------------------------ MODULE MCPlayer ------------------------------
(* Model checking of Player.                                               *)
EXTENDS PlayerScreening, TLC

Symmetry == Permutations(Client) \cup Permutations(Url)
=============================================================================
