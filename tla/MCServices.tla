----------------------------- MODULE MCServices -----------------------------
(* Model checking of Services. *)
EXTENDS Services, TLC
Symmetry == Permutations(Service)
=============================================================================
