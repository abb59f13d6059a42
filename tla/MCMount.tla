------------------------------- MODULE MCMount -------------------------------
(* Model checking of Mount. *)
EXTENDS Mount
=============================================================================
