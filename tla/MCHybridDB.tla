----------------------------- MODULE MCHybridDB -----------------------------
(* Model checking of HybridDB. *)
EXTENDS HybridDB
=============================================================================
