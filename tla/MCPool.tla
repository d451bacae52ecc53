------------------------------- MODULE MCPool -------------------------------
(* Model checking of Pool: a few clients, a pool smaller than the demand. *)
EXTENDS Pool
=============================================================================
