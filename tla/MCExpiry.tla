------------------------------ MODULE MCExpiry ------------------------------
(* Instances of Expiry for TLC. *)
EXTENDS Expiry, TLC

CONSTANTS k1, k2

Keys == Permutations(Key)
=============================================================================
