----------------------------- MODULE MCSqlSync -----------------------------
(* Two nodes; the second client is on the first one's node or on the other. *)
EXTENDS SqlSync, TLC

CONSTANTS n1, n2, c1, c2

MCHomes == {(c1 :> n1) @@ (c2 :> n) : n \in {n1, n2}}

=============================================================================
