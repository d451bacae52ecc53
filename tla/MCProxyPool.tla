----------------------------- MODULE MCProxyPool -----------------------------
(* Model checking of ProxyPool. *)
EXTENDS ProxyPool
=============================================================================
