---------------------------- MODULE MCRedisProxy ---------------------------
(* Two proxies, two clients on the first and one on the second.            *)
EXTENDS RedisProxy, TLC

CONSTANTS n1, n2, c1, c2, c3, k1, k2

MCHome == (c1 :> n1) @@ (c2 :> n1) @@ (c3 :> n2)

\* k2 is not UTF-8; its bytes become k1.
MCUtf8 == (k1 :> k1) @@ (k2 :> k1)

Cmd(cmd, keys, raw) == [cmd |-> cmd, keys |-> keys, raw |-> raw]

MCCommand == {Cmd("SET", {k1}, FALSE), Cmd("SET", {k1}, TRUE), Cmd("DEL", {k1, k2}, FALSE),
              Cmd("INCR", {k1}, FALSE), Cmd("KEYS", {}, FALSE), Cmd("MGET", {k1, k2}, FALSE),
              Cmd("PING", {}, FALSE), Cmd("PUBLISH", {}, FALSE), Cmd("SUBSCRIBE", {}, FALSE)}

=============================================================================
