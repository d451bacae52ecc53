----------------------------- MODULE MCKeyspace -----------------------------
(* The instance of Keyspace for TLC. *)
EXTENDS Keyspace

\* Two keys where commands relate keys, one where they do not.
MCKeysOf == [t \in {"kv", "list", "set"} |-> {1, 2}] @@ [t \in {"hash", "zset"} |-> {1}]
MCMember == 1..2
MCScanModes == {[group |-> "redis", count |-> 1, desc |-> FALSE],
                [group |-> "redis", count |-> 2, desc |-> TRUE],
                [group |-> "x", count |-> 1, desc |-> TRUE]}
MCMinSeq == -2
MCValue == {1, 2, Blank}
=============================================================================
