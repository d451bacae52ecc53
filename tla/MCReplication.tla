--------------------------- MODULE MCReplication ---------------------------
(* Instances of Replication for TLC. *)
EXTENDS Replication, TLC

CONSTANTS k1, k2, m1, r1, r2

\* Blind writes and erasures on k1 and m1, read-modify-write commands on k2,
\* one of which can leave there a string that is not a number.
ReplayCommands ==
    { [op |-> "SET", key |-> k1, val |-> 1],
      [op |-> "DEL", keys |-> {k1}],
      [op |-> "SETNX", key |-> k2, val |-> Text],
      [op |-> "DECRBY", key |-> k2, delta |-> 2],
      [op |-> "ZADD", member |-> m1, score |-> 1],
      [op |-> "ZADD", member |-> m1, score |-> 2],
      [op |-> "ZREM", members |-> <<m1, m1>>] }

\* Logged blind writes on k1, expiring strings on k2, a sorted set written by
\* read-registered commands.
LocalCommands ==
    { [op |-> "MSET", keys |-> {k1, k2}, val |-> 1],
      [op |-> "GETSET", key |-> k1, val |-> Text],
      [op |-> "EXPIRE", key |-> k2, time |-> 1],
      [op |-> "ZINCRBY", member |-> m1, score |-> 1],
      [op |-> "ZREMRANGEBYSCORE", min |-> 1, max |-> 2] }

\* A counter, and nothing else: what a replay does to it.
CounterCommands == { [op |-> "INCRBY", key |-> k1, delta |-> 1] }

Replicas == Permutations(Replica)
=============================================================================
