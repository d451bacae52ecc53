------------------------------ MODULE Commands ------------------------------
(***************************************************************************)
(* What the write handlers of IceFireDB-NoSQL do to the database of the    *)
(* node that runs them.  A database is the content of the leveldb under    *)
(* main.db, one slot per stored entry:                                     *)
(*    <<"kv", k>>    the string at k (ledis KVType)                        *)
(*    <<"exp", k>>   the expiry time of that string (ledis ExpMetaType)    *)
(*    <<"z", m>>     the score of member m of a sorted set (one set)       *)
(*    <<"zs", <<m, x>>>>  the entry of the set's score index that says m   *)
(*                   has score x; its value is empty, here 0               *)
(*    <<"zsize", "set">>  the size of the set, which ZCARD answers         *)
(* and, apart, the time keys: <<k, t>> for every entry (ledis ExpTimeType) *)
(* that tells the TTL checker to look at k at time t.                      *)
(* Keys, members and the strings that are not numbers are opaque; a string *)
(* holding a decimal number is that number, because INCRBY parses it.      *)
(* Replies are left out: only the effect of a handler is modelled.         *)
(***************************************************************************)
EXTENDS Integers, Sequences, FiniteSets

CONSTANTS Key, Member,  \* string keys; members of the sorted set
          MinScore, MaxScore,  \* ledis refuses the scores at and beyond them
          Text,         \* a string value that does not parse as an integer
          Nil           \* no entry in leveldb

ASSUME NilAssumption == Nil \notin Int /\ Text \notin Int /\ Text # Nil

ASSUME ScoreAssumption ==
    IsFiniteSet(Member) /\ MinScore \in Int /\ MaxScore \in Int

Score == (MinScore + 1)..(MaxScore - 1)

Slot == ({"kv", "exp"} \X Key) \cup ({"z"} \X Member)
        \cup ({"zs"} \X (Member \X Score)) \cup ({"zsize"} \X {"set"})

Datum == Int \cup {Text}

\* Scores, sizes and expiry times are stored as integers.
Database ==
    {d \in [Slot -> Datum \cup {Nil}] : \A s \in Slot : d[s] = Text => s[1] = "kv"}

EmptyDatabase == [s \in Slot |-> Nil]

TimeKey == Key \X Int

KV(k) == <<"kv", k>>
Exp(k) == <<"exp", k>>
Z(m) == <<"z", m>>
ZS(m, x) == <<"zs", <<m, x>>>>
ZSize == <<"zsize", "set">>

-----------------------------------------------------------------------------
(* The commands, as the records the handlers read their arguments from.    *)
(* INCR is INCRBY 1 and DECR is DECRBY 1.                                  *)

LoggedCommand ==
    [op : {"SET", "SETNX", "GETSET"}, key : Key, val : Datum]
    \cup [op : {"MSET"}, keys : SUBSET Key, val : Datum]
    \cup [op : {"DEL"}, keys : SUBSET Key]
    \cup [op : {"INCRBY", "DECRBY"}, key : Key, delta : Int]
    \cup [op : {"EXPIRE", "EXPIREAT"}, key : Key, time : Int]
    \cup [op : {"SETEX", "SETEXAT"}, key : Key, time : Int, val : Datum]
    \cup [op : {"ZADD"}, member : Member, score : Int]
    \cup [op : {"ZREM"}, members : Seq(Member)]

\* sorted_sets.go registers these with AddReadCommand although they write.
ReadRegistered ==
    [op : {"ZINCRBY"}, member : Member, score : Int]
    \cup [op : {"ZREMRANGEBYSCORE"}, min : Int, max : Int]

-----------------------------------------------------------------------------
(* ledis operations, each a single write batch.                            *)

Set(d, k, v) == [d EXCEPT ![KV(k)] = v, ![Exp(k)] = Nil]

Del(d, K) ==
    [s \in Slot |-> IF s[1] \in {"kv", "exp"} /\ s[2] \in K THEN Nil ELSE d[s]]

\* incr fails, and writes nothing, when the string is not a number.
IncrBy(d, k, n) ==
    IF d[KV(k)] = Text THEN d
    ELSE [d EXCEPT ![KV(k)] = (IF @ = Nil THEN 0 ELSE @) + n]

\* ExpireAt refuses a time that is not in the future of the local clock.
ExpireAt(d, k, when, now) ==
    IF when > now /\ d[KV(k)] # Nil THEN [d EXCEPT ![Exp(k)] = when] ELSE d

SetEXAT(d, k, when, v, now) ==
    IF when > now THEN [d EXCEPT ![KV(k)] = v, ![Exp(k)] = when] ELSE d

-----------------------------------------------------------------------------
(* The handlers.  ts is the machine's replicated time, m.Now(); now is the *)
(* executing node's own time.Now().  Both in seconds.                      *)

HandleExpiration(d, k, when, now) ==
    IF when < now THEN Del(d, {k}) ELSE ExpireAt(d, k, when, now)

CmdSETEXAT(d, k, when, v, now) ==
    IF when < now THEN Del(d, {k}) ELSE SetEXAT(d, k, when, v, now)

CmdMSET(d, c) ==
    [s \in Slot |-> IF s[1] = "kv" /\ s[2] \in c.keys THEN c.val ELSE d[s]]

CmdSETNX(d, c) ==
    IF d[KV(c.key)] = Nil THEN [d EXCEPT ![KV(c.key)] = c.val] ELSE d

CmdGETSET(d, c) == [d EXCEPT ![KV(c.key)] = c.val]

CmdDECRBY(d, c) ==
    IncrBy(IF d[KV(c.key)] = Nil THEN Set(d, c.key, 0) ELSE d, c.key, 0 - c.delta)

\* zIncrSize: the size after n more members; none, when it would not be positive.
SizeAfter(d, n) ==
    LET size == (IF d[ZSize] = Nil THEN 0 ELSE d[ZSize]) + n
    IN  IF size <= 0 THEN Nil ELSE size

DelScore(d, m, x) == [s \in Slot |-> IF s = ZS(m, x) THEN Nil ELSE d[s]]

\* ZAdd with one pair.  zSetItem deletes the index entry of the old score before
\* it writes the new one; it looks only at the member's own entry.
CmdZADD(d, c) ==
    IF c.score \notin Score THEN d
    ELSE [DelScore(d, c.member, d[Z(c.member)]) EXCEPT
             ![ZS(c.member, c.score)] = 0, ![Z(c.member)] = c.score,
             ![ZSize] = SizeAfter(d, IF d[Z(c.member)] = Nil THEN 1 ELSE 0)]

Given(c) == {c.members[i] : i \in DOMAIN c.members}

\* zDelItem looks every member up on disk, so one given twice counts twice.
CmdZREM(d, c) ==
    LET num == Cardinality({i \in DOMAIN c.members : d[Z(c.members[i])] # Nil})
    IN  [s \in Slot |->
            IF \/ s[1] = "z" /\ s[2] \in Given(c)
               \/ s[1] = "zs" /\ s[2][1] \in Given(c) /\ d[Z(s[2][1])] = s[2][2]
            THEN Nil
            ELSE IF s = ZSize THEN SizeAfter(d, 0 - num) ELSE d[s]]

\* The index entry of the old score is deleted last, also when it is the new one.
CmdZINCRBY(d, c) ==
    LET old == d[Z(c.member)]
        new == (IF old = Nil THEN 0 ELSE old) + c.score
    IN  IF new \notin Score THEN d
        ELSE DelScore([d EXCEPT ![ZSize] = IF old = Nil THEN SizeAfter(d, 1) ELSE @,
                                ![ZS(c.member, new)] = 0, ![Z(c.member)] = new],
                      c.member, old)

\* zRemRange walks the score index; a member it meets twice counts twice.
CmdZREMRANGEBYSCORE(d, c) ==
    LET hit == {p \in Member \X Score :
                   d[<<"zs", p>>] # Nil /\ c.min <= p[2] /\ p[2] <= c.max}
        num == Cardinality({p \in hit : d[Z(p[1])] # Nil})
    IN  [s \in Slot |->
            IF \/ s[1] = "zs" /\ s[2] \in hit
               \/ s[1] = "z" /\ \E p \in hit : p[1] = s[2]
            THEN Nil
            ELSE IF s = ZSize THEN SizeAfter(d, 0 - num) ELSE d[s]]

\* The dispatch of the command table.
Exec(c, d, ts, now) ==
    CASE c.op = "SET"      -> Set(d, c.key, c.val)
      [] c.op = "MSET"     -> CmdMSET(d, c)
      [] c.op = "SETNX"    -> CmdSETNX(d, c)
      [] c.op = "GETSET"   -> CmdGETSET(d, c)
      [] c.op = "DEL"      -> Del(d, c.keys)
      [] c.op = "INCRBY"   -> IncrBy(d, c.key, c.delta)
      [] c.op = "DECRBY"   -> CmdDECRBY(d, c)
      [] c.op = "EXPIRE"   -> HandleExpiration(d, c.key, ts + c.time, now)
      [] c.op = "EXPIREAT" -> HandleExpiration(d, c.key, c.time, now)
      [] c.op = "SETEX"    -> CmdSETEXAT(d, c.key, ts + c.time, c.val, now)
      [] c.op = "SETEXAT"  -> CmdSETEXAT(d, c.key, c.time, c.val, now)
      [] c.op = "ZADD"     -> CmdZADD(d, c)
      [] c.op = "ZREM"     -> CmdZREM(d, c)
      [] c.op = "ZINCRBY"  -> CmdZINCRBY(d, c)
      [] c.op = "ZREMRANGEBYSCORE" -> CmdZREMRANGEBYSCORE(d, c)

-----------------------------------------------------------------------------
(* What the same handlers do to the time keys T of the node.               *)

\* rmExpire removes the time key of the current expiry time, and no older one.
RmExpire(T, d, K) == {x \in T : ~(x[1] \in K /\ x[2] = d[Exp(x[1])])}

When(c, ts) == IF c.op \in {"EXPIRE", "SETEX"} THEN ts + c.time ELSE c.time

\* expireAt adds a time key; the one of an earlier expiry time stays.
ExpireTimers(c, d, T, when, now) ==
    IF when < now THEN RmExpire(T, d, {c.key})
    ELSE IF when > now /\ (c.op \in {"SETEX", "SETEXAT"} \/ d[KV(c.key)] # Nil)
         THEN T \cup {<<c.key, when>>} ELSE T

ExecTimers(c, d, T, ts, now) ==
    CASE c.op = "SET"    -> RmExpire(T, d, {c.key})
      [] c.op = "DECRBY" -> IF d[KV(c.key)] = Nil THEN RmExpire(T, d, {c.key}) ELSE T
      [] c.op = "DEL"    -> RmExpire(T, d, c.keys)
      [] c.op \in {"EXPIRE", "EXPIREAT", "SETEX", "SETEXAT"}
                         -> ExpireTimers(c, d, T, When(c, ts), now)
      [] OTHER           -> T

-----------------------------------------------------------------------------
(* The slots a command may change, and whether what it leaves in one of    *)
(* them is the same whatever the database, the machine time and the local  *)
(* clock are.  No write to a sorted set's size or score index is blind:    *)
(* both depend on the score the member had.                                *)

ZWrites(M) == ({"z"} \X M) \cup ({"zs"} \X (M \X Score)) \cup {ZSize}

Writes(c) ==
    CASE c.op \in {"SET", "DECRBY", "EXPIRE", "EXPIREAT", "SETEX", "SETEXAT"}
                                           -> {KV(c.key), Exp(c.key)}
      [] c.op \in {"SETNX", "GETSET", "INCRBY"} -> {KV(c.key)}
      [] c.op = "MSET"                     -> {"kv"} \X c.keys
      [] c.op = "DEL"                      -> {"kv", "exp"} \X c.keys
      [] c.op \in {"ZADD", "ZINCRBY"}      -> ZWrites({c.member})
      [] c.op = "ZREM"                     -> ZWrites(Given(c))
      [] c.op = "ZREMRANGEBYSCORE"         -> ZWrites(Member)

Blind(c, s) ==
    \/ c.op \in {"SET", "MSET", "GETSET", "DEL"}
    \/ c.op = "ZADD" /\ s[1] = "z" /\ c.score \in Score
    \/ c.op = "ZREM" /\ s[1] = "z"

\* Commands that may give key k an expiry time.
Expires(c, k) == c.op \in {"EXPIRE", "EXPIREAT", "SETEX", "SETEXAT"} /\ c.key = k

\* Blind commands that leave no entry in slot s.
Erases(c, s) ==
    \/ c.op \in {"DEL", "ZREM"} /\ s \in Writes(c)
    \/ c.op = "SET" /\ s = Exp(c.key)
=============================================================================
