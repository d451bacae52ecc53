------------------------- MODULE ReplicationProofs -------------------------
(***************************************************************************)
(* Theorems about Replication for every set of replicas, keys, members and *)
(* commands and every bound.                                               *)
(***************************************************************************)
EXTENDS Replication, FiniteSetTheorems, TLAPS

-----------------------------------------------------------------------------
(* What Exec may do to a database, for every command.                      *)

(* The slots of a key and of a member are slots, and all are different. *)
LEMMA SlotFacts ==
    /\ \A k \in Key : KV(k) \in Slot /\ Exp(k) \in Slot /\ KV(k) # Exp(k)
    /\ \A k \in Key : KV(k)[1] = "kv" /\ Exp(k)[1] = "exp"
    /\ \A m \in Member : Z(m) \in Slot /\ Z(m)[1] = "z"
    /\ \A m \in Member, x \in Score : ZS(m, x) \in Slot
    /\ \A m, x : ZS(m, x)[1] = "zs" /\ ZS(m, x)[2] = <<m, x>>
    /\ ZSize \in Slot /\ ZSize[1] = "zsize"
BY DEF Slot, KV, Exp, Z, ZS, ZSize

(* Writing one slot of a database with a datum of the slot's kind. *)
LEMMA UpdateType ==
    ASSUME NEW d \in Database, NEW s \in Slot, NEW v \in Datum \cup {Nil},
           v = Text => s[1] = "kv"
    PROVE  [d EXCEPT ![s] = v] \in Database
BY DEF Database

(* What a slot of a database can hold. *)
LEMMA SlotContent ==
    ASSUME NEW d \in Database, NEW s \in Slot
    PROVE  /\ d[s] \in Int \/ d[s] = Text \/ d[s] = Nil
           /\ s[1] # "kv" => d[s] \in Int \/ d[s] = Nil
           /\ d[s] \in Datum \cup {Nil}
BY DEF Database, Datum

(* SET leaves a well-formed database. *)
LEMMA SetType ==
    ASSUME NEW d \in Database, NEW k \in Key, NEW v \in Datum
    PROVE  Set(d, k, v) \in Database
<1>1. [d EXCEPT ![KV(k)] = v] \in Database
  BY UpdateType, SlotFacts
<1>2. Nil \in Datum \cup {Nil} /\ Nil # Text
  BY NilAssumption
<1>3. [[d EXCEPT ![KV(k)] = v] EXCEPT ![Exp(k)] = Nil] \in Database
  BY <1>1, <1>2, UpdateType, SlotFacts
<1> QED
  BY <1>3 DEF Set

(* DEL, with any set of keys, leaves a well-formed database. *)
LEMMA DelType ==
    ASSUME NEW d \in Database, NEW K
    PROVE  Del(d, K) \in Database
BY NilAssumption DEF Del, Database

(* INCRBY leaves a well-formed database: it adds numbers only. *)
LEMMA IncrType ==
    ASSUME NEW d \in Database, NEW k \in Key, NEW n \in Int
    PROVE  IncrBy(d, k, n) \in Database
<1>1. CASE d[KV(k)] = Text
  BY <1>1 DEF IncrBy
<1>2. CASE d[KV(k)] # Text
  <2> DEFINE v == (IF d[KV(k)] = Nil THEN 0 ELSE d[KV(k)]) + n
  <2>1. v \in Int
    BY <1>2, SlotContent, SlotFacts
  <2>2. [d EXCEPT ![KV(k)] = v] \in Database
    BY <2>1, UpdateType, SlotFacts DEF Datum
  <2> QED
    BY <1>2, <2>2 DEF IncrBy
<1> QED BY <1>1, <1>2

(* EXPIRE and EXPIREAT leave a well-formed database. *)
LEMMA ExpirationType ==
    ASSUME NEW d \in Database, NEW k \in Key, NEW w \in Int, NEW now \in Int
    PROVE  HandleExpiration(d, k, w, now) \in Database
<1>1. [d EXCEPT ![Exp(k)] = w] \in Database
  BY UpdateType, SlotFacts, NilAssumption DEF Datum
<1> QED
  BY <1>1, DelType DEF HandleExpiration, ExpireAt

(* SETEX and SETEXAT leave a well-formed database. *)
LEMMA SetexatType ==
    ASSUME NEW d \in Database, NEW k \in Key, NEW w \in Int, NEW v \in Datum,
           NEW now \in Int
    PROVE  CmdSETEXAT(d, k, w, v, now) \in Database
<1>1. [d EXCEPT ![KV(k)] = v] \in Database
  BY UpdateType, SlotFacts
<1>2. [[d EXCEPT ![KV(k)] = v] EXCEPT ![Exp(k)] = w] \in Database
  BY <1>1, UpdateType, SlotFacts, NilAssumption DEF Datum
<1> QED
  BY <1>2, DelType DEF CmdSETEXAT, SetEXAT

(* A sorted set's size stays an integer, or there is none. *)
LEMMA SizeType ==
    ASSUME NEW d \in Database, NEW n \in Int
    PROVE  SizeAfter(d, n) \in Int \cup {Nil}
<1>1. d[ZSize] \in Int \/ d[ZSize] = Nil
  BY SlotContent, SlotFacts
<1> QED BY <1>1 DEF SizeAfter

(* Deleting an index entry leaves a well-formed database. *)
LEMMA DelScoreType ==
    ASSUME NEW d \in Database, NEW m, NEW x
    PROVE  DelScore(d, m, x) \in Database
BY NilAssumption DEF DelScore, Database

(* The three entries ZADD and ZINCRBY write. *)
LEMMA ZPutType ==
    ASSUME NEW d \in Database, NEW m \in Member, NEW x \in Score, NEW n \in Int \cup {Nil}
    PROVE  /\ [d EXCEPT ![ZS(m, x)] = 0, ![Z(m)] = x, ![ZSize] = n] \in Database
           /\ [d EXCEPT ![ZSize] = n, ![ZS(m, x)] = 0, ![Z(m)] = x] \in Database
<1>0. /\ x \in Int /\ 0 \in Datum \cup {Nil} /\ x \in Datum \cup {Nil} /\ n \in Datum \cup {Nil}
      /\ 0 # Text /\ x # Text /\ n # Text
  BY NilAssumption, ScoreAssumption DEF Datum, Score
<1>1. [d EXCEPT ![ZS(m, x)] = 0] \in Database
  BY <1>0, UpdateType, SlotFacts
<1>2. [[d EXCEPT ![ZS(m, x)] = 0] EXCEPT ![Z(m)] = x] \in Database
  BY <1>0, <1>1, UpdateType, SlotFacts
<1>3. [[[d EXCEPT ![ZS(m, x)] = 0] EXCEPT ![Z(m)] = x] EXCEPT ![ZSize] = n] \in Database
  BY <1>0, <1>2, UpdateType, SlotFacts
<1>4. [d EXCEPT ![ZSize] = n] \in Database
  BY <1>0, UpdateType, SlotFacts
<1>5. [[d EXCEPT ![ZSize] = n] EXCEPT ![ZS(m, x)] = 0] \in Database
  BY <1>0, <1>4, UpdateType, SlotFacts
<1>6. [[[d EXCEPT ![ZSize] = n] EXCEPT ![ZS(m, x)] = 0] EXCEPT ![Z(m)] = x] \in Database
  BY <1>0, <1>5, UpdateType, SlotFacts
<1> QED BY <1>3, <1>6

(* Every command leaves a well-formed database. *)
LEMMA ExecType ==
    ASSUME NEW c \in LoggedCommand \cup ReadRegistered, NEW d \in Database,
           NEW t \in Int, NEW now \in Int
    PROVE  Exec(c, d, t, now) \in Database
<1>6. CASE c \in [op : {"SET", "SETNX", "GETSET"}, key : Key, val : Datum]
  <2>1. [d EXCEPT ![KV(c.key)] = c.val] \in Database
    BY <1>6, UpdateType, SlotFacts
  <2>2. Set(d, c.key, c.val) \in Database
    BY <1>6, SetType
  <2>3. c.op \in {"SET", "SETNX", "GETSET"}
    BY <1>6
  <2> QED BY <2>1, <2>2, <2>3 DEF Exec, CmdSETNX, CmdGETSET
<1>7. CASE c \in [op : {"MSET"}, keys : SUBSET Key, val : Datum]
  <2>1. CmdMSET(d, c) \in Database
    BY <1>7 DEF CmdMSET, Database
  <2> QED BY <2>1, <1>7 DEF Exec
<1>8. CASE c \in [op : {"DEL"}, keys : SUBSET Key]
  BY <1>8, DelType DEF Exec
<1>9. CASE c \in [op : {"INCRBY", "DECRBY"}, key : Key, delta : Int]
  <2>1. 0 \in Datum /\ 0 - c.delta \in Int /\ c.key \in Key /\ c.delta \in Int
    BY <1>9 DEF Datum
  <2>2. IncrBy(d, c.key, c.delta) \in Database
    BY <2>1, IncrType
  <2>3. CmdDECRBY(d, c) \in Database
    BY <2>1, IncrType, SetType DEF CmdDECRBY
  <2> QED BY <2>2, <2>3, <1>9 DEF Exec
<1>10. CASE c \in [op : {"EXPIRE", "EXPIREAT"}, key : Key, time : Int]
  <2>1. t + c.time \in Int /\ c.time \in Int /\ c.key \in Key
    BY <1>10
  <2> QED BY <2>1, <1>10, ExpirationType DEF Exec
<1>11. CASE c \in [op : {"SETEX", "SETEXAT"}, key : Key, time : Int, val : Datum]
  <2>1. t + c.time \in Int /\ c.time \in Int /\ c.key \in Key /\ c.val \in Datum
    BY <1>11
  <2> QED BY <2>1, <1>11, SetexatType DEF Exec
<1>12. CASE c \in [op : {"ZADD"}, member : Member, score : Int]
  <2> DEFINE n == SizeAfter(d, IF d[Z(c.member)] = Nil THEN 1 ELSE 0)
             b == DelScore(d, c.member, d[Z(c.member)])
  <2>1. n \in Int \cup {Nil} /\ c.member \in Member
    BY <1>12, SizeType
  <2>2. b \in Database
    BY DelScoreType
  <2>3. CmdZADD(d, c) = IF c.score \notin Score THEN d
           ELSE [b EXCEPT ![ZS(c.member, c.score)] = 0, ![Z(c.member)] = c.score, ![ZSize] = n]
    BY DEF CmdZADD
  <2> HIDE DEF n, b
  <2>4. CmdZADD(d, c) \in Database
    BY <2>1, <2>2, <2>3, ZPutType
  <2> QED BY <2>4, <1>12 DEF Exec
<1>13. CASE c \in [op : {"ZREM"}, members : Seq(Member)]
  <2> DEFINE I == {i \in DOMAIN c.members : d[Z(c.members[i])] # Nil}
             n == SizeAfter(d, 0 - Cardinality(I))
  <2>1. IsFiniteSet(I)
    <3>1. I \subseteq 1..Len(c.members) /\ Len(c.members) \in Int /\ 1 \in Int
      BY <1>13
    <3>2. IsFiniteSet(1..Len(c.members))
      BY <3>1, FS_Interval
    <3> HIDE DEF I
    <3> QED BY <3>1, <3>2, FS_Subset
  <2>2. Cardinality(I) \in Nat
    BY <2>1, FS_CardinalityType
  <2>3. n \in Int \cup {Nil}
    BY <2>2, SizeType
  <2>4. CmdZREM(d, c) = [s \in Slot |->
            IF \/ s[1] = "z" /\ s[2] \in Given(c)
               \/ s[1] = "zs" /\ s[2][1] \in Given(c) /\ d[Z(s[2][1])] = s[2][2]
            THEN Nil
            ELSE IF s = ZSize THEN n ELSE d[s]]
    BY DEF CmdZREM
  <2> HIDE DEF n
  <2>5. CmdZREM(d, c) \in Database
    BY <2>3, <2>4, NilAssumption, SlotFacts DEF Database, Datum
  <2> QED BY <2>5, <1>13 DEF Exec
<1>14. CASE c \in [op : {"ZINCRBY"}, member : Member, score : Int]
  <2> DEFINE old == d[Z(c.member)]
             new == (IF old = Nil THEN 0 ELSE old) + c.score
             n == IF old = Nil THEN SizeAfter(d, 1) ELSE d[ZSize]
             b == [d EXCEPT ![ZSize] = n, ![ZS(c.member, new)] = 0, ![Z(c.member)] = new]
  <2>1. n \in Int \cup {Nil} /\ c.member \in Member
    BY <1>14, SizeType, SlotContent, SlotFacts
  <2>2. CmdZINCRBY(d, c) = IF new \notin Score THEN d ELSE DelScore(b, c.member, old)
    BY DEF CmdZINCRBY
  <2> HIDE DEF n, new, old
  <2>3. new \in Score => b \in Database
    BY <2>1, ZPutType
  <2> HIDE DEF b
  <2>4. CmdZINCRBY(d, c) \in Database
    BY <2>2, <2>3, DelScoreType
  <2> QED BY <2>4, <1>14 DEF Exec
<1>15. CASE c \in [op : {"ZREMRANGEBYSCORE"}, min : Int, max : Int]
  <2> DEFINE hit == {p \in Member \X Score :
                        d[<<"zs", p>>] # Nil /\ c.min <= p[2] /\ p[2] <= c.max}
             I == {p \in hit : d[Z(p[1])] # Nil}
             n == SizeAfter(d, 0 - Cardinality(I))
  <2>1. IsFiniteSet(I)
    <3>1. IsFiniteSet(Member) /\ IsFiniteSet(Score)
      BY ScoreAssumption, FS_Interval DEF Score
    <3>2. IsFiniteSet(Member \X Score)
      BY <3>1, FS_Product
    <3>3. I \subseteq Member \X Score
      OBVIOUS
    <3> QED BY <3>2, <3>3, FS_Subset
  <2>2. Cardinality(I) \in Nat
    BY <2>1, FS_CardinalityType
  <2>3. n \in Int \cup {Nil}
    BY <2>2, SizeType
  <2>4. CmdZREMRANGEBYSCORE(d, c) = [s \in Slot |->
            IF \/ s[1] = "zs" /\ s[2] \in hit
               \/ s[1] = "z" /\ \E p \in hit : p[1] = s[2]
            THEN Nil
            ELSE IF s = ZSize THEN n ELSE d[s]]
    BY DEF CmdZREMRANGEBYSCORE
  <2> HIDE DEF n, hit
  <2>5. CmdZREMRANGEBYSCORE(d, c) \in Database
    BY <2>3, <2>4, NilAssumption, SlotFacts DEF Database, Datum
  <2> QED BY <2>5, <1>15 DEF Exec
<1> QED
  BY <1>6, <1>7, <1>8, <1>9, <1>10, <1>11, <1>12, <1>13, <1>14, <1>15
     DEF LoggedCommand, ReadRegistered

(* A slot is the pair of its kind and its key or member. *)
LEMMA SlotPair ==
    ASSUME NEW s \in Slot
    PROVE  /\ \/ s[1] \in {"kv", "exp"} /\ s[2] \in Key
              \/ s[1] = "z" /\ s[2] \in Member
              \/ s[1] = "zs" /\ s[2] \in Member \X Score
              \/ s = ZSize
           /\ s = <<s[1], s[2]>>
BY DEF Slot, ZSize

(* A command leaves every slot it does not write as it was. *)
LEMMA ExecFrame ==
    ASSUME NEW c \in LoggedCommand \cup ReadRegistered, NEW d \in Database,
           NEW t \in Int, NEW now \in Int, NEW s \in Slot, s \notin Writes(c)
    PROVE  Exec(c, d, t, now)[s] = d[s]
<1> d \in [Slot -> Datum \cup {Nil}]
  BY DEF Database
<1> USE SlotFacts, SlotPair
<1>1. CASE c \in [op : {"SET", "SETNX", "GETSET"}, key : Key, val : Datum]
  <2>1. c.op \in {"SET", "SETNX", "GETSET"} /\ c.key \in Key
    BY <1>1
  <2>2. s # KV(c.key) /\ (c.op = "SET" => s # Exp(c.key))
    BY <2>1 DEF Writes
  <2> QED BY <2>1, <2>2 DEF Exec, Set, CmdSETNX, CmdGETSET
<1>2. CASE c \in [op : {"MSET"}, keys : SUBSET Key, val : Datum]
  <2>1. ~(s[1] = "kv" /\ s[2] \in c.keys)
    BY <1>2 DEF Writes
  <2> QED BY <1>2, <2>1 DEF Exec, CmdMSET
<1>3. CASE c \in [op : {"DEL"}, keys : SUBSET Key]
  <2>1. ~(s[1] \in {"kv", "exp"} /\ s[2] \in c.keys)
    BY <1>3 DEF Writes
  <2> QED BY <1>3, <2>1 DEF Exec, Del
<1>4. CASE c \in [op : {"INCRBY", "DECRBY"}, key : Key, delta : Int]
  <2>1. c.op \in {"INCRBY", "DECRBY"} /\ c.key \in Key /\ c.delta \in Int
    BY <1>4
  <2>2. s # KV(c.key) /\ (c.op = "DECRBY" => s # Exp(c.key))
    BY <2>1 DEF Writes
  <2>3. \A e \in Database, n \in Int : IncrBy(e, c.key, n)[s] = e[s]
    BY <2>1, <2>2 DEF IncrBy, Database
  <2>4. CASE c.op = "INCRBY"
    BY <2>1, <2>3, <2>4 DEF Exec
  <2>5. CASE c.op = "DECRBY"
    <3>1. Set(d, c.key, 0)[s] = d[s]
      BY <2>1, <2>2, <2>5 DEF Set
    <3>3. Set(d, c.key, 0) \in Database
      BY <2>1, SetType DEF Datum
    <3>2. 0 - c.delta \in Int
      BY <2>1
    <3> QED BY <2>3, <2>5, <3>1, <3>2, <3>3 DEF Exec, CmdDECRBY
  <2> QED BY <2>1, <2>4, <2>5
<1>5. CASE c \in [op : {"EXPIRE", "EXPIREAT"}, key : Key, time : Int]
  <2>1. c.op \in {"EXPIRE", "EXPIREAT"} /\ c.key \in Key
    BY <1>5
  <2>2. s # KV(c.key) /\ s # Exp(c.key)
    BY <2>1 DEF Writes
  <2>3. Del(d, {c.key})[s] = d[s]
    BY <2>2 DEF Del, KV, Exp
  <2>4. \A w : HandleExpiration(d, c.key, w, now)[s] = d[s]
    BY <2>1, <2>2, <2>3 DEF HandleExpiration, ExpireAt
  <2> QED BY <2>1, <2>4 DEF Exec
<1>6. CASE c \in [op : {"SETEX", "SETEXAT"}, key : Key, time : Int, val : Datum]
  <2>1. c.op \in {"SETEX", "SETEXAT"} /\ c.key \in Key
    BY <1>6
  <2>2. s # KV(c.key) /\ s # Exp(c.key)
    BY <2>1 DEF Writes
  <2>3. Del(d, {c.key})[s] = d[s]
    BY <2>2 DEF Del, KV, Exp
  <2>4. \A w, v : CmdSETEXAT(d, c.key, w, v, now)[s] = d[s]
    BY <2>1, <2>2, <2>3 DEF CmdSETEXAT, SetEXAT
  <2> QED BY <2>1, <2>4 DEF Exec
<1>7. CASE c \in [op : {"ZADD"}, member : Member, score : Int]
  <2>1. s # ZSize /\ s # Z(c.member) /\ \A x \in Score : s # ZS(c.member, x)
    BY <1>7 DEF Writes, ZWrites, Z, ZS
  <2>2. \A x : s # ZS(c.member, x)
    BY <2>1 DEF Slot, ZS
  <2> QED BY <1>7, <2>1, <2>2 DEF Exec, CmdZADD, DelScore
<1>8. CASE c \in [op : {"ZREM"}, members : Seq(Member)]
  <2>1. s # ZSize /\ ~(s[1] = "z" /\ s[2] \in Given(c))
    BY <1>8 DEF Writes, ZWrites
  <2>2. ~(s[1] = "zs" /\ s[2][1] \in Given(c))
    BY <1>8, <2>1 DEF Writes, ZWrites
  <2> QED BY <1>8, <2>1, <2>2 DEF Exec, CmdZREM
<1>9. CASE c \in [op : {"ZINCRBY"}, member : Member, score : Int]
  <2>1. s # ZSize /\ s # Z(c.member) /\ \A x \in Score : s # ZS(c.member, x)
    BY <1>9 DEF Writes, ZWrites, Z, ZS
  <2>2. \A x : s # ZS(c.member, x)
    BY <2>1 DEF Slot, ZS
  <2> QED BY <1>9, <2>1, <2>2 DEF Exec, CmdZINCRBY, DelScore
<1>10. CASE c \in [op : {"ZREMRANGEBYSCORE"}, min : Int, max : Int]
  <2>1. s[1] \notin {"z", "zs"} /\ s # ZSize
    BY <1>10 DEF Writes, ZWrites
  <2> QED BY <1>10, <2>1 DEF Exec, CmdZREMRANGEBYSCORE
<1> QED
  BY <1>1, <1>2, <1>3, <1>4, <1>5, <1>6, <1>7, <1>8, <1>9, <1>10
     DEF LoggedCommand, ReadRegistered

(* What a blind command leaves in a slot it writes depends on nothing but  *)
(* the command, and it is an entry unless the command erases the slot.     *)
LEMMA ExecBlind ==
    ASSUME NEW c \in LoggedCommand, NEW s \in Slot, Blind(c, s), s \in Writes(c),
           NEW d \in Database, NEW t, NEW now,
           NEW e \in Database, NEW u, NEW then
    PROVE  /\ Exec(c, d, t, now)[s] = Exec(c, e, u, then)[s]
           /\ ~Erases(c, s) => Exec(c, d, t, now)[s] # Nil
<1> d \in [Slot -> Datum \cup {Nil}] /\ e \in [Slot -> Datum \cup {Nil}]
  BY DEF Database
<1>0. Nil \notin Datum /\ \A n \in Int : n # Nil
  BY NilAssumption DEF Datum
<1> USE SlotFacts, SlotPair
<1>1. CASE c \in [op : {"SET", "SETNX", "GETSET"}, key : Key, val : Datum]
  <2>1. c.op \in {"SET", "GETSET"} /\ c.key \in Key /\ c.val # Nil
    BY <1>0, <1>1 DEF Blind
  <2>2. s = KV(c.key) \/ (c.op = "SET" /\ s = Exp(c.key))
    BY <2>1 DEF Writes
  <2>3. Erases(c, s) <=> c.op = "SET" /\ s = Exp(c.key)
    BY <2>1 DEF Erases
  <2> QED BY <2>1, <2>2, <2>3 DEF Exec, Set, CmdGETSET
<1>2. CASE c \in [op : {"MSET"}, keys : SUBSET Key, val : Datum]
  <2>1. s[1] = "kv" /\ s[2] \in c.keys /\ c.val # Nil
    BY <1>0, <1>2 DEF Writes
  <2> QED BY <1>2, <2>1 DEF Exec, CmdMSET
<1>3. CASE c \in [op : {"DEL"}, keys : SUBSET Key]
  <2>1. s[1] \in {"kv", "exp"} /\ s[2] \in c.keys /\ Erases(c, s)
    BY <1>3 DEF Writes, Erases
  <2> QED BY <1>3, <2>1 DEF Exec, Del
<1>7. CASE c \in [op : {"ZADD"}, member : Member, score : Int]
  <2>1. s = Z(c.member) /\ c.score # Nil /\ c.score \in Score
    BY <1>0, <1>7 DEF Blind, Writes, ZWrites, ZSize, Z
  <2>2. Z(c.member) # ZSize
    BY <1>7
  <2> QED BY <1>7, <2>1, <2>2 DEF Exec, CmdZADD, DelScore
<1>8. CASE c \in [op : {"ZREM"}, members : Seq(Member)]
  <2>1. s[1] = "z" /\ s[2] \in Given(c) /\ Erases(c, s)
    BY <1>8 DEF Blind, Writes, ZWrites, ZSize, Erases
  <2> QED BY <1>8, <2>1 DEF Exec, CmdZREM
<1> QED
  BY <1>1, <1>2, <1>3, <1>7, <1>8 DEF LoggedCommand, Blind

(* Only EXPIRE, EXPIREAT, SETEX and SETEXAT give a string an expiry time. *)
LEMMA ExecNoExpiry ==
    ASSUME NEW c \in LoggedCommand \cup ReadRegistered, NEW d \in Database,
           NEW t \in Int, NEW now \in Int, NEW k \in Key,
           ~Expires(c, k), d[Exp(k)] = Nil
    PROVE  Exec(c, d, t, now)[Exp(k)] = Nil
<1> USE SlotFacts
<1>1. CASE Exp(k) \notin Writes(c)
  BY <1>1, ExecFrame
<1>2. CASE c \in [op : {"SET", "SETNX", "GETSET"}, key : Key, val : Datum] /\ Exp(k) \in Writes(c)
  <2>1. c.op = "SET" /\ Exp(k) = Exp(c.key) /\ c.key \in Key
    BY <1>2 DEF Writes, KV, Exp
  <2> QED BY <2>1 DEF Exec, Set, Database
<1>3. CASE c \in [op : {"DEL"}, keys : SUBSET Key] /\ Exp(k) \in Writes(c)
  <2>1. c.op = "DEL" /\ k \in c.keys
    BY <1>3 DEF Writes, Exp
  <2> QED BY <2>1 DEF Exec, Del, Exp
<1>4. CASE c \in [op : {"INCRBY", "DECRBY"}, key : Key, delta : Int] /\ Exp(k) \in Writes(c)
  <2>1. c.op = "DECRBY" /\ k = c.key
    BY <1>4 DEF Writes, KV, Exp
  <2>2. \A e \in Database : IncrBy(e, k, 0 - c.delta)[Exp(k)] = e[Exp(k)]
    BY DEF IncrBy, Database
  <2>3. Set(d, k, 0)[Exp(k)] = Nil
    BY DEF Set, Database
  <2>4. Set(d, k, 0) \in Database
    BY SetType DEF Datum
  <2> QED BY <2>1, <2>2, <2>3, <2>4 DEF Exec, CmdDECRBY
<1>5. c.op \notin {"SET", "DEL", "DECRBY"} => Exp(k) \notin Writes(c)
  BY DEF LoggedCommand, ReadRegistered, Writes, ZWrites, ZSize, Expires, KV, Exp, Z
<1>6. c.op = "SET" => c \in [op : {"SET", "SETNX", "GETSET"}, key : Key, val : Datum]
  BY DEF LoggedCommand, ReadRegistered
<1>7. c.op = "DEL" => c \in [op : {"DEL"}, keys : SUBSET Key]
  BY DEF LoggedCommand, ReadRegistered
<1>8. c.op = "DECRBY" => c \in [op : {"INCRBY", "DECRBY"}, key : Key, delta : Int]
  BY DEF LoggedCommand, ReadRegistered
<1> QED
  BY <1>1, <1>2, <1>3, <1>4, <1>5, <1>6, <1>7, <1>8

\* What a write to slot s may depend on: the slot; for an index entry, the score of
\* its member; for the size, every score.
Feeds(x, s) ==
    \/ x = s
    \/ s[1] = "zs" /\ x = Z(s[2][1])
    \/ s = ZSize /\ x[1] = "z"

FedAlike(d, e, s) == \A x \in Slot : Feeds(x, s) => d[x] = e[x]

(* A logged command other than those four maps equal contents of the slots *)
(* that feed a slot to equal contents there, whatever the rest of the      *)
(* database and the clocks.                                                *)
LEMMA ExecClockFree ==
    ASSUME NEW c \in LoggedCommand, ~(\E k \in Key : Expires(c, k)),
           NEW s \in Slot, s[1] # "exp",
           NEW d \in Database, NEW t \in Int, NEW now \in Int,
           NEW e \in Database, NEW then \in Int,
           \A x \in Slot : Feeds(x, s) => d[x] = e[x]
    PROVE  Exec(c, d, t, now)[s] = Exec(c, e, t, then)[s]
<1> d \in [Slot -> Datum \cup {Nil}] /\ e \in [Slot -> Datum \cup {Nil}]
  BY DEF Database
<1> USE SlotFacts
<1>0. d[s] = e[s]
  BY DEF Feeds
<1>1. CASE s \notin Writes(c)
  BY <1>0, <1>1, ExecFrame
<1>2. CASE s \in Writes(c) /\ Blind(c, s)
  BY <1>2, ExecBlind
<1>4. CASE c \in [op : {"ZADD"}, member : Member, score : Int] /\ s \in Writes(c)
  <2> DEFINE m == c.member
  <2>1. c.op = "ZADD" /\ m \in Member
    BY <1>4
  <2>0. s[1] \in {"z", "zs", "zsize"}
    BY <1>4, <2>1 DEF Writes, ZWrites, ZSize
  <2>2. s[1] # "zsize" => d[Z(m)] = e[Z(m)]
    <3>1. CASE s = Z(m)
      BY <1>0, <3>1
    <3>2. CASE s[1] = "zs" /\ s[2][1] = m
      BY <2>1, <3>2 DEF Feeds
    <3> QED BY <1>4, <2>1, <3>1, <3>2 DEF Writes, ZWrites, ZSize, Z
  <2>3. s = ZSize => d[Z(m)] = e[Z(m)] /\ d[ZSize] = e[ZSize]
    BY <2>1 DEF Feeds
  <2>4. s[1] = "zsize" => s = ZSize
    BY SlotPair
  <2>5. s = ZSize => \A n : SizeAfter(d, n) = SizeAfter(e, n)
    BY <2>3 DEF SizeAfter
  <2>6. Exec(c, d, t, now) = CmdZADD(d, c) /\ Exec(c, e, t, then) = CmdZADD(e, c)
    BY <2>1 DEF Exec
  <2>7. CASE s = ZSize
    BY <1>0, <2>3, <2>5, <2>6, <2>7 DEF CmdZADD, DelScore
  <2>8. CASE s # ZSize
    <3> DEFINE b(x) == DelScore(x, m, x[Z(m)])
               n(x) == SizeAfter(x, IF x[Z(m)] = Nil THEN 1 ELSE 0)
               Put(x) == [b(x) EXCEPT ![ZS(m, c.score)] = 0, ![Z(m)] = c.score, ![ZSize] = n(x)]
    <3>1. d[Z(m)] = e[Z(m)]
      BY <2>2, <2>4, <2>8
    <3>2. b(d)[s] = b(e)[s]
      BY <1>0, <3>1 DEF DelScore
    <3>3. /\ CmdZADD(d, c) = IF c.score \notin Score THEN d ELSE Put(d)
          /\ CmdZADD(e, c) = IF c.score \notin Score THEN e ELSE Put(e)
      BY DEF CmdZADD
    <3>4. DOMAIN b(d) = Slot /\ DOMAIN b(e) = Slot
      BY DEF DelScore
    <3> HIDE DEF b, n
    <3>5. Put(d)[s] = Put(e)[s]
      BY <2>8, <3>2, <3>4
    <3> HIDE DEF Put
    <3> QED BY <1>0, <2>6, <3>3, <3>5
  <2> QED BY <2>7, <2>8
<1>5. CASE c \in [op : {"ZREM"}, members : Seq(Member)] /\ s \in Writes(c)
  <2>1. c.op = "ZREM" /\ \A i \in DOMAIN c.members : c.members[i] \in Member
    BY <1>5
  <2>2. Given(c) \subseteq Member
    BY <2>1 DEF Given
  <2>3. Exec(c, d, t, now) = CmdZREM(d, c) /\ Exec(c, e, t, then) = CmdZREM(e, c)
    BY <2>1 DEF Exec
  <2>4. CASE s = ZSize
    <3> DEFINE I(x) == {i \in DOMAIN c.members : x[Z(c.members[i])] # Nil}
    <3>1. \A m \in Member : d[Z(m)] = e[Z(m)]
      BY <2>4 DEF Feeds
    <3>2. I(d) = I(e)
      BY <2>1, <3>1
    <3>3. \A n : SizeAfter(d, n) = SizeAfter(e, n)
      BY <1>0, <2>4 DEF SizeAfter
    <3>4. CmdZREM(d, c)[s] = SizeAfter(d, 0 - Cardinality(I(d)))
      BY <2>4 DEF CmdZREM
    <3>5. CmdZREM(e, c)[s] = SizeAfter(e, 0 - Cardinality(I(e)))
      BY <2>4 DEF CmdZREM
    <3> QED BY <2>3, <3>2, <3>3, <3>4, <3>5
  <2>5. CASE s[1] = "zs"
    <3>1. s[2][1] \in Member
      BY <2>5, SlotPair
    <3>2. d[Z(s[2][1])] = e[Z(s[2][1])]
      BY <2>5, <3>1 DEF Feeds
    <3> QED BY <1>0, <2>3, <2>5, <3>2 DEF CmdZREM
  <2>6. CASE s # ZSize /\ s[1] # "zs"
    BY <1>0, <2>3, <2>6 DEF CmdZREM
  <2> QED BY <2>4, <2>5, <2>6
<1>3. CASE s \in Writes(c) /\ ~Blind(c, s) /\ c.op \notin {"ZADD", "ZREM"}
  <2>1. c.op \in {"SETNX", "INCRBY", "DECRBY"} /\ c.key \in Key
    BY <1>3 DEF LoggedCommand, Blind, Expires
  <2>2. s = KV(c.key)
    BY <1>3, <2>1 DEF Writes, Exp
  <2>3. CASE c.op = "SETNX"
    BY <1>0, <2>1, <2>2, <2>3 DEF Exec, CmdSETNX
  <2>4. CASE c.op = "INCRBY"
    BY <1>0, <2>1, <2>2, <2>4 DEF Exec, IncrBy
  <2>5. CASE c.op = "DECRBY"
    <3>1. \A x, y \in [Slot -> Datum \cup {Nil}], n \in Int : x[s] = y[s] =>
             IncrBy(x, c.key, n)[s] = IncrBy(y, c.key, n)[s]
      BY <2>1, <2>2 DEF IncrBy
    <3>2. Set(d, c.key, 0)[s] = Set(e, c.key, 0)[s]
      BY <2>1, <2>2 DEF Set
    <3>3. Set(d, c.key, 0) \in [Slot -> Datum \cup {Nil}] /\ Set(e, c.key, 0) \in [Slot -> Datum \cup {Nil}]
      BY <2>1, SetType DEF Datum, Database
    <3>4. 0 - c.delta \in Int
      BY <2>5 DEF LoggedCommand
    <3> QED BY <1>0, <2>2, <2>5, <3>1, <3>2, <3>3, <3>4 DEF Exec, CmdDECRBY
  <2> QED BY <2>1, <2>3, <2>4, <2>5
<1>6. /\ c.op = "ZADD" => c \in [op : {"ZADD"}, member : Member, score : Int]
      /\ c.op = "ZREM" => c \in [op : {"ZREM"}, members : Seq(Member)]
  BY DEF LoggedCommand
<1> QED BY <1>1, <1>2, <1>3, <1>4, <1>5, <1>6

(* A command adds time keys only for a key it expires. *)
LEMMA ExecTimersFrom ==
    ASSUME NEW c \in LoggedCommand, NEW d \in Database, NEW T \in SUBSET TimeKey,
           NEW at \in Int, NEW now \in Int
    PROVE  /\ ExecTimers(c, d, T, at, now) \in SUBSET TimeKey
           /\ \A x \in ExecTimers(c, d, T, at, now) : x \in T \/ Expires(c, x[1])
<1>1. CASE c.op \in {"EXPIRE", "EXPIREAT", "SETEX", "SETEXAT"}
  <2> DEFINE w == When(c, at)
  <2>1. c.key \in Key /\ c.time \in Int
    BY <1>1 DEF LoggedCommand
  <2>2. w \in Int
    BY <2>1 DEF When
  <2>3. <<c.key, w>> \in TimeKey /\ <<c.key, w>>[1] = c.key
    BY <2>1, <2>2 DEF TimeKey
  <2>4. ExecTimers(c, d, T, at, now) = ExpireTimers(c, d, T, w, now)
    BY <1>1 DEF ExecTimers
  <2>5. ExpireTimers(c, d, T, w, now) \subseteq T \cup {<<c.key, w>>}
    BY DEF ExpireTimers, RmExpire
  <2> QED BY <1>1, <2>3, <2>4, <2>5 DEF Expires
<1>2. CASE c.op \notin {"EXPIRE", "EXPIREAT", "SETEX", "SETEXAT"}
  <2>1. ExecTimers(c, d, T, at, now) \subseteq T
    BY <1>2 DEF ExecTimers, RmExpire
  <2> QED BY <2>1
<1> QED BY <1>1, <1>2

-----------------------------------------------------------------------------
(* The replicas.                                                           *)

\* The indices of a replica, of its snapshot and of its disk are ordered.
Indices ==
    \A r \in Replica :
        /\ snap[r].index <= applied[r]
        /\ snap[r].index <= snap[r].seen
        /\ snap[r].seen <= seen[r]
        /\ applied[r] <= seen[r]

(* Applying an entry to a machine gives a machine. *)
LEMMA ApplyEntryType ==
    ASSUME NEW e \in Entry, NEW d \in Database, NEW t \in 0..MaxTime, NEW now \in Int
    PROVE  /\ ApplyEntry(e, d, t, now) \in Machine
           /\ ApplyEntry(e, d, t, now).db \in Database
           /\ ApplyEntry(e, d, t, now).ts \in 0..MaxTime
<1>1. CASE e \in Tick
  BY <1>1, BoundAssumption DEF Tick, ApplyEntry, Machine
<1>2. CASE e \in LoggedCommand
  <2>1. e.op # "TICK"
    BY <1>2 DEF LoggedCommand
  <2>2. Exec(e, d, t, now) \in Database
    BY <1>2, ExecType, BoundAssumption
  <2> QED BY <2>1, <2>2 DEF ApplyEntry, Machine
<1> QED BY <1>1, <1>2 DEF Entry

(* An entry adds time keys only for the key it expires. *)
LEMMA ApplyTimersFrom ==
    ASSUME NEW e \in Entry, NEW d \in Database, NEW T \in SUBSET TimeKey,
           NEW t \in 0..MaxTime, NEW now \in Int
    PROVE  /\ ApplyTimers(e, d, T, t, now) \in SUBSET TimeKey
           /\ \A x \in ApplyTimers(e, d, T, t, now) :
                 x \in T \/ (e \in Command /\ Expires(e, x[1]))
<1>1. CASE e.op = "TICK" \/ t = 0
  BY <1>1 DEF ApplyTimers
<1>2. CASE e.op # "TICK" /\ t # 0
  <2>1. e \in LoggedCommand /\ e \in Command /\ t \in Int
    BY <1>2 DEF Entry, Tick
  <2>2. ApplyTimers(e, d, T, t, now) = ExecTimers(e, d, T, t, now)
    BY <1>2 DEF ApplyTimers
  <2> QED BY <2>1, <2>2, ExecTimersFrom
<1> QED BY <1>1, <1>2

(* Restoring a snapshot over a database gives a database. *)
LEMMA RestoreType ==
    ASSUME NEW d \in Database, NEW e \in Database
    PROVE  RestoreOver(d, e) \in Database
BY DEF RestoreOver, Database

(* The type invariant needs the order of the indices: a restored replica   *)
(* must not claim entries the log does not have.                           *)
LEMMA TypeStep ==
    ASSUME TypeOK, Indices, [Next]_vars
    PROVE  TypeOK' /\ Indices'
<1> USE BoundAssumption
<1>1. CASE UNCHANGED vars
  BY <1>1 DEF vars, TypeOK, Indices
<1>2. ASSUME NEW e \in Entry, Commit(e) PROVE TypeOK' /\ Indices'
  <2> DEFINE m == ref[Len(log)]
  <2>1. m \in Machine
    BY DEF TypeOK
  <2>8. m.db \in Database /\ m.ts \in 0..MaxTime /\ m.ts \in Int
    BY <2>1 DEF Machine
  <2>2. ApplyEntry(e, m.db, m.ts, m.ts) \in Machine
    BY <2>8, ApplyEntryType
  <2>3. Len(log') = Len(log) + 1 /\ log' \in Seq(Entry) /\ Len(log) \in Nat
    BY <1>2 DEF Commit, TypeOK
  <2>4. ref' \in [0..Len(log') -> Machine]
    BY <1>2, <2>2, <2>3 DEF Commit, TypeOK
  <2>5. UNCHANGED <<db, timers, ts, applied, snap, clock, restarts, installs, locals, seen, fresh>>
    BY <1>2 DEF Commit, replicaVars, counters
  <2>6. applied \in [Replica -> 0..Len(log')] /\ seen \in [Replica -> 0..Len(log')]
    BY <2>3 DEF TypeOK
  <2>7. Len(log') <= MaxLog
    BY <1>2, <2>3 DEF Commit, TypeOK
  <2> QED BY <2>3, <2>4, <2>5, <2>6, <2>7 DEF TypeOK, Indices
<1>3. ASSUME NEW r \in Replica, Apply(r) PROVE TypeOK' /\ Indices'
  <2> DEFINE e == log[applied[r] + 1]
             m == ApplyEntry(e, db[r], ts[r], clock[r])
  <2>1. e \in Entry
    BY <1>3 DEF Apply, ApplyNext, TypeOK
  <2>2. m.db \in Database /\ m.ts \in 0..MaxTime
    BY <2>1, ApplyEntryType DEF TypeOK
  <2>3. db' = [db EXCEPT ![r] = m.db] /\ ts' = [ts EXCEPT ![r] = m.ts]
    BY <1>3 DEF Apply, ApplyNext
  <2>4. /\ applied' = [applied EXCEPT ![r] = @ + 1]
        /\ seen' = [seen EXCEPT ![r] = MaxOf(@, applied[r] + 1)]
        /\ applied[r] < Len(log)
        /\ UNCHANGED <<log, snap, clock, restarts, installs, locals, ref, fresh>>
    BY <1>3 DEF Apply, ApplyNext, counters
  <2>5. Len(log) \in Nat
    BY DEF TypeOK
  <2>6. /\ applied' \in [Replica -> 0..Len(log)] /\ seen' \in [Replica -> 0..Len(log)]
    BY <2>4, <2>5 DEF TypeOK, MaxOf
  <2>7. db' \in [Replica -> Database] /\ ts' \in [Replica -> 0..MaxTime]
    BY <2>2, <2>3 DEF TypeOK
  <2>10. ApplyTimers(e, db[r], timers[r], ts[r], clock[r]) \in SUBSET TimeKey
    BY <2>1, ApplyTimersFrom DEF TypeOK
  <2>11. timers' \in [Replica -> SUBSET TimeKey]
    BY <1>3, <2>10 DEF Apply, ApplyNext, TypeOK
  <2>8. TypeOK'
    BY <2>4, <2>6, <2>7, <2>11 DEF TypeOK
  <2>9. Indices'
    BY <2>4, <2>5, SMTT(30) DEF Indices, TypeOK, MaxOf, Snapshot
  <2> QED BY <2>8, <2>9
<1>4. ASSUME NEW r \in Replica, NEW c \in Command \cap ReadRegistered, ExecRead(r, c)
      PROVE TypeOK' /\ Indices'
  <2>1. Exec(c, db[r], ts[r], clock[r]) \in Database
    BY ExecType DEF TypeOK
  <2> QED BY <1>4, <2>1 DEF ExecRead, TypeOK, Indices
<1>5. ASSUME NEW r \in Replica, TakeSnapshot(r) PROVE TypeOK' /\ Indices'
  <2>1. [db |-> db[r], timers |-> timers[r], ts |-> ts[r],
         index |-> applied[r], seen |-> seen[r]] \in Snapshot
    BY DEF TypeOK, Snapshot
  <2>2. snap' \in [Replica -> Snapshot]
    BY <1>5, <2>1 DEF TakeSnapshot, TypeOK
  <2>3. TypeOK'
    BY <1>5, <2>2 DEF TakeSnapshot, TypeOK, counters
  <2>4. Indices'
    BY <1>5 DEF TakeSnapshot, TypeOK, counters, Indices, Snapshot
  <2> QED BY <2>3, <2>4
<1>6. ASSUME NEW r \in Replica, NEW q \in Replica, Restore(r, snap[q])
      PROVE /\ db' \in [Replica -> Database] /\ ts' \in [Replica -> 0..MaxTime]
            /\ timers' \in [Replica -> SUBSET TimeKey]
            /\ applied' \in [Replica -> 0..Len(log)] /\ seen' \in [Replica -> 0..Len(log)]
            /\ fresh' \in [Replica -> BOOLEAN]
            /\ applied'[r] = snap[q].index
            /\ seen'[r] >= seen[r] /\ seen'[r] >= snap[q].seen
            /\ \A p \in Replica \ {r} : applied'[p] = applied[p] /\ seen'[p] = seen[p]
  <2>1. RestoreOver(db[r], snap[q].db) \in Database
    BY RestoreType DEF TypeOK, Snapshot
  <2>2. snap[q].index \in 0..Len(log) /\ snap[q].seen \in 0..Len(log) /\ snap[q].ts \in 0..MaxTime
    BY SMTT(30) DEF TypeOK, Snapshot, Indices
  <2>3. MaxOf(seen[r], snap[q].seen) \in 0..Len(log)
    BY <2>2 DEF MaxOf, TypeOK
  <2>4. MaxOf(seen[r], snap[q].seen) >= seen[r] /\ MaxOf(seen[r], snap[q].seen) >= snap[q].seen
    BY <2>2, SMTT(30) DEF MaxOf, TypeOK
  <2>5. timers[r] \cup snap[q].timers \in SUBSET TimeKey
    BY DEF TypeOK, Snapshot
  <2> QED BY <1>6, <2>1, <2>2, <2>3, <2>4, <2>5 DEF Restore, TypeOK
<1>7. ASSUME NEW r \in Replica, Restart(r) PROVE TypeOK' /\ Indices'
  <2>1. Restore(r, snap[r]) /\ UNCHANGED <<log, snap, clock, installs, locals, ref>>
        /\ restarts < MaxRestarts /\ restarts' = restarts + 1
    BY <1>7 DEF Restart
  <2>2. TypeOK'
    BY <2>1, <1>6, SMTT(30) DEF TypeOK
  <2>3. Indices'
    <3> SUFFICES ASSUME NEW p \in Replica
                 PROVE  /\ snap[p].index <= applied'[p] /\ snap[p].index <= snap[p].seen
                        /\ snap[p].seen <= seen'[p] /\ applied'[p] <= seen'[p]
      BY <2>1 DEF Indices
    <3>1. /\ snap[p].index \in Nat /\ snap[p].seen \in Nat /\ seen[p] \in Nat
          /\ seen'[p] \in Nat /\ applied[p] \in Nat
      BY <1>6, <2>1, SMTT(30) DEF TypeOK, Snapshot
    <3>2. /\ snap[p].index <= applied[p] /\ snap[p].index <= snap[p].seen
          /\ snap[p].seen <= seen[p] /\ applied[p] <= seen[p]
      BY DEF Indices
    <3>3. CASE p = r
      BY <2>1, <1>6, <3>1, <3>2, <3>3
    <3>4. CASE p # r
      BY <2>1, <1>6, <3>1, <3>2, <3>4
    <3> QED BY <3>3, <3>4
  <2> QED BY <2>2, <2>3
<1>8. ASSUME NEW r \in Replica, NEW q \in Replica, InstallSnapshot(r, q)
      PROVE TypeOK' /\ Indices'
  <2>1. Restore(r, snap[q]) /\ UNCHANGED <<log, clock, restarts, locals, ref>>
        /\ installs < MaxInstalls /\ installs' = installs + 1
        /\ snap' = [snap EXCEPT ![r] = snap[q]]
    BY <1>8 DEF InstallSnapshot
  <2>4. snap' \in [Replica -> Snapshot]
    BY <2>1 DEF TypeOK
  <2>5. installs' \in 0..MaxInstalls
    BY <2>1 DEF TypeOK
  <2>2. TypeOK'
    BY <2>1, <2>4, <2>5, <1>6 DEF TypeOK
  <2>3. Indices'
    <3> SUFFICES ASSUME NEW p \in Replica
                 PROVE  /\ snap'[p].index <= applied'[p] /\ snap'[p].index <= snap'[p].seen
                        /\ snap'[p].seen <= seen'[p] /\ applied'[p] <= seen'[p]
      BY DEF Indices
    <3>1. /\ snap[q].index \in Nat /\ snap[q].seen \in Nat /\ seen'[p] \in Nat
          /\ applied'[p] \in Nat /\ snap[q].index <= snap[q].seen
      BY <1>6, <2>1 DEF TypeOK, Snapshot, Indices
    <3>2. CASE p = r
      <4>1. snap'[p] = snap[q]
        BY <2>1, <3>2 DEF TypeOK
      <4> QED BY <2>1, <1>6, <3>1, <3>2, <4>1, SMTT(30)
    <3>3. CASE p # r
      <4>1. snap'[p] = snap[p]
        BY <2>1, <3>3 DEF TypeOK
      <4> QED BY <2>1, <1>6, <3>3, <4>1 DEF Indices
    <3> QED BY <3>2, <3>3
  <2> QED BY <2>2, <2>3
<1>9. ASSUME NEW r \in Replica, ClockTick(r) PROVE TypeOK' /\ Indices'
  BY <1>9 DEF ClockTick, TypeOK, Indices, replicaVars, counters
<1>10. ASSUME NEW r \in Replica, NEW x \in timers[r], ExpireKey(r, x)
       PROVE TypeOK' /\ Indices'
  <2>1. Del(db[r], {x[1]}) \in Database
    BY DelType DEF TypeOK
  <2>2. db' \in [Replica -> Database] /\ timers' \in [Replica -> SUBSET TimeKey]
    BY <1>10, <2>1 DEF ExpireKey, TypeOK
  <2>3. UNCHANGED <<log, ts, applied, snap, clock, restarts, installs, locals, ref, seen, fresh>>
    BY <1>10 DEF ExpireKey, counters
  <2> QED BY <2>2, <2>3 DEF TypeOK, Indices
<1> QED
  BY <1>1, <1>2, <1>3, <1>4, <1>5, <1>7, <1>8, <1>9, <1>10 DEF Next

(* The initial state is well typed and its indices are all 0. *)
LEMMA TypeInit == Init => TypeOK /\ Indices
<1> SUFFICES ASSUME Init PROVE TypeOK /\ Indices
  OBVIOUS
<1> USE BoundAssumption
<1>1. EmptyDatabase \in Database
  BY NilAssumption DEF EmptyDatabase, Database
<1>2. NoSnapshot \in Snapshot
  BY <1>1 DEF NoSnapshot, Snapshot
<1>3. [db |-> EmptyDatabase, ts |-> 0] \in Machine
  BY <1>1 DEF Machine
<1>4. log = <<>> /\ Len(log) = 0 /\ log \in Seq(Entry)
  BY DEF Init
<1>5. ref \in [0..Len(log) -> Machine]
  BY <1>3, <1>4 DEF Init
<1> QED BY <1>1, <1>2, <1>4, <1>5 DEF Init, TypeOK, Indices, NoSnapshot

(* Every behaviour is well typed: no replica ever applies or restores past *)
(* the end of the log, whatever it restarts from.                          *)
THEOREM TypeCorrect == Spec => []TypeOK
<1>1. TypeOK /\ Indices /\ [Next]_vars => (TypeOK /\ Indices)'
  BY TypeStep
<1> QED BY <1>1, TypeInit, PTL DEF Spec
-----------------------------------------------------------------------------
(* The inductive invariant.                                                *)

\* No command of the instance gives k an expiry time.
NoExpiry(k) == \A c \in Command : ~Expires(c, k)

\* ref is the log applied entry by entry.
Chain ==
    \A i \in 1..Len(log) :
        ref[i] = ApplyEntry(log[i], ref[i-1].db, ref[i-1].ts, ref[i-1].ts)

\* The machine time is a function of the index, replays and snapshots included.
Times ==
    \A r \in Replica :
        /\ ts[r] = ref[applied[r]].ts
        /\ snap[r].ts = ref[snap[r].index].ts

\* Without a command that sets it there is no expiry time anywhere.
NoExpiries ==
    \A k \in Key : NoExpiry(k) =>
        /\ \A r \in Replica : db[r][Exp(k)] = Nil /\ snap[r].db[Exp(k)] = Nil
        /\ \A i \in 0..Len(log) : ref[i].db[Exp(k)] = Nil

\* Nor is there a time key.
NoTimers ==
    \A r \in Replica : \A x \in timers[r] \cup snap[r].timers : ~NoExpiry(x[1])

\* When snapshots are installed, stable slots are never emptied by the log.
Growing ==
    MaxInstalls > 0 =>
        \A s \in Slot : Stable(s) =>
            \A i, j \in 0..Len(log) :
                i <= j /\ ref[i].db[s] # Nil => ref[j].db[s] # Nil

\* SlotFromLog for the snapshots.
SnapFromLog ==
    \A r \in Replica, s \in Slot : Stable(s) =>
        \E i \in snap[r].index..snap[r].seen : snap[r].db[s] = ref[i].db[s]

IInv ==
    /\ TypeOK
    /\ Indices
    /\ Chain
    /\ Times
    /\ NoExpiries
    /\ NoTimers
    /\ Growing
    /\ SlotFromLog
    /\ SnapFromLog
    /\ FirstPassExact

(* An entry either leaves a stable slot alone or puts there something that *)
(* does not depend on what the replica had.                                *)
LEMMA EntryOnStable ==
    ASSUME NEW e \in Entry, NEW s \in Slot, Stable(s), NEW t \in 0..MaxTime,
           NEW d \in Database, NEW n \in Int, NEW d2 \in Database, NEW n2 \in Int
    PROVE  \/ /\ ApplyEntry(e, d, t, n).db[s] = d[s]
              /\ ApplyEntry(e, d2, t, n2).db[s] = d2[s]
           \/ /\ ApplyEntry(e, d, t, n).db[s] = ApplyEntry(e, d2, t, n2).db[s]
              /\ MaxInstalls > 0 => ApplyEntry(e, d2, t, n2).db[s] # Nil
<1>1. CASE e.op = "TICK" \/ t = 0
  BY <1>1 DEF ApplyEntry
<1>2. CASE e.op # "TICK" /\ t # 0
  <2>1. e \in LoggedCommand /\ e \in Command /\ t \in Int
    BY <1>2 DEF Entry, Tick
  <2>2. ApplyEntry(e, d, t, n).db = Exec(e, d, t, n) /\ ApplyEntry(e, d2, t, n2).db = Exec(e, d2, t, n2)
    BY <1>2 DEF ApplyEntry
  <2>3. CASE s \notin Writes(e)
    BY <2>1, <2>2, <2>3, ExecFrame
  <2>4. CASE s \in Writes(e)
    <3>1. Blind(e, s) /\ (MaxInstalls > 0 => ~Erases(e, s))
      BY <2>1, <2>4 DEF Stable
    <3> QED BY <2>1, <2>2, <2>4, <3>1, ExecBlind
  <2> QED BY <2>3, <2>4
<1> QED BY <1>1, <1>2

(* No entry gives an expiry time to a key no command expires. *)
LEMMA EntryNoExpiry ==
    ASSUME NEW e \in Entry, NEW k \in Key, NoExpiry(k), NEW t \in 0..MaxTime,
           NEW d \in Database, NEW n \in Int, d[Exp(k)] = Nil
    PROVE  ApplyEntry(e, d, t, n).db[Exp(k)] = Nil
<1>1. CASE e.op = "TICK" \/ t = 0
  BY <1>1 DEF ApplyEntry
<1>2. CASE e.op # "TICK" /\ t # 0
  <2>1. e \in LoggedCommand /\ e \in Command /\ t \in Int
    BY <1>2 DEF Entry, Tick
  <2> QED BY <1>2, <2>1, ExecNoExpiry DEF ApplyEntry, NoExpiry
<1> QED BY <1>1, <1>2

(* What feeds a deterministic slot is deterministic: a command that writes *)
(* a score writes the index entries of its member and the size.            *)
LEMMA FeedsDeterministic ==
    ASSUME NEW s \in Slot, NEW x \in Slot, Deterministic(s), Feeds(x, s)
    PROVE  Deterministic(x)
<1>1. CASE x = s
  BY <1>1
<1>2. CASE s[1] = "zs" /\ x = Z(s[2][1])
  <2> DEFINE m == s[2][1]
  <2>0. s[2] \in Member \X Score /\ s = <<"zs", s[2]>>
    BY <1>2, SlotPair DEF ZSize
  <2>1. m \in Member /\ s = <<"zs", <<m, s[2][2]>>>> /\ s[2][2] \in Score
    BY <2>0
  <2>2. \A M : x \in ZWrites(M) => s \in ZWrites(M)
    BY <1>2, <2>1 DEF ZWrites, Z, ZSize
  <2>3. \A c \in Command : x \in Writes(c) => s \in Writes(c)
    BY <1>2, <2>2, CommandAssumption DEF LoggedCommand, ReadRegistered, Writes, Z, KV, Exp
  <2> QED BY <2>3 DEF Deterministic
<1>3. CASE s = ZSize /\ x[1] = "z"
  <2>1. \A M : s \in ZWrites(M)
    BY <1>3 DEF ZWrites
  <2>2. \A c \in Command : x \in Writes(c) => s \in Writes(c)
    BY <1>3, <2>1, CommandAssumption DEF LoggedCommand, ReadRegistered, Writes, KV, Exp
  <2> QED BY <2>2 DEF Deterministic
<1> QED BY <1>1, <1>2, <1>3 DEF Feeds

(* An entry maps equal contents of the slots that feed a deterministic     *)
(* slot to equal contents there.                                           *)
LEMMA EntryDeterministic ==
    ASSUME NEW e \in Entry, NEW s \in Slot, Deterministic(s), s[1] # "exp",
           NEW t \in 0..MaxTime, NEW d \in Database, NEW n \in Int,
           NEW d2 \in Database, NEW n2 \in Int, FedAlike(d, d2, s)
    PROVE  ApplyEntry(e, d, t, n).db[s] = ApplyEntry(e, d2, t, n2).db[s]
<1> \A x \in Slot : Feeds(x, s) => d[x] = d2[x]
  BY DEF FedAlike
<1>0. d[s] = d2[s]
  BY DEF Feeds
<1>1. CASE e.op = "TICK" \/ t = 0
  BY <1>0, <1>1 DEF ApplyEntry
<1>2. CASE e.op # "TICK" /\ t # 0
  <2>1. e \in LoggedCommand /\ e \in Command /\ t \in Int
    BY <1>2 DEF Entry, Tick
  <2>2. ApplyEntry(e, d, t, n).db = Exec(e, d, t, n) /\ ApplyEntry(e, d2, t, n2).db = Exec(e, d2, t, n2)
    BY <1>2 DEF ApplyEntry
  <2>3. CASE s \notin Writes(e)
    <3>1. Exec(e, d, t, n)[s] = d[s]
      BY <2>1, <2>3, ExecFrame
    <3>2. Exec(e, d2, t, n2)[s] = d2[s]
      BY <2>1, <2>3, ExecFrame
    <3> QED BY <1>0, <2>2, <3>1, <3>2
  <2>4. CASE s \in Writes(e)
    <3>1. ~(\E k \in Key : Expires(e, k))
      BY <2>1, <2>4 DEF Deterministic
    <3> QED BY <2>1, <2>2, <3>1, ExecClockFree
  <2> QED BY <2>3, <2>4
<1> QED BY <1>1, <1>2

(* Expiry commands write both slots of their key, so neither slot is       *)
(* stable or deterministic.                                                *)
LEMMA NoExpiryOn ==
    ASSUME NEW k \in Key,
           Stable(KV(k)) \/ Stable(Exp(k)) \/ Deterministic(KV(k)) \/ Deterministic(Exp(k))
    PROVE  NoExpiry(k)
<1> SUFFICES ASSUME NEW c \in Command, Expires(c, k) PROVE FALSE
  BY DEF NoExpiry
<1>1. KV(k) \in Writes(c) /\ Exp(k) \in Writes(c)
  BY DEF Expires, Writes
<1>2. ~Blind(c, KV(k)) /\ ~Blind(c, Exp(k))
  BY DEF Expires, Blind
<1> QED BY <1>1, <1>2 DEF Stable, Deterministic

(* Read-registered commands write no stable and no deterministic slot. *)
LEMMA ReadFrame ==
    ASSUME NEW c \in Command \cap ReadRegistered, NEW s \in Slot,
           Stable(s) \/ Deterministic(s)
    PROVE  s \notin Writes(c)
<1>1. c \notin LoggedCommand
  BY DEF ReadRegistered, LoggedCommand
<1> QED BY <1>1 DEF Stable, Deterministic

(* The TTL checker removes nothing but the two slots of its key. *)
LEMMA DelFrame ==
    ASSUME NEW d \in Database, NEW k \in Key, NEW s \in Slot, s # KV(k), s # Exp(k)
    PROVE  Del(d, {k})[s] = d[s]
<1>1. ~(s[1] \in {"kv", "exp"} /\ s[2] = k)
  BY SlotPair DEF KV, Exp
<1> QED BY <1>1 DEF Del

(* A committed entry extends the log and ref and disturbs nothing else. *)
LEMMA CommitStep ==
    ASSUME IInv, NEW e \in Entry, Commit(e), TypeOK', Indices'
    PROVE  IInv'
<1> DEFINE N == Len(log)
           m == ref[N]
<1>1. /\ N \in Nat /\ Len(log') = N + 1 /\ log'[N + 1] = e
      /\ \A i \in 1..N : log'[i] = log[i]
  BY DEF IInv, TypeOK, Commit
<1>2. /\ \A i \in 0..N : ref'[i] = ref[i]
      /\ ref'[N + 1] = ApplyEntry(e, m.db, m.ts, m.ts)
  BY <1>1 DEF Commit
<1>3. m.db \in Database /\ m.ts \in 0..MaxTime /\ m.ts \in Int
  <2>1. m \in Machine
    BY <1>1 DEF IInv, TypeOK
  <2> QED BY <2>1, BoundAssumption DEF Machine
<1>4. UNCHANGED <<db, timers, ts, applied, snap, clock, seen, fresh>>
  BY DEF Commit, replicaVars
<1>5. \A r \in Replica :
         /\ applied[r] \in 0..N /\ seen[r] \in 0..N
         /\ snap[r].index \in 0..N /\ snap[r].seen \in 0..N
  <2> SUFFICES ASSUME NEW r \in Replica
               PROVE  /\ applied[r] \in 0..N /\ seen[r] \in 0..N
                      /\ snap[r].index \in 0..N /\ snap[r].seen \in 0..N
    OBVIOUS
  <2>1. applied[r] \in 0..N /\ seen[r] \in 0..N
    BY DEF IInv, TypeOK
  <2>2. snap[r] \in Snapshot
    BY DEF IInv, TypeOK
  <2>3. snap[r].index <= applied[r] /\ snap[r].seen <= seen[r]
    BY DEF IInv, Indices
  <2>4. snap[r].index \in Nat /\ snap[r].seen \in Nat
    BY <2>2, BoundAssumption DEF Snapshot
  <2> QED BY <1>1, <2>1, <2>3, <2>4
<1>6. Chain'
  <2> SUFFICES ASSUME NEW i \in 1..(N + 1)
               PROVE  ref'[i] = ApplyEntry(log'[i], ref'[i-1].db, ref'[i-1].ts, ref'[i-1].ts)
    BY <1>1 DEF Chain
  <2>1. CASE i = N + 1
    BY <1>1, <1>2, <2>1
  <2>2. CASE i \in 1..N
    BY <1>1, <1>2, <2>2 DEF IInv, Chain
  <2> QED BY <1>1, <2>1, <2>2
<1>7. Times'
  BY <1>2, <1>4, <1>5 DEF IInv, Times
<1>8. NoExpiries'
  <2> SUFFICES ASSUME NEW k \in Key, NoExpiry(k)
               PROVE  /\ \A r \in Replica : db[r][Exp(k)] = Nil /\ snap[r].db[Exp(k)] = Nil
                      /\ \A i \in 0..(N + 1) : ref'[i].db[Exp(k)] = Nil
    BY <1>1, <1>4 DEF NoExpiries
  <2>1. m.db[Exp(k)] = Nil
    BY <1>1 DEF IInv, NoExpiries
  <2>2. ref'[N + 1].db[Exp(k)] = Nil
    BY <1>2, <1>3, <2>1, EntryNoExpiry
  <2> QED BY <1>1, <1>2, <2>2 DEF IInv, NoExpiries
<1>9. Growing'
  <2> SUFFICES ASSUME MaxInstalls > 0, NEW s \in Slot, Stable(s),
                      NEW i \in 0..(N + 1), NEW j \in 0..(N + 1), i <= j, ref'[i].db[s] # Nil
               PROVE  ref'[j].db[s] # Nil
    BY <1>1 DEF Growing
  <2>1. CASE j \in 0..N
    <3>1. i \in 0..N
      BY <1>1, <2>1
    <3> QED BY <1>2, <2>1, <3>1 DEF IInv, Growing
  <2>2. CASE j = N + 1 /\ i = N + 1
    BY <2>2
  <2>3. CASE j = N + 1 /\ i \in 0..N
    <3>1. m.db[s] # Nil
      BY <1>1, <1>2, <2>3 DEF IInv, Growing
    <3> QED BY <1>2, <1>3, <2>3, <3>1, EntryOnStable
  <2> QED BY <1>1, <2>1, <2>2, <2>3
<1>10. SlotFromLog'
  <2> SUFFICES ASSUME NEW r \in Replica, NEW s \in Slot, Stable(s)
               PROVE  \E i \in applied[r]..seen[r] : db[r][s] = ref'[i].db[s]
    BY <1>4 DEF SlotFromLog
  <2>1. PICK i \in applied[r]..seen[r] : db[r][s] = ref[i].db[s]
    BY DEF IInv, SlotFromLog
  <2>2. ref'[i] = ref[i]
    BY <1>1, <1>2, <1>5
  <2> QED BY <2>1, <2>2
<1>11. SnapFromLog'
  <2> SUFFICES ASSUME NEW r \in Replica, NEW s \in Slot, Stable(s)
               PROVE  \E i \in snap[r].index..snap[r].seen : snap[r].db[s] = ref'[i].db[s]
    BY <1>4 DEF SnapFromLog
  <2>1. PICK i \in snap[r].index..snap[r].seen : snap[r].db[s] = ref[i].db[s]
    BY DEF IInv, SnapFromLog
  <2>2. ref'[i] = ref[i]
    BY <1>1, <1>2, <1>5
  <2> QED BY <2>1, <2>2
<1>12. FirstPassExact'
  BY <1>2, <1>4, <1>5 DEF IInv, FirstPassExact
<1>13. NoTimers'
  BY <1>4 DEF IInv, NoTimers
<1> QED BY <1>13, <1>6, <1>7, <1>8, <1>9, <1>10, <1>11, <1>12 DEF IInv

(* Replica r applies an entry: in a stable slot it either keeps what the   *)
(* log had at an index not behind it, or takes what the log has there now. *)
LEMMA ApplyStep ==
    ASSUME IInv, NEW r \in Replica, Apply(r), TypeOK', Indices'
    PROVE  IInv'
<1> DEFINE a == applied[r]
           e == log[a + 1]
           m == ApplyEntry(e, db[r], ts[r], clock[r])
<1>1. /\ a \in Nat /\ a < Len(log) /\ Len(log) \in Nat /\ seen[r] \in Nat /\ e \in Entry
      /\ a <= seen[r] /\ clock[r] \in Int
  BY DEF IInv, TypeOK, Apply, ApplyNext, Indices
<1>2. /\ db' = [db EXCEPT ![r] = m.db] /\ ts' = [ts EXCEPT ![r] = m.ts]
      /\ applied' = [applied EXCEPT ![r] = a + 1]
      /\ seen' = [seen EXCEPT ![r] = MaxOf(seen[r], a + 1)]
      /\ UNCHANGED <<log, snap, clock, ref, fresh>>
  BY DEF Apply, ApplyNext
<1>3. /\ db'[r] = m.db /\ ts'[r] = m.ts /\ applied'[r] = a + 1
      /\ seen'[r] = MaxOf(seen[r], a + 1)
      /\ \A p \in Replica \ {r} : /\ db'[p] = db[p] /\ ts'[p] = ts[p]
                                  /\ applied'[p] = applied[p] /\ seen'[p] = seen[p]
  BY <1>2 DEF IInv, TypeOK
<1>4. /\ ref[a] \in Machine /\ ref[a].db \in Database /\ ts[r] = ref[a].ts
      /\ ts[r] \in 0..MaxTime /\ ts[r] \in Int /\ db[r] \in Database
  BY <1>1, SMTT(30) DEF IInv, TypeOK, Machine, Times
<1>5. ref[a + 1] = ApplyEntry(e, ref[a].db, ts[r], ts[r])
  <2>1. a + 1 \in 1..Len(log) /\ (a + 1) - 1 = a
    BY <1>1
  <2> QED BY <1>4, <2>1 DEF IInv, Chain
<1>6. Chain'
  BY <1>2 DEF IInv, Chain
<1>7. Times'
  <2>1. ref[a + 1].ts = m.ts
    BY <1>5 DEF ApplyEntry
  <2> QED BY <1>2, <1>3, <2>1 DEF IInv, Times
<1>8. NoExpiries'
  <2> SUFFICES ASSUME NEW k \in Key, NoExpiry(k), NEW p \in Replica
               PROVE  db'[p][Exp(k)] = Nil
    BY <1>2 DEF IInv, NoExpiries
  <2>1. db[p][Exp(k)] = Nil
    BY DEF IInv, NoExpiries
  <2> QED BY <1>1, <1>3, <1>4, <2>1, EntryNoExpiry
<1>9. Growing'
  BY <1>2 DEF IInv, Growing
<1>10. SlotFromLog'
  <2> SUFFICES ASSUME NEW p \in Replica, NEW s \in Slot, Stable(s)
               PROVE  \E i \in applied'[p]..seen'[p] : db'[p][s] = ref[i].db[s]
    BY <1>2 DEF SlotFromLog
  <2>1. PICK i \in applied[p]..seen[p] : db[p][s] = ref[i].db[s]
    BY DEF IInv, SlotFromLog
  <2>2. CASE p # r
    BY <1>3, <2>1, <2>2
  <2>3. CASE p = r
    <3>1. \/ m.db[s] = db[r][s] /\ ref[a + 1].db[s] = ref[a].db[s]
          \/ m.db[s] = ref[a + 1].db[s]
      BY <1>1, <1>4, <1>5, EntryOnStable, SMTT(30)
    <3>2. a + 1 \in applied'[r]..seen'[r] /\ (i # a => i \in applied'[r]..seen'[r])
      BY <1>1, <1>3, <2>1, <2>3 DEF MaxOf
    <3>3. CASE m.db[s] = ref[a + 1].db[s]
      BY <1>3, <2>3, <3>2, <3>3
    <3>4. CASE m.db[s] = db[r][s] /\ ref[a + 1].db[s] = ref[a].db[s]
      BY <1>3, <2>1, <2>3, <3>2, <3>4
    <3> QED BY <3>1, <3>3, <3>4
  <2> QED BY <2>2, <2>3
<1>11. SnapFromLog'
  BY <1>2 DEF IInv, SnapFromLog
<1>12. FirstPassExact'
  <2> SUFFICES ASSUME NEW p \in Replica, NEW s \in Slot, fresh[p], Deterministic(s)
               PROVE  db'[p][s] = ref[applied'[p]].db[s]
    BY <1>2 DEF FirstPassExact
  <2>1. db[p][s] = ref[applied[p]].db[s]
    BY DEF IInv, FirstPassExact
  <2>2. CASE p # r
    BY <1>3, <2>1, <2>2
  <2>3. CASE p = r /\ s[1] # "exp"
    <3>1. FedAlike(db[r], ref[a].db, s)
      BY <2>3, FeedsDeterministic DEF IInv, FirstPassExact, FedAlike
    <3>3. ref[a].db \in Database /\ db[r] \in Database /\ e \in Entry
          /\ ts[r] \in 0..MaxTime /\ clock[r] \in Int /\ ts[r] \in Int
      BY <1>1, <1>4
    <3> HIDE DEF e, a
    <3>4. ApplyEntry(e, db[r], ts[r], clock[r]).db[s]
             = ApplyEntry(e, ref[a].db, ts[r], ts[r]).db[s]
      BY <2>3, <3>1, <3>3, EntryDeterministic
    <3>2. m.db[s] = ref[a + 1].db[s]
      BY <1>5, <3>4
    <3> QED BY <1>3, <2>3, <3>2
  <2>4. CASE p = r /\ s[1] = "exp"
    <3>1. PICK k \in Key : s = Exp(k)
      BY <2>4, SlotPair DEF Exp, ZSize
    <3>2. NoExpiry(k)
      BY <3>1, NoExpiryOn
    <3>3. db'[p][s] = Nil
      BY <1>8, <3>1, <3>2 DEF NoExpiries
    <3>4. a + 1 \in 0..Len(log)
      BY <1>1
    <3>5. ref[a + 1].db[s] = Nil
      BY <3>1, <3>2, <3>4 DEF IInv, NoExpiries
    <3> QED BY <1>3, <2>4, <3>3, <3>5
  <2> QED BY <2>2, <2>3, <2>4
<1>13. NoTimers'
  <2> DEFINE T == ApplyTimers(e, db[r], timers[r], ts[r], clock[r])
  <2>1. timers'[r] = T /\ (\A p \in Replica \ {r} : timers'[p] = timers[p])
    BY DEF Apply, ApplyNext, IInv, TypeOK
  <2>2. timers[r] \in SUBSET TimeKey
    BY DEF IInv, TypeOK
  <2>3. \A x \in T : x \in timers[r] \/ (e \in Command /\ Expires(e, x[1]))
    BY <1>1, <1>4, <2>2, ApplyTimersFrom
  <2>4. \A x \in T : ~NoExpiry(x[1])
    BY <2>3 DEF IInv, NoTimers, NoExpiry
  <2>5. snap' = snap
    BY <1>2
  <2> QED BY <2>1, <2>4, <2>5 DEF IInv, NoTimers
<1> QED BY <1>13, <1>6, <1>7, <1>8, <1>9, <1>10, <1>11, <1>12 DEF IInv
(* A read-registered command changes neither the stable nor the            *)
(* deterministic slots of the replica that runs it.                        *)
LEMMA ExecReadStep ==
    ASSUME IInv, NEW r \in Replica, NEW c \in Command \cap ReadRegistered,
           ExecRead(r, c), TypeOK', Indices'
    PROVE  IInv'
<1> DEFINE d == Exec(c, db[r], ts[r], clock[r])
<1>1. /\ db' = [db EXCEPT ![r] = d]
      /\ UNCHANGED <<log, timers, ts, applied, snap, clock, ref, seen, fresh>>
  BY DEF ExecRead
<1>2. db'[r] = d /\ (\A p \in Replica \ {r} : db'[p] = db[p])
  BY <1>1 DEF IInv, TypeOK
<1>3. db[r] \in Database /\ ts[r] \in Int /\ clock[r] \in Int
  BY BoundAssumption DEF IInv, TypeOK
<1>4. \A s \in Slot : Stable(s) \/ Deterministic(s) => d[s] = db[r][s]
  BY <1>3, ReadFrame, ExecFrame
<1>5. Chain' /\ Times' /\ Growing' /\ SnapFromLog'
  BY <1>1 DEF IInv, Chain, Times, Growing, SnapFromLog
<1>6. NoExpiries'
  <2> SUFFICES ASSUME NEW k \in Key, NoExpiry(k), NEW p \in Replica
               PROVE  db'[p][Exp(k)] = Nil
    BY <1>1 DEF IInv, NoExpiries
  <2>1. db[p][Exp(k)] = Nil
    BY DEF IInv, NoExpiries
  <2>2. ~Expires(c, k)
    BY DEF NoExpiry
  <2> QED BY <1>2, <1>3, <2>1, <2>2, ExecNoExpiry
<1>7. SlotFromLog'
  <2> SUFFICES ASSUME NEW p \in Replica, NEW s \in Slot, Stable(s)
               PROVE  \E i \in applied[p]..seen[p] : db'[p][s] = ref[i].db[s]
    BY <1>1 DEF SlotFromLog
  <2>1. db'[p][s] = db[p][s]
    BY <1>2, <1>4
  <2> QED BY <2>1 DEF IInv, SlotFromLog
<1>8. FirstPassExact'
  <2> SUFFICES ASSUME NEW p \in Replica, NEW s \in Slot, fresh[p], Deterministic(s)
               PROVE  db'[p][s] = ref[applied[p]].db[s]
    BY <1>1 DEF FirstPassExact
  <2>1. db'[p][s] = db[p][s]
    BY <1>2, <1>4
  <2> QED BY <2>1 DEF IInv, FirstPassExact
<1>9. NoTimers'
  BY <1>1 DEF IInv, NoTimers
<1> QED BY <1>9, <1>5, <1>6, <1>7, <1>8 DEF IInv

(* A snapshot holds what the replica held when it was taken. *)
LEMMA SnapshotStep ==
    ASSUME IInv, NEW r \in Replica, TakeSnapshot(r), TypeOK', Indices'
    PROVE  IInv'
<1> DEFINE n == [db |-> db[r], timers |-> timers[r], ts |-> ts[r],
                 index |-> applied[r], seen |-> seen[r]]
<1>1. /\ snap' = [snap EXCEPT ![r] = n]
      /\ UNCHANGED <<log, db, timers, ts, applied, clock, ref, seen, fresh>>
  BY DEF TakeSnapshot
<1>2. snap'[r] = n /\ (\A p \in Replica \ {r} : snap'[p] = snap[p])
  BY <1>1 DEF IInv, TypeOK
<1>3. Chain' /\ Growing' /\ SlotFromLog' /\ FirstPassExact'
  BY <1>1 DEF IInv, Chain, Growing, SlotFromLog, FirstPassExact
<1>4. Times'
  <2> SUFFICES ASSUME NEW p \in Replica
               PROVE  ts[p] = ref[applied[p]].ts /\ snap'[p].ts = ref[snap'[p].index].ts
    BY <1>1 DEF Times
  <2>1. CASE p = r
    BY <1>2, <2>1 DEF IInv, Times
  <2>2. CASE p # r
    BY <1>2, <2>2 DEF IInv, Times
  <2> QED BY <2>1, <2>2
<1>5. NoExpiries'
  <2> SUFFICES ASSUME NEW k \in Key, NoExpiry(k), NEW p \in Replica
               PROVE  snap'[p].db[Exp(k)] = Nil
    BY <1>1 DEF IInv, NoExpiries
  <2>1. db[p][Exp(k)] = Nil /\ snap[p].db[Exp(k)] = Nil
    BY DEF IInv, NoExpiries
  <2>2. CASE p = r
    BY <1>2, <2>1, <2>2
  <2>3. CASE p # r
    BY <1>2, <2>1, <2>3
  <2> QED BY <2>2, <2>3
<1>6. SnapFromLog'
  <2> SUFFICES ASSUME NEW p \in Replica, NEW s \in Slot, Stable(s)
               PROVE  \E i \in snap'[p].index..snap'[p].seen : snap'[p].db[s] = ref[i].db[s]
    BY <1>1 DEF SnapFromLog
  <2>1. CASE p = r
    BY <1>2, <2>1 DEF IInv, SlotFromLog
  <2>2. CASE p # r
    BY <1>2, <2>2 DEF IInv, SnapFromLog
  <2> QED BY <2>1, <2>2
<1>7. NoTimers'
  <2>1. \A p \in Replica : snap'[p].timers \in {snap[p].timers, timers[p]}
    BY <1>2
  <2>2. timers' = timers
    BY <1>1
  <2> QED BY <2>1, <2>2 DEF IInv, NoTimers
<1> QED BY <1>7, <1>3, <1>4, <1>5, <1>6 DEF IInv

(* What the machine restored from a snapshot shows in a stable slot comes  *)
(* from the snapshot, or, where the snapshot has nothing, from the disk.   *)
LEMMA RestoreStep ==
    ASSUME IInv, NEW r \in Replica, NEW q \in Replica, Restore(r, snap[q]),
           UNCHANGED <<log, ref>>, seen'[r] \in Nat,
           q = r \/ (MaxInstalls > 0 /\ snap[q].index > applied[r])
    PROVE  /\ Chain' /\ Growing' /\ SlotFromLog' /\ FirstPassExact'
           /\ \A p \in Replica : ts'[p] = ref[applied'[p]].ts
           /\ \A k \in Key, p \in Replica : NoExpiry(k) => db'[p][Exp(k)] = Nil
           /\ \A p \in Replica : \A x \in timers'[p] : ~NoExpiry(x[1])
<1> DEFINE S == snap[q]
           d == RestoreOver(db[r], S.db)
<1>1. /\ db'[r] = d /\ ts'[r] = S.ts /\ applied'[r] = S.index
      /\ seen'[r] = MaxOf(seen[r], S.seen) /\ fresh'[r] = FALSE
      /\ \A p \in Replica \ {r} :
            /\ db'[p] = db[p] /\ ts'[p] = ts[p] /\ applied'[p] = applied[p]
            /\ seen'[p] = seen[p] /\ fresh'[p] = fresh[p]
  BY DEF Restore, IInv, TypeOK
<1>2. /\ S.index \in Nat /\ S.seen \in Nat /\ seen[r] \in Nat /\ applied[r] \in Nat
      /\ Len(log) \in Nat /\ seen[r] <= Len(log)
  BY SMTT(30) DEF IInv, TypeOK, Snapshot
<1>3. /\ S.index <= S.seen /\ applied[r] <= seen[r]
      /\ S.seen <= seen[q] /\ seen[q] \in Nat /\ seen[q] <= Len(log)
      /\ q = r => S.index <= applied[r]
  BY DEF IInv, TypeOK, Indices
<1>4. Chain' /\ Growing'
  BY DEF IInv, Chain, Growing
<1>5. \A p \in Replica : ts'[p] = ref[applied'[p]].ts
  <2> SUFFICES ASSUME NEW p \in Replica PROVE ts'[p] = ref[applied'[p]].ts
    OBVIOUS
  <2>1. CASE p = r
    BY <1>1, <2>1 DEF IInv, Times
  <2>2. CASE p # r
    BY <1>1, <2>2 DEF IInv, Times
  <2> QED BY <2>1, <2>2
<1>6. \A k \in Key, p \in Replica : NoExpiry(k) => db'[p][Exp(k)] = Nil
  <2> SUFFICES ASSUME NEW k \in Key, NEW p \in Replica, NoExpiry(k)
               PROVE  db'[p][Exp(k)] = Nil
    OBVIOUS
  <2>1. db[p][Exp(k)] = Nil /\ S.db[Exp(k)] = Nil
    BY DEF IInv, NoExpiries
  <2>2. d[Exp(k)] \in {S.db[Exp(k)], db[r][Exp(k)]}
    BY SlotFacts DEF RestoreOver
  <2>3. CASE p = r
    BY <1>1, <2>1, <2>2, <2>3
  <2>4. CASE p # r
    BY <1>1, <2>1, <2>4
  <2> QED BY <2>3, <2>4
<1>7. SlotFromLog'
  <2> SUFFICES ASSUME NEW p \in Replica, NEW s \in Slot, Stable(s)
               PROVE  \E i \in applied'[p]..seen'[p] : db'[p][s] = ref[i].db[s]
    BY DEF SlotFromLog
  <2>1. CASE p # r
    BY <1>1, <2>1 DEF IInv, SlotFromLog
  <2>2. CASE p = r
    <3>1. PICK j \in S.index..S.seen : S.db[s] = ref[j].db[s]
      BY DEF IInv, SnapFromLog
    <3>2. PICK i \in applied[r]..seen[r] : db[r][s] = ref[i].db[s]
      BY DEF IInv, SlotFromLog
    <3>3. j \in applied'[r]..seen'[r]
      BY <1>1, <1>2, <1>3, <3>1 DEF MaxOf
    <3>4. CASE S.db[s] # Nil
      <4>1. db'[r][s] = S.db[s]
        BY <1>1, <3>4 DEF RestoreOver
      <4> QED BY <2>2, <3>1, <3>3, <4>1
    <3>5. CASE S.db[s] = Nil
      <4>1. db'[r][s] = db[r][s]
        BY <1>1, <3>5 DEF RestoreOver
      <4>2. CASE i \in applied'[r]..seen'[r]
        BY <2>2, <3>2, <4>1, <4>2
      <4>3. CASE i \notin applied'[r]..seen'[r]
        <5>1. i < S.index /\ q # r
          BY <1>1, <1>2, <1>3, <3>2, <4>3 DEF MaxOf
        <5>2. i \in 0..Len(log) /\ j \in 0..Len(log) /\ i <= j
          BY <1>2, <1>3, <3>1, <3>2, <5>1
        <5>3. ref[i].db[s] = Nil
          BY <3>1, <3>5, <5>1, <5>2 DEF IInv, Growing
        <5> QED BY <2>2, <3>1, <3>2, <3>3, <3>5, <4>1, <5>3
      <4> QED BY <4>2, <4>3
    <3> QED BY <3>4, <3>5
  <2> QED BY <2>1, <2>2
<1>8. FirstPassExact'
  <2> SUFFICES ASSUME NEW p \in Replica, NEW s \in Slot, fresh'[p], Deterministic(s)
               PROVE  db'[p][s] = ref[applied'[p]].db[s]
    BY DEF FirstPassExact
  <2>1. p # r
    BY <1>1
  <2> QED BY <1>1, <2>1 DEF IInv, FirstPassExact
<1>9. \A p \in Replica : \A x \in timers'[p] : ~NoExpiry(x[1])
  <2>1. /\ timers'[r] = timers[r] \cup S.timers
        /\ \A p \in Replica \ {r} : timers'[p] = timers[p]
    BY DEF Restore, IInv, TypeOK
  <2> QED BY <2>1 DEF IInv, NoTimers
<1> QED BY <1>9, <1>4, <1>5, <1>6, <1>7, <1>8

(* A restart preserves the invariant. *)
LEMMA RestartStep ==
    ASSUME IInv, NEW r \in Replica, Restart(r), TypeOK', Indices'
    PROVE  IInv'
<1>1. Restore(r, snap[r]) /\ UNCHANGED <<log, snap, ref>>
  BY DEF Restart
<1>2. seen'[r] \in Nat
  BY DEF TypeOK
<1>3. /\ Chain' /\ Growing' /\ SlotFromLog' /\ FirstPassExact'
      /\ \A p \in Replica : ts'[p] = ref[applied'[p]].ts
      /\ \A k \in Key, p \in Replica : NoExpiry(k) => db'[p][Exp(k)] = Nil
      /\ \A p \in Replica : \A x \in timers'[p] : ~NoExpiry(x[1])
  BY <1>1, <1>2, RestoreStep
<1>4. Times' /\ NoExpiries' /\ SnapFromLog'
  BY <1>1, <1>3 DEF IInv, Times, NoExpiries, SnapFromLog
<1>5. NoTimers'
  BY <1>1, <1>3 DEF IInv, NoTimers
<1> QED BY <1>5, <1>3, <1>4 DEF IInv

(* An installed snapshot preserves the invariant. *)
LEMMA InstallStep ==
    ASSUME IInv, NEW r \in Replica, NEW q \in Replica, InstallSnapshot(r, q),
           TypeOK', Indices'
    PROVE  IInv'
<1>1. /\ Restore(r, snap[q]) /\ UNCHANGED <<log, ref>>
      /\ snap' = [snap EXCEPT ![r] = snap[q]]
      /\ snap[q].index > applied[r]
  BY DEF InstallSnapshot
<1>2. MaxInstalls > 0
  BY BoundAssumption DEF InstallSnapshot, IInv, TypeOK
<1>3. seen'[r] \in Nat
  BY DEF TypeOK
<1>4. snap'[r] = snap[q] /\ (\A p \in Replica \ {r} : snap'[p] = snap[p])
  BY <1>1 DEF IInv, TypeOK
<1>5. /\ Chain' /\ Growing' /\ SlotFromLog' /\ FirstPassExact'
      /\ \A p \in Replica : ts'[p] = ref[applied'[p]].ts
      /\ \A k \in Key, p \in Replica : NoExpiry(k) => db'[p][Exp(k)] = Nil
      /\ \A p \in Replica : \A x \in timers'[p] : ~NoExpiry(x[1])
  BY <1>1, <1>2, <1>3, RestoreStep
<1>6. \A p \in Replica : \E o \in Replica : snap'[p] = snap[o]
  BY <1>4
<1>7. Times'
  BY <1>1, <1>5, <1>6 DEF IInv, Times
<1>8. NoExpiries'
  BY <1>1, <1>5, <1>6 DEF IInv, NoExpiries
<1>9. SnapFromLog'
  <2> SUFFICES ASSUME NEW p \in Replica, NEW s \in Slot, Stable(s)
               PROVE  \E i \in snap'[p].index..snap'[p].seen : snap'[p].db[s] = ref[i].db[s]
    BY <1>1 DEF SnapFromLog
  <2>1. PICK o \in Replica : snap'[p] = snap[o]
    BY <1>6
  <2> QED BY <2>1 DEF IInv, SnapFromLog
<1>10. NoTimers'
  BY <1>5, <1>6 DEF IInv, NoTimers
<1> QED BY <1>10, <1>5, <1>7, <1>8, <1>9 DEF IInv

(* The TTL checker only touches keys that some command expires. *)
LEMMA ExpireStep ==
    ASSUME IInv, NEW r \in Replica, NEW x \in timers[r], ExpireKey(r, x), TypeOK', Indices'
    PROVE  IInv'
<1> DEFINE k == x[1]
<1>0. k \in Key
  BY DEF IInv, TypeOK, TimeKey
<1>1. /\ db' = [db EXCEPT ![r] = Del(db[r], {k})]
      /\ UNCHANGED <<log, ts, applied, snap, clock, ref, seen, fresh>>
  BY DEF ExpireKey
<1>2. /\ db'[r] = Del(db[r], {k}) /\ (\A p \in Replica \ {r} : db'[p] = db[p])
      /\ db[r] \in Database
  BY <1>1 DEF IInv, TypeOK
<1>3. ~NoExpiry(k)
  BY DEF IInv, NoTimers
<1>4. \A p \in Replica, s \in Slot : Stable(s) \/ Deterministic(s) => db'[p][s] = db[p][s]
  <2> SUFFICES ASSUME NEW p \in Replica, NEW s \in Slot, Stable(s) \/ Deterministic(s)
               PROVE  db'[p][s] = db[p][s]
    OBVIOUS
  <2>1. s # KV(k) /\ s # Exp(k)
    BY <1>0, <1>3, NoExpiryOn
  <2> QED BY <1>0, <1>2, <2>1, DelFrame
<1>5. Chain' /\ Times' /\ Growing' /\ SnapFromLog'
  BY <1>1 DEF IInv, Chain, Times, Growing, SnapFromLog
<1>6. NoExpiries'
  <2> SUFFICES ASSUME NEW j \in Key, NoExpiry(j), NEW p \in Replica
               PROVE  db'[p][Exp(j)] = Nil
    BY <1>1 DEF IInv, NoExpiries
  <2>1. db[p][Exp(j)] = Nil
    BY DEF IInv, NoExpiries
  <2>2. Del(db[r], {k})[Exp(j)] \in {Nil, db[r][Exp(j)]}
    BY SlotFacts DEF Del
  <2> QED BY <1>2, <2>1, <2>2
<1>7. SlotFromLog'
  <2>2. UNCHANGED <<applied, seen, ref>>
    BY <1>1
  <2> SUFFICES ASSUME NEW p \in Replica, NEW s \in Slot, Stable(s)
               PROVE  \E i \in applied[p]..seen[p] : db'[p][s] = ref[i].db[s]
    BY <2>2 DEF SlotFromLog
  <2>1. db'[p][s] = db[p][s]
    BY <1>4
  <2> QED BY <2>1 DEF IInv, SlotFromLog
<1>8. FirstPassExact'
  BY <1>1, <1>4, SMTT(30) DEF IInv, FirstPassExact
<1>9. NoTimers'
  <2>1. \A p \in Replica : timers'[p] \subseteq timers[p]
    BY DEF ExpireKey, IInv, TypeOK
  <2> QED BY <1>1, <2>1 DEF IInv, NoTimers
<1> QED BY <1>9, <1>5, <1>6, <1>7, <1>8 DEF IInv

(* Initially every replica, snapshot and ref is empty. *)
LEMMA InvInit == Init => IInv
<1> SUFFICES ASSUME Init PROVE IInv
  OBVIOUS
<1>1. TypeOK /\ Indices
  BY TypeInit
<1>2. /\ log = <<>> /\ Len(log) = 0 /\ DOMAIN ref = {0}
      /\ ref[0] = [db |-> EmptyDatabase, ts |-> 0]
  BY DEF Init
<1>3. \A r \in Replica : /\ db[r] = EmptyDatabase /\ ts[r] = 0 /\ applied[r] = 0
                         /\ snap[r] = NoSnapshot /\ seen[r] = 0
  BY DEF Init
<1>4. Chain
  BY <1>2 DEF Chain
<1>5. Times
  BY <1>2, <1>3 DEF Times, NoSnapshot
<1>6. \A k \in Key : EmptyDatabase[Exp(k)] = Nil
  BY SlotFacts DEF EmptyDatabase
<1>7. NoExpiries
  BY <1>2, <1>3, <1>6 DEF NoExpiries, NoSnapshot
<1>8. Growing
  BY <1>2 DEF Growing
<1>9. SlotFromLog /\ FirstPassExact
  BY <1>2, <1>3 DEF SlotFromLog, FirstPassExact
<1>10. SnapFromLog
  BY <1>2, <1>3 DEF SnapFromLog, NoSnapshot
<1>11. NoTimers
  BY DEF Init, NoTimers, NoSnapshot
<1> QED BY <1>11, <1>1, <1>4, <1>5, <1>7, <1>8, <1>9, <1>10 DEF IInv

(* Every step preserves the inductive invariant. *)
LEMMA InvStep ==
    ASSUME IInv, [Next]_vars
    PROVE  IInv'
<1>1. TypeOK' /\ Indices'
  BY TypeStep DEF IInv
<1>2. CASE UNCHANGED vars
  BY <1>1, <1>2 DEF vars, IInv, Chain, Times, NoExpiries, NoTimers, Growing, SlotFromLog,
                    SnapFromLog, FirstPassExact
<1>3. ASSUME NEW r \in Replica, ClockTick(r) PROVE IInv'
  BY <1>1, <1>3 DEF ClockTick, replicaVars, IInv, Chain, Times, NoExpiries, NoTimers, Growing,
                    SlotFromLog, SnapFromLog, FirstPassExact
<1> QED
  BY <1>1, <1>2, <1>3, CommitStep, ApplyStep, ExecReadStep, SnapshotStep, RestartStep,
     InstallStep, ExpireStep DEF Next

(* Replay safety: whatever restarts, replays, installed snapshots, clocks  *)
(* and read-registered commands do, a slot written only by blind logged    *)
(* commands shows what the log had there at an index between the one       *)
(* applied and the highest one that reached the disk.                      *)
THEOREM ReplaySafe == Spec => []SlotFromLog
<1>1. IInv /\ [Next]_vars => IInv'
  BY InvStep
<1>2. IInv => SlotFromLog
  BY DEF IInv
<1> QED BY <1>1, <1>2, InvInit, PTL DEF Spec

(* A replica that has never restarted holds exactly what the log says in   *)
(* every slot written by logged commands that set no expiry time.          *)
THEOREM FirstPass == Spec => []FirstPassExact
<1>1. IInv /\ [Next]_vars => IInv'
  BY InvStep
<1>2. IInv => FirstPassExact
  BY DEF IInv
<1> QED BY <1>1, <1>2, InvInit, PTL DEF Spec
=============================================================================
