----------------------------- MODULE PoolProofs -----------------------------
(***************************************************************************)
(* Theorems about Pool for every number of clients and every size of the   *)
(* pool.  The queue of waiting clients and the counters are treated apart: *)
(* the first lemmas say how a hand-over changes the queue and the number   *)
(* of clients that hold a connection, the counters are then arithmetic.    *)
(***************************************************************************)
EXTENDS Pool, FiniteSetTheorems, TLAPS

HoldersOf(f) == {c \in Clients : f[c] \in {"got", "held"}}

\* The queue of readyConnection holds blocked clients, each once.
QueueOK(f, w) ==
    /\ \A i \in 1..Len(w) : f[w[i]] = "wait"
    /\ \A i, j \in 1..Len(w) : w[i] = w[j] => i = j

\* What startNewConnections may still make is within the bound, too.
Reserved == total + need <= maxAlive + minAlive

\* What is lost, and what would be lost if startNewConnections failed now.
AtRisk == lost + need + (IF upkeep = "create" THEN batch ELSE 0) <= minAlive

IInv ==
    /\ TypeOK
    /\ QueueOK(client, waiting)
    /\ Accounted
    /\ Reserved
    /\ AtRisk
    /\ LossBounded

\* The part of it that is about the clients, and the part about the counters.
ClientPart ==
    /\ client \in [Clients -> Client]
    /\ waiting \in Seq(Clients)
    /\ QueueOK(client, waiting)

InHand == Cardinality(HoldersOf(client))

CounterPart ==
    /\ total \in Nat /\ idle \in 0..maxIdle /\ lost \in Nat
    /\ producer \in Producer /\ upkeep \in Upkeep
    /\ batch \in Nat /\ need \in 0..minAlive
    /\ upkeep \in {"tick", "spawn", "closable"} => batch = 0
    /\ need > 0 => upkeep \in {"setup", "create"}
    /\ total = idle + batch + lost + (IF producer = "look" THEN 0 ELSE 1) + InHand
    /\ Reserved /\ AtRisk /\ LossBounded

-----------------------------------------------------------------------------
(* The number of clients that hold a connection is a number. *)
LEMMA HoldersCount ==
    ASSUME NEW f
    PROVE  IsFiniteSet(HoldersOf(f)) /\ Cardinality(HoldersOf(f)) \in Nat
<1>1. HoldersOf(f) \in SUBSET Clients
  BY DEF HoldersOf
<1>2. IsFiniteSet(HoldersOf(f))
  BY <1>1, FS_Subset, PoolAssumption
<1> QED BY <1>2, FS_CardinalityType

(* A client that did not hold a connection gets one. *)
LEMMA HoldersGet ==
    ASSUME NEW f \in [Clients -> Client], NEW c \in Clients,
           f[c] \notin {"got", "held"}, NEW s \in {"got", "held"}
    PROVE  /\ [f EXCEPT ![c] = s] \in [Clients -> Client]
           /\ Cardinality(HoldersOf([f EXCEPT ![c] = s])) = Cardinality(HoldersOf(f)) + 1
<1>1. HoldersOf([f EXCEPT ![c] = s]) = HoldersOf(f) \cup {c} /\ c \notin HoldersOf(f)
  BY DEF HoldersOf
<1>2. IsFiniteSet(HoldersOf(f))
  BY HoldersCount
<1>3. [f EXCEPT ![c] = s] \in [Clients -> Client]
  BY DEF Client
<1> QED BY <1>1, <1>2, <1>3, FS_AddElement

(* A client that holds a connection gives it away. *)
LEMMA HoldersGive ==
    ASSUME NEW f \in [Clients -> Client], NEW c \in Clients,
           f[c] \in {"got", "held"}, NEW s \in Client \ {"got", "held"}
    PROVE  /\ [f EXCEPT ![c] = s] \in [Clients -> Client]
           /\ Cardinality(HoldersOf([f EXCEPT ![c] = s])) = Cardinality(HoldersOf(f)) - 1
<1>1. HoldersOf([f EXCEPT ![c] = s]) = HoldersOf(f) \ {c} /\ c \in HoldersOf(f)
  BY DEF HoldersOf
<1>2. IsFiniteSet(HoldersOf(f))
  BY HoldersCount
<1>3. [f EXCEPT ![c] = s] \in [Clients -> Client]
  OBVIOUS
<1> QED BY <1>1, <1>2, <1>3, FS_RemoveElement

(* A client moves on with what it has. *)
LEMMA HoldersKeep ==
    ASSUME NEW f \in [Clients -> Client], NEW c \in Clients, NEW s \in Client,
           f[c] \in {"got", "held"} <=> s \in {"got", "held"}
    PROVE  /\ [f EXCEPT ![c] = s] \in [Clients -> Client]
           /\ HoldersOf([f EXCEPT ![c] = s]) = HoldersOf(f)
BY DEF HoldersOf

(* A client that is not blocked may move. *)
LEMMA QueueMove ==
    ASSUME NEW f \in [Clients -> Client], NEW w \in Seq(Clients), QueueOK(f, w),
           NEW c \in Clients, f[c] # "wait", NEW s
    PROVE  QueueOK([f EXCEPT ![c] = s], w)
<1>1. \A i \in 1..Len(w) : w[i] \in Clients /\ w[i] # c
  BY DEF QueueOK
<1> QED BY <1>1 DEF QueueOK

(* A client blocks at the end of the queue. *)
LEMMA QueueBlock ==
    ASSUME NEW f \in [Clients -> Client], NEW w \in Seq(Clients), QueueOK(f, w),
           NEW c \in Clients, f[c] # "wait"
    PROVE  Append(w, c) \in Seq(Clients) /\ QueueOK([f EXCEPT ![c] = "wait"], Append(w, c))
<1> DEFINE v == Append(w, c)
<1>1. \A i \in 1..Len(w) : w[i] \in Clients /\ w[i] # c
  BY DEF QueueOK
<1>2. /\ v \in Seq(Clients) /\ Len(v) = Len(w) + 1 /\ Len(w) \in Nat
      /\ \A i \in 1..Len(w) : v[i] = w[i]
      /\ v[Len(w) + 1] = c
  OBVIOUS
<1> HIDE DEF v
<1>3. \A i \in 1..Len(v) : i \in 1..Len(w) \/ i = Len(w) + 1
  BY <1>2
<1>4. \A i \in 1..Len(v) : [f EXCEPT ![c] = "wait"][v[i]] = "wait"
  BY <1>1, <1>2, <1>3 DEF QueueOK
<1>5. \A i, j \in 1..Len(v) : v[i] = v[j] => i = j
  BY <1>1, <1>2, <1>3 DEF QueueOK
<1> QED BY <1>2, <1>4, <1>5 DEF QueueOK, v

(* The first in the queue receives. *)
LEMMA QueueReceive ==
    ASSUME NEW f \in [Clients -> Client], NEW w \in Seq(Clients), QueueOK(f, w),
           w # <<>>, NEW s
    PROVE  /\ Head(w) \in Clients /\ f[Head(w)] = "wait"
           /\ Tail(w) \in Seq(Clients)
           /\ QueueOK([f EXCEPT ![Head(w)] = s], Tail(w))
<1> DEFINE v == Tail(w)
<1>1. /\ Len(w) \in Nat /\ Len(w) > 0 /\ Head(w) = w[1]
      /\ \A i \in 1..Len(w) : w[i] \in Clients
  OBVIOUS
<1>2. /\ v \in Seq(Clients) /\ Len(v) = Len(w) - 1
      /\ \A i \in 1..Len(v) : v[i] = w[i + 1] /\ i + 1 \in 1..Len(w)
  BY <1>1
<1> HIDE DEF v
<1>3. Head(w) \in Clients /\ f[Head(w)] = "wait"
  BY <1>1 DEF QueueOK
<1>4. \A i \in 1..Len(v) : f[v[i]] = "wait" /\ v[i] # w[1] /\ v[i] \in Clients
  BY <1>1, <1>2 DEF QueueOK
<1>5. \A i \in 1..Len(v) : [f EXCEPT ![Head(w)] = s][v[i]] = "wait"
  BY <1>1, <1>4
<1>6. \A i, j \in 1..Len(v) : v[i] = v[j] => i = j
  BY <1>1, <1>2 DEF QueueOK
<1> QED BY <1>2, <1>3, <1>5, <1>6 DEF QueueOK, v

-----------------------------------------------------------------------------
(* The invariant is its two parts. *)
LEMMA Parts == /\ IInv <=> ClientPart /\ CounterPart
               /\ InHand \in Nat
<1>1. Holders = HoldersOf(client)
  BY DEF Holders, HoldersOf
<1>2. InHand \in Nat
  BY HoldersCount DEF InHand
<1> QED BY <1>1, <1>2 DEF IInv, ClientPart, CounterPart, TypeOK, Accounted, InHand

(* The same after a step. *)
LEMMA PartsNext == ClientPart' /\ CounterPart' => IInv'
<1>1. Holders' = HoldersOf(client')
  BY DEF Holders, HoldersOf
<1> QED BY <1>1 DEF IInv, ClientPart, CounterPart, TypeOK, Accounted, InHand

(* The initial state satisfies the invariant. *)
LEMMA InvInit == Init => IInv
<1> SUFFICES ASSUME Init PROVE IInv
  OBVIOUS
<1>1. HoldersOf(client) = {}
  BY DEF Init, HoldersOf
<1>2. InHand = 0
  BY <1>1, FS_EmptySet DEF InHand
<1>3. ClientPart
  BY DEF Init, ClientPart, Client, QueueOK
<1>4. CounterPart
  BY <1>2, PoolAssumption DEF Init, CounterPart, Producer, Upkeep, Reserved, AtRisk, LossBounded
<1> QED BY <1>3, <1>4, Parts

(* A hand-over through the channel adds one to the clients with a          *)
(* connection.                                                             *)
LEMMA ReceiveCounts ==
    ASSUME ClientPart, Receive
    PROVE  ClientPart' /\ InHand' = InHand + 1
<1>1. /\ Head(waiting) \in Clients /\ client[Head(waiting)] = "wait"
      /\ waiting' \in Seq(Clients)
      /\ QueueOK(client', waiting')
  BY QueueReceive DEF Receive, ClientPart
<1>2. /\ client' \in [Clients -> Client]
      /\ Cardinality(HoldersOf(client')) = Cardinality(HoldersOf(client)) + 1
  BY <1>1, HoldersGet DEF Receive, ClientPart
<1> QED BY <1>1, <1>2 DEF ClientPart, InHand

(* The calls of a client keep the invariant. *)
LEMMA ClientStep ==
    ASSUME IInv, NEW c \in Clients,
           GetConn(c) \/ GetStep(c) \/ PutConn(c) \/ DropConn(c)
    PROVE  IInv'
<1>0. ClientPart /\ CounterPart /\ InHand \in Nat /\ InHand' \in Nat
  BY Parts, HoldersCount DEF InHand
<1> USE PoolAssumption
<1>1. CASE GetConn(c)
  <2>1. ClientPart' /\ InHand' = InHand
    BY <1>0, <1>1, HoldersKeep, QueueMove DEF GetConn, ClientPart, Client, InHand
  <2>2. CounterPart'
    BY <1>0, <1>1, <2>1 DEF GetConn, CounterPart, Reserved, AtRisk, LossBounded
  <2> QED BY <2>1, <2>2, PartsNext
<1>2. CASE GetIdle(c)
  <2>1. CASE idle > 0
    <3>0. client' = [client EXCEPT ![c] = "got"] /\ client[c] = "get" /\ waiting' = waiting
      BY <1>0, <1>2, <2>1 DEF GetIdle, CounterPart
    <3>1. ClientPart' /\ InHand' = InHand + 1
      BY <1>0, <3>0, HoldersGet, QueueMove DEF ClientPart, InHand
    <3>2. CounterPart'
      BY <1>0, <1>2, <2>1, <3>1 DEF GetIdle, CounterPart, Reserved, AtRisk, LossBounded
    <3> QED BY <3>1, <3>2, PartsNext
  <2>2. CASE idle = 0
    <3>0. client' = [client EXCEPT ![c] = "missed"] /\ client[c] = "get" /\ waiting' = waiting
      BY <1>2, <2>2 DEF GetIdle
    <3>1. ClientPart' /\ InHand' = InHand
      BY <1>0, <3>0, HoldersKeep, QueueMove DEF ClientPart, Client, InHand
    <3>2. CounterPart'
      BY <1>0, <1>2, <2>2, <3>1 DEF GetIdle, CounterPart, Reserved, AtRisk, LossBounded
    <3> QED BY <3>1, <3>2, PartsNext
  <2> QED BY <1>0, <2>1, <2>2 DEF CounterPart
<1>3. CASE Block(c)
  <2>1. ClientPart' /\ InHand' = InHand
    BY <1>0, <1>3, HoldersKeep, QueueBlock DEF Block, ClientPart, Client, InHand
  <2>2. CounterPart'
    BY <1>0, <1>3, <2>1 DEF Block, CounterPart, Reserved, AtRisk, LossBounded
  <2> QED BY <2>1, <2>2, PartsNext
<1>4. CASE Got(c)
  <2>1. ClientPart' /\ InHand' = InHand
    BY <1>0, <1>4, HoldersKeep, QueueMove DEF Got, ClientPart, Client, InHand
  <2>2. CounterPart'
    BY <1>0, <1>4, <2>1 DEF Got, CounterPart, Reserved, AtRisk, LossBounded
  <2> QED BY <2>1, <2>2, PartsNext
<1>5. CASE GotDead(c)
  <2>1. ClientPart' /\ InHand' = InHand - 1
    BY <1>0, <1>5, HoldersGive, QueueMove DEF GotDead, ClientPart, Client, InHand
  <2>2. CounterPart'
    BY <1>0, <1>5, <2>1 DEF GotDead, CloseConn, CounterPart, Reserved, AtRisk, LossBounded
  <2> QED BY <2>1, <2>2, PartsNext
<1>6. CASE PutConn(c)
  <2>1. CASE waiting # <<>>
    <3> DEFINE h == Head(waiting)
               g == [client EXCEPT ![c] = "out"]
    <3>1. /\ g \in [Clients -> Client]
          /\ Cardinality(HoldersOf(g)) = Cardinality(HoldersOf(client)) - 1
          /\ QueueOK(g, waiting)
      BY <1>0, <1>6, HoldersGive, QueueMove DEF PutConn, ClientPart, Client
    <3>2. /\ h \in Clients /\ g[h] = "wait"
          /\ Tail(waiting) \in Seq(Clients)
          /\ QueueOK([g EXCEPT ![h] = "got"], Tail(waiting))
      BY <1>0, <2>1, <3>1, QueueReceive DEF ClientPart
    <3>3. /\ [g EXCEPT ![h] = "got"] \in [Clients -> Client]
          /\ Cardinality(HoldersOf([g EXCEPT ![h] = "got"])) = Cardinality(HoldersOf(g)) + 1
      BY <3>1, <3>2, HoldersGet
    <3>4. client' = [g EXCEPT ![h] = "got"] /\ waiting' = Tail(waiting)
      BY <1>6, <2>1 DEF PutConn
    <3>5. ClientPart' /\ InHand' = InHand
      BY <1>0, <3>1, <3>2, <3>3, <3>4 DEF ClientPart, InHand
    <3>6. CounterPart'
      BY <1>0, <1>6, <2>1, <3>5 DEF PutConn, CounterPart, Reserved, AtRisk, LossBounded
    <3> QED BY <3>5, <3>6, PartsNext
  <2>2. CASE waiting = <<>>
    <3>0. client' = [client EXCEPT ![c] = "out"] /\ client[c] = "held" /\ waiting' = waiting
      BY <1>6, <2>2 DEF PutConn
    <3>1. ClientPart' /\ InHand' = InHand - 1
      BY <1>0, <3>0, HoldersGive, QueueMove DEF ClientPart, Client, InHand
    <3>2. CounterPart'
      BY <1>0, <1>6, <2>2, <3>1, SMTT(30)
         DEF PutConn, PutUnsafe, Least, Most, CounterPart, Reserved, AtRisk, LossBounded
    <3> QED BY <3>1, <3>2, PartsNext
  <2> QED BY <2>1, <2>2
<1>7. CASE DropConn(c)
  <2>1. ClientPart' /\ InHand' = InHand - 1
    BY <1>0, <1>7, HoldersGive, QueueMove DEF DropConn, ClientPart, Client, InHand
  <2>2. CounterPart'
    BY <1>0, <1>7, <2>1 DEF DropConn, CloseConn, CounterPart, Reserved, AtRisk, LossBounded
  <2> QED BY <2>1, <2>2, PartsNext
<1> QED BY <1>1, <1>2, <1>3, <1>4, <1>5, <1>6, <1>7 DEF GetStep

(* The producer's steps keep the invariant. *)
LEMMA ProducerKeeps ==
    ASSUME IInv, ProducerStep
    PROVE  IInv'
<1>0. ClientPart /\ CounterPart /\ InHand \in Nat
  BY Parts
<1> USE PoolAssumption
<1>1. CASE Produce \/ Connected \/ NotConnected
  <2>1. ClientPart' /\ InHand' = InHand
    BY <1>0, <1>1 DEF Produce, Connected, NotConnected, ClientPart, InHand
  <2>2. CounterPart'
    BY <1>0, <1>1, <2>1 DEF Produce, Connected, NotConnected, CloseConn, CounterPart,
                            Producer, Reserved, AtRisk, LossBounded
  <2> QED BY <2>1, <2>2, PartsNext
<1>2. CASE Send
  <2>1. ClientPart' /\ InHand' = InHand + 1
    BY <1>0, <1>2, ReceiveCounts DEF Send
  <2>2. CounterPart'
    BY <1>0, <1>2, <2>1 DEF Send, CounterPart, Producer, Reserved, AtRisk, LossBounded
  <2> QED BY <2>1, <2>2, PartsNext
<1> QED BY <1>1, <1>2 DEF ProducerStep

(* The steps of the upkeep keep the invariant. *)
LEMMA UpkeepKeeps ==
    ASSUME IInv, GetOldIdle \/ UpkeepStep
    PROVE  IInv'
<1>0. ClientPart /\ CounterPart /\ InHand \in Nat
  BY Parts
<1> USE PoolAssumption
<1>1. CASE Recheck
  <2>1. CASE Receive /\ UNCHANGED <<idle, total>>
    <3>1. ClientPart' /\ InHand' = InHand + 1
      BY <1>0, <2>1, ReceiveCounts
    <3>2. CounterPart'
      BY <1>0, <1>1, <2>1, <3>1 DEF Recheck, CounterPart, Reserved, AtRisk, LossBounded
    <3> QED BY <3>1, <3>2, PartsNext
  <2>2. CASE (PutUnsafe(1) \/ CloseConn) /\ UNCHANGED <<client, waiting>>
    <3>1. ClientPart' /\ InHand' = InHand
      BY <1>0, <2>2 DEF ClientPart, InHand
    <3>2. CounterPart'
      BY <1>0, <1>1, <2>2, <3>1 DEF Recheck, PutUnsafe, CloseConn, Least, Most,
                                    CounterPart, Reserved, AtRisk, LossBounded
    <3> QED BY <3>1, <3>2, PartsNext
  <2> QED BY <1>1, <2>1, <2>2 DEF Recheck, PutConnection
<1>2. CASE GetOldIdle \/ Rechecked \/ Spawn \/ Create \/ CreateFails \/ Created
             \/ CloseIdleIfCan \/ CloseIdle
  <2>1. ClientPart' /\ InHand' = InHand
    BY <1>0, <1>2 DEF GetOldIdle, Rechecked, Spawn, Create, CreateFails, Created,
                      CloseIdleIfCan, CloseIdle, ClientPart, InHand
  <2>2. ASSUME GetOldIdle PROVE CounterPart'
    BY <1>0, <2>1, <2>2 DEF GetOldIdle, CounterPart, Upkeep, Reserved, AtRisk, LossBounded
  <2>3. ASSUME Rechecked PROVE CounterPart'
    BY <1>0, <2>1, <2>3 DEF Rechecked, CounterPart, Upkeep, Reserved, AtRisk, LossBounded
  <2>4. ASSUME Spawn PROVE CounterPart'
    BY <1>0, <2>1, <2>4 DEF Spawn, Least, CounterPart, Upkeep, Reserved, AtRisk, LossBounded
  <2>5. ASSUME Create PROVE CounterPart'
    BY <1>0, <2>1, <2>5 DEF Create, CounterPart, Upkeep, Reserved, AtRisk, LossBounded
  <2>6. ASSUME CreateFails PROVE CounterPart'
    BY <1>0, <2>1, <2>6 DEF CreateFails, CounterPart, Upkeep, Reserved, AtRisk, LossBounded
  <2>7. ASSUME Created PROVE CounterPart'
    BY <1>0, <2>1, <2>7 DEF Created, PutUnsafe, Least, Most, CounterPart, Upkeep,
                                   Reserved, AtRisk, LossBounded
  <2>8. ASSUME CloseIdleIfCan PROVE CounterPart'
    BY <1>0, <2>1, <2>8 DEF CloseIdleIfCan, CanClose, Least, Most, CounterPart, Upkeep,
                                   Reserved, AtRisk, LossBounded
  <2>9. ASSUME CloseIdle PROVE CounterPart'
    BY <1>0, <2>1, <2>9 DEF CloseIdle, CloseConn, CounterPart, Upkeep, Reserved, AtRisk,
                                   LossBounded
  <2> QED BY <1>2, PartsNext, <2>1, <2>2, <2>3, <2>4, <2>5, <2>6, <2>7, <2>8, <2>9
<1> QED BY <1>1, <1>2 DEF UpkeepStep

(* Every step keeps the invariant. *)
LEMMA InvNext == IInv /\ [Next]_vars => IInv'
<1> SUFFICES ASSUME IInv, [Next]_vars PROVE IInv'
  OBVIOUS
<1>1. CASE PoolStep
  BY <1>1, ProducerKeeps, UpkeepKeeps DEF PoolStep
<1>2. CASE \E c \in Clients : GetConn(c) \/ GetStep(c) \/ PutConn(c) \/ DropConn(c)
  BY <1>2, ClientStep
<1>3. CASE UNCHANGED vars
  BY <1>3 DEF vars, IInv, TypeOK, QueueOK, Accounted, Holders, Reserved, AtRisk, LossBounded
<1> QED BY <1>1, <1>2, <1>3 DEF Next

LEMMA Inductive == Spec => []IInv
<1> QED BY InvInit, InvNext, PTL DEF Spec

(* Every state of every behaviour of the pool is well typed: the idle list *)
(* never outgrows its capacity, TotalCount never becomes negative, and the *)
(* upkeep holds connections only in the stages that take them back.        *)
THEOREM TypeCorrect == Spec => []TypeOK
<1>1. IInv => TypeOK
  BY DEF IInv
<1> QED BY <1>1, Inductive, PTL

(* TotalCount is exact, for any number of clients and any limits: every    *)
(* interleaving of putConnection, closeConn, the producer's reservations   *)
(* and startNewConnections counts each open connection once.               *)
THEOREM CountExact == Spec => []Accounted
<1>1. IInv => Accounted
  BY DEF IInv
<1> QED BY <1>1, Inductive, PTL

(* The pool never has more than maxAlive + minAlive connections open.      *)
THEOREM AliveBound == Spec => []AliveBounded
<1>1. IInv => AliveBounded
  BY PoolAssumption DEF IInv, TypeOK, Reserved, AliveBounded
<1> QED BY <1>1, Inductive, PTL

(* Failures of startNewConnections lose fewer than minAlive connections in *)
(* the whole life of the pool.                                             *)
THEOREM LossBound == Spec => []LossBounded
<1>1. IInv => LossBounded
  BY DEF IInv
<1> QED BY <1>1, Inductive, PTL
=============================================================================
