-------------------------------- MODULE Pool --------------------------------
(***************************************************************************)
(* The MySQL connection pool of the SQL proxy (pkg/mysql/client/pool.go).  *)
(* Three kinds of goroutine share the counter TotalCount and the idle      *)
(* connections under one mutex, and hand connections over through the      *)
(* unbuffered channel readyConnection:                                     *)
(*  - the clients, in GetConn, PutConn and DropConn;                       *)
(*  - newConnectionProducer, which always tries to hold one connection     *)
(*    ready for the next client that finds no idle one;                    *)
(*  - closeOldIdleConnections, called upkeep here, which pings idle        *)
(*    connections, restores minAlive and closes what is superfluous.       *)
(* Every action is one section under the mutex, one channel operation or   *)
(* one round trip to the server.  Connections are counted, not named: what *)
(* is told apart is who holds them.  Any connection may be old enough to   *)
(* be pinged.                                                              *)
(***************************************************************************)
EXTENDS Integers, Sequences, FiniteSets

CONSTANTS Clients,
          minAlive, maxAlive, maxIdle,   \* as NewPool leaves them
          MaxNewConnectionAtOnce

ASSUME PoolAssumption ==
    /\ IsFiniteSet(Clients)
    /\ minAlive \in Nat /\ maxAlive \in Nat \ {0} /\ maxIdle \in Nat
    /\ minAlive <= maxIdle /\ maxIdle <= maxAlive
    /\ MaxNewConnectionAtOnce \in Nat \ {0}

VARIABLES total,     \* synchro.stats.TotalCount
          idle,      \* len(synchro.idleConnections)
          producer,  \* where newConnectionProducer is
          upkeep,    \* where closeOldIdleConnections (or NewPool) is
          batch,     \* connections upkeep took, made, or is closing
          need,      \* connections startNewConnections has still to make
          client,    \* where each client is in GetConn
          waiting,   \* clients blocked on readyConnection, in order
          lost       \* connections counted in TotalCount that nobody holds

vars == <<total, idle, producer, upkeep, batch, need, client, waiting, lost>>

Producer == {"look", "connect", "send"}
Upkeep == {"setup", "tick", "ping", "spawn", "create", "closable", "close"}
Client == {"out", "get", "missed", "wait", "got", "held"}

Least(a, b) == IF a < b THEN a ELSE b
Most(a, b) == IF a < b THEN b ELSE a

\* NewPool: the producer runs, startNewConnections(minAlive) has begun.
Init ==
    /\ total = 0 /\ idle = 0 /\ lost = 0
    /\ producer = "look"
    /\ upkeep = "setup" /\ batch = 0 /\ need = minAlive
    /\ client = [c \in Clients |-> "out"]
    /\ waiting = <<>>

-----------------------------------------------------------------------------
(* The two ways a connection changes hands.                                *)

\* Some client receives from readyConnection: the one that waits longest.
Receive ==
    /\ waiting # <<>>
    /\ client' = [client EXCEPT ![Head(waiting)] = "got"]
    /\ waiting' = Tail(waiting)

\* Mutant: the capacity of the idle list is not looked at.
PutUncapped(n) == idle' = idle + n /\ total' = total

\* Mutant: the connection that finds the idle list full stays counted.
PutUncounted(n) ==
    /\ idle' = Least(maxIdle, idle + n)
    /\ total' = total

\* putConnectionUnsafe, for n connections: what does not fit is closed.
PutUnsafe(n) ==
    /\ idle' = Least(maxIdle, idle + n)
    /\ total' = total - Most(0, idle + n - maxIdle)

\* putConnection, by the upkeep: to a waiting client, else to the idle ones.
PutConnection ==
    \/ Receive /\ UNCHANGED <<idle, total>>
    \/ waiting = <<>> /\ PutUnsafe(1) /\ UNCHANGED <<client, waiting>>

\* closeConn.
CloseConn == total' = total - 1 /\ UNCHANGED idle

-----------------------------------------------------------------------------
(* GetConn, PutConn, DropConn.                                             *)

\* GetConn is called: the pool exists.
GetConn(c) ==
    /\ client[c] = "out" /\ upkeep # "setup"
    /\ client' = [client EXCEPT ![c] = "get"]
    /\ UNCHANGED <<total, idle, producer, upkeep, batch, need, waiting, lost>>

\* getConnection, under the mutex: an idle connection, if there is one.
GetIdle(c) ==
    /\ client[c] = "get"
    /\ \/ /\ idle > 0
          /\ idle' = idle - 1
          /\ client' = [client EXCEPT ![c] = "got"]
       \/ /\ idle = 0
          /\ client' = [client EXCEPT ![c] = "missed"]
          /\ UNCHANGED idle
    /\ UNCHANGED <<total, producer, upkeep, batch, need, waiting, lost>>

\* getConnection blocks on readyConnection.  In between, the mutex was free.
Block(c) ==
    /\ client[c] = "missed"
    /\ client' = [client EXCEPT ![c] = "wait"]
    /\ waiting' = Append(waiting, c)
    /\ UNCHANGED <<total, idle, producer, upkeep, batch, need, lost>>

\* GetConn returns: the connection is fresh, or the ping was answered.
Got(c) ==
    /\ client[c] = "got"
    /\ client' = [client EXCEPT ![c] = "held"]
    /\ UNCHANGED <<total, idle, producer, upkeep, batch, need, waiting, lost>>

\* The ping fails: GetConn closes the connection and tries again.
GotDead(c) ==
    /\ client[c] = "got"
    /\ CloseConn
    /\ client' = [client EXCEPT ![c] = "get"]
    /\ UNCHANGED <<producer, upkeep, batch, need, waiting, lost>>

PutConn(c) ==
    /\ client[c] = "held"
    /\ \/ /\ waiting # <<>>
          /\ client' = [client EXCEPT ![c] = "out", ![Head(waiting)] = "got"]
          /\ waiting' = Tail(waiting)
          /\ UNCHANGED <<total, idle>>
       \/ /\ waiting = <<>>
          /\ PutUnsafe(1)
          /\ client' = [client EXCEPT ![c] = "out"]
          /\ UNCHANGED waiting
    /\ UNCHANGED <<producer, upkeep, batch, need, lost>>

DropConn(c) ==
    /\ client[c] = "held"
    /\ CloseConn
    /\ client' = [client EXCEPT ![c] = "out"]
    /\ UNCHANGED <<producer, upkeep, batch, need, waiting, lost>>

-----------------------------------------------------------------------------
(* newConnectionProducer.                                                  *)

\* Mutant: the limit is tested before the idle connections are looked at.
ProduceLimitFirst ==
    /\ producer = "look" /\ total < maxAlive
    /\ \/ idle > 0 /\ idle' = idle - 1 /\ producer' = "send" /\ UNCHANGED total
       \/ idle = 0 /\ total' = total + 1 /\ producer' = "connect" /\ UNCHANGED idle
    /\ UNCHANGED <<upkeep, batch, need, client, waiting, lost>>

\* Mutant: the limit is tested with > instead of >=.
ProduceOneMore ==
    /\ producer = "look"
    /\ \/ idle > 0 /\ idle' = idle - 1 /\ producer' = "send" /\ UNCHANGED total
       \/ /\ idle = 0 /\ total <= maxAlive
          /\ total' = total + 1 /\ producer' = "connect" /\ UNCHANGED idle
    /\ UNCHANGED <<upkeep, batch, need, client, waiting, lost>>

\* Takes an idle connection, or reserves a new one below the limit.
Produce ==
    /\ producer = "look"
    /\ \/ idle > 0 /\ idle' = idle - 1 /\ producer' = "send" /\ UNCHANGED total
       \/ /\ idle = 0 /\ total < maxAlive
          /\ total' = total + 1 /\ producer' = "connect" /\ UNCHANGED idle
    /\ UNCHANGED <<upkeep, batch, need, client, waiting, lost>>

Connected ==
    /\ producer = "connect"
    /\ producer' = "send"
    /\ UNCHANGED <<total, idle, upkeep, batch, need, client, waiting, lost>>

NotConnected ==
    /\ producer = "connect"
    /\ producer' = "look"
    /\ CloseConn
    /\ UNCHANGED <<upkeep, batch, need, client, waiting, lost>>

\* readyConnection <- connection, with a client at the other end.
Send ==
    /\ producer = "send"
    /\ Receive
    /\ producer' = "look"
    /\ UNCHANGED <<total, idle, upkeep, batch, need, lost>>

-----------------------------------------------------------------------------
(* closeOldIdleConnections, and NewPool's startNewConnections.             *)

\* getOldIdleConnections takes the n idle connections that are old.
GetOldIdle ==
    /\ upkeep = "tick"
    /\ \E n \in 1..idle : idle' = idle - n /\ batch' = n
    /\ upkeep' = "ping"
    /\ UNCHANGED <<total, producer, need, client, waiting, lost>>

\* recheckConnections: a worker pings one of them; it lives, or is closed.
Recheck ==
    /\ upkeep = "ping" /\ batch > 0
    /\ PutConnection \/ (CloseConn /\ UNCHANGED <<client, waiting>>)
    /\ batch' = batch - 1
    /\ UNCHANGED <<producer, upkeep, need, lost>>

Rechecked ==
    /\ upkeep = "ping" /\ batch = 0
    /\ upkeep' = "spawn"
    /\ UNCHANGED <<total, idle, producer, batch, need, client, waiting, lost>>

\* Mutant: every spawn makes minAlive connections.
SpawnAll ==
    /\ upkeep = "spawn"
    /\ \/ /\ total < minAlive
          /\ need' = minAlive
          /\ upkeep' = "create"
       \/ total >= minAlive /\ upkeep' = "closable" /\ UNCHANGED need
    /\ UNCHANGED <<total, idle, producer, batch, client, waiting, lost>>

\* spawnConnectionsIfNeeded reads TotalCount and lets the mutex go.
Spawn ==
    /\ upkeep = "spawn"
    /\ \/ /\ total < minAlive
          /\ need' = Least(minAlive - total, MaxNewConnectionAtOnce)
          /\ upkeep' = "create"
       \/ total >= minAlive /\ upkeep' = "closable" /\ UNCHANGED need
    /\ UNCHANGED <<total, idle, producer, batch, client, waiting, lost>>

\* startNewConnections makes one, and counts it.
Create ==
    /\ upkeep \in {"setup", "create"} /\ need > 0
    /\ total' = total + 1 /\ batch' = batch + 1 /\ need' = need - 1
    /\ UNCHANGED <<idle, producer, upkeep, client, waiting, lost>>

\* startNewConnections returns the error; what it made so far is lost.  When
\* it is NewPool that called it, the program ends instead.
CreateFails ==
    /\ upkeep = "create" /\ need > 0
    /\ lost' = lost + batch /\ batch' = 0 /\ need' = 0
    /\ upkeep' = "tick"
    /\ UNCHANGED <<total, idle, producer, client, waiting>>

\* startNewConnections puts them all, without looking for waiting clients.
Created ==
    /\ upkeep \in {"setup", "create"} /\ need = 0
    /\ PutUnsafe(batch)
    /\ batch' = 0
    /\ upkeep' = "tick"
    /\ UNCHANGED <<producer, need, client, waiting, lost>>

\* closeIdleConnectionsIfCan: how many, of those not needed for minAlive and
\* not counting the producer's, and never more than a tenth at a time.
CanClose == Least(total - minAlive - 1, Most(idle \div 10, 1))

CloseIdleIfCan ==
    /\ upkeep = "closable"
    /\ \/ CanClose <= 0 /\ upkeep' = "tick" /\ UNCHANGED <<idle, batch>>
       \/ /\ CanClose > 0
          /\ idle' = Most(idle - CanClose, 0)
          /\ batch' = idle - idle'
          /\ upkeep' = "close"
    /\ UNCHANGED <<total, producer, need, client, waiting, lost>>

\* ... and closes them one by one, outside the mutex.
CloseIdle ==
    /\ upkeep = "close"
    /\ \/ batch > 0 /\ CloseConn /\ batch' = batch - 1 /\ UNCHANGED upkeep
       \/ batch = 0 /\ upkeep' = "tick" /\ UNCHANGED <<total, idle, batch>>
    /\ UNCHANGED <<producer, need, client, waiting, lost>>

-----------------------------------------------------------------------------
ProducerStep == Produce \/ Connected \/ NotConnected \/ Send

\* What upkeep does once its ticker has fired and old connections were found.
UpkeepStep ==
    \/ Recheck \/ Rechecked \/ Spawn \/ Create \/ CreateFails \/ Created
    \/ CloseIdleIfCan \/ CloseIdle

\* A call of GetConn.
GetStep(c) == GetIdle(c) \/ Block(c) \/ Got(c) \/ GotDead(c)

PoolStep == ProducerStep \/ GetOldIdle \/ UpkeepStep

\* Clients that keep the contract: what they get they put back, or drop.
Next ==
    \/ PoolStep
    \/ \E c \in Clients :
          GetConn(c) \/ GetStep(c) \/ PutConn(c) \/ DropConn(c)

\* Goroutines are scheduled.  The producer looks every 10 ms and the upkeep
\* takes connections every 5 s, so the producer is not always late: Produce is
\* strongly fair.  So are Connected and Got: a server that is asked again and
\* again answers in the end.
PoolFairness ==
    /\ WF_vars(ProducerStep) /\ WF_vars(UpkeepStep)
    /\ SF_vars(Produce) /\ SF_vars(Connected)
    /\ \A c \in Clients : WF_vars(GetStep(c)) /\ SF_vars(Got(c))

\* Clients give back what they hold.
ClientFairness == \A c \in Clients : WF_vars(PutConn(c) \/ DropConn(c))

Spec == Init /\ [][Next]_vars /\ PoolFairness /\ ClientFairness

-----------------------------------------------------------------------------
Holders == {c \in Clients : client[c] \in {"got", "held"}}

\* Every variable has its type; a connection upkeep holds or has still to
\* make belongs to the stage it is at.
TypeOK ==
    /\ total \in Nat /\ idle \in 0..maxIdle /\ lost \in Nat
    /\ producer \in Producer /\ upkeep \in Upkeep
    /\ batch \in Nat /\ need \in 0..minAlive
    /\ client \in [Clients -> Client]
    /\ waiting \in Seq(Clients)
    /\ upkeep \in {"tick", "spawn", "closable"} => batch = 0
    /\ need > 0 => upkeep \in {"setup", "create"}

\* TotalCount is exact: at every point it is the number of connections that
\* are idle, in the hands of the producer (reserved ones too), the upkeep or a
\* client, or lost by a failed startNewConnections.  None is counted twice or
\* forgotten on any path of putConnection, closeConn and the reservations.
Accounted ==
    total = idle + batch + lost + (IF producer = "look" THEN 0 ELSE 1)
               + Cardinality(Holders)

\* What really bounds the number of open connections.  The producer stops at
\* maxAlive, but startNewConnections acts on a TotalCount that is stale by the
\* time its connections are made, and does not look at the limit.
AliveBounded == total <= maxAlive + minAlive

\* A failed startNewConnections forgets the connections it had made, but
\* however often that happens the pool loses fewer than minAlive in all, so
\* the producer always has a connection of its own to make.
LossBounded == lost > 0 => lost < minAlive

\* A client blocks only while every idle connection is on its way to it: the
\* idle ones are handed over by the producer, which looks at them first.  So
\* every GetConn returns a connection, when clients put back what they get.
GetConnReturns ==
    \A c \in Clients : client[c] = "get" ~> client[c] = "held"
=============================================================================
