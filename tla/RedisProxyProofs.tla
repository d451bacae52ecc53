-------------------------- MODULE RedisProxyProofs --------------------------
(***************************************************************************)
(* Theorems about RedisProxy for every set of proxies, clients, keys and   *)
(* commands, and every number of requests and of faults.                   *)
(***************************************************************************)
EXTENDS RedisProxy, FiniteSetTheorems, SequenceTheorems, TLAPS

Where == {"check", "join", "store", "use", "make", "enter"}

\* What a Redis can hold of a write.
Bytes == {"given", "altered", "one", "other"}

\* The request in a handler, past the first middleware, and on the topic.
Ctx == [cmd : STRING, keys : SUBSET Key, raw : BOOLEAN, id : Id, index : 1..2, at : Where]
Msg == [cmd : STRING, keys : SUBSET Key, raw : BOOLEAN, id : Id, index : {0}, at : Where]

Types ==
    /\ kind \in {"node", "cluster", "pubsub"} /\ open \in SUBSET Client
    /\ ctx \in [Client -> Ctx \cup {None}]
    /\ net \in [Node -> [Node -> Seq(Msg)]]
    /\ value \in [Node -> [Key -> 0..MaxOps]] /\ applied \in [Node -> [Id -> Nat]]
    /\ bytes \in [Node -> [Key -> Bytes]] /\ uneven \in SUBSET Key
    /\ stuck \in SUBSET Node /\ down \in SUBSET Node
    /\ topic \in SUBSET Node /\ psub \in SUBSET Node /\ join \in SUBSET Node
    /\ made \in SUBSET Node /\ writer \in [Node -> SUBSET Client]
    /\ tnet \in [Node -> [Node -> Seq(Id)]] /\ got \in [Client -> Seq(Id)]
    /\ ops \in 0..MaxOps /\ faults \in Nat /\ evicted \in SUBSET Client
    /\ subscribed \in SUBSET Client /\ writers \in [Key -> SUBSET Client]
    /\ audience \in [Id -> SUBSET Client]

-----------------------------------------------------------------------------
(* Requests. *)

(* No request is None. *)
LEMMA NoneFacts == None \notin Ctx
<1>1. Id \subseteq Nat /\ 1..2 \subseteq Nat
  BY ProxyAssumption DEF Id
<1>2. ASSUME NEW q \in Ctx
      PROVE  q \in [cmd : STRING, keys : SUBSET Key, raw : BOOLEAN, id : Nat, index : Nat,
                    at : Where]
  <2>1. q.id \in Nat /\ q.index \in Nat /\ q.at \in Where /\ q.cmd \in STRING
        /\ q.keys \in SUBSET Key /\ q.raw \in BOOLEAN
    BY <1>1 DEF Ctx
  <2>2. q = [cmd |-> q.cmd, keys |-> q.keys, raw |-> q.raw, id |-> q.id, index |-> q.index,
             at |-> q.at]
    BY DEF Ctx
  <2> QED BY <2>1, <2>2
<1> QED BY <1>2, ProxyAssumption DEF Where

\* What a step of the chain leaves of a request.
SameRequest(q, r) == q.cmd = r.cmd /\ q.keys = r.keys /\ q.id = r.id /\ q.raw = r.raw

\* What the JSON of a request keeps of it.
Sent(q, r) == /\ q.cmd = r.cmd /\ q.id = r.id /\ q.raw = r.raw
              /\ r.keys = {Utf8[k] : k \in q.keys}

(* Context.Next moves a request to the next handler. *)
LEMMA AdvanceFacts ==
    ASSUME NEW q \in [cmd : STRING, keys : SUBSET Key, raw : BOOLEAN, id : Id, index : 0..2, at : Where],
           q.index < 2
    PROVE  /\ Advance(q) \in Ctx /\ Advance(q).index = q.index + 1
           /\ SameRequest(q, Advance(q)) /\ Advance(q).at = q.at
<1> DEFINE i == q.index + 1
<1>1. i \in 1..2
  OBVIOUS
<1>2. Advance(q) = [q EXCEPT !.index = i]
  BY Zenon DEF Advance
<1> HIDE DEF i
<1>3. [q EXCEPT !.index = i] \in Ctx
  BY <1>1, Zenon DEF Ctx
<1>4. [q EXCEPT !.index = i].cmd = q.cmd
  BY Zenon
<1>5. [q EXCEPT !.index = i].keys = q.keys
  BY Zenon
<1>6. [q EXCEPT !.index = i].id = q.id
  BY Zenon
<1>7. [q EXCEPT !.index = i].at = q.at
  BY Zenon
<1>9. [q EXCEPT !.index = i].raw = q.raw
  BY Zenon
<1>8. [q EXCEPT !.index = i].index = i
  BY Zenon
<1> QED BY <1>2, <1>3, <1>4, <1>5, <1>6, <1>7, <1>8, <1>9, Zenon DEF SameRequest, i

(* Goto moves a request inside PUBLISH and SUBSCRIBE. *)
LEMMA GotoFacts ==
    ASSUME ctx \in [Client -> Ctx \cup {None}], NEW c \in Client, ctx[c] \in Ctx,
           NEW at \in Where, Goto(c, at)
    PROVE  \E r \in Ctx : /\ ctx' = [ctx EXCEPT ![c] = r] /\ SameRequest(ctx[c], r)
                          /\ r.index = ctx[c].index /\ r.at = at
<1> DEFINE q == ctx[c]
           r == [q EXCEPT !.at = at]
<1>1. ctx' = [ctx EXCEPT ![c] = r]
  BY Zenon DEF Goto
<1> HIDE DEF q
<1>2. r \in Ctx
  BY Zenon DEF Ctx, q
<1>3. r.cmd = q.cmd /\ r.keys = q.keys
  BY Zenon DEF Ctx, q
<1>4. r.id = q.id /\ r.index = q.index /\ r.raw = q.raw
  BY Zenon DEF Ctx, q
<1>5. r.at = at
  BY Zenon DEF Ctx, q
<1> HIDE DEF r
<1> QED BY <1>1, <1>2, <1>3, <1>4, <1>5, Zenon DEF SameRequest, q

(* What the publishing loop sends is the request at the head of its chain. *)
LEMMA MessageFacts ==
    ASSUME NEW q \in Ctx
    PROVE  Message(q) \in Msg /\ Sent(q, Message(q))
<1> DEFINE ks == {Utf8[k] : k \in q.keys}
           r == [q EXCEPT !.index = 0, !.keys = ks]
<1>1. ks \in SUBSET Key
  BY ProxyAssumption DEF Ctx
<1>2. Message(q) = r
  BY Zenon DEF Message
<1> HIDE DEF ks
<1>3. r \in Msg
  BY <1>1, Zenon DEF Ctx, Msg
<1>4. r.cmd = q.cmd
  BY Zenon DEF Ctx
<1>5. r.id = q.id
  BY Zenon DEF Ctx
<1>6. r.raw = q.raw
  BY Zenon DEF Ctx
<1>7. r.keys = ks
  BY Zenon DEF Ctx
<1> HIDE DEF r
<1> QED BY <1>2, <1>3, <1>4, <1>5, <1>6, <1>7, Zenon DEF Sent, ks

(* The chain of a request: PubSubMiddleware, then one handler, the last.   *)
LEMMA OwnFacts ==
    ASSUME Types, NEW cmd, OwnHandler(cmd)
    PROVE  /\ cmd \in {"COMMAND", "PING", "DEL", "EXISTS", "MGET", "PUBLISH", "SUBSCRIBE"}
           /\ cmd \in {"DEL", "EXISTS", "MGET"} => kind = "cluster"
           /\ cmd \in {"PUBLISH", "SUBSCRIBE"} => kind = "pubsub"
  BY DEF Types, OwnHandler, NodeCMD, ClusterCMD, PubSubCMD

LEMMA ChainFacts ==
    ASSUME Types, NEW q \in Ctx
    PROVE  /\ Current(q) = "PubSub" => q.index = 1
           /\ Current(q) # "PubSub" => q.index = 2 /\ Next1(q) = None
           /\ q.index = 2 => Current(q) = IF OwnHandler(q.cmd) THEN q.cmd ELSE "CMDEXEC"
           /\ q.index = 1 => Current(q) = "PubSub"
<1> DEFINE last == IF OwnHandler(q.cmd) THEN q.cmd ELSE "CMDEXEC"
<1>0. last # "PubSub"
  BY OwnFacts
<1>1. Len(Handlers(q.cmd)) = 3 /\ Handlers(q.cmd)[2] = "PubSub" /\ Handlers(q.cmd)[3] = last
  BY DEF Handlers
<1> HIDE DEF last
<1>2. q.index \in 1..2
  BY DEF Ctx
<1>3. q.index = 1 => Current(q) = "PubSub"
  BY <1>1 DEF Current
<1>4. q.index = 2 => Current(q) = last
  BY <1>1 DEF Current
<1>5. ASSUME q.index = 2 PROVE Next1(q) = None
  <2>1. Advance(q).index = q.index + 1 /\ Advance(q).cmd = q.cmd
    <3> DEFINE i == q.index + 1
    <3> HIDE DEF i
    <3>1. [q EXCEPT !.index = i].index = i
      BY Zenon DEF Ctx
    <3>2. [q EXCEPT !.index = i].cmd = q.cmd
      BY Zenon DEF Ctx
    <3> QED BY <3>1, <3>2, Zenon DEF Advance, i
  <2>2. Handlers(Advance(q).cmd) = Handlers(q.cmd)
    BY <2>1, Zenon
  <2>3. ~Runs(Advance(q))
    BY <1>1, <1>5, <2>1, <2>2 DEF Runs
  <2> QED BY <2>3, Zenon DEF Next1
<1> QED BY <1>0, <1>2, <1>3, <1>4, <1>5 DEF last
-----------------------------------------------------------------------------
(* What a step is to the commands that are synced: one of these events.    *)

\* Nothing has failed, and Redis is a node.
Ok == faults = 0 /\ kind = "node"

Writing(q) == q.cmd \in {"SET", "DEL", "INCR", "SPOP"}

\* The keys of a request here and where it is heard.
SentKeys(q) == q.keys \cup {Utf8[k] : k \in q.keys}

Keeps == UNCHANGED <<net, value, bytes, applied, writers, uneven>>

\* The Redis behind n runs q on the keys ks; h queues msg for the proxies of T.
Applies(n, q, ks) == Apply(n, q, ks, TRUE) \/ Apply(n, q, ks, FALSE)

Queues(h, T, msg) == net' = [net EXCEPT ![h] = [m \in Node |->
                               IF m \in T THEN Append(@[m], msg) ELSE @[m]]]

Opens(c) ==
    /\ ctx[c] = None /\ Keeps /\ ops < MaxOps /\ ops' = ops + 1
    /\ \E r \in Ctx : /\ ctx' = [ctx EXCEPT ![c] = r]
                      /\ r.id = ops + 1 /\ r.index = 1 /\ r.at = "check"

Ends(c) ==
    /\ Keeps /\ ops' \in {ops, ops + 1} /\ ops' \in 0..MaxOps
    /\ ctx' = [ctx EXCEPT ![c] = None]
    /\ Ok' /\ ctx[c] # None => ~Writing(ctx[c])

Moves(c) ==
    /\ Keeps /\ UNCHANGED ops /\ ctx[c] \in Ctx
    /\ \E r \in Ctx : /\ ctx' = [ctx EXCEPT ![c] = r] /\ SameRequest(ctx[c], r)
                      /\ r.index = ctx[c].index

Passes(c) ==
    /\ UNCHANGED <<net, value, bytes, applied, ops>> /\ ctx[c] \in Ctx /\ ctx[c].index = 1
    /\ \E r \in Ctx : /\ ctx' = [ctx EXCEPT ![c] = r] /\ SameRequest(ctx[c], r)
                      /\ r.index = 2
    /\ writers' \in [Key -> SUBSET Client] /\ uneven' \in SUBSET Key
    /\ Ok' => ~Writing(ctx[c]) /\ UNCHANGED <<writers, uneven>>

Publishes(c) ==
    /\ UNCHANGED <<value, bytes, applied, ops>> /\ ctx[c] \in Ctx /\ ctx[c].index = 1
    /\ Syncs(ctx[c].cmd)
    /\ \E r \in Ctx : /\ ctx' = [ctx EXCEPT ![c] = r] /\ SameRequest(ctx[c], r)
                      /\ r.index = 2
    /\ \E msg \in Msg, T \in SUBSET Node :
          /\ Sent(ctx[c], msg) /\ Home[c] \notin T
          /\ Ok' => T = Node \ (down \cup {Home[c]})
          /\ Queues(Home[c], T, msg)
    /\ writers' = [k \in Key |-> IF k \in SentKeys(ctx[c]) THEN writers[k] \cup {c}
                                 ELSE writers[k]]
    /\ uneven' = IF Plain(ctx[c]) THEN uneven ELSE uneven \cup SentKeys(ctx[c])

Runs1(c) ==
    /\ UNCHANGED <<net, writers, uneven, ops>> /\ ctx[c] \in Ctx /\ ctx[c].index = 2
    /\ ctx' = [ctx EXCEPT ![c] = None]
    /\ \E ks \in SUBSET ctx[c].keys :
          Applies(Home[c], ctx[c], ks) /\ (Ok' => ks = ctx[c].keys)

Hears(m, n) ==
    /\ UNCHANGED <<ctx, writers, uneven, ops>> /\ net[m][n] # <<>>
    /\ net' = [net EXCEPT ![m][n] = Tail(@)]
    /\ \/ Applies(n, Head(net[m][n]), Head(net[m][n]).keys)
       \/ ~Ok' /\ Unran

Crashes(n) ==
    /\ UNCHANGED <<value, bytes, applied, writers, uneven, ops>> /\ ~Ok'
    /\ ctx' = [c \in Client |-> IF Home[c] = n THEN None ELSE ctx[c]]
    /\ net' = [m \in Node |-> [net[m] EXCEPT ![n] = <<>>]]

Event ==
    \/ \E c \in Client : \/ Opens(c) \/ Ends(c) \/ Moves(c) \/ Passes(c) \/ Publishes(c)
                         \/ Runs1(c)
    \/ \E m, n \in Node : Hears(m, n)
    \/ \E n \in Node : Crashes(n)
    \/ Keeps /\ UNCHANGED <<ctx, ops>>

(* A client's request. *)
LEMMA RequestEvent ==
    ASSUME Types, NEW c \in Client, Request(c)
    PROVE  Opens(c) \/ Ends(c)
<1>1. /\ ctx[c] = None /\ ops < MaxOps /\ ops' = ops + 1 /\ Keeps /\ ops \in 0..MaxOps
      /\ MaxOps \in Nat
  BY ProxyAssumption DEF Request, sync, Keeps, Types
<1>2. CASE CloseOnError(c)
  BY <1>1, <1>2 DEF CloseOnError, Ends
<1>3. CASE \E r \in Command : ctx' = [ctx EXCEPT ![c] =
                Advance([cmd |-> r.cmd, keys |-> r.keys, raw |-> r.raw, id |-> ops + 1,
                         index |-> 0, at |-> "check"])]
  <2>1. PICK r \in Command : ctx' = [ctx EXCEPT ![c] =
                Advance([cmd |-> r.cmd, keys |-> r.keys, raw |-> r.raw, id |-> ops + 1,
                         index |-> 0, at |-> "check"])]
    BY <1>3
  <2> DEFINE q == [cmd |-> r.cmd, keys |-> r.keys, raw |-> r.raw, id |-> ops + 1, index |-> 0,
                   at |-> "check"]
  <2>2. r.cmd \in STRING /\ r.keys \in SUBSET Key /\ r.raw \in BOOLEAN
    BY ProxyAssumption
  <2>3. ops + 1 \in Id
    BY <1>1 DEF Id
  <2>4. q \in [cmd : STRING, keys : SUBSET Key, raw : BOOLEAN, id : Id, index : 0..2, at : Where]
    BY <2>2, <2>3 DEF Where
  <2>5. q.index = 0 /\ q.at = "check" /\ q.id = ops + 1
    OBVIOUS
  <2> HIDE DEF q
  <2>6. /\ Advance(q) \in Ctx /\ Advance(q).index = 1 /\ Advance(q).at = "check"
        /\ Advance(q).id = ops + 1
    BY <2>4, <2>5, AdvanceFacts DEF SameRequest
  <2>7. ctx' = [ctx EXCEPT ![c] = Advance(q)]
    BY <2>1 DEF q
  <2> QED BY <1>1, <2>6, <2>7 DEF Opens
<1> QED BY <1>2, <1>3 DEF Request

(* PubSubMiddleware: SET, DEL, INCR and SPOP are written to the topic. *)
LEMMA WritingSyncs ==
    ASSUME kind = "node", NEW q, Writing(q)
    PROVE  Syncs(q.cmd)
<1>1. q.cmd \in Written
  BY DEF Writing, Written
<1>0. q.cmd \notin Read
  BY DEF Writing, Read
<1>2. RedisOpTable(q.cmd) = {"Write"}
  BY <1>0, <1>1 DEF RedisOpTable, Writing
<1>3. OpTable(q.cmd) = {"Write"}
  BY <1>2 DEF OpTable
<1> QED BY <1>3 DEF Syncs, IsMasterOnly

LEMMA MiddlewareEvent ==
    ASSUME Types, NEW c \in Client, PubSubMiddleware(c)
    PROVE  Passes(c) \/ Publishes(c)
<1>1. ctx[c] \in Ctx /\ Current(ctx[c]) = "PubSub"
  BY Zenon DEF PubSubMiddleware, Types
<1>2. ctx' = [ctx EXCEPT ![c] = Advance(ctx[c])] /\ UNCHANGED <<kind, ops>>
  BY Zenon DEF PubSubMiddleware
<1>3. ctx[c].index = 1
  BY <1>1, ChainFacts
<1>4. \E r \in Ctx : /\ ctx' = [ctx EXCEPT ![c] = r] /\ SameRequest(ctx[c], r) /\ r.index = 2
  <2>1. ctx[c] \in [cmd : STRING, keys : SUBSET Key, raw : BOOLEAN, id : Id, index : 0..2, at : Where]
    BY <1>1 DEF Ctx
  <2>2. Advance(ctx[c]) \in Ctx /\ SameRequest(ctx[c], Advance(ctx[c])) /\ Advance(ctx[c]).index = 2
    BY <1>3, <2>1, AdvanceFacts
  <2> QED BY <1>2, <2>2
<1>5. CASE ~Syncs(ctx[c].cmd)
  <2>1. UNCHANGED <<sync, faults>>
    BY <1>5, Zenon DEF PubSubMiddleware
  <2>2. Ok' => ~Writing(ctx[c])
    BY <1>2, <1>5, <2>1, WritingSyncs DEF Ok
  <2> QED BY <1>1, <1>2, <1>3, <1>4, <2>1, <2>2 DEF Passes, sync, Types
<1>6. CASE Syncs(ctx[c].cmd)
  <2> DEFINE n == Home[c]
             msg == Message(ctx[c])
  <2>2. msg \in Msg /\ Sent(ctx[c], msg)
    BY <1>1, MessageFacts, Zenon
  <2>1. /\ writers' = [k \in Key |-> IF k \in SentKeys(ctx[c]) THEN writers[k] \cup {c}
                                     ELSE writers[k]]
        /\ uneven' = IF Plain(ctx[c]) THEN uneven ELSE uneven \cup SentKeys(ctx[c])
        /\ UNCHANGED <<value, bytes, applied>>
    <3>1. /\ writers' = [k \in Key |-> IF k \in ctx[c].keys \cup msg.keys THEN writers[k] \cup {c}
                                       ELSE writers[k]]
          /\ uneven' = IF Plain(ctx[c]) THEN uneven ELSE uneven \cup (ctx[c].keys \cup msg.keys)
          /\ UNCHANGED <<value, bytes, applied>>
      BY <1>6, Zenon DEF PubSubMiddleware
    <3>2. ctx[c].keys \cup msg.keys = SentKeys(ctx[c])
      BY <2>2, Zenon DEF Sent, SentKeys
    <3> QED BY <3>1, <3>2, Zenon
  <2>3. \/ \E drop \in SUBSET (Node \ {n}) :
             /\ drop # {} => Fault
             /\ net' = [net EXCEPT ![n] = [m \in Node |->
                    IF m \notin down \cup drop \cup {n} THEN Append(@[m], msg) ELSE @[m]]]
        \/ Fault /\ UNCHANGED net
    BY <1>6, Zenon DEF PubSubMiddleware, Queue, Drops
  <2> HIDE DEF msg
  <2>6. Fault => ~Ok'
    BY DEF Ok, Types, Fault
  <2>4. ASSUME NEW drop \in SUBSET (Node \ {n}), drop # {} => Fault,
               net' = [net EXCEPT ![n] = [m \in Node |->
                    IF m \notin down \cup drop \cup {n} THEN Append(@[m], msg) ELSE @[m]]]
        PROVE  Publishes(c)
    <3> DEFINE T == Node \ (down \cup drop \cup {n})
    <3>1. T \in SUBSET Node /\ n \notin T /\ (Ok' => T = Node \ (down \cup {n}))
      BY <2>4, <2>6
    <3>2. Queues(n, T, msg)
      <4>1. [m \in Node |-> IF m \notin down \cup drop \cup {n} THEN Append(net[n][m], msg)
                           ELSE net[n][m]]
             = [m \in Node |-> IF m \in T THEN Append(net[n][m], msg) ELSE net[n][m]]
        OBVIOUS
      <4> QED BY <2>4, <4>1, Zenon DEF Queues
    <3> HIDE DEF T
    <3> QED BY <1>1, <1>2, <1>3, <1>4, <1>6, <2>1, <2>2, <3>1, <3>2, Zenon DEF Publishes
  <2>5. CASE Fault /\ UNCHANGED net
    <3>1. ~Ok'
      BY <2>5, <2>6
    <3>2. writers' \in [Key -> SUBSET Client]
      BY <2>1 DEF Types
    <3>3. uneven' \in SUBSET Key
      <4>1. SentKeys(ctx[c]) \in SUBSET Key
        BY <1>1, ProxyAssumption DEF Ctx, SentKeys
      <4> QED BY <2>1, <4>1 DEF Types
    <3> QED BY <1>1, <1>2, <1>3, <1>4, <2>1, <2>5, <3>1, <3>2, <3>3 DEF Passes
  <2> QED BY <2>3, <2>4, <2>5
<1> QED BY <1>5, <1>6

(* The last handler of the chain. *)
LEMMA LastHandler ==
    ASSUME Types, NEW c \in Client, ctx[c] # None, Current(ctx[c]) # "PubSub"
    PROVE  /\ ctx[c] \in Ctx /\ ctx[c].index = 2 /\ Next1(ctx[c]) = None
           /\ Current(ctx[c]) # "CMDEXEC" => Current(ctx[c]) = ctx[c].cmd
           /\ Current(ctx[c]) \in {"DEL", "EXISTS", "MGET"} => kind = "cluster"
           /\ Current(ctx[c]) \in {"PUBLISH", "SUBSCRIBE"} => kind = "pubsub"
<1>1. ctx[c] \in Ctx
  BY DEF Types
<1>2. /\ ctx[c].index = 2 /\ Next1(ctx[c]) = None
      /\ Current(ctx[c]) = IF OwnHandler(ctx[c].cmd) THEN ctx[c].cmd ELSE "CMDEXEC"
  BY <1>1, ChainFacts
<1> QED BY <1>1, <1>2, OwnFacts

LEMMA HandlerEvent ==
    ASSUME Types, NEW c \in Client,
           \/ NodeCMDEXEC(c) \/ ClusterCMDEXEC(c) \/ ClusterDEL(c) \/ ClusterRead(c) \/ Reply(c)
    PROVE  Ends(c) \/ Runs1(c)
<1>0. /\ ctx[c] # None /\ UNCHANGED <<kind, net, writers, uneven, ops>>
      /\ Current(ctx[c]) \in {"CMDEXEC", "DEL", "EXISTS", "MGET", "COMMAND", "PING"}
  BY Zenon DEF NodeCMDEXEC, ClusterCMDEXEC, ClusterDEL, ClusterRead, Reply, At, OfRedis
<1>1. /\ ctx[c] \in Ctx /\ ctx[c].index = 2 /\ Next1(ctx[c]) = None
      /\ Current(ctx[c]) # "CMDEXEC" => Current(ctx[c]) = ctx[c].cmd
      /\ Current(ctx[c]) \in {"DEL", "EXISTS", "MGET"} => kind = "cluster"
  BY <1>0, LastHandler
<1>2. ops \in 0..MaxOps /\ faults \in Nat
  BY DEF Types
<1>3. ASSUME Executes(c) PROVE Runs1(c)
  <2>1. Applies(Home[c], ctx[c], ctx[c].keys) /\ ctx' = [ctx EXCEPT ![c] = None]
    BY <1>1, <1>3, Zenon DEF Executes, Applies
  <2> QED BY <1>0, <1>1, <2>1, Zenon DEF Runs1
<1>4. ASSUME ctx' = [ctx EXCEPT ![c] = None], Unran,
             \/ Fault
             \/ kind = "cluster" /\ UNCHANGED faults
             \/ ~Writing(ctx[c])
      PROVE  Ends(c)
  <2>1. Ok' => ~Writing(ctx[c])
    BY <1>0, <1>2, <1>4 DEF Ok, Fault
  <2> QED BY <1>0, <1>2, <1>4, <2>1 DEF Ends, Keeps, Unran
<1>5. ASSUME Fault, CloseOnError(c), Unran PROVE Ends(c)
  BY <1>4, <1>5 DEF CloseOnError
<1>6. CASE NodeCMDEXEC(c)
  <2>1. ASSUME Fault, ctx' = [ctx EXCEPT ![c] = Next1(@)], Unran
        PROVE  Ends(c)
    BY <1>1, <1>4, <2>1
  <2> QED BY <1>3, <1>6, <2>1 DEF NodeCMDEXEC
<1>7. CASE ClusterCMDEXEC(c)
  BY <1>3, <1>5, <1>7 DEF ClusterCMDEXEC
<1>8. CASE ClusterDEL(c)
  <2>1. kind = "cluster"
    BY <1>1, <1>8 DEF ClusterDEL, At
  <2>2. CASE PutFails(c)
    BY <1>5, <2>2 DEF PutFails
  <2>3. CASE ~PutFails(c)
    <3>1. /\ \E ks \in SUBSET ctx[c].keys : Applies(Home[c], ctx[c], ks)
          /\ ctx' = [ctx EXCEPT ![c] = Next1(ctx[c])]
      BY <1>8, <2>3, Zenon DEF ClusterDEL, Applies
    <3>2. ~Ok'
      BY <1>0, <2>1 DEF Ok
    <3> QED BY <1>0, <1>1, <3>1, <3>2 DEF Runs1
  <2> QED BY <2>2, <2>3
<1>9. CASE ClusterRead(c)
  <2>1. kind = "cluster"
    BY <1>1, <1>9 DEF ClusterRead, At
  <2>2. CASE PutFails(c)
    BY <1>5, <2>2 DEF PutFails
  <2>3. CASE ~PutFails(c)
    <3>1. ctx' = [ctx EXCEPT ![c] = Next1(ctx[c])] /\ UNCHANGED faults /\ Unran
      BY <1>9, <2>3, Zenon DEF ClusterRead
    <3> QED BY <1>1, <1>4, <2>1, <3>1
  <2> QED BY <2>2, <2>3
<1>10. CASE Reply(c)
  <2>1. ~Writing(ctx[c])
    BY <1>1, <1>10 DEF Reply, At, Writing
  <2>2. ctx' = [ctx EXCEPT ![c] = Next1(ctx[c])] /\ Unran
    BY <1>10, Zenon DEF Reply
  <2> QED BY <1>1, <1>4, <2>1, <2>2
<1> QED BY <1>6, <1>7, <1>8, <1>9, <1>10

LEMMA StoreEvent ==
    ASSUME Types, NEW c \in Client,
           \/ Check(c) \/ Join(c) \/ Store(c) \/ Pub(c) \/ Find(c) \/ Make(c) \/ Sub(c)
    PROVE  Ends(c) \/ Moves(c)
<1>0. /\ ctx[c] # None /\ UNCHANGED <<kind, net, value, bytes, applied, writers, uneven, ops>>
      /\ Current(ctx[c]) \in {"PUBLISH", "SUBSCRIBE"}
  BY Zenon DEF Check, Join, Store, Pub, Find, Make, Sub, InStore, sync, bounds
<1>1. ctx[c] \in Ctx /\ Next1(ctx[c]) = None /\ kind = "pubsub" /\ ops \in 0..MaxOps
      /\ ctx \in [Client -> Ctx \cup {None}]
  BY <1>0, LastHandler DEF Types
<1>2. ~Ok'
  BY <1>0, <1>1 DEF Ok
<1>3. ASSUME NEW at \in Where, Goto(c, at) PROVE Moves(c)
  <2>1. \E r \in Ctx : /\ ctx' = [ctx EXCEPT ![c] = r] /\ SameRequest(ctx[c], r)
                       /\ r.index = ctx[c].index
    BY <1>1, <1>3, GotoFacts
  <2> QED BY <1>0, <1>1, <2>1 DEF Moves, Keeps
<1>4. ASSUME ctx' = [ctx EXCEPT ![c] = None] PROVE Ends(c)
  BY <1>0, <1>1, <1>2, <1>4 DEF Ends, Keeps
<1>5. CASE Check(c)
  BY <1>3, <1>5 DEF Check, Where
<1>6. CASE Join(c)
  BY <1>3, <1>4, <1>6 DEF Join, Where, CloseOnError
<1>7. CASE Store(c)
  BY <1>3, <1>7 DEF Store, Where
<1>9. CASE Find(c) \/ Make(c)
  BY <1>3, <1>9 DEF Find, Make, Where
<1>8. CASE Pub(c) \/ Sub(c)
  <2>1. ctx' = [ctx EXCEPT ![c] = Next1(ctx[c])]
    BY <1>8, Zenon DEF Pub, Sub
  <2> QED BY <1>1, <1>4, <2>1
<1> QED BY <1>5, <1>6, <1>7, <1>8, <1>9

(* A command that is heard.  Behind a node proxy all of them run. *)
NetSyncs == \A m, n \in Node : \A p \in 1..Len(net[m][n]) : Syncs(net[m][n][p].cmd)

LEMMA SyncedHandler ==
    ASSUME kind = "node", NEW q, Syncs(q.cmd)
    PROVE  SyncRuns(q) = {"CMDEXEC"}
<1>1. ASSUME q.cmd \in {"COMMAND", "PING"} PROVE FALSE
  <2>1. q.cmd \in Read /\ q.cmd \notin Written
    BY <1>1 DEF Read, Written
  <2>2. RedisOpTable(q.cmd) = {}
    BY <1>1, <2>1 DEF RedisOpTable
  <2>3. OpTable(q.cmd) = {}
    BY <2>2 DEF OpTable
  <2> QED BY <2>3 DEF Syncs, IsMasterOnly
<1>2. ~OwnHandler(q.cmd)
  BY <1>1 DEF OwnHandler, NodeCMD
<1>3. Last(Handlers(q.cmd)) = "CMDEXEC"
  BY <1>2 DEF Handlers, Last
<1>4. SyncRuns(q) = NodeSync(q)
  BY Zenon DEF SyncRuns
<1> QED BY <1>3, <1>4, Zenon DEF NodeSync

LEMMA SyncEvent ==
    ASSUME Types, NetSyncs, NEW n \in Node, Sync(n)
    PROVE  \E m \in Node : Hears(m, n)
<1>1. PICK m \in Node :
        /\ net[m][n] # <<>>
        /\ net' = [net EXCEPT ![m][n] = Tail(@)]
        /\ IF "CMDEXEC" \in SyncRuns(Head(net[m][n]))
           THEN \/ Apply(n, Head(net[m][n]), Head(net[m][n]).keys, TRUE) /\ UNCHANGED faults
                \/ Fault /\ Unran
           ELSE Unran /\ UNCHANGED faults
  BY DEF Sync
<1>2. UNCHANGED <<kind, ctx, writers, uneven, ops>>
  BY DEF Sync
<1> DEFINE q == Head(net[m][n])
<1>3. Syncs(q.cmd)
  <2>1. net[m][n] \in Seq(Msg)
    BY DEF Types
  <2>2. q = net[m][n][1] /\ 1 \in 1..Len(net[m][n])
    BY <1>1, <2>1
  <2> QED BY <2>2 DEF NetSyncs
<1> HIDE DEF q
<1>4. kind = "node" => "CMDEXEC" \in SyncRuns(q)
  BY <1>3, SyncedHandler
<1>5. Fault => ~Ok'
  BY DEF Types, Ok, Fault
<1>6. kind # "node" => ~Ok'
  BY <1>2 DEF Ok
<1>7. \/ Applies(n, q, q.keys)
      \/ ~Ok' /\ Unran
  BY <1>1, <1>4, <1>5, <1>6 DEF q, Applies
<1> QED BY <1>1, <1>2, <1>7 DEF Hears, q

(* Every step is an event. *)
LEMMA StepEvent ==
    ASSUME Types, NetSyncs, [Next]_vars
    PROVE  Event
<1>1. ASSUME NEW c \in Client, Request(c) \/ Step(c) PROVE Event
  BY <1>1, RequestEvent, MiddlewareEvent, HandlerEvent, StoreEvent DEF Step, Event
<1>2. ASSUME NEW n \in Node, Sync(n) PROVE Event
  BY <1>2, SyncEvent DEF Event
<1>3. ASSUME NEW n \in Node, Writer(n) PROVE Event
  <2>1. Keeps /\ UNCHANGED <<ctx, ops>>
    BY <1>3 DEF Writer, Keeps, sync, bounds
  <2> QED BY <2>1 DEF Event
<1>4. ASSUME NEW n \in Node, MapRace(n) PROVE Event
  <2>1. ~Ok'
    BY <1>4 DEF MapRace, Fault, Ok, Types
  <2>2. Crashes(n)
    BY <1>4, <2>1 DEF MapRace, Crashes
  <2> QED BY <2>2 DEF Event
<1>5. CASE UNCHANGED vars
  BY <1>5 DEF vars, sync, bounds, Keeps, Event
<1> QED BY <1>1, <1>2, <1>3, <1>4, <1>5 DEF Next

-----------------------------------------------------------------------------
(* What the events do, pointwise, and the types they keep. *)

Effect(q) == IF q.cmd = "DEL" THEN 0 ELSE q.id

\* The write leaves the same bytes wherever it runs.
Even(q) == q.raw = FALSE /\ q.cmd \notin Drawn

SyncTypes ==
    /\ ctx \in [Client -> Ctx \cup {None}]
    /\ net \in [Node -> [Node -> Seq(Msg)]]
    /\ value \in [Node -> [Key -> 0..MaxOps]] /\ applied \in [Node -> [Id -> Nat]]
    /\ bytes \in [Node -> [Key -> Bytes]] /\ uneven \in SUBSET Key
    /\ ops \in 0..MaxOps /\ writers \in [Key -> SUBSET Client]

(* Redis runs the request q on the keys ks. *)
LEMMA ApplyFacts ==
    ASSUME SyncTypes, NEW n \in Node, NEW q, q.id \in Id, NEW ks \in SUBSET Key,
           Applies(n, q, ks)
    PROVE  /\ value' \in [Node -> [Key -> 0..MaxOps]] /\ applied' \in [Node -> [Id -> Nat]]
           /\ bytes' \in [Node -> [Key -> Bytes]]
           /\ \A x \in Node, k \in Key :
                 \/ bytes'[x][k] = bytes[x][k]
                 \/ x = n /\ k \in ks /\ Writing(q) /\ (Even(q) => bytes'[x][k] = "given")
           /\ \A x \in Node, k \in Key :
                 value'[x][k] = IF x = n /\ k \in ks /\ Writing(q) THEN Effect(q) ELSE value[x][k]
           /\ \A x \in Node, i \in Id :
                 applied'[x][i] = IF x = n /\ i = q.id /\ ks # {} THEN applied[x][i] + 1
                                  ELSE applied[x][i]
<1> DEFINE w == [k \in Key |-> IF k \in ks /\ Writing(q) THEN Effect(q) ELSE value[n][k]]
           a == IF ks # {} THEN applied[n][q.id] + 1 ELSE applied[n][q.id]
<1>0. PICK heard \in BOOLEAN : Apply(n, q, ks, heard)
  BY Zenon DEF Applies
<1>1. value' = [value EXCEPT ![n] = w]
  BY <1>0 DEF Apply, Writing, Effect
<1>10. PICK res \in Results(q, heard) :
         bytes' = [bytes EXCEPT ![n] = [k \in Key |-> IF k \in ks /\ Writing(q) THEN res
                                                     ELSE bytes[n][k]]]
  BY <1>0 DEF Apply, Writing
<1>11. res \in Bytes /\ (Even(q) => res = "given")
  <2>1. res \in Bytes
    BY <1>10, Zenon DEF Results, Bytes
  <2>2. ASSUME Even(q) PROVE res = "given"
    <3>1. Results(q, heard) = {"given"}
      BY <2>2, Zenon DEF Results, Even
    <3> QED BY <1>10, <3>1, Zenon
  <2> QED BY <2>1, <2>2, Zenon
<1>12. bytes' \in [Node -> [Key -> Bytes]]
  BY <1>10, <1>11 DEF SyncTypes
<1>13. \A y \in Node, k \in Key :
          \/ bytes'[y][k] = bytes[y][k]
          \/ y = n /\ k \in ks /\ Writing(q) /\ (Even(q) => bytes'[y][k] = "given")
  BY <1>10, <1>11 DEF SyncTypes
<1>2. applied' = [applied EXCEPT ![n][q.id] = a]
  BY <1>0 DEF Apply
<1>3. Effect(q) \in 0..MaxOps
  BY ProxyAssumption DEF Effect, Id
<1>4. w \in [Key -> 0..MaxOps]
  BY <1>3 DEF SyncTypes
<1>5. a \in Nat
  BY DEF SyncTypes
<1>6. value' \in [Node -> [Key -> 0..MaxOps]]
  BY <1>1, <1>4 DEF SyncTypes
<1>7. \A x \in Node, k \in Key :
        value'[x][k] = IF x = n /\ k \in ks /\ Writing(q) THEN Effect(q) ELSE value[x][k]
  BY <1>1 DEF SyncTypes
<1> HIDE DEF a
<1>8. applied' \in [Node -> [Id -> Nat]]
  BY <1>2, <1>5 DEF SyncTypes
<1>9. \A x \in Node, i \in Id :
        applied'[x][i] = IF x = n /\ i = q.id THEN a ELSE applied[x][i]
  BY <1>2 DEF SyncTypes
<1> QED BY <1>6, <1>7, <1>8, <1>9, <1>12, <1>13 DEF a

\* The queues once h has put msg for the proxies of T.
Puts(h, T, msg) ==
    \A x, y \in Node :
      net'[x][y] = IF x = h /\ y \in T THEN Append(net[x][y], msg) ELSE net[x][y]

(* A message is queued for the other proxies. *)
LEMMA PublishFacts ==
    ASSUME SyncTypes, NEW h \in Node, NEW msg \in Msg, NEW T, Queues(h, T, msg)
    PROVE  /\ net' \in [Node -> [Node -> Seq(Msg)]]
           /\ Puts(h, T, msg)
<1> DEFINE f == [m \in Node |-> IF m \in T THEN Append(net[h][m], msg)
                                ELSE net[h][m]]
<1>1. net' = [net EXCEPT ![h] = f]
  BY DEF Queues
<1>2. \A m \in Node : net[h][m] \in Seq(Msg)
  BY DEF SyncTypes
<1>3. \A m \in Node : Append(net[h][m], msg) \in Seq(Msg)
  BY <1>2
<1>4. f \in [Node -> Seq(Msg)]
  BY <1>2, <1>3
<1> QED BY <1>1, <1>4 DEF SyncTypes, Puts

(* The first message is taken. *)
LEMMA HearFacts ==
    ASSUME SyncTypes, NEW m \in Node, NEW n \in Node, net[m][n] # <<>>,
           net' = [net EXCEPT ![m][n] = Tail(@)]
    PROVE  /\ net' \in [Node -> [Node -> Seq(Msg)]]
           /\ \A a, b \in Node :
                 net'[a][b] = IF a = m /\ b = n THEN Tail(net[a][b]) ELSE net[a][b]
           /\ net[m][n] \in Seq(Msg) /\ Head(net[m][n]) \in Msg
           /\ Head(net[m][n]) = net[m][n][1] /\ 1 \in 1..Len(net[m][n])
<1>1. net[m][n] \in Seq(Msg)
  BY DEF SyncTypes
<1>2. Tail(net[m][n]) \in Seq(Msg)
  BY <1>1
<1> DEFINE t == Tail(net[m][n])
<1>3. net' = [net EXCEPT ![m][n] = t]
  OBVIOUS
<1> HIDE DEF t
<1>4. net' \in [Node -> [Node -> Seq(Msg)]]
  BY <1>2, <1>3 DEF SyncTypes, t
<1>5. \A a, b \in Node : net'[a][b] = IF a = m /\ b = n THEN t ELSE net[a][b]
  <2> DEFINE g == [net[m] EXCEPT ![n] = t]
  <2>1. net' = [net EXCEPT ![m] = g]
    BY <1>3
  <2>2. \A b \in Node : g[b] = IF b = n THEN t ELSE net[m][b]
    BY DEF SyncTypes
  <2> HIDE DEF g
  <2>3. \A a \in Node : net'[a] = IF a = m THEN g ELSE net[a]
    BY <2>1 DEF SyncTypes
  <2>4. ASSUME NEW a \in Node, NEW b \in Node
        PROVE  net'[a][b] = IF a = m /\ b = n THEN t ELSE net[a][b]
    <3>1. CASE a = m
      BY <2>2, <2>3, <3>1, Zenon
    <3>2. CASE a # m
      BY <2>3, <3>2
    <3> QED BY <3>1, <3>2
  <2> QED BY <2>4
<1>6. Head(net[m][n]) \in Msg /\ Head(net[m][n]) = net[m][n][1] /\ 1 \in 1..Len(net[m][n])
  BY <1>1
<1> QED BY <1>1, <1>4, <1>5, <1>6 DEF t

LEMMA EventTypes ==
    ASSUME SyncTypes, Event
    PROVE  SyncTypes'
<1> USE DEF SyncTypes
<1>0. Home \in [Client -> Node] /\ MaxOps \in Nat
  BY ProxyAssumption
<1>1. ASSUME NEW c \in Client, Opens(c) \/ Ends(c) \/ Moves(c) PROVE SyncTypes'
  <2>1. ops' \in 0..MaxOps
    BY <1>0, <1>1 DEF Opens, Ends, Moves
  <2>2. PICK r \in Ctx \cup {None} : ctx' = [ctx EXCEPT ![c] = r]
    BY <1>1 DEF Opens, Ends, Moves
  <2>3. Keeps
    BY <1>1 DEF Opens, Ends, Moves
  <2> QED BY <2>1, <2>2, <2>3 DEF Keeps
<1>2. ASSUME NEW c \in Client, Passes(c) PROVE SyncTypes'
  BY <1>2 DEF Passes
<1>3. ASSUME NEW c \in Client, Publishes(c) PROVE SyncTypes'
  <2>1. net' \in [Node -> [Node -> Seq(Msg)]]
    BY <1>0, <1>3, PublishFacts DEF Publishes
  <2>2. ctx' \in [Client -> Ctx \cup {None}]
    BY <1>3 DEF Publishes
  <2>3. uneven' \in SUBSET Key
    <3>1. SentKeys(ctx[c]) \in SUBSET Key
      BY <1>3, ProxyAssumption DEF Publishes, Ctx, SentKeys
    <3> QED BY <1>3, <3>1 DEF Publishes
  <2> QED BY <1>3, <2>1, <2>2, <2>3 DEF Publishes
<1>4. ASSUME NEW c \in Client, Runs1(c) PROVE SyncTypes'
  <2>1. PICK ks \in SUBSET ctx[c].keys : Applies(Home[c], ctx[c], ks)
    BY <1>4 DEF Runs1
  <2>2. ctx[c].id \in Id /\ ks \in SUBSET Key /\ Home[c] \in Node
    BY <1>0, <1>4 DEF Runs1, Ctx
  <2>3. /\ value' \in [Node -> [Key -> 0..MaxOps]] /\ applied' \in [Node -> [Id -> Nat]]
        /\ bytes' \in [Node -> [Key -> Bytes]]
    BY <2>1, <2>2, ApplyFacts
  <2> QED BY <1>4, <2>3 DEF Runs1
<1>5. ASSUME NEW m \in Node, NEW n \in Node, Hears(m, n) PROVE SyncTypes'
  <2>1. net' \in [Node -> [Node -> Seq(Msg)]] /\ Head(net[m][n]) \in Msg
    BY <1>5, HearFacts DEF Hears
  <2>2. Head(net[m][n]).id \in Id /\ Head(net[m][n]).keys \in SUBSET Key
    BY <2>1 DEF Msg
  <2>3. /\ value' \in [Node -> [Key -> 0..MaxOps]] /\ applied' \in [Node -> [Id -> Nat]]
        /\ bytes' \in [Node -> [Key -> Bytes]]
    BY <1>5, <2>2, ApplyFacts DEF Hears, Unran
  <2> QED BY <1>5, <2>1, <2>3 DEF Hears
<1>6. ASSUME NEW n \in Node, Crashes(n) PROVE SyncTypes'
  <2>1. \A m \in Node : [net[m] EXCEPT ![n] = <<>>] \in [Node -> Seq(Msg)]
    <3>1. <<>> \in Seq(Msg)
      OBVIOUS
    <3> QED BY <3>1
  <2> QED BY <1>6, <2>1 DEF Crashes
<1>7. CASE Keeps /\ UNCHANGED <<ctx, ops>>
  BY <1>7 DEF Keeps
<1> QED BY <1>1, <1>2, <1>3, <1>4, <1>5, <1>6, <1>7 DEF Event

-----------------------------------------------------------------------------
(* No Redis runs a request twice. *)

Occ(m, n) == 1..Len(net[m][n])
InNet(w, n, i) == \E m \in Node : \E p \in 1..Len(w[m][n]) : w[m][n][p].id = i

\* A request is on its way to a proxy once, ...
NetUnique ==
    \A n, a, b \in Node : \A p \in Occ(a, n), r \in Occ(b, n) :
      net[a][n][p].id = net[b][n][r].id => a = b /\ p = r

\* ... and has not run there.
NetFresh ==
    \A n, m \in Node : \A p \in Occ(m, n) :
      applied[n][net[m][n][p].id] = 0 /\ net[m][n][p].id <= ops

\* The request in a handler has not run behind its own proxy, and nowhere
\* before the middleware published it.
CtxFresh ==
    \A c \in Client : ctx[c] # None =>
      /\ applied[Home[c]][ctx[c].id] = 0 /\ ctx[c].id <= ops
      /\ ~InNet(net, Home[c], ctx[c].id)
      /\ ctx[c].index = 1 =>
            \A n \in Node : applied[n][ctx[c].id] = 0 /\ ~InNet(net, n, ctx[c].id)

CtxUnique ==
    \A c, d \in Client : ctx[c] # None /\ ctx[d] # None /\ ctx[c].id = ctx[d].id => c = d

AppliedOnce ==
    \A n \in Node, i \in Id : applied[n][i] <= 1 /\ (i > ops => applied[n][i] = 0)

SyncInv == NetUnique /\ NetFresh /\ CtxFresh /\ CtxUnique /\ AppliedOnce

LEMMA NetTypes ==
    ASSUME SyncTypes, NEW m \in Node, NEW n \in Node, NEW p \in Occ(m, n)
    PROVE  /\ net[m][n] \in Seq(Msg) /\ net[m][n][p] \in Msg
           /\ net[m][n][p].id \in Id /\ net[m][n][p].id \in Nat
<1>1. net[m][n] \in Seq(Msg)
  BY DEF SyncTypes
<1>2. net[m][n][p] \in Msg
  BY <1>1 DEF Occ
<1> QED BY <1>1, <1>2 DEF Msg, Id

(* The request of one handler begins, ends or goes on; the queues are left.*)
LEMMA OnceCtx ==
    ASSUME SyncTypes, SyncInv, NEW c \in Client,
           Opens(c) \/ Ends(c) \/ Moves(c) \/ Passes(c)
    PROVE  SyncInv'
<1>0. Home \in [Client -> Node] /\ UNCHANGED <<net, applied>>
  BY ProxyAssumption DEF Opens, Ends, Moves, Passes, Keeps
<1>1. ops \in Nat /\ ops' \in Nat /\ ops <= ops'
  BY DEF Opens, Ends, Moves, Passes, SyncTypes
<1>2. NetUnique' /\ NetFresh'
  <2>1. NetUnique'
    BY <1>0 DEF SyncInv, NetUnique, Occ
  <2>2. \A n, m \in Node : \A p \in Occ(m, n) : net[m][n][p].id \in Nat
    BY NetTypes
  <2> QED BY <1>0, <1>1, <2>1, <2>2 DEF SyncInv, NetFresh, Occ
<1>3. AppliedOnce'
  BY <1>0, <1>1 DEF SyncInv, AppliedOnce, Id
<1>4. ASSUME NEW d \in Client, ctx'[d] # None
      PROVE  \/ /\ ctx[d] # None /\ ctx'[d].id = ctx[d].id /\ ctx[d].id \in Nat
                /\ ctx'[d].index = 1 => ctx[d].index = 1
             \/ d = c /\ Opens(c) /\ ctx'[d].id = ops + 1
  <2>1. CASE d # c
    <3>1. ctx'[d] = ctx[d]
      BY <2>1 DEF Opens, Ends, Moves, Passes, SyncTypes
    <3> QED BY <1>4, <3>1 DEF SyncTypes, Ctx, Id
  <2>2. CASE d = c
    <3>1. ASSUME NEW r \in Ctx \cup {None}, ctx' = [ctx EXCEPT ![c] = r] PROVE ctx'[d] = r
      BY <2>2, <3>1 DEF SyncTypes
    <3>2. CASE Opens(c)
      BY <2>2, <3>1, <3>2 DEF Opens
    <3>3. CASE Ends(c)
      BY <1>4, <3>1, <3>3 DEF Ends
    <3>4. CASE Moves(c) \/ Passes(c)
      <4>1. ctx[c] # None
        BY <3>4, NoneFacts DEF Moves, Passes
      <4> QED BY <2>2, <3>1, <3>4, <4>1 DEF Moves, Passes, SameRequest, Ctx, Id
    <3> QED BY <3>2, <3>3, <3>4
  <2> QED BY <2>1, <2>2
<1>5. /\ \A n \in Node : ops + 1 \in Id => applied[n][ops + 1] = 0
      /\ \A n \in Node : ~InNet(net, n, ops + 1)
  <2>1. \A n \in Node : ~InNet(net, n, ops + 1)
    BY <1>1 DEF SyncInv, NetFresh, InNet, Occ
  <2>2. \A n \in Node : ops + 1 \in Id => applied[n][ops + 1] = 0
    BY <1>1 DEF SyncInv, AppliedOnce
  <2> QED BY <2>1, <2>2
<1>7. CtxFresh'
  <2> SUFFICES ASSUME NEW d \in Client, ctx'[d] # None
               PROVE  /\ applied'[Home[d]][ctx'[d].id] = 0 /\ ctx'[d].id <= ops'
                      /\ ~InNet(net', Home[d], ctx'[d].id)
                      /\ ctx'[d].index = 1 =>
                            \A n \in Node : applied'[n][ctx'[d].id] = 0 /\ ~InNet(net', n, ctx'[d].id)
    BY DEF CtxFresh
  <2>1. Home[d] \in Node
    BY <1>0
  <2>2. CASE ctx[d] # None /\ ctx'[d].id = ctx[d].id /\ ctx[d].id \in Nat
             /\ (ctx'[d].index = 1 => ctx[d].index = 1)
    BY <1>0, <1>1, <2>1, <2>2 DEF SyncInv, CtxFresh
  <2>3. CASE d = c /\ Opens(c) /\ ctx'[d].id = ops + 1
    <3>1. ops + 1 \in Id /\ ops' = ops + 1
      BY <1>1, <2>3, ProxyAssumption DEF Opens, Id
    <3> QED BY <1>0, <1>1, <1>5, <2>1, <2>3, <3>1
  <2> QED BY <1>4, <2>2, <2>3
<1>8. CtxUnique'
  <2> SUFFICES ASSUME NEW d \in Client, NEW e \in Client, ctx'[d] # None, ctx'[e] # None,
                      ctx'[d].id = ctx'[e].id
               PROVE  d = e
    BY DEF CtxUnique
  <2>1. \A x \in Client : ctx[x] # None => ctx[x].id <= ops
    BY DEF SyncInv, CtxFresh
  <2> QED BY <1>1, <1>4, <2>1 DEF SyncInv, CtxUnique
<1> QED BY <1>2, <1>3, <1>7, <1>8 DEF SyncInv

(* The queues after a publication, a message that was heard and a crash.   *)
LEMMA PublishesNet ==
    ASSUME SyncTypes, NEW c \in Client, Publishes(c)
    PROVE  \E msg \in Msg, T \in SUBSET Node :
             /\ Sent(ctx[c], msg) /\ Home[c] \notin T
             /\ Ok' => T = Node \ (down \cup {Home[c]})
             /\ Puts(Home[c], T, msg)
<1>1. PICK msg \in Msg, T \in SUBSET Node :
        /\ Sent(ctx[c], msg) /\ Home[c] \notin T
        /\ Ok' => T = Node \ (down \cup {Home[c]})
        /\ Queues(Home[c], T, msg)
  BY DEF Publishes
<1>2. Home[c] \in Node
  BY ProxyAssumption
<1>3. Puts(Home[c], T, msg)
  BY <1>1, <1>2, PublishFacts
<1> QED BY <1>1, <1>3

\* Queues w of elements of S become z: h puts msg for the proxies of T, or
\* the first message from m to n is taken.
Put(S, w, z, h, T, msg) ==
    /\ \A x, y \in Node : w[x][y] \in Seq(S)
    /\ \A x, y \in Node : z[x][y] = IF x = h /\ y \in T THEN Append(w[x][y], msg) ELSE w[x][y]

Take(S, w, z, m, n) ==
    /\ \A x, y \in Node : w[x][y] \in Seq(S)
    /\ w[m][n] # <<>>
    /\ \A x, y \in Node : z[x][y] = IF x = m /\ y = n THEN Tail(w[x][y]) ELSE w[x][y]

\* The messages from a to b after a message was put or taken, and before.
IsPut(w, z, h, T, msg, a, b) ==
    /\ \A p \in 1..Len(z[a][b]) :
          \/ p \in 1..Len(w[a][b]) /\ z[a][b][p] = w[a][b][p]
          \/ /\ a = h /\ b \in T /\ p = Len(w[a][b]) + 1
             /\ z[a][b][p] = msg
    /\ \A p \in 1..Len(w[a][b]) : p \in 1..Len(z[a][b]) /\ z[a][b][p] = w[a][b][p]
    /\ a = h /\ b \in T =>
          Len(w[a][b]) + 1 \in 1..Len(z[a][b]) /\ z[a][b][Len(w[a][b]) + 1] = msg
    /\ Len(w[a][b]) \in Nat

Shift(m, n, a, b) == IF a = m /\ b = n THEN 1 ELSE 0

IsTaken(w, z, m, n, a, b) ==
    /\ \A p \in 1..Len(z[a][b]) : /\ p + Shift(m, n, a, b) \in 1..Len(w[a][b])
                                  /\ z[a][b][p] = w[a][b][p + Shift(m, n, a, b)]
    /\ \A p \in 1..Len(w[a][b]) :
          \/ a = m /\ b = n /\ p = 1
          \/ /\ p - Shift(m, n, a, b) \in 1..Len(z[a][b])
             /\ z[a][b][p - Shift(m, n, a, b)] = w[a][b][p]

LEMMA PutOcc ==
    ASSUME NEW S, NEW w, NEW z, NEW h \in Node, NEW T, NEW msg \in S, Put(S, w, z, h, T, msg),
           NEW a \in Node, NEW b \in Node
    PROVE  IsPut(w, z, h, T, msg, a, b)
<1> USE DEF IsPut
<1> DEFINE u == w[a][b]
<1>1. u \in Seq(S) /\ Len(u) \in Nat
  BY DEF Put
<1>2. CASE a = h /\ b \in T
  <2>1. z[a][b] = Append(u, msg)
    BY <1>2 DEF Put
  <2>2. /\ Len(Append(u, msg)) = Len(u) + 1 /\ Append(u, msg)[Len(u) + 1] = msg
        /\ \A p \in 1..Len(u) : Append(u, msg)[p] = u[p]
    BY <1>1
  <2> HIDE DEF u
  <2> QED BY <1>1, <1>2, <2>1, <2>2 DEF u
<1>3. CASE ~(a = h /\ b \in T)
  <2>1. z[a][b] = u
    BY <1>3 DEF Put
  <2> QED BY <1>1, <1>3, <2>1
<1> QED BY <1>2, <1>3

LEMMA PublishOcc ==
    ASSUME SyncTypes, NEW h \in Node, NEW msg \in Msg, NEW T, Puts(h, T, msg),
           NEW a \in Node, NEW b \in Node
    PROVE  /\ \A p \in Occ(a, b)' :
                 \/ p \in Occ(a, b) /\ net'[a][b][p] = net[a][b][p]
                 \/ /\ a = h /\ b \in T /\ p = Len(net[a][b]) + 1
                    /\ net'[a][b][p] = msg
           /\ \A p \in Occ(a, b) : p \in Occ(a, b)' /\ net'[a][b][p] = net[a][b][p]
           /\ a = h /\ b \in T =>
                 /\ Len(net[a][b]) + 1 \in Occ(a, b)'
                 /\ net'[a][b][Len(net[a][b]) + 1] = msg
           /\ Len(net[a][b]) \in Nat
<1>1. \A x, y \in Node : net[x][y] \in Seq(Msg)
  BY DEF SyncTypes
<1>2. Put(Msg, net, net', h, T, msg)
  BY <1>1 DEF Put, Puts
<1>3. IsPut(net, net', h, T, msg, a, b)
  BY <1>2, PutOcc
<1> QED BY <1>3 DEF Occ, IsPut

(* The first message of one queue is taken. *)
LEMMA TakeOcc ==
    ASSUME NEW S, NEW w, NEW z, NEW m \in Node, NEW n \in Node, Take(S, w, z, m, n),
           NEW a \in Node, NEW b \in Node
    PROVE  IsTaken(w, z, m, n, a, b)
<1>1. w[a][b] \in Seq(S) /\ Len(w[a][b]) \in Nat
  BY DEF Take
<1>2. z[a][b] = IF a = m /\ b = n THEN Tail(w[a][b]) ELSE w[a][b]
  BY DEF Take
<1>3. CASE a = m /\ b = n
  <2> DEFINE u == w[a][b]
  <2>1. z[a][b] = Tail(u) /\ Shift(m, n, a, b) = 1
    BY <1>2, <1>3 DEF Shift
  <2>2. u # <<>>
    BY <1>3 DEF Take
  <2>3. Len(Tail(u)) = Len(u) - 1 /\ \A p \in 1..(Len(u) - 1) : Tail(u)[p] = u[p + 1]
    BY <1>1, <2>2
  <2> HIDE DEF u
  <2>4. \A p \in 1..Len(u) : p - 1 \in 1..(Len(u) - 1) \/ p = 1
    BY <1>1 DEF u
  <2>5. ASSUME NEW p \in 1..Len(z[a][b])
        PROVE  p + 1 \in 1..Len(w[a][b]) /\ z[a][b][p] = w[a][b][p + 1]
    BY <1>1, <2>1, <2>3 DEF u
  <2>6. ASSUME NEW p \in 1..Len(w[a][b]), p # 1
        PROVE  p - 1 \in 1..Len(z[a][b]) /\ z[a][b][p - 1] = w[a][b][p]
    <3>1. p - 1 \in 1..(Len(u) - 1) /\ (p - 1) + 1 = p
      BY <1>1, <2>4, <2>6 DEF u
    <3>2. Tail(u)[p - 1] = u[(p - 1) + 1]
      BY <2>3, <3>1
    <3> QED BY <2>1, <2>3, <3>1, <3>2 DEF u
  <2>7. \A p \in 1..Len(z[a][b]) : /\ p + Shift(m, n, a, b) \in 1..Len(w[a][b])
                             /\ z[a][b][p] = w[a][b][p + Shift(m, n, a, b)]
    BY <2>1, <2>5
  <2>8. \A p \in 1..Len(w[a][b]) :
          \/ a = m /\ b = n /\ p = 1
          \/ /\ p - Shift(m, n, a, b) \in 1..Len(z[a][b])
             /\ z[a][b][p - Shift(m, n, a, b)] = w[a][b][p]
    <3>1. ASSUME NEW p \in 1..Len(w[a][b]), p # 1
          PROVE  /\ p - Shift(m, n, a, b) \in 1..Len(z[a][b])
                 /\ z[a][b][p - Shift(m, n, a, b)] = w[a][b][p]
      <4>1. p - Shift(m, n, a, b) = p - 1
        BY <2>1
      <4> QED BY <2>6, <3>1, <4>1, Zenon
    <3> QED BY <1>3, <3>1, Zenon
  <2> QED BY <2>7, <2>8 DEF IsTaken
<1>4. CASE ~(a = m /\ b = n)
  <2>1. z[a][b] = w[a][b] /\ Shift(m, n, a, b) = 0
    BY <1>2, <1>4 DEF Shift
  <2>2. 1..Len(z[a][b]) = 1..Len(w[a][b]) /\ \A p \in 1..Len(w[a][b]) : p + 0 = p /\ p - 0 = p
    BY <1>1, <2>1
  <2> QED BY <2>1, <2>2 DEF IsTaken
<1> QED BY <1>3, <1>4

LEMMA HearOcc ==
    ASSUME SyncTypes, NEW m \in Node, NEW n \in Node, net[m][n] # <<>>,
           \A x, y \in Node :
             net'[x][y] = IF x = m /\ y = n THEN Tail(net[x][y]) ELSE net[x][y],
           NEW a \in Node, NEW b \in Node
    PROVE  /\ \A p \in Occ(a, b)' : /\ p + Shift(m, n, a, b) \in Occ(a, b)
                                   /\ net'[a][b][p] = net[a][b][p + Shift(m, n, a, b)]
           /\ \A p \in Occ(a, b) :
                 \/ a = m /\ b = n /\ p = 1
                 \/ /\ p - Shift(m, n, a, b) \in Occ(a, b)'
                    /\ net'[a][b][p - Shift(m, n, a, b)] = net[a][b][p]
<1>1. \A x, y \in Node : net[x][y] \in Seq(Msg)
  BY DEF SyncTypes
<1>2. Take(Msg, net, net', m, n)
  BY <1>1 DEF Take
<1>3. IsTaken(net, net', m, n, a, b)
  BY <1>2, TakeOcc
<1> QED BY <1>3 DEF Occ, IsTaken

LEMMA CrashOcc ==
    ASSUME SyncTypes, NEW n \in Node,
           net' = [m \in Node |-> [net[m] EXCEPT ![n] = <<>>]], NEW a \in Node, NEW b \in Node
    PROVE  \A p \in Occ(a, b)' : p \in Occ(a, b) /\ net'[a][b][p] = net[a][b][p]
<1>1. net'[a][b] = IF b = n THEN <<>> ELSE net[a][b]
  BY DEF SyncTypes
<1> QED BY <1>1 DEF Occ

(* The middleware publishes a request that is nowhere yet. *)
LEMMA OncePublish ==
    ASSUME SyncTypes, SyncInv, NEW c \in Client, Publishes(c)
    PROVE  SyncInv'
<1> DEFINE h == Home[c]  i == ctx[c].id
<1>0. /\ h \in Node /\ ctx[c] \in Ctx /\ ctx[c].index = 1 /\ ctx[c] # None
      /\ UNCHANGED <<applied, ops>> /\ i \in Id
  BY ProxyAssumption, NoneFacts DEF Publishes, Ctx
<1>1. PICK msg \in Msg, T \in SUBSET Node :
        Sent(ctx[c], msg) /\ h \notin T /\ Puts(h, T, msg)
  BY PublishesNet
<1>2. msg.id = i
  BY <1>1 DEF Sent
<1>3. /\ \A n \in Node : applied[n][i] = 0 /\ ~InNet(net, n, i)
      /\ i <= ops
  BY <1>0 DEF SyncInv, CtxFresh
<1>4. ASSUME NEW a \in Node, NEW b \in Node, NEW p \in Occ(a, b)'
      PROVE  \/ p \in Occ(a, b) /\ net'[a][b][p] = net[a][b][p]
             \/ /\ a = h /\ b # h /\ p = Len(net[a][b]) + 1
                /\ net'[a][b][p].id = i
  <2>1. \/ p \in Occ(a, b) /\ net'[a][b][p] = net[a][b][p]
        \/ /\ a = h /\ b \in T /\ p = Len(net[a][b]) + 1
           /\ net'[a][b][p] = msg
    BY <1>0, <1>1, PublishOcc
  <2> QED BY <1>1, <1>2, <2>1
<1> HIDE DEF h, i
<1>5. NetUnique'
  <2> SUFFICES ASSUME NEW n \in Node, NEW a \in Node, NEW b \in Node,
                      NEW p \in Occ(a, n)', NEW r \in Occ(b, n)',
                      net'[a][n][p].id = net'[b][n][r].id
               PROVE  a = b /\ p = r
    BY DEF NetUnique
  <2>1. ASSUME NEW x \in Node, NEW q \in Occ(x, n) PROVE net[x][n][q].id # i
    BY <1>3, <2>1 DEF InNet, Occ
  <2>4. \/ r \in Occ(b, n) /\ net'[b][n][r] = net[b][n][r]
        \/ b = h /\ r = Len(net[b][n]) + 1 /\ net'[b][n][r].id = i
    BY <1>4
  <2>2. CASE p \in Occ(a, n) /\ net'[a][n][p] = net[a][n][p]
    <3>0. net[a][n][p].id # i
      BY <2>1, <2>2
    <3>1. r \in Occ(b, n) /\ net'[b][n][r] = net[b][n][r]
      BY <2>2, <2>4, <3>0
    <3> QED BY <2>2, <3>1 DEF SyncInv, NetUnique
  <2>3. CASE a = h /\ p = Len(net[a][n]) + 1 /\ net'[a][n][p].id = i
    <3>0. r \in Occ(b, n) => net[b][n][r].id # i
      BY <2>1
    <3>1. b = h /\ r = Len(net[b][n]) + 1
      BY <2>3, <2>4, <3>0
    <3> QED BY <2>3, <3>1
  <2> QED BY <1>4, <2>2, <2>3
<1>6. NetFresh'
  BY <1>0, <1>3, <1>4 DEF SyncInv, NetFresh
<1>7. AppliedOnce'
  BY <1>0 DEF SyncInv, AppliedOnce
<1>8. \A d \in Client : ctx'[d] = ctx[d] \/ (d = c /\ ctx'[d].id = i /\ ctx'[d].index = 2)
  BY <1>0 DEF Publishes, SyncTypes, SameRequest, i
<1>9. CtxUnique'
  BY <1>0, <1>8 DEF SyncInv, CtxUnique, i
<1>10. ASSUME NEW n \in Node, NEW j, InNet(net', n, j), j # i \/ n = h PROVE InNet(net, n, j)
  <2>0. PICK a \in Node : \E p \in Occ(a, n)' : net'[a][n][p].id = j
    BY <1>10 DEF InNet, Occ
  <2>1. PICK p \in Occ(a, n)' : net'[a][n][p].id = j
    BY <2>0
  <2>2. p \in Occ(a, n) /\ net'[a][n][p] = net[a][n][p]
    BY <1>4, <1>10, <2>1
  <2> QED BY <2>1, <2>2 DEF InNet, Occ
<1>11. CtxFresh'
  <2> SUFFICES ASSUME NEW d \in Client, ctx'[d] # None
               PROVE  /\ applied'[Home[d]][ctx'[d].id] = 0 /\ ctx'[d].id <= ops'
                      /\ ~InNet(net', Home[d], ctx'[d].id)
                      /\ ctx'[d].index = 1 =>
                            \A n \in Node : applied'[n][ctx'[d].id] = 0
                                              /\ ~InNet(net', n, ctx'[d].id)
    BY DEF CtxFresh
  <2>1. Home[d] \in Node
    BY ProxyAssumption
  <2>2. CASE d = c
    <3>1. ctx'[d].id = i /\ ctx'[d].index = 2
      BY <1>0, <2>2 DEF Publishes, SyncTypes, SameRequest, i
    <3> QED BY <1>0, <1>3, <1>10, <2>1, <2>2, <3>1 DEF h
  <2>3. CASE d # c
    <3>1. ctx'[d] = ctx[d] /\ ctx[d].id # i
      BY <1>0, <1>8, <2>3 DEF SyncInv, CtxUnique, i
    <3> QED BY <1>0, <1>10, <2>1, <3>1 DEF SyncInv, CtxFresh
  <2> QED BY <2>2, <2>3
<1> QED BY <1>5, <1>6, <1>7, <1>9, <1>11 DEF SyncInv

(* The handler runs the request behind its own proxy. *)
LEMMA OnceRuns ==
    ASSUME SyncTypes, SyncInv, NEW c \in Client, Runs1(c)
    PROVE  SyncInv'
<1> DEFINE h == Home[c]  i == ctx[c].id
<1>0. /\ h \in Node /\ ctx[c] \in Ctx /\ ctx[c] # None /\ i \in Id
      /\ UNCHANGED <<net, ops>> /\ ctx' = [ctx EXCEPT ![c] = None]
  BY ProxyAssumption, NoneFacts DEF Runs1, Ctx
<1>1. PICK ks \in SUBSET ctx[c].keys : Applies(h, ctx[c], ks)
  BY DEF Runs1
<1>2. ks \in SUBSET Key
  BY <1>0 DEF Ctx
<1>3. \A x \in Node, j \in Id :
        applied'[x][j] = IF x = h /\ j = i /\ ks # {} THEN applied[x][j] + 1 ELSE applied[x][j]
  BY <1>0, <1>1, <1>2, ApplyFacts
<1>4. applied[h][i] = 0 /\ ~InNet(net, h, i) /\ i <= ops
  BY <1>0 DEF SyncInv, CtxFresh
<1> HIDE DEF h, i
<1>5. NetUnique'
  BY <1>0 DEF SyncInv, NetUnique, Occ
<1>6. NetFresh'
  <2> SUFFICES ASSUME NEW n \in Node, NEW m \in Node, NEW p \in Occ(m, n)
               PROVE  applied'[n][net[m][n][p].id] = 0 /\ net[m][n][p].id <= ops
    BY <1>0 DEF NetFresh, Occ
  <2>1. net[m][n][p].id \in Id
    BY NetTypes
  <2>2. ~(n = h /\ net[m][n][p].id = i)
    BY <1>4 DEF InNet, Occ
  <2> QED BY <1>3, <2>1, <2>2 DEF SyncInv, NetFresh
<1>7. AppliedOnce'
  <2>1. ops \in Nat /\ i \in Nat /\ applied \in [Node -> [Id -> Nat]]
    BY <1>0 DEF SyncTypes, Id
  <2> QED BY <1>0, <1>3, <1>4, <2>1 DEF SyncInv, AppliedOnce, Id
<1>8. \A d \in Client : ctx'[d] = IF d = c THEN None ELSE ctx[d]
  BY <1>0 DEF SyncTypes
<1>9. CtxUnique'
  BY <1>8 DEF SyncInv, CtxUnique
<1>10. CtxFresh'
  <2> SUFFICES ASSUME NEW d \in Client, ctx'[d] # None
               PROVE  /\ applied'[Home[d]][ctx'[d].id] = 0 /\ ctx'[d].id <= ops'
                      /\ ~InNet(net', Home[d], ctx'[d].id)
                      /\ ctx'[d].index = 1 =>
                            \A n \in Node : applied'[n][ctx'[d].id] = 0
                                              /\ ~InNet(net', n, ctx'[d].id)
    BY DEF CtxFresh
  <2>1. ctx'[d] = ctx[d] /\ ctx[d] # None /\ d # c
    BY <1>8
  <2>2. Home[d] \in Node /\ ctx[d].id \in Id /\ ctx[d].id # i
    BY <1>0, <2>1, ProxyAssumption DEF SyncTypes, Ctx, SyncInv, CtxUnique, i
  <2> QED BY <1>0, <1>3, <2>1, <2>2 DEF SyncInv, CtxFresh
<1> QED BY <1>5, <1>6, <1>7, <1>9, <1>10 DEF SyncInv

(* A proxy runs a request it hears, which then is on its way no more. *)
LEMMA OnceHears ==
    ASSUME SyncTypes, SyncInv, NEW m \in Node, NEW n \in Node, Hears(m, n)
    PROVE  SyncInv'
<1> DEFINE q == Head(net[m][n])  i == q.id
<1>0. /\ UNCHANGED <<ctx, ops>> /\ net[m][n] # <<>>
      /\ \/ Applies(n, q, q.keys)
         \/ UNCHANGED applied
  BY DEF Hears, Unran
<1>1. /\ \A a, b \in Node : net'[a][b] = IF a = m /\ b = n THEN Tail(net[a][b]) ELSE net[a][b]
      /\ q \in Msg /\ q = net[m][n][1] /\ 1 \in Occ(m, n)
  BY HearFacts DEF Hears, Occ
<1>2. i \in Id /\ q.keys \in SUBSET Key
  BY <1>1 DEF Msg
<1>3. \A x \in Node, j \in Id :
        \/ applied'[x][j] = applied[x][j]
        \/ x = n /\ j = i /\ applied'[x][j] = applied[x][j] + 1
  BY <1>0, <1>2, ApplyFacts
<1>4. applied[n][i] = 0 /\ i <= ops
  BY <1>1 DEF SyncInv, NetFresh
<1> HIDE DEF q, i
<1>5. ASSUME NEW a \in Node, NEW b \in Node, NEW p \in Occ(a, b)'
      PROVE  /\ p + Shift(m, n, a, b) \in Occ(a, b)
             /\ net'[a][b][p] = net[a][b][p + Shift(m, n, a, b)]
             /\ ~(b = n /\ net'[a][b][p].id = i)
  <2>1. /\ p + Shift(m, n, a, b) \in Occ(a, b)
        /\ net'[a][b][p] = net[a][b][p + Shift(m, n, a, b)]
    BY <1>0, <1>1, HearOcc
  <2>2. ASSUME b = n, net'[a][b][p].id = i PROVE FALSE
    <3>1. a = m /\ p + Shift(m, n, a, b) = 1
      BY <1>1, <2>1, <2>2 DEF SyncInv, NetUnique, i
    <3>2. Shift(m, n, a, b) = 1
      BY <2>2, <3>1 DEF Shift
    <3> QED BY <3>1, <3>2 DEF Occ
  <2> QED BY <2>1, <2>2
<1>6. NetUnique'
  <2> SUFFICES ASSUME NEW x \in Node, NEW a \in Node, NEW b \in Node,
                      NEW p \in Occ(a, x)', NEW r \in Occ(b, x)',
                      net'[a][x][p].id = net'[b][x][r].id
               PROVE  a = b /\ p = r
    BY DEF NetUnique
  <2>1. a = b /\ p + Shift(m, n, a, x) = r + Shift(m, n, b, x)
    BY <1>5 DEF SyncInv, NetUnique
  <2> QED BY <2>1 DEF Shift, Occ
<1>7. NetFresh'
  <2> SUFFICES ASSUME NEW b \in Node, NEW a \in Node, NEW p \in Occ(a, b)'
               PROVE  applied'[b][net'[a][b][p].id] = 0 /\ net'[a][b][p].id <= ops
    BY <1>0 DEF NetFresh
  <2> DEFINE r == p + Shift(m, n, a, b)
  <2>1. r \in Occ(a, b) /\ net'[a][b][p] = net[a][b][r] /\ ~(b = n /\ net'[a][b][p].id = i)
    BY <1>5
  <2> HIDE DEF r
  <2>2. net[a][b][r].id \in Id
    BY <2>1, NetTypes
  <2> QED BY <1>3, <2>1, <2>2 DEF SyncInv, NetFresh
<1>8. AppliedOnce'
  <2>1. ops \in Nat /\ applied \in [Node -> [Id -> Nat]]
    BY DEF SyncTypes
  <2> QED BY <1>0, <1>2, <1>3, <1>4, <2>1 DEF SyncInv, AppliedOnce, Id
<1>9. CtxUnique'
  BY <1>0 DEF SyncInv, CtxUnique
<1>10. ASSUME NEW x \in Node, NEW j, InNet(net', x, j) PROVE InNet(net, x, j)
  <2>0. PICK a \in Node : \E p \in Occ(a, x)' : net'[a][x][p].id = j
    BY <1>10 DEF InNet, Occ
  <2>1. PICK p \in Occ(a, x)' : net'[a][x][p].id = j
    BY <2>0
  <2> DEFINE r == p + Shift(m, n, a, x)
  <2>2. r \in Occ(a, x) /\ net'[a][x][p] = net[a][x][r]
    BY <1>5
  <2> HIDE DEF r
  <2> QED BY <2>1, <2>2 DEF InNet, Occ
<1>11. InNet(net, n, i)
  BY <1>1 DEF InNet, Occ, i
<1>12. CtxFresh'
  <2> SUFFICES ASSUME NEW d \in Client, ctx[d] # None
               PROVE  /\ applied'[Home[d]][ctx[d].id] = 0 /\ ctx[d].id <= ops
                      /\ ~InNet(net', Home[d], ctx[d].id)
                      /\ ctx[d].index = 1 =>
                            \A x \in Node : applied'[x][ctx[d].id] = 0
                                              /\ ~InNet(net', x, ctx[d].id)
    BY <1>0 DEF CtxFresh
  <2>1. Home[d] \in Node /\ ctx[d].id \in Id
    BY ProxyAssumption DEF SyncTypes, Ctx
  <2>2. ASSUME NEW x \in Node, applied[x][ctx[d].id] = 0, ~InNet(net, x, ctx[d].id)
        PROVE  applied'[x][ctx[d].id] = 0 /\ ~InNet(net', x, ctx[d].id)
    BY <1>3, <1>10, <1>11, <2>1, <2>2
  <2> QED BY <2>1, <2>2 DEF SyncInv, CtxFresh
<1> QED BY <1>6, <1>7, <1>8, <1>9, <1>12 DEF SyncInv

LEMMA OnceCrash ==
    ASSUME SyncTypes, SyncInv, NEW n \in Node, Crashes(n)
    PROVE  SyncInv'
<1>1. UNCHANGED <<applied, ops>>
  BY DEF Crashes
<1>2. ASSUME NEW a \in Node, NEW b \in Node, NEW p \in Occ(a, b)'
      PROVE  p \in Occ(a, b) /\ net'[a][b][p] = net[a][b][p]
  BY CrashOcc, ZenonT(60) DEF Crashes
<1>3. \A d \in Client : ctx'[d] = None \/ ctx'[d] = ctx[d]
  BY DEF Crashes, SyncTypes
<1>4. NetUnique' /\ NetFresh'
  <2>1. NetFresh'
    BY <1>1, <1>2 DEF SyncInv, NetFresh
  <2>2. ASSUME NEW x \in Node, NEW a \in Node, NEW b \in Node,
               NEW p \in Occ(a, x)', NEW r \in Occ(b, x)',
               net'[a][x][p].id = net'[b][x][r].id
        PROVE  a = b /\ p = r
    <3>1. p \in Occ(a, x) /\ r \in Occ(b, x) /\ net[a][x][p].id = net[b][x][r].id
      BY <1>2, <2>2
    <3> QED BY <3>1 DEF SyncInv, NetUnique
  <2>3. NetUnique'
    BY <2>2 DEF NetUnique
  <2> QED BY <2>1, <2>3
<1>5. ASSUME NEW x \in Node, NEW j, InNet(net', x, j) PROVE InNet(net, x, j)
  <2>0. PICK a \in Node : \E p \in Occ(a, x)' : net'[a][x][p].id = j
    BY <1>5 DEF InNet, Occ
  <2>1. PICK p \in Occ(a, x)' : net'[a][x][p].id = j
    BY <2>0
  <2> QED BY <1>2, <2>1 DEF InNet, Occ
<1>6. CtxFresh' /\ CtxUnique'
  <2>1. \A d \in Client : Home[d] \in Node
    BY ProxyAssumption
  <2> QED BY <1>1, <1>3, <1>5, <2>1 DEF SyncInv, CtxFresh, CtxUnique
<1>7. AppliedOnce'
  BY <1>1 DEF SyncInv, AppliedOnce
<1> QED BY <1>4, <1>6, <1>7 DEF SyncInv

LEMMA OnceStep ==
    ASSUME SyncTypes, SyncInv, Event
    PROVE  SyncInv'
<1>1. CASE Keeps /\ UNCHANGED <<ctx, ops>>
  BY <1>1 DEF Keeps, SyncInv, NetUnique, NetFresh, CtxFresh, CtxUnique, AppliedOnce, Occ, InNet
<1> QED BY <1>1, OnceCtx, OncePublish, OnceRuns, OnceHears, OnceCrash DEF Event

-----------------------------------------------------------------------------
(* Behind node proxies, if nothing fails, every write runs everywhere.     *)

Live(q) == Writing(q) /\ q.keys # {}

\* Request i has run behind n, or will: of the variables applied, net and ctx.
SettledIn(ap, nt, cx, n, i) ==
    \/ ap[n][i] = 1
    \/ \E m \in Node : \E p \in 1..Len(nt[m][n]) : nt[m][n][p].id = i /\ Live(nt[m][n][p])
    \/ \E c \in Client : /\ Home[c] = n /\ cx[c] # None
                         /\ cx[c].id = i /\ cx[c].index = 2 /\ Live(cx[c])

Settled(n, i) == SettledIn(applied, net, ctx, n, i)

Reaches ==
    /\ \A m \in Node, k \in Key : value[m][k] # 0 =>
          \A x \in Node : SettledIn(applied, net, ctx, x, value[m][k])
    /\ \A m, n \in Node : \A p \in Occ(m, n) : Live(net[m][n][p]) =>
          \A x \in Node : SettledIn(applied, net, ctx, x, net[m][n][p].id)
    /\ \A c \in Client : ctx[c] # None /\ ctx[c].index = 2 /\ Live(ctx[c]) =>
          \A x \in Node : SettledIn(applied, net, ctx, x, ctx[c].id)

LEMMA SameLive ==
    ASSUME NEW q, NEW r, SameRequest(q, r)
    PROVE  Live(q) <=> Live(r)
  BY DEF SameRequest, Live, Writing

LEMMA SentLive ==
    ASSUME NEW q, NEW r, Sent(q, r)
    PROVE  Live(q) <=> Live(r)
  BY DEF Sent, Live, Writing

LEMMA SettledKept ==
    ASSUME SyncTypes, SyncInv, Ok', Event, NEW n \in Node, NEW i \in Id, Settled(n, i)
    PROVE  Settled(n, i)'
<1>0. Home \in [Client -> Node]
  BY ProxyAssumption
<1>1. ASSUME NEW c \in Client, Opens(c) \/ Ends(c) \/ Moves(c) \/ Passes(c)
      PROVE  Settled(n, i)'
  <2>1. UNCHANGED <<net, applied>>
    BY <1>1 DEF Opens, Ends, Moves, Passes, Keeps
  <2>2. ASSUME NEW d \in Client, ctx[d] # None, ctx[d].index = 2, Live(ctx[d])
        PROVE  /\ ctx'[d] # None /\ ctx'[d].id = ctx[d].id /\ ctx'[d].index = 2
               /\ Live(ctx'[d])
    <3>1. CASE d # c
      <4>1. ctx'[d] = ctx[d]
        BY <1>1, <3>1 DEF Opens, Ends, Moves, Passes, SyncTypes
      <4> QED BY <2>2, <4>1
    <3>2. CASE d = c
      <4>1. ~Opens(c) /\ ~Ends(c) /\ ~Passes(c)
        BY <2>2, <3>2 DEF Opens, Ends, Passes, Live
      <4>2. PICK r \in Ctx : /\ ctx' = [ctx EXCEPT ![c] = r] /\ SameRequest(ctx[c], r)
                            /\ r.index = ctx[c].index
        BY <1>1, <4>1 DEF Moves
      <4>3. ctx'[d] = r
        BY <3>2, <4>2 DEF SyncTypes
      <4>4. Live(r)
        BY <2>2, <3>2, <4>2, SameLive
      <4> QED BY <2>2, <3>2, <4>2, <4>3, <4>4, NoneFacts DEF SameRequest
    <3> QED BY <3>1, <3>2
  <2> QED BY <2>1, <2>2 DEF Settled, SettledIn, Occ
<1>2. ASSUME NEW c \in Client, Publishes(c) PROVE Settled(n, i)'
  <2>1. PICK msg \in Msg, T \in SUBSET Node :
        Sent(ctx[c], msg) /\ Home[c] \notin T /\ Puts(Home[c], T, msg)
    BY <1>2, PublishesNet
  <2>2. \A m \in Node : \A p \in Occ(m, n) : p \in Occ(m, n)' /\ net'[m][n][p] = net[m][n][p]
    BY <1>0, <2>1, PublishOcc
  <2>3. UNCHANGED applied
    BY <1>2 DEF Publishes
  <2>4. \A d \in Client : ctx[d].index = 2 => ctx'[d] = ctx[d]
    BY <1>2 DEF Publishes, SyncTypes
  <2> QED BY <2>2, <2>3, <2>4 DEF Settled, SettledIn, Occ
<1>3. ASSUME NEW c \in Client, Runs1(c) PROVE Settled(n, i)'
  <2>1. /\ Home[c] \in Node /\ ctx[c] \in Ctx /\ ctx[c] # None
        /\ Applies(Home[c], ctx[c], ctx[c].keys)
        /\ UNCHANGED net /\ ctx' = [ctx EXCEPT ![c] = None]
    BY <1>0, <1>3, NoneFacts DEF Runs1
  <2>2. ctx[c].id \in Id /\ ctx[c].keys \in SUBSET Key
    BY <2>1 DEF Ctx
  <2>3. applied'[n][i] = IF n = Home[c] /\ i = ctx[c].id /\ ctx[c].keys # {}
                         THEN applied[n][i] + 1 ELSE applied[n][i]
    BY <2>1, <2>2, ApplyFacts
  <2>4. applied[Home[c]][ctx[c].id] = 0
    BY <2>1 DEF SyncInv, CtxFresh
  <2>5. \A d \in Client : d # c => ctx'[d] = ctx[d]
    BY <2>1 DEF SyncTypes
  <2>6. CASE applied[n][i] = 1
    BY <2>3, <2>4, <2>6 DEF Settled, SettledIn, Occ
  <2>7. CASE \E m \in Node : \E p \in Occ(m, n) : net[m][n][p].id = i /\ Live(net[m][n][p])
    BY <2>1, <2>7 DEF Settled, SettledIn, Occ
  <2>8. CASE \E d \in Client : /\ Home[d] = n /\ ctx[d] # None
                               /\ ctx[d].id = i /\ ctx[d].index = 2 /\ Live(ctx[d])
    <3>1. PICK d \in Client : /\ Home[d] = n /\ ctx[d] # None
                             /\ ctx[d].id = i /\ ctx[d].index = 2 /\ Live(ctx[d])
      BY <2>8
    <3>2. CASE d = c
      <4>1. applied'[n][i] = 1
        BY <2>3, <2>4, <3>1, <3>2 DEF Live
      <4> QED BY <4>1 DEF Settled, SettledIn, Occ
    <3>3. CASE d # c
      BY <2>5, <3>1, <3>3 DEF Settled, SettledIn, Occ
    <3> QED BY <3>2, <3>3
  <2> QED BY <2>6, <2>7, <2>8 DEF Settled, SettledIn, Occ
<1>4. ASSUME NEW a \in Node, NEW b \in Node, Hears(a, b) PROVE Settled(n, i)'
  <2> DEFINE q == Head(net[a][b])
  <2>1. UNCHANGED ctx /\ net[a][b] # <<>> /\ Applies(b, q, q.keys)
    BY <1>4 DEF Hears
  <2>2. /\ \A x, y \in Node : net'[x][y] = IF x = a /\ y = b THEN Tail(net[x][y]) ELSE net[x][y]
        /\ q \in Msg /\ q = net[a][b][1] /\ 1 \in Occ(a, b)
    BY <1>4, HearFacts DEF Hears, Occ
  <2>3. q.id \in Id /\ q.keys \in SUBSET Key
    BY <2>2 DEF Msg
  <2> HIDE DEF q
  <2>4. applied'[n][i] = IF n = b /\ i = q.id /\ q.keys # {}
                         THEN applied[n][i] + 1 ELSE applied[n][i]
    BY <2>1, <2>3, ApplyFacts
  <2>5. applied[b][q.id] = 0
    BY <2>2 DEF SyncInv, NetFresh
  <2>6. CASE applied[n][i] = 1
    BY <2>4, <2>5, <2>6 DEF Settled, SettledIn, Occ
  <2>7. CASE \E m \in Node : \E p \in Occ(m, n) : net[m][n][p].id = i /\ Live(net[m][n][p])
    <3>1. PICK m \in Node : \E p \in Occ(m, n) : net[m][n][p].id = i /\ Live(net[m][n][p])
      BY <2>7
    <3>2. PICK p \in Occ(m, n) : net[m][n][p].id = i /\ Live(net[m][n][p])
      BY <3>1
    <3>3. CASE m = a /\ n = b /\ p = 1
      <4>1. applied'[n][i] = 1
        BY <2>2, <2>4, <2>5, <3>2, <3>3 DEF Live
      <4> QED BY <4>1 DEF Settled, SettledIn, Occ
    <3>4. CASE ~(m = a /\ n = b /\ p = 1)
      <4> DEFINE r == p - Shift(a, b, m, n)
      <4>1. r \in Occ(m, n)' /\ net'[m][n][r] = net[m][n][p]
        BY <2>1, <2>2, <3>4, HearOcc
      <4> HIDE DEF r
      <4> QED BY <3>2, <4>1 DEF Settled, SettledIn, Occ
    <3> QED BY <3>3, <3>4
  <2>8. CASE \E d \in Client : /\ Home[d] = n /\ ctx[d] # None
                               /\ ctx[d].id = i /\ ctx[d].index = 2 /\ Live(ctx[d])
    BY <2>1, <2>8 DEF Settled, SettledIn, Occ
  <2> QED BY <2>6, <2>7, <2>8 DEF Settled, SettledIn, Occ
<1>5. CASE Keeps /\ UNCHANGED <<ctx, ops>>
  BY <1>5 DEF Keeps, Settled, SettledIn, Occ
<1>6. ASSUME NEW x \in Node, Crashes(x) PROVE FALSE
  BY <1>6 DEF Crashes
<1> QED BY <1>1, <1>2, <1>3, <1>4, <1>5, <1>6 DEF Event

(* A value that is new comes from a request that is on its way. *)
LEMMA NewValue ==
    ASSUME SyncTypes, Ok', Event, NEW m \in Node, NEW k \in Key, value'[m][k] # value[m][k]
    PROVE  \/ \E c \in Client :
                /\ Runs1(c) /\ m = Home[c] /\ Writing(ctx[c]) /\ k \in ctx[c].keys
                /\ value'[m][k] = Effect(ctx[c]) /\ ctx[c].index = 2 /\ ctx[c] # None
           \/ \E a \in Node : LET q == net[a][m][1] IN
                /\ Hears(a, m) /\ Writing(q) /\ k \in q.keys /\ value'[m][k] = Effect(q)
                /\ 1 \in Occ(a, m)
<1>1. ASSUME NEW c \in Client, Runs1(c)
      PROVE  /\ m = Home[c] /\ Writing(ctx[c]) /\ k \in ctx[c].keys
             /\ value'[m][k] = Effect(ctx[c]) /\ ctx[c].index = 2 /\ ctx[c] # None
  <2>1. /\ Home[c] \in Node /\ ctx[c] \in Ctx /\ ctx[c] # None /\ ctx[c].index = 2
        /\ Applies(Home[c], ctx[c], ctx[c].keys)
    BY <1>1, ProxyAssumption, NoneFacts DEF Runs1
  <2>2. ctx[c].id \in Id /\ ctx[c].keys \in SUBSET Key
    BY <2>1 DEF Ctx
  <2>3. value'[m][k] = IF m = Home[c] /\ k \in ctx[c].keys /\ Writing(ctx[c])
                       THEN Effect(ctx[c]) ELSE value[m][k]
    BY <2>1, <2>2, ApplyFacts
  <2> QED BY <2>1, <2>3
<1>2. ASSUME NEW a \in Node, NEW b \in Node, Hears(a, b)
      PROVE  /\ b = m /\ Writing(net[a][b][1]) /\ k \in net[a][b][1].keys
             /\ value'[m][k] = Effect(net[a][b][1]) /\ 1 \in Occ(a, b)
  <2> DEFINE q == Head(net[a][b])
  <2>1. q \in Msg /\ q = net[a][b][1] /\ 1 \in Occ(a, b)
    BY <1>2, HearFacts DEF Hears, Occ
  <2>2. Applies(b, q, q.keys)
    BY <1>2 DEF Hears
  <2> HIDE DEF q
  <2>3. q.id \in Id /\ q.keys \in SUBSET Key
    BY <2>1 DEF Msg
  <2>4. value'[m][k] = IF m = b /\ k \in q.keys /\ Writing(q) THEN Effect(q) ELSE value[m][k]
    BY <2>2, <2>3, ApplyFacts
  <2> QED BY <2>1, <2>4
<1>3. ~\E c \in Client : Opens(c) \/ Ends(c) \/ Moves(c) \/ Passes(c) \/ Publishes(c)
  BY DEF Opens, Ends, Moves, Passes, Publishes, Keeps
<1>4. ~(Keeps /\ UNCHANGED <<ctx, ops>>) /\ ~\E x \in Node : Crashes(x)
  BY DEF Keeps, Crashes
<1> QED BY <1>1, <1>2, <1>3, <1>4 DEF Event

(* A message or a request past the middleware that is live now was live    *)
(* before, or is being published.                                          *)
LEMMA NewMessage ==
    ASSUME SyncTypes, Event, NEW m \in Node, NEW n \in Node, NEW p \in Occ(m, n)'
    PROVE  \/ \E r \in Occ(m, n) : net'[m][n][p] = net[m][n][r]
           \/ \E c \in Client : /\ Publishes(c) /\ m = Home[c] /\ n # m
                                /\ Sent(ctx[c], net'[m][n][p])
<1>1. ASSUME UNCHANGED net PROVE \E r \in Occ(m, n) : net'[m][n][p] = net[m][n][r]
  BY <1>1 DEF Occ
<1>2. ASSUME NEW c \in Client, Publishes(c)
      PROVE  \/ \E r \in Occ(m, n) : net'[m][n][p] = net[m][n][r]
             \/ m = Home[c] /\ n # m /\ Sent(ctx[c], net'[m][n][p])
  <2>1. PICK msg \in Msg, T \in SUBSET Node :
        Sent(ctx[c], msg) /\ Home[c] \notin T /\ Puts(Home[c], T, msg)
    BY <1>2, PublishesNet
  <2>2. Home[c] \in Node
    BY ProxyAssumption
  <2>3. \/ p \in Occ(m, n) /\ net'[m][n][p] = net[m][n][p]
        \/ m = Home[c] /\ n # Home[c] /\ net'[m][n][p] = msg
    BY <2>1, <2>2, PublishOcc
  <2> QED BY <2>1, <2>3
<1>3. ASSUME NEW a \in Node, NEW b \in Node, Hears(a, b)
      PROVE  \E r \in Occ(m, n) : net'[m][n][p] = net[m][n][r]
  <2>1. /\ \A x, y \in Node : net'[x][y] = IF x = a /\ y = b THEN Tail(net[x][y]) ELSE net[x][y]
        /\ net[a][b] # <<>>
    BY <1>3, HearFacts DEF Hears
  <2>2. p + Shift(a, b, m, n) \in Occ(m, n) /\ net'[m][n][p] = net[m][n][p + Shift(a, b, m, n)]
    BY <2>1, HearOcc
  <2> QED BY <2>2
<1>4. (\E c \in Client : Opens(c) \/ Ends(c) \/ Moves(c) \/ Passes(c) \/ Runs1(c)) => UNCHANGED net
  BY DEF Opens, Ends, Moves, Passes, Runs1, Keeps
<1>5. ASSUME NEW x \in Node, Crashes(x)
      PROVE  \E r \in Occ(m, n) : net'[m][n][p] = net[m][n][r]
  BY <1>5, CrashOcc DEF Crashes
<1> QED BY <1>1, <1>2, <1>3, <1>4, <1>5 DEF Event, Keeps

LEMMA NewPending ==
    ASSUME SyncTypes, Ok', Event, NEW d \in Client,
           ctx'[d] # None, ctx'[d].index = 2, Writing(ctx'[d])
    PROVE  /\ SameRequest(ctx[d], ctx'[d]) /\ ctx[d] # None
           /\ ctx[d].index = 2 \/ Publishes(d)
<1>1. ASSUME NEW c \in Client,
             Opens(c) \/ Ends(c) \/ Moves(c) \/ Passes(c) \/ Publishes(c) \/ Runs1(c)
      PROVE  /\ SameRequest(ctx[d], ctx'[d]) /\ ctx[d] # None
             /\ ctx[d].index = 2 \/ Publishes(d)
  <2>1. CASE d # c
    <3>1. ctx'[d] = ctx[d]
      BY <1>1, <2>1 DEF Opens, Ends, Moves, Passes, Publishes, Runs1, SyncTypes
    <3> QED BY <3>1 DEF SameRequest
  <2>2. CASE d = c
    <3>0. ASSUME NEW r \in Ctx \cup {None}, ctx' = [ctx EXCEPT ![c] = r] PROVE ctx'[d] = r
      BY <2>2, <3>0 DEF SyncTypes
    <3>1. ~Opens(c) /\ ~Ends(c) /\ ~Runs1(c)
      BY <2>2, <3>0 DEF Opens, Ends, Runs1
    <3>2. PICK r \in Ctx : ctx' = [ctx EXCEPT ![c] = r] /\ SameRequest(ctx[c], r)
      BY <1>1, <3>1 DEF Moves, Passes, Publishes
    <3>3. ctx'[d] = r
      BY <2>2, <3>2 DEF SyncTypes
    <3>4. ctx[c] # None
      BY <1>1, <3>1, NoneFacts DEF Moves, Passes, Publishes
    <3>5. ~Passes(c)
      BY <2>2, <3>2, <3>3 DEF Passes, SameRequest, Writing
    <3>6. Moves(c) => ctx[d].index = 2
      BY <2>2, <3>3 DEF Moves, SyncTypes
    <3> QED BY <1>1, <2>2, <3>1, <3>2, <3>3, <3>4, <3>5, <3>6
  <2> QED BY <2>1, <2>2
<1>2. ASSUME UNCHANGED ctx
      PROVE  SameRequest(ctx[d], ctx'[d]) /\ ctx[d] # None /\ ctx[d].index = 2
  BY <1>2 DEF SameRequest
<1>3. (\E a, b \in Node : Hears(a, b)) => UNCHANGED ctx
  BY DEF Hears
<1>4. ~\E x \in Node : Crashes(x)
  BY DEF Crashes
<1> QED BY <1>1, <1>2, <1>3, <1>4 DEF Event

LEMMA PublishSettles ==
    ASSUME SyncTypes, NEW c \in Client, Publishes(c), Live(ctx[c]), Ok', down = {}, NEW x \in Node
    PROVE  SettledIn(applied', net', ctx', x, ctx[c].id)
<1>1. PICK msg \in Msg, T \in SUBSET Node :
      /\ Sent(ctx[c], msg) /\ T = Node \ (down \cup {Home[c]})
      /\ Puts(Home[c], T, msg)
  BY PublishesNet
<1>2. Home[c] \in Node
  BY ProxyAssumption
<1>3. CASE x # Home[c]
  <2> DEFINE h == Home[c]
  <2>0. x \in T
    BY <1>1, <1>3
  <2> HIDE DEF h
  <2>1. \E p \in Occ(h, x)' : net'[h][x][p] = msg
    <3>1. Puts(h, T, msg)
      BY <1>1 DEF h
    <3>2. Len(net[h][x]) + 1 \in Occ(h, x)' /\ net'[h][x][Len(net[h][x]) + 1] = msg
      BY <1>2, <2>0, <3>1, PublishOcc DEF h
    <3> QED BY <3>2
  <2>2. msg.id = ctx[c].id /\ Live(msg)
    BY <1>1, SentLive DEF Sent
  <2> QED BY <1>2, <2>1, <2>2 DEF SettledIn, Occ, h
<1>4. CASE x = Home[c]
  <2>1. PICK r \in Ctx : ctx' = [ctx EXCEPT ![c] = r] /\ SameRequest(ctx[c], r) /\ r.index = 2
    BY DEF Publishes
  <2>2. ctx'[c] = r /\ r # None
    BY <2>1, NoneFacts DEF SyncTypes
  <2>3. Live(r) /\ r.id = ctx[c].id
    BY <2>1, SameLive DEF SameRequest
  <2> QED BY <1>4, <2>1, <2>2, <2>3 DEF SettledIn
<1> QED BY <1>3, <1>4

LEMMA ReachesStep ==
    ASSUME SyncTypes, SyncInv, Reaches, Ok', Event, down = {}
    PROVE  Reaches'
<1>1. ASSUME NEW i \in Id, \A x \in Node : SettledIn(applied, net, ctx, x, i)
      PROVE  \A x \in Node : SettledIn(applied', net', ctx', x, i)
  BY <1>1, SettledKept DEF Settled
<1>2. ASSUME NEW m \in Node, NEW k \in Key, value'[m][k] # 0
      PROVE  \A x \in Node : SettledIn(applied', net', ctx', x, value'[m][k])
  <2>1. CASE value'[m][k] = value[m][k]
    <3>1. value[m][k] \in Id
      BY <1>2, <2>1, ProxyAssumption DEF SyncTypes, Id
    <3> QED BY <1>1, <1>2, <2>1, <3>1 DEF Reaches
  <2>2. CASE value'[m][k] # value[m][k]
    <3>1. CASE \E c \in Client :
                /\ Writing(ctx[c]) /\ k \in ctx[c].keys
                /\ value'[m][k] = Effect(ctx[c]) /\ ctx[c].index = 2 /\ ctx[c] # None
      <4>1. PICK c \in Client :
                /\ Writing(ctx[c]) /\ k \in ctx[c].keys
                /\ value'[m][k] = Effect(ctx[c]) /\ ctx[c].index = 2 /\ ctx[c] # None
        BY <3>1
      <4>2. value'[m][k] = ctx[c].id /\ Live(ctx[c]) /\ ctx[c].id \in Id
        BY <1>2, <4>1 DEF Effect, Live, SyncTypes, Ctx
      <4> QED BY <1>1, <4>1, <4>2 DEF Reaches
    <3>2. CASE \E a \in Node : LET q == net[a][m][1] IN
                /\ Writing(q) /\ k \in q.keys /\ value'[m][k] = Effect(q) /\ 1 \in Occ(a, m)
      <4>1. PICK a \in Node : LET q == net[a][m][1] IN
                /\ Writing(q) /\ k \in q.keys /\ value'[m][k] = Effect(q) /\ 1 \in Occ(a, m)
        BY <3>2
      <4>2. net[a][m][1].id \in Id
        BY <4>1, NetTypes
      <4>3. value'[m][k] = net[a][m][1].id /\ Live(net[a][m][1])
        BY <1>2, <4>1 DEF Effect, Live
      <4> QED BY <1>1, <4>1, <4>2, <4>3 DEF Reaches
    <3> QED BY <2>2, <3>1, <3>2, NewValue
  <2> QED BY <2>1, <2>2
<1>3. ASSUME NEW m \in Node, NEW n \in Node, NEW p \in Occ(m, n)', Live(net'[m][n][p])
      PROVE  \A x \in Node : SettledIn(applied', net', ctx', x, net'[m][n][p].id)
  <2>1. CASE \E r \in Occ(m, n) : net'[m][n][p] = net[m][n][r]
    <3>1. PICK r \in Occ(m, n) : net'[m][n][p] = net[m][n][r]
      BY <2>1
    <3>2. net[m][n][r].id \in Id
      BY NetTypes
    <3> QED BY <1>1, <1>3, <3>1, <3>2 DEF Reaches
  <2>2. CASE \E c \in Client : Publishes(c) /\ Sent(ctx[c], net'[m][n][p])
    <3>1. PICK c \in Client : Publishes(c) /\ Sent(ctx[c], net'[m][n][p])
      BY <2>2
    <3>2. Live(ctx[c]) /\ net'[m][n][p].id = ctx[c].id
      BY <1>3, <3>1, SentLive DEF Sent
    <3> QED BY <3>1, <3>2, PublishSettles
  <2> QED BY <2>1, <2>2, NewMessage
<1>4. ASSUME NEW d \in Client, ctx'[d] # None, ctx'[d].index = 2, Live(ctx'[d])
      PROVE  \A x \in Node : SettledIn(applied', net', ctx', x, ctx'[d].id)
  <2>1. SameRequest(ctx[d], ctx'[d]) /\ ctx[d] # None /\ (ctx[d].index = 2 \/ Publishes(d))
    BY <1>4, NewPending DEF Live
  <2>2. Live(ctx[d]) /\ ctx'[d].id = ctx[d].id /\ ctx[d].id \in Id
    BY <1>4, <2>1, SameLive DEF SameRequest, SyncTypes, Ctx
  <2>3. CASE ctx[d].index = 2
    BY <1>1, <2>1, <2>2, <2>3 DEF Reaches
  <2>4. CASE Publishes(d)
    BY <2>2, <2>4, PublishSettles
  <2> QED BY <2>1, <2>3, <2>4
<1> QED BY <1>2, <1>3, <1>4 DEF Reaches

-----------------------------------------------------------------------------
(* A key that one client alone writes.                                     *)

Sets(q, k) == Writing(q) /\ k \in q.keys

\* Who writes is in writers, and publishes on the proxy it is connected to.
Known ==
    /\ \A m, n \in Node : \A p \in Occ(m, n) : \A k \in Key : Sets(net[m][n][p], k) =>
          m # n /\ \E c \in writers[k] : Home[c] = m
    /\ \A c \in Client, k \in Key :
          ctx[c] # None /\ ctx[c].index = 2 /\ Sets(ctx[c], k) => c \in writers[k]
    /\ \A k \in Key : writers[k] = {} => \A n \in Node : value[n][k] = 0

LEMMA SameSets ==
    ASSUME NEW q, NEW r, SameRequest(q, r), NEW k
    PROVE  (Sets(q, k) <=> Sets(r, k)) /\ Effect(q) = Effect(r)
  BY DEF SameRequest, Sets, Writing, Effect

LEMMA WritersGrow ==
    ASSUME SyncTypes, Ok', Event, NEW k \in Key
    PROVE  writers[k] \subseteq writers'[k] /\ uneven \subseteq uneven'
<1>1. ASSUME NEW c \in Client, Publishes(c)
      PROVE  writers[k] \subseteq writers'[k] /\ uneven \subseteq uneven'
  <2>1. writers' = [j \in Key |-> IF j \in SentKeys(ctx[c]) THEN writers[j] \cup {c}
                                  ELSE writers[j]]
    BY <1>1 DEF Publishes
  <2>2. uneven' = uneven \/ uneven' = uneven \cup SentKeys(ctx[c])
    BY <1>1, Zenon DEF Publishes
  <2> QED BY <2>1, <2>2
<1>2. (~\E c \in Client : Publishes(c)) => UNCHANGED <<writers, uneven>>
  BY DEF Event, Opens, Ends, Moves, Passes, Runs1, Hears, Crashes, Keeps
<1> QED BY <1>1, <1>2

LEMMA KnownStep ==
    ASSUME SyncTypes, Known, Ok', Event
    PROVE  Known'
<1>0. ASSUME NEW c \in Client, Publishes(c), NEW k \in Key, k \in SentKeys(ctx[c])
      PROVE  c \in writers'[k]
  BY <1>0 DEF Publishes
<1>1. ASSUME NEW m \in Node, NEW n \in Node, NEW p \in Occ(m, n)', NEW k \in Key,
             Sets(net'[m][n][p], k)
      PROVE  m # n /\ \E c \in writers'[k] : Home[c] = m
  <2>1. CASE \E r \in Occ(m, n) : net'[m][n][p] = net[m][n][r]
    BY <1>1, <2>1, WritersGrow DEF Known
  <2>2. CASE \E c \in Client : /\ Publishes(c) /\ m = Home[c] /\ n # m
                               /\ Sent(ctx[c], net'[m][n][p])
    <3>1. PICK c \in Client : /\ Publishes(c) /\ m = Home[c] /\ n # m
                             /\ Sent(ctx[c], net'[m][n][p])
      BY <2>2
    <3>2. k \in SentKeys(ctx[c])
      BY <1>1, <3>1 DEF Sent, Sets, SentKeys
    <3> QED BY <1>0, <3>1, <3>2
  <2> QED BY <2>1, <2>2, NewMessage
<1>2. ASSUME NEW d \in Client, NEW k \in Key, ctx'[d] # None, ctx'[d].index = 2, Sets(ctx'[d], k)
      PROVE  d \in writers'[k]
  <2>1. SameRequest(ctx[d], ctx'[d]) /\ ctx[d] # None /\ (ctx[d].index = 2 \/ Publishes(d))
    BY <1>2, NewPending DEF Sets
  <2>2. Sets(ctx[d], k)
    BY <1>2, <2>1, SameSets
  <2>3. k \in SentKeys(ctx[d])
    BY <2>2 DEF Sets, SentKeys
  <2> QED BY <1>0, <2>1, <2>2, <2>3, WritersGrow DEF Known
<1>3. ASSUME NEW k \in Key, writers'[k] = {}, NEW n \in Node PROVE value'[n][k] = 0
  <2>1. writers[k] = {} /\ value[n][k] = 0
    BY <1>3, WritersGrow DEF Known
  <2>2. ASSUME value'[n][k] # value[n][k] PROVE FALSE
    BY <2>1, <2>2, NewValue DEF Known, Sets
  <2> QED BY <2>1, <2>2
<1> QED BY <1>1, <1>2, <1>3 DEF Known

\* A Redis that holds x of key k holds v once the messages w are synced.
Drains(w, x, k, v) ==
    \/ \E p \in 1..Len(w) : /\ Sets(w[p], k) /\ v = Effect(w[p])
                            /\ \A r \in 1..Len(w) : r > p => ~Sets(w[r], k)
    \/ v = x /\ \A p \in 1..Len(w) : ~Sets(w[p], k)

\* It holds this of k once its own client's request q is done with.
Final(q, x, k) == IF q # None /\ q.index = 2 /\ Sets(q, k) THEN Effect(q) ELSE x

\* If c alone writes k, the other proxies end with what c's proxy ends with.
Converging ==
    \A k \in Key \ uneven, c \in Client : writers[k] \subseteq {c} =>
      \A n \in Node \ {Home[c]} :
        Drains(net[Home[c]][n], value[n][k], k, Final(ctx[c], value[Home[c]][k], k))

\* What wrote a key that is not uneven leaves the same bytes everywhere.
Evenly ==
    /\ \A m, n \in Node : \A p \in Occ(m, n) : \A k \in Key \ uneven :
          Sets(net[m][n][p], k) => Even(net[m][n][p])
    /\ \A c \in Client, k \in Key \ uneven :
          ctx[c] # None /\ ctx[c].index = 2 /\ Sets(ctx[c], k) => Even(ctx[c])
    /\ \A n \in Node, k \in Key \ uneven : bytes[n][k] = "given"

(* What a plain request sends is the request itself. *)
LEMMA PlainFacts ==
    ASSUME NEW q \in Ctx, Plain(q)
    PROVE  Even(q) /\ {Utf8[k] : k \in q.keys} = q.keys
<1>1. q.raw \in BOOLEAN /\ ~q.raw /\ q.cmd \notin Drawn /\ \A k \in q.keys : Utf8[k] = k
  BY Zenon DEF Plain, Ctx
<1>2. Even(q)
  BY <1>1, Zenon DEF Even
<1>3. \A k \in q.keys : Utf8[k] = k
  BY <1>1, Zenon
<1>4. {Utf8[k] : k \in q.keys} = q.keys
  BY <1>3
<1> QED BY <1>2, <1>4

(* A published request that sets a key which stays even is plain. *)
LEMMA PublishesEven ==
    ASSUME NEW c \in Client, Publishes(c), NEW k \in SentKeys(ctx[c]), k \notin uneven'
    PROVE  Even(ctx[c]) /\ {Utf8[j] : j \in ctx[c].keys} = ctx[c].keys
<1>1. uneven' = (IF Plain(ctx[c]) THEN uneven ELSE uneven \cup SentKeys(ctx[c])) /\ ctx[c] \in Ctx
  BY Zenon DEF Publishes
<1>2. CASE Plain(ctx[c])
  BY <1>1, <1>2, PlainFacts
<1>3. CASE ~Plain(ctx[c])
  <2>1. uneven' = uneven \cup SentKeys(ctx[c])
    BY <1>1, <1>3, Zenon
  <2> QED BY <2>1
<1> QED BY <1>2, <1>3

LEMMA EvenlyStep ==
    ASSUME SyncTypes, Evenly, Ok', Event
    PROVE  Evenly'
<1>0. ASSUME NEW k \in Key, k \notin uneven' PROVE k \notin uneven
  BY <1>0, WritersGrow
<1>1. ASSUME NEW m \in Node, NEW n \in Node, NEW p \in Occ(m, n)', NEW k \in Key, k \notin uneven',
             Sets(net'[m][n][p], k)
      PROVE  Even(net'[m][n][p])
  <2>1. CASE \E r \in Occ(m, n) : net'[m][n][p] = net[m][n][r]
    BY <1>0, <1>1, <2>1 DEF Evenly
  <2>2. CASE \E c \in Client : Publishes(c) /\ Sent(ctx[c], net'[m][n][p])
    <3>1. PICK c \in Client : Publishes(c) /\ Sent(ctx[c], net'[m][n][p])
      BY <2>2
    <3>2. k \in SentKeys(ctx[c])
      BY <1>1, <3>1 DEF Sent, Sets, SentKeys
    <3>3. Even(ctx[c])
      BY <1>1, <3>1, <3>2, PublishesEven
    <3> QED BY <3>1, <3>3 DEF Sent, Even
  <2> QED BY <2>1, <2>2, NewMessage
<1>2. ASSUME NEW d \in Client, NEW k \in Key, k \notin uneven', ctx'[d] # None, ctx'[d].index = 2,
             Sets(ctx'[d], k)
      PROVE  Even(ctx'[d])
  <2>1. SameRequest(ctx[d], ctx'[d]) /\ ctx[d] # None /\ (ctx[d].index = 2 \/ Publishes(d))
    BY <1>2, NewPending DEF Sets
  <2>2. Sets(ctx[d], k) /\ k \in SentKeys(ctx[d])
    BY <1>2, <2>1 DEF SameRequest, Sets, Writing, SentKeys
  <2>3. Even(ctx[d])
    BY <1>0, <1>2, <2>1, <2>2, PublishesEven DEF Evenly
  <2> QED BY <2>1, <2>3 DEF SameRequest, Even
<1>3. ASSUME NEW n \in Node, NEW k \in Key, k \notin uneven' PROVE bytes'[n][k] = "given"
  <2>0. k \notin uneven /\ bytes[n][k] = "given"
    BY <1>0, <1>3 DEF Evenly
  <2>1. ASSUME NEW c \in Client, Runs1(c) PROVE bytes'[n][k] = "given"
    <3>1. /\ Home[c] \in Node /\ ctx[c] \in Ctx /\ ctx[c] # None /\ ctx[c].index = 2
          /\ Applies(Home[c], ctx[c], ctx[c].keys)
      BY <2>1, ProxyAssumption, NoneFacts DEF Runs1
    <3>2. ctx[c].id \in Id /\ ctx[c].keys \in SUBSET Key
      BY <3>1 DEF Ctx
    <3>3. \/ bytes'[n][k] = bytes[n][k]
          \/ k \in ctx[c].keys /\ Writing(ctx[c]) /\ (Even(ctx[c]) => bytes'[n][k] = "given")
      BY <3>1, <3>2, ApplyFacts
    <3> QED BY <2>0, <3>1, <3>3 DEF Evenly, Sets
  <2>2. ASSUME NEW a \in Node, NEW b \in Node, Hears(a, b) PROVE bytes'[n][k] = "given"
    <3> DEFINE q == Head(net[a][b])
    <3>1. q \in Msg /\ q = net[a][b][1] /\ 1 \in Occ(a, b)
      BY <2>2, HearFacts DEF Hears, Occ
    <3>2. Applies(b, q, q.keys)
      BY <2>2 DEF Hears
    <3> HIDE DEF q
    <3>3. q.id \in Id /\ q.keys \in SUBSET Key
      BY <3>1 DEF Msg
    <3>4. \/ bytes'[n][k] = bytes[n][k]
          \/ k \in q.keys /\ Writing(q) /\ (Even(q) => bytes'[n][k] = "given")
      BY <3>2, <3>3, ApplyFacts
    <3> QED BY <2>0, <3>1, <3>4 DEF Evenly, Sets
  <2>3. (\E c \in Client : Opens(c) \/ Ends(c) \/ Moves(c) \/ Passes(c) \/ Publishes(c))
          => UNCHANGED bytes
    BY DEF Opens, Ends, Moves, Passes, Publishes, Keeps
  <2>4. ~\E x \in Node : Crashes(x)
    BY DEF Crashes
  <2> QED BY <2>0, <2>1, <2>2, <2>3, <2>4 DEF Event, Keeps
<1> QED BY <1>1, <1>2, <1>3 DEF Evenly

(* A message that is queued, and one that is taken. *)
LEMMA DrainsAppend ==
    ASSUME NEW w \in Seq(Msg), NEW msg \in Msg, NEW k, NEW x, NEW v,
           \/ Sets(msg, k) /\ v = Effect(msg)
           \/ ~Sets(msg, k) /\ Drains(w, x, k, v)
    PROVE  Drains(Append(w, msg), x, k, v)
<1> DEFINE z == Append(w, msg)
<1>1. /\ Len(z) = Len(w) + 1 /\ Len(w) \in Nat /\ z[Len(w) + 1] = msg
      /\ \A p \in 1..Len(w) : z[p] = w[p]
  OBVIOUS
<1> HIDE DEF z
<1>2. \A p \in 1..Len(z) : p \in 1..Len(w) \/ p = Len(w) + 1
  BY <1>1
<1>3. CASE Sets(msg, k) /\ v = Effect(msg)
  <2>1. Len(w) + 1 \in 1..Len(z) /\ \A r \in 1..Len(z) : ~(r > Len(w) + 1)
    BY <1>1
  <2> QED BY <1>1, <1>3, <2>1 DEF Drains, z
<1>4. CASE ~Sets(msg, k) /\ Drains(w, x, k, v)
  <2>1. CASE v = x /\ \A p \in 1..Len(w) : ~Sets(w[p], k)
    <3>1. \A p \in 1..Len(z) : ~Sets(z[p], k)
      BY <1>1, <1>2, <1>4, <2>1
    <3> QED BY <2>1, <3>1 DEF Drains, z
  <2>2. CASE \E p \in 1..Len(w) : /\ Sets(w[p], k) /\ v = Effect(w[p])
                                 /\ \A r \in 1..Len(w) : r > p => ~Sets(w[r], k)
    <3>1. PICK p \in 1..Len(w) : /\ Sets(w[p], k) /\ v = Effect(w[p])
                                /\ \A r \in 1..Len(w) : r > p => ~Sets(w[r], k)
      BY <2>2
    <3>2. p \in 1..Len(z) /\ Sets(z[p], k) /\ v = Effect(z[p])
      BY <1>1, <3>1
    <3>3. \A r \in 1..Len(z) : r > p => ~Sets(z[r], k)
      BY <1>1, <1>2, <1>4, <3>1
    <3> QED BY <3>2, <3>3 DEF Drains, z
  <2> QED BY <1>4, <2>1, <2>2 DEF Drains
<1> QED BY <1>3, <1>4

LEMMA DrainsTail ==
    ASSUME NEW w \in Seq(Msg), w # <<>>, NEW k, NEW x, NEW y, NEW v, Drains(w, x, k, v),
           y = IF Sets(w[1], k) THEN Effect(w[1]) ELSE x
    PROVE  Drains(Tail(w), y, k, v)
<1> DEFINE z == Tail(w)
<1>1. /\ Len(z) = Len(w) - 1 /\ Len(w) \in Nat /\ Len(w) > 0
      /\ \A p \in 1..Len(z) : p + 1 \in 1..Len(w) /\ z[p] = w[p + 1]
  OBVIOUS
<1> HIDE DEF z
<1>2. CASE v = x /\ \A p \in 1..Len(w) : ~Sets(w[p], k)
  BY <1>1, <1>2 DEF Drains, z
<1>3. CASE \E p \in 1..Len(w) : /\ Sets(w[p], k) /\ v = Effect(w[p])
                               /\ \A r \in 1..Len(w) : r > p => ~Sets(w[r], k)
  <2>1. PICK p \in 1..Len(w) : /\ Sets(w[p], k) /\ v = Effect(w[p])
                              /\ \A r \in 1..Len(w) : r > p => ~Sets(w[r], k)
    BY <1>3
  <2>2. CASE p = 1
    <3>1. v = y
      BY <2>1, <2>2
    <3>2. ASSUME NEW r \in 1..Len(z) PROVE ~Sets(z[r], k)
      <4>1. r + 1 \in 1..Len(w) /\ r + 1 > p /\ z[r] = w[r + 1]
        BY <1>1, <2>2
      <4> QED BY <2>1, <4>1
    <3> QED BY <3>1, <3>2 DEF Drains, z
  <2>3. CASE p # 1
    <3>1. p - 1 \in 1..Len(z) /\ (p - 1) + 1 = p
      BY <1>1, <2>3
    <3>2. z[p - 1] = w[p]
      BY <1>1, <3>1
    <3>3. ASSUME NEW r \in 1..Len(z), r > p - 1 PROVE ~Sets(z[r], k)
      <4>1. r + 1 \in 1..Len(w) /\ r + 1 > p /\ z[r] = w[r + 1]
        BY <1>1, <3>3
      <4> QED BY <2>1, <4>1
    <3> QED BY <2>1, <3>1, <3>2, <3>3 DEF Drains, z
  <2> QED BY <2>2, <2>3
<1> QED BY <1>2, <1>3 DEF Drains

(* The steps of handlers that change no queue and no Redis. *)
LEMMA FinalKept ==
    ASSUME SyncTypes, Ok', NEW c \in Client, NEW d \in Client, NEW k \in Key, NEW x,
           Opens(d) \/ Ends(d) \/ Moves(d) \/ Passes(d)
    PROVE  Final(ctx'[c], x, k) = Final(ctx[c], x, k)
<1>1. CASE d # c
  <2>1. ctx'[c] = ctx[c]
    BY <1>1 DEF Opens, Ends, Moves, Passes, SyncTypes
  <2> QED BY <2>1
<1>2. CASE d = c
  <2>0. ASSUME NEW r \in Ctx \cup {None}, ctx' = [ctx EXCEPT ![d] = r] PROVE ctx'[c] = r
    BY <1>2, <2>0 DEF SyncTypes
  <2>1. CASE Opens(d)
    BY <1>2, <2>0, <2>1 DEF Opens, Final
  <2>2. CASE Ends(d)
    BY <1>2, <2>0, <2>2 DEF Ends, Final, Sets
  <2>3. CASE Moves(d)
    <3>1. PICK r \in Ctx : /\ ctx' = [ctx EXCEPT ![d] = r] /\ SameRequest(ctx[d], r)
                          /\ r.index = ctx[d].index
      BY <2>3 DEF Moves
    <3>2. ctx'[c] = r /\ r # None /\ ctx[c] # None
      BY <1>2, <2>0, <2>3, <3>1, NoneFacts DEF Moves
    <3>3. (Sets(ctx[c], k) <=> Sets(r, k)) /\ Effect(ctx[c]) = Effect(r)
      BY <1>2, <3>1, SameSets
    <3> QED BY <1>2, <3>1, <3>2, <3>3 DEF Final
  <2>4. CASE Passes(d)
    <3>1. PICK r \in Ctx : /\ ctx' = [ctx EXCEPT ![d] = r] /\ SameRequest(ctx[d], r)
      BY <2>4 DEF Passes
    <3>2. ctx'[c] = r /\ ctx[c].index = 1 /\ ~Writing(ctx[c])
      BY <1>2, <2>0, <2>4, <3>1 DEF Passes
    <3>3. ~Sets(r, k)
      BY <1>2, <3>1, <3>2 DEF Sets, Writing, SameRequest
    <3> QED BY <3>2, <3>3 DEF Final
  <2> QED BY <2>1, <2>2, <2>3, <2>4
<1> QED BY <1>1, <1>2

LEMMA ConvergingStep ==
    ASSUME SyncTypes, Known, Converging, Ok', Event, down = {}
    PROVE  Converging'
<1> SUFFICES ASSUME NEW k \in Key, k \notin uneven', NEW c \in Client, writers'[k] \subseteq {c},
                    NEW n \in Node, n # Home[c]
             PROVE  Drains(net'[Home[c]][n], value'[n][k], k, Final(ctx'[c], value'[Home[c]][k], k))
  BY DEF Converging
<1> DEFINE h == Home[c]
<1>00. writers[k] \subseteq {c} /\ k \in Key \ uneven
  <2>1. writers[k] \subseteq writers'[k] /\ uneven \subseteq uneven'
    BY WritersGrow
  <2> QED BY <2>1
<1>0. /\ h \in Node /\ n # h /\ writers[k] \subseteq {c}
      /\ net[h][n] \in Seq(Msg)
      /\ Drains(net[h][n], value[n][k], k, Final(ctx[c], value[h][k], k))
  <2>1. h \in Node /\ n \in Node \ {Home[c]} /\ net[h][n] \in Seq(Msg)
    BY ProxyAssumption DEF SyncTypes
  <2>2. Drains(net[h][n], value[n][k], k, Final(ctx[c], value[h][k], k))
    BY <1>00, <2>1, Zenon DEF Converging
  <2> QED BY <1>00, <2>1, <2>2
<1> HIDE DEF h
<1>1. ASSUME NEW d \in Client, Opens(d) \/ Ends(d) \/ Moves(d) \/ Passes(d)
      PROVE  Drains(net'[h][n], value'[n][k], k, Final(ctx'[c], value'[h][k], k))
  <2>1. UNCHANGED <<net, value>>
    BY <1>1 DEF Opens, Ends, Moves, Passes, Keeps
  <2> QED BY <1>0, <1>1, <2>1, FinalKept
<1>2. ASSUME NEW d \in Client, Publishes(d)
      PROVE  Drains(net'[h][n], value'[n][k], k, Final(ctx'[c], value'[h][k], k))
  <2>1. PICK msg \in Msg, T \in SUBSET Node :
        Sent(ctx[d], msg) /\ T = Node \ (down \cup {Home[d]}) /\ Puts(Home[d], T, msg)
    BY <1>2, PublishesNet
  <2>2. PICK r \in Ctx : /\ ctx' = [ctx EXCEPT ![d] = r] /\ SameRequest(ctx[d], r)
                        /\ r.index = 2 /\ ctx[d].index = 1
    BY <1>2 DEF Publishes
  <2>3. Sets(ctx[d], k) => d = c
    BY <1>2 DEF Publishes, Sets, SentKeys
  <2>4. (Sets(ctx[d], k) <=> Sets(msg, k)) /\ Effect(ctx[d]) = Effect(msg)
    <3>1. CASE k \in SentKeys(ctx[d])
      <4>1. {Utf8[j] : j \in ctx[d].keys} = ctx[d].keys
        BY <1>2, <3>1, PublishesEven
      <4> QED BY <2>1, <4>1 DEF Sent, Sets, Writing, Effect
    <3>2. CASE k \notin SentKeys(ctx[d])
      BY <2>1, <3>2 DEF Sent, SentKeys, Sets, Writing, Effect
    <3> QED BY <3>1, <3>2
  <2>5. (Sets(ctx[d], k) <=> Sets(r, k)) /\ Effect(ctx[d]) = Effect(r)
    BY <2>2, SameSets
  <2>6. CASE Sets(ctx[d], k)
    <3>1. d = c /\ ctx'[c] = r /\ r # None
      BY <2>2, <2>3, <2>6, NoneFacts DEF SyncTypes
    <3>2. net'[h][n] = Append(net[h][n], msg)
      BY <1>0, <2>1, <3>1 DEF h, Puts
    <3>3. Final(ctx'[c], value'[h][k], k) = Effect(msg)
      BY <2>2, <2>4, <2>5, <2>6, <3>1 DEF Final
    <3>4. Drains(Append(net[h][n], msg), value'[n][k], k, Effect(msg))
      BY <1>0, <2>4, <2>6, DrainsAppend
    <3> QED BY <3>2, <3>3, <3>4
  <2>7. CASE ~Sets(ctx[d], k)
    <3>1. Final(ctx'[c], value'[h][k], k) = Final(ctx[c], value[h][k], k)
      <4>1. ctx'[c] = IF d = c THEN r ELSE ctx[c]
        BY <2>2 DEF SyncTypes
      <4>2. value'[h][k] = value[h][k]
        BY <1>2 DEF Publishes
      <4> QED BY <2>2, <2>5, <2>7, <4>1, <4>2 DEF Final
    <3>2. value'[n][k] = value[n][k]
      BY <1>2 DEF Publishes
    <3>3. net'[h][n] = net[h][n] \/ net'[h][n] = Append(net[h][n], msg)
      BY <1>0, <2>1 DEF Puts
    <3>4. Drains(Append(net[h][n], msg), value[n][k], k, Final(ctx[c], value[h][k], k))
      BY <1>0, <2>4, <2>7, DrainsAppend
    <3> QED BY <1>0, <3>1, <3>2, <3>3, <3>4
  <2> QED BY <2>6, <2>7
<1>3. ASSUME NEW d \in Client, Runs1(d)
      PROVE  Drains(net'[h][n], value'[n][k], k, Final(ctx'[c], value'[h][k], k))
  <2>1. /\ Home[d] \in Node /\ ctx[d] \in Ctx /\ ctx[d] # None /\ ctx[d].index = 2
        /\ Applies(Home[d], ctx[d], ctx[d].keys)
        /\ UNCHANGED net /\ ctx' = [ctx EXCEPT ![d] = None]
    BY <1>3, ProxyAssumption, NoneFacts DEF Runs1
  <2>2. ctx[d].id \in Id /\ ctx[d].keys \in SUBSET Key
    BY <2>1 DEF Ctx
  <2>3. \A x \in Node : value'[x][k] = IF x = Home[d] /\ Sets(ctx[d], k)
                                       THEN Effect(ctx[d]) ELSE value[x][k]
    BY <2>1, <2>2, ApplyFacts DEF Sets
  <2>4. Sets(ctx[d], k) => d = c
    BY <1>0, <2>1 DEF Known
  <2>5. ctx'[c] = IF d = c THEN None ELSE ctx[c]
    BY <2>1 DEF SyncTypes
  <2>6. Final(ctx'[c], value'[h][k], k) = Final(ctx[c], value[h][k], k)
    BY <1>0, <2>1, <2>3, <2>4, <2>5 DEF Final, h
  <2>7. value'[n][k] = value[n][k]
    BY <1>0, <2>3, <2>4 DEF h
  <2> QED BY <1>0, <2>1, <2>6, <2>7
<1>4. ASSUME NEW a \in Node, NEW b \in Node, Hears(a, b)
      PROVE  Drains(net'[h][n], value'[n][k], k, Final(ctx'[c], value'[h][k], k))
  <2> DEFINE q == Head(net[a][b])
  <2>1. UNCHANGED ctx /\ net[a][b] # <<>> /\ Applies(b, q, q.keys)
    BY <1>4 DEF Hears
  <2>2. /\ \A x, y \in Node : net'[x][y] = IF x = a /\ y = b THEN Tail(net[x][y]) ELSE net[x][y]
        /\ q \in Msg /\ q = net[a][b][1] /\ 1 \in Occ(a, b)
    BY <1>4, HearFacts DEF Hears, Occ
  <2> HIDE DEF q
  <2>3. q.id \in Id /\ q.keys \in SUBSET Key
    BY <2>2 DEF Msg
  <2>4. \A x \in Node : value'[x][k] = IF x = b /\ Sets(q, k) THEN Effect(q) ELSE value[x][k]
    BY <2>1, <2>3, ApplyFacts DEF Sets
  <2>5. Sets(q, k) => a = h /\ b # h
    BY <1>0, <2>2 DEF Known, h
  <2>6. Final(ctx'[c], value'[h][k], k) = Final(ctx[c], value[h][k], k)
    BY <1>0, <2>1, <2>4, <2>5
  <2>7. CASE a = h /\ b = n
    <3>1. net'[h][n] = Tail(net[h][n]) /\ net[h][n] # <<>> /\ q = net[h][n][1]
      BY <1>0, <2>1, <2>2, <2>7
    <3>2. value'[n][k] = IF Sets(net[h][n][1], k) THEN Effect(net[h][n][1]) ELSE value[n][k]
      BY <2>4, <2>7, <3>1
    <3>3. Drains(Tail(net[h][n]), value'[n][k], k, Final(ctx[c], value[h][k], k))
      BY <1>0, <3>1, <3>2, DrainsTail
    <3> QED BY <2>6, <3>1, <3>3
  <2>8. CASE ~(a = h /\ b = n)
    <3>1. net'[h][n] = net[h][n] /\ value'[n][k] = value[n][k]
      BY <1>0, <2>2, <2>4, <2>5, <2>8
    <3> QED BY <1>0, <2>6, <3>1
  <2> QED BY <2>7, <2>8
<1>5. ASSUME Keeps, UNCHANGED <<ctx, ops>>
      PROVE  Drains(net'[h][n], value'[n][k], k, Final(ctx'[c], value'[h][k], k))
  BY <1>0, <1>5 DEF Keeps
<1>6. ~\E x \in Node : Crashes(x)
  BY DEF Crashes
<1> QED BY <1>1, <1>2, <1>3, <1>4, <1>5, <1>6 DEF Event, h

-----------------------------------------------------------------------------
(* The rest of a step: connections, errors and the topic. *)

TopicTypes ==
    /\ kind \in {"node", "cluster", "pubsub"} /\ open \in SUBSET Client
    /\ stuck \in SUBSET Node /\ down \in SUBSET Node
    /\ topic \in SUBSET Node /\ psub \in SUBSET Node /\ join \in SUBSET Node
    /\ made \in SUBSET Node /\ evicted \in SUBSET Client
    /\ writer \in [Node -> SUBSET Client]
    /\ tnet \in [Node -> [Node -> Seq(Id)]] /\ got \in [Client -> Seq(Id)]
    /\ faults \in Nat /\ subscribed \in SUBSET Client /\ audience \in [Id -> SUBSET Client]

\* What a client's request can become in a step.
Follows(d) ==
    ctx'[d] # None =>
      \/ /\ ctx[d] # None /\ ctx'[d].id = ctx[d].id
         /\ \/ ctx'[d].at \in {ctx[d].at, "join"}
            \/ ctx'[d].at = "use" /\ Home[d] \in join
            \/ ctx'[d].at = "store" /\ Home[d] \in psub'
            \/ ctx'[d].at = "use" /\ ctx[d].at = "store" /\ Home[d] \in join'
            \/ ctx'[d].at \in {"make", "enter"} /\ ctx[d].at \in {"use", "make"}
      \/ ctx'[d].at = "check" /\ ctx'[d].id = ops + 1 /\ ops' = ops + 1

\* What every step leaves of the rest of the state.
Frame ==
    /\ UNCHANGED kind /\ open' \subseteq open /\ ops <= ops'
    /\ stuck' \in SUBSET Node /\ down' \in SUBSET Node
    /\ faults' \in {faults, faults + 1}
    /\ faults' = faults => UNCHANGED <<stuck, down>>
    /\ topic' \subseteq Node /\ made' \subseteq Node
    /\ psub \subseteq psub' /\ psub' \subseteq Node
    /\ join \subseteq join' /\ join' \subseteq Node
    /\ \A n \in join' \ join :
          \E c \in Client : ctx[c] # None /\ ctx[c].at = "store" /\ Home[c] = n
    /\ \A d \in Client : Follows(d)

Still == UNCHANGED <<writer, tnet, got, subscribed, evicted, audience, down>>

\* The message is handed to libp2p, which drops it for some proxies.
PubsBut(c, drop) ==
    /\ tnet' = [tnet EXCEPT ![Home[c]] = [m \in Node |->
                  IF m \in psub \ (down \cup drop) THEN Append(@[m], ctx[c].id) ELSE @[m]]]
    /\ audience' = [audience EXCEPT ![ctx[c].id] = {d \in subscribed : Home[d] \notin drop}]

Pubs(c) ==
    /\ UNCHANGED <<writer, got, subscribed, evicted, down>> /\ ctx[c] \in Ctx
    /\ ctx' = [ctx EXCEPT ![c] = None]
    /\ \E drop \in SUBSET psub : PubsBut(c, drop)

Makes(c) ==
    /\ UNCHANGED <<tnet, got, subscribed, audience, down>>
    /\ writer' = [writer EXCEPT ![Home[c]] = {}]
    /\ evicted' = evicted \cup writer[Home[c]]

Subs(c) ==
    /\ UNCHANGED <<tnet, got, evicted, audience, down>> /\ ctx[c] \in Ctx /\ ctx[c].at = "enter"
    /\ writer' = [writer EXCEPT ![Home[c]] = @ \cup {c}]
    /\ subscribed' = subscribed \cup {c}

Writes1(m, n) ==
    /\ UNCHANGED <<writer, subscribed, evicted, audience, down, ctx, open>> /\ tnet[m][n] # <<>>
    /\ tnet' = [tnet EXCEPT ![m][n] = Tail(@)]
    /\ got' = [c \in Client |-> IF c \in writer[n] \cap open
                                THEN Append(got[c], Head(tnet[m][n])) ELSE got[c]]

Dies(n) ==
    /\ UNCHANGED <<writer, got, subscribed, evicted, audience>> /\ n \in down'
    /\ tnet' = [m \in Node |-> [tnet[m] EXCEPT ![n] = <<>>]]

TopicEvent ==
    \/ Still
    \/ \E c \in Client : Pubs(c) \/ Makes(c) \/ Subs(c)
    \/ \E m, n \in Node : Writes1(m, n)
    \/ \E n \in Node : Dies(n)

(* A request that one handler changed to r. *)
LEMMA FollowsOne ==
    ASSUME ctx \in [Client -> Ctx \cup {None}], NEW c \in Client, NEW r \in Ctx \cup {None},
           ctx' = [ctx EXCEPT ![c] = r],
           r # None =>
             \/ /\ ctx[c] # None /\ r.id = ctx[c].id
                /\ \/ r.at \in {ctx[c].at, "join"}
                   \/ r.at = "use" /\ Home[c] \in join
                   \/ r.at = "store" /\ Home[c] \in psub'
                   \/ r.at = "use" /\ ctx[c].at = "store" /\ Home[c] \in join'
                   \/ r.at \in {"make", "enter"} /\ ctx[c].at \in {"use", "make"}
             \/ r.at = "check" /\ r.id = ops + 1 /\ ops' = ops + 1
    PROVE  \A d \in Client : Follows(d)
<1>1. ASSUME NEW d \in Client, d # c PROVE Follows(d)
  BY <1>1 DEF Follows
<1>2. ctx'[c] = r
  OBVIOUS
<1>3. Follows(c)
  BY <1>2 DEF Follows
<1> QED BY <1>1, <1>3

(* A client's request. *)
LEMMA RequestFrame ==
    ASSUME Types, NEW c \in Client, Request(c)
    PROVE  Frame /\ Still
<1>1. /\ UNCHANGED <<kind, sync, down, store, faults>> /\ ops' = ops + 1
      /\ open' \in {open, open \ {c}}
  BY DEF Request, CloseOnError
<1>2. \A d \in Client : Follows(d)
  <2>1. CASE Opens(c)
    BY <2>1, FollowsOne DEF Opens, Types
  <2>2. CASE Ends(c)
    BY <2>2, FollowsOne DEF Ends, Types
  <2> QED BY <2>1, <2>2, RequestEvent
<1> QED BY <1>1, <1>2 DEF Frame, Still, sync, store, maps, Types

(* PubSubMiddleware. *)
LEMMA MiddlewareFrame ==
    ASSUME Types, NEW c \in Client, PubSubMiddleware(c)
    PROVE  Frame /\ Still
<1>1. ctx[c] # None /\ ctx[c] \in Ctx /\ Current(ctx[c]) = "PubSub"
  BY Zenon DEF PubSubMiddleware, Types
<1>2. ctx' = [ctx EXCEPT ![c] = Advance(ctx[c])] /\ UNCHANGED <<kind, open, down, store, ops>>
  BY Zenon DEF PubSubMiddleware
<1>3. ctx[c].index = 1
  BY <1>1, ChainFacts
<1>4. ctx[c] \in [cmd : STRING, keys : SUBSET Key, raw : BOOLEAN, id : Id, index : 0..2, at : Where]
  BY <1>1 DEF Ctx
<1>5. Advance(ctx[c]) \in Ctx /\ Advance(ctx[c]).id = ctx[c].id /\ Advance(ctx[c]).at = ctx[c].at
  BY <1>3, <1>4, AdvanceFacts DEF SameRequest
<1>6. \A d \in Client : Follows(d)
  BY <1>1, <1>2, <1>5, FollowsOne DEF Types
<1>7. \/ UNCHANGED stuck /\ (faults' = faults \/ faults' = faults + 1)
      \/ faults' = faults + 1 /\ stuck' = stuck \cup {Home[c]}
  BY Zenon DEF PubSubMiddleware, sync, Drops, Fault
<1>8. Home[c] \in Node
  BY ProxyAssumption
<1> QED BY <1>2, <1>6, <1>7, <1>8 DEF Frame, Still, store, maps, Types

(* The other handlers. *)
LEMMA HandlerFrame ==
    ASSUME Types, NEW c \in Client,
           \/ NodeCMDEXEC(c) \/ ClusterCMDEXEC(c) \/ ClusterDEL(c) \/ ClusterRead(c) \/ Reply(c)
    PROVE  Frame /\ Still
<1>1. UNCHANGED <<kind, stuck, down, store, ops>>
  BY Zenon DEF NodeCMDEXEC, ClusterCMDEXEC, ClusterDEL, ClusterRead, Reply, OfRedis
<1>2. ctx' = [ctx EXCEPT ![c] = None]
  BY HandlerEvent DEF Ends, Runs1
<1>3. \A d \in Client : Follows(d)
  BY <1>2, FollowsOne DEF Types
<1>4. open' = open \/ open' = open \ {c}
  BY Zenon DEF NodeCMDEXEC, ClusterCMDEXEC, ClusterDEL, ClusterRead, Reply, PutFails, CloseOnError,
               Executes
<1>5. faults' = faults \/ faults' = faults + 1
  BY Zenon DEF NodeCMDEXEC, ClusterCMDEXEC, ClusterDEL, ClusterRead, Reply, PutFails, Executes, Fault
<1> QED BY <1>1, <1>3, <1>4, <1>5 DEF Frame, Still, store, maps, Types

(* Moving inside PUBLISH and SUBSCRIBE. *)
LEMMA GotoFollows ==
    ASSUME ctx \in [Client -> Ctx \cup {None}], NEW c \in Client, ctx[c] # None,
           NEW at \in Where, Goto(c, at),
           \/ at = "join"
           \/ at = "use" /\ Home[c] \in join
           \/ at = "store" /\ Home[c] \in psub'
           \/ at = "use" /\ ctx[c].at = "store" /\ Home[c] \in join'
           \/ at \in {"make", "enter"} /\ ctx[c].at \in {"use", "make"}
    PROVE  \A d \in Client : Follows(d)
<1>0. ctx[c] \in Ctx
  OBVIOUS
<1>1. PICK r \in Ctx : /\ ctx' = [ctx EXCEPT ![c] = r] /\ SameRequest(ctx[c], r)
                      /\ r.at = at
  BY <1>0, GotoFacts
<1>2. r.id = ctx[c].id
  BY <1>1 DEF SameRequest
<1> QED BY <1>0, <1>1, <1>2, FollowsOne

(* Looking the topic up, joining and entering it. *)
LEMMA StoreFrame ==
    ASSUME Types, NEW c \in Client, Check(c) \/ Join(c) \/ Store(c)
    PROVE  Frame /\ Still
<1>0. /\ ctx[c] # None /\ ctx[c] \in Ctx /\ Home[c] \in Node
      /\ UNCHANGED <<kind, sync, down, made, writer, tnet, got, subscribed, evicted, audience, ops>>
  BY ProxyAssumption, Zenon DEF Check, Join, Store, InStore, store, maps, bounds, Types
<1>1. CASE Check(c)
  <2>1. UNCHANGED <<open, topic, psub, join, faults>>
    BY <1>1 DEF Check, store, maps, bounds
  <2>2. \A d \in Client : Follows(d)
    <3>1. Goto(c, IF Home[c] \in join THEN "use" ELSE "join")
      BY <1>1 DEF Check
    <3> QED BY <1>0, <3>1, GotoFollows DEF Where, Types
  <2> QED BY <1>0, <2>1, <2>2 DEF Frame, Still, sync, Types
<1>2. CASE Join(c)
  <2>1. UNCHANGED join
    BY <1>2 DEF Join
  <2>2. CASE /\ psub' = psub /\ open' = open \ {c} /\ ctx' = [ctx EXCEPT ![c] = None]
             /\ topic' \subseteq topic \cup {Home[c]} /\ faults' \in {faults, faults + 1}
    <3>1. \A d \in Client : Follows(d)
      BY <2>2, FollowsOne DEF Types
    <3>2. topic' \subseteq Node
      BY <1>0, <2>2 DEF Types
    <3> QED BY <1>0, <2>1, <2>2, <3>1, <3>2 DEF Frame, Still, sync, Types
  <2>3. CASE /\ topic' = topic \cup {Home[c]} /\ psub' = psub \cup {Home[c]}
             /\ Goto(c, "store") /\ UNCHANGED <<open, faults>>
    <3>1. \A d \in Client : Follows(d)
      BY <1>0, <2>3, GotoFollows DEF Where, Types
    <3>2. topic' \subseteq Node /\ psub' \subseteq Node /\ psub \subseteq psub'
      BY <1>0, <2>3 DEF Types
    <3> QED BY <1>0, <2>1, <2>3, <3>1, <3>2 DEF Frame, Still, sync, Types
  <2> QED BY <1>2, <2>2, <2>3 DEF Join, CloseOnError, Fault
<1>3. CASE Store(c)
  <2>1. /\ join' = join \cup {Home[c]} /\ Goto(c, "use") /\ UNCHANGED <<topic, psub, open, faults>>
        /\ ctx[c].at = "store"
    BY <1>3 DEF Store, InStore, bounds
  <2>2. \A d \in Client : Follows(d)
    BY <1>0, <2>1, GotoFollows DEF Where, Types
  <2>3. /\ join' \subseteq Node /\ join \subseteq join'
        /\ \A n \in join' \ join :
              \E d \in Client : ctx[d] # None /\ ctx[d].at = "store" /\ Home[d] = n
    BY <1>0, <2>1 DEF Types
  <2> QED BY <1>0, <2>1, <2>2, <2>3 DEF Frame, Still, sync, Types
<1> QED BY <1>1, <1>2, <1>3

(* SUBSCRIBE looks for the map of writers and makes it. *)
LEMMA MapFrame ==
    ASSUME Types, NEW c \in Client, Find(c) \/ Make(c)
    PROVE  Frame /\ (Still \/ Makes(c))
<1>0. /\ ctx[c] # None /\ ctx[c].at \in {"use", "make"} /\ Home[c] \in Node
      /\ UNCHANGED <<kind, open, sync, down, topic, psub, join, tnet, got, subscribed, audience,
                     bounds>>
  BY ProxyAssumption, Zenon DEF Find, Make, InStore, store, maps
<1>1. \A d \in Client : Follows(d)
  <2>1. PICK at \in {"make", "enter"} : Goto(c, at)
    BY Zenon DEF Find, Make
  <2> QED BY <1>0, <2>1, GotoFollows DEF Where, Types
<1>2. made' \subseteq Node
  <2>1. made' = made \/ made' = made \cup {Home[c]}
    BY Zenon DEF Find, Make, store, maps
  <2> QED BY <1>0, <2>1 DEF Types
<1>3. Frame
  BY <1>0, <1>1, <1>2 DEF Frame, Types, sync, bounds
<1>4. Still \/ Makes(c)
  BY <1>0, Zenon DEF Find, Make, store, maps, Still, Makes
<1> QED BY <1>3, <1>4

(* Pub and Sub. *)
LEMMA UseFrame ==
    ASSUME Types, NEW c \in Client, Pub(c) \/ Sub(c)
    PROVE  Frame /\ (Still \/ Pubs(c) \/ Subs(c))
<1>0. /\ ctx[c] # None /\ ctx[c] \in Ctx /\ Home[c] \in Node
      /\ Current(ctx[c]) \in {"PUBLISH", "SUBSCRIBE"}
      /\ UNCHANGED <<kind, open, down, topic, psub, join, made, got, evicted, ops>>
  BY ProxyAssumption, Zenon DEF Pub, Sub, InStore, bounds, maps, Types
<1>1. Next1(ctx[c]) = None
  BY <1>0, LastHandler
<1>2. ctx' = [ctx EXCEPT ![c] = None]
  BY <1>1, Zenon DEF Pub, Sub
<1>3. \A d \in Client : Follows(d)
  BY <1>2, FollowsOne DEF Types
<1>4. CASE Pub(c)
  <2>1. UNCHANGED <<writer, subscribed>>
    BY <1>4, Zenon DEF Pub, maps
  <2>2. \/ /\ \E drop \in SUBSET psub : PubsBut(c, drop)
           /\ UNCHANGED stuck /\ (faults' = faults \/ faults' = faults + 1)
        \/ /\ faults' = faults + 1 /\ stuck' = stuck \cup {Home[c]}
           /\ UNCHANGED <<tnet, audience>>
    BY <1>4, Zenon DEF Pub, PubsBut, Drops, Fault
  <2>3. Frame
    <3>1. \/ UNCHANGED stuck /\ (faults' = faults \/ faults' = faults + 1)
          \/ faults' = faults + 1 /\ stuck' = stuck \cup {Home[c]}
      BY <2>2, Zenon
    <3>2. stuck' \in SUBSET Node
      BY <1>0, <3>1 DEF Types
    <3> QED BY <1>0, <1>3, <3>1, <3>2 DEF Frame, Types
  <2>4. Still \/ Pubs(c)
    BY <1>0, <1>2, <2>1, <2>2, Zenon DEF Still, Pubs
  <2> QED BY <2>3, <2>4
<1>5. CASE Sub(c)
  <2>1. /\ writer' = [writer EXCEPT ![Home[c]] = Writers(Home[c], c)]
        /\ subscribed' = subscribed \cup {c} /\ UNCHANGED <<sync, tnet, audience, bounds>>
        /\ ctx[c].at = "enter"
    BY <1>5, Zenon DEF Sub, InStore
  <2>2. Frame
    BY <1>0, <1>3, <2>1 DEF Frame, Types, sync, bounds
  <2>3. Subs(c)
    BY <1>0, <2>1 DEF Subs, Writers
  <2> QED BY <2>2, <2>3
<1> QED BY <1>4, <1>5

(* A command that is heard is not PUBLISH. *)
LEMMA HeardNotPublish ==
    ASSUME kind \in {"node", "cluster", "pubsub"}, NEW q \in Msg, Syncs(q.cmd)
    PROVE  "PUBLISH" \notin SyncRuns(q)
<1>1. CASE kind = "node"
  BY <1>1, SyncedHandler
<1>2. CASE kind = "pubsub"
  <2>1. q.cmd # "PUBLISH"
    BY <1>2 DEF Syncs
  <2>2. Last(Handlers(q.cmd)) # "PUBLISH"
    BY <2>1 DEF Handlers, Last
  <2>3. SyncRuns(q) = NodeSync(q)
    BY <1>2, Zenon DEF SyncRuns
  <2> QED BY <2>2, <2>3, Zenon DEF NodeSync
<1>3. CASE kind = "cluster"
  <2> DEFINE j == Len(Handlers(q.cmd)) - 1
             r == [q EXCEPT !.index = j]
  <2>1. j = 2 /\ Len(Handlers(q.cmd)) = 3
    BY DEF Handlers
  <2> HIDE DEF j
  <2>2. r \in [cmd : STRING, keys : SUBSET Key, raw : BOOLEAN, id : Id, index : {2}, at : Where]
    BY <2>1, Zenon DEF Msg
  <2>3. r.cmd = q.cmd
    BY Zenon DEF Msg
  <2>4. r.index = 2
    BY <2>1, Zenon DEF Msg
  <2> HIDE DEF r
  <2> DEFINE i == r.index + 1
  <2>5. i = 3
    BY <2>4
  <2> HIDE DEF i
  <2>6. [r EXCEPT !.index = i].index = i
    BY <2>2, Zenon
  <2>7. [r EXCEPT !.index = i].cmd = r.cmd
    BY <2>2, Zenon
  <2>8. Advance(r) = [r EXCEPT !.index = i]
    BY Zenon DEF Advance, i
  <2>9. Advance(r).index = 3 /\ Advance(r).cmd = q.cmd
    BY <2>3, <2>5, <2>6, <2>7, <2>8, Zenon
  <2>10. ~Runs(Advance(r))
    <3>1. Len(Handlers(Advance(r).cmd)) = 3
      BY <2>1, <2>9, Zenon
    <3> QED BY <2>9, <3>1 DEF Runs
  <2>11. SyncRuns(q) = ClusterSync(q)
    BY <1>3, Zenon DEF SyncRuns
  <2>12. ClusterSync(q) = {}
    BY <2>10, Zenon DEF ClusterSync, r, j
  <2> QED BY <2>11, <2>12
<1> QED BY <1>1, <1>2, <1>3

LEMMA SyncFrame ==
    ASSUME Types, NetSyncs, NEW n \in Node, Sync(n)
    PROVE  Frame /\ Still
<1>1. /\ UNCHANGED <<kind, open, ctx, stuck, down, topic, psub, join, made, writer, got, subscribed,
                     evicted, audience, ops>>
      /\ faults' = faults \/ faults' = faults + 1
  BY Zenon DEF Sync, maps, Fault
<1>2. \A d \in Client : Follows(d)
  BY <1>1 DEF Follows
<1>3. UNCHANGED tnet
  <2>1. PICK m \in Node :
          /\ net[m][n] # <<>>
          /\ "PUBLISH" \notin SyncRuns(Head(net[m][n])) => UNCHANGED tnet
    BY Zenon DEF Sync
  <2>2. net[m][n] \in Seq(Msg)
    BY DEF Types
  <2>3. Head(net[m][n]) = net[m][n][1] /\ 1 \in 1..Len(net[m][n]) /\ Head(net[m][n]) \in Msg
    BY <2>1, <2>2
  <2>4. Syncs(Head(net[m][n]).cmd)
    BY <2>3 DEF NetSyncs
  <2> QED BY <2>1, <2>3, <2>4, HeardNotPublish DEF Types
<1> QED BY <1>1, <1>2, <1>3 DEF Frame, Still, Types

(* Writer and MapRace. *)
LEMMA ProxyFrame ==
    ASSUME Types, NEW n \in Node, Writer(n) \/ MapRace(n)
    PROVE  Frame /\ (Dies(n) \/ \E m \in Node : Writes1(m, n))
<1>1. CASE Writer(n)
  <2>1. UNCHANGED <<kind, open, ctx, sync, down, topic, psub, join, made, writer, subscribed, evicted,
                    audience, bounds>>
    BY <1>1 DEF Writer, maps
  <2>2. \A d \in Client : Follows(d)
    BY <2>1 DEF Follows
  <2>3. Frame
    BY <2>1, <2>2 DEF Frame, sync, bounds, Types
  <2>4. \E m \in Node : Writes1(m, n)
    BY <1>1, <2>1 DEF Writer, Writes1
  <2> QED BY <2>3, <2>4
<1>2. CASE MapRace(n)
  <2>1. /\ UNCHANGED <<kind, stuck, topic, psub, join, made, writer, got, subscribed, evicted,
                       audience, ops>>
        /\ faults' = faults + 1 /\ down' = down \cup {n} /\ open' \subseteq open
        /\ ctx' = [c \in Client |-> IF Home[c] = n THEN None ELSE ctx[c]]
    BY <1>2 DEF MapRace, Fault, maps
  <2>2. \A d \in Client : Follows(d)
    BY <2>1 DEF Follows
  <2>3. Frame
    BY <2>1, <2>2 DEF Frame, Types
  <2>4. Dies(n)
    BY <1>2, <2>1 DEF MapRace, Dies
  <2> QED BY <2>3, <2>4
<1> QED BY <1>1, <1>2

(* Every step keeps the frame and is one of the topic's events. *)
LEMMA StepFrame ==
    ASSUME Types, NetSyncs, [Next]_vars
    PROVE  Frame /\ TopicEvent
<1>1. ASSUME NEW c \in Client, Request(c) \/ Step(c) PROVE Frame /\ TopicEvent
  BY <1>1, RequestFrame, MiddlewareFrame, HandlerFrame, StoreFrame, MapFrame, UseFrame DEF Step, TopicEvent
<1>2. ASSUME NEW n \in Node, Sync(n) \/ Writer(n) \/ MapRace(n) PROVE Frame /\ TopicEvent
  BY <1>2, SyncFrame, ProxyFrame DEF TopicEvent
<1>3. CASE UNCHANGED vars
  <2>1. \A d \in Client : Follows(d)
    BY <1>3 DEF vars, Follows
  <2> QED BY <1>3, <2>1 DEF vars, sync, store, maps, bounds, Frame, Still, TopicEvent, Types
<1> QED BY <1>1, <1>2, <1>3 DEF Next

-----------------------------------------------------------------------------
(* The queues of the topic, w, and what the clients got, g. *)

InTopic(w, n, i) == \E m \in Node : \E p \in 1..Len(w[m][n]) : w[m][n][p] = i
InGot(g, c, i) == \E p \in 1..Len(g[c]) : g[c][p] = i

Unique(w) ==
    \A n, a, b \in Node : \A p \in 1..Len(w[a][n]), r \in 1..Len(w[b][n]) :
      w[a][n][p] = w[b][n][r] => a = b /\ p = r

\* The queues after a message was put, and after the first one was taken.
AfterPut(S, w, z, T, i) ==
    /\ Unique(z)
    /\ \A n \in Node, j \in S : InTopic(w, n, j) => InTopic(z, n, j)
    /\ \A n \in Node, j \in S : InTopic(z, n, j) => InTopic(w, n, j) \/ j = i
    /\ \A n \in T \cap Node : InTopic(z, n, i)

AfterTake(S, w, z, m, n) ==
    /\ Unique(z)
    /\ w[m][n][1] \in S /\ InTopic(w, n, w[m][n][1]) /\ ~InTopic(z, n, w[m][n][1])
    /\ Head(w[m][n]) = w[m][n][1]
    /\ \A x \in Node, j \in S : InTopic(z, x, j) => InTopic(w, x, j)
    /\ \A x \in Node, j \in S :
          InTopic(w, x, j) /\ ~(x = n /\ j = w[m][n][1]) => InTopic(z, x, j)

(* A message that was in no queue is put. *)
LEMMA PutTopic ==
    ASSUME NEW S, NEW w, NEW z, NEW h \in Node, NEW T, NEW i \in S, Put(S, w, z, h, T, i),
           Unique(w), \A n \in Node : ~InTopic(w, n, i)
    PROVE  AfterPut(S, w, z, T, i)
<1>1. ASSUME NEW a \in Node, NEW b \in Node PROVE IsPut(w, z, h, T, i, a, b)
  BY PutOcc
<1>2. ASSUME NEW a \in Node, NEW b \in Node, NEW p \in 1..Len(z[a][b])
      PROVE  \/ p \in 1..Len(w[a][b]) /\ z[a][b][p] = w[a][b][p]
             \/ /\ a = h /\ p = Len(w[a][b]) + 1 /\ z[a][b][p] = i
  BY <1>1 DEF IsPut
<1>3. Unique(z)
  <2> SUFFICES ASSUME NEW n \in Node, NEW a \in Node, NEW b \in Node,
                      NEW p \in 1..Len(z[a][n]), NEW r \in 1..Len(z[b][n]),
                      z[a][n][p] = z[b][n][r]
               PROVE  a = b /\ p = r
    BY DEF Unique
  <2>1. \/ p \in 1..Len(w[a][n]) /\ z[a][n][p] = w[a][n][p]
        \/ /\ a = h /\ p = Len(w[a][n]) + 1 /\ z[a][n][p] = i
    BY <1>2
  <2>2. \/ r \in 1..Len(w[b][n]) /\ z[b][n][r] = w[b][n][r]
        \/ /\ b = h /\ r = Len(w[b][n]) + 1 /\ z[b][n][r] = i
    BY <1>2
  <2>3. \A x \in Node : \A t \in 1..Len(w[x][n]) : w[x][n][t] # i
    BY DEF InTopic
  <2> QED BY <2>1, <2>2, <2>3, SMTT(60) DEF Unique
<1>4. ASSUME NEW n \in Node, NEW j \in S, InTopic(w, n, j) PROVE InTopic(z, n, j)
  <2>1. PICK m \in Node : \E p \in 1..Len(w[m][n]) : w[m][n][p] = j
    BY <1>4 DEF InTopic
  <2>2. PICK p \in 1..Len(w[m][n]) : w[m][n][p] = j
    BY <2>1
  <2>3. p \in 1..Len(z[m][n]) /\ z[m][n][p] = j
    BY <1>1, <2>2 DEF IsPut
  <2> QED BY <2>3 DEF InTopic
<1>5. ASSUME NEW n \in Node, NEW j \in S, InTopic(z, n, j) PROVE InTopic(w, n, j) \/ j = i
  <2>1. PICK m \in Node : \E p \in 1..Len(z[m][n]) : z[m][n][p] = j
    BY <1>5 DEF InTopic
  <2>2. PICK p \in 1..Len(z[m][n]) : z[m][n][p] = j
    BY <2>1
  <2> QED BY <1>2, <2>2 DEF InTopic
<1>6. ASSUME NEW n \in T \cap Node PROVE InTopic(z, n, i)
  <2>1. Len(w[h][n]) + 1 \in 1..Len(z[h][n]) /\ z[h][n][Len(w[h][n]) + 1] = i
    BY <1>1 DEF IsPut
  <2> QED BY <2>1 DEF InTopic
<1> QED BY <1>3, <1>4, <1>5, <1>6 DEF AfterPut

(* The first message from m to n is taken. *)
LEMMA TakeTopic ==
    ASSUME NEW S, NEW w, NEW z, NEW m \in Node, NEW n \in Node, Take(S, w, z, m, n), Unique(w)
    PROVE  AfterTake(S, w, z, m, n)
<1>0. \A x, y \in Node : w[x][y] \in Seq(S) /\ Len(w[x][y]) \in Nat
  BY DEF Take
<1>1. ASSUME NEW a \in Node, NEW b \in Node PROVE IsTaken(w, z, m, n, a, b)
  BY TakeOcc
<1>2. ASSUME NEW a \in Node, NEW b \in Node, NEW p \in 1..Len(z[a][b])
      PROVE  /\ p + Shift(m, n, a, b) \in 1..Len(w[a][b])
             /\ z[a][b][p] = w[a][b][p + Shift(m, n, a, b)]
  BY <1>1 DEF IsTaken
<1>3. \A a, b \in Node : Shift(m, n, a, b) \in {0, 1}
  BY DEF Shift
<1>4. Unique(z)
  <2> SUFFICES ASSUME NEW x \in Node, NEW a \in Node, NEW b \in Node,
                      NEW p \in 1..Len(z[a][x]), NEW r \in 1..Len(z[b][x]),
                      z[a][x][p] = z[b][x][r]
               PROVE  a = b /\ p = r
    BY DEF Unique
  <2> DEFINE u == p + Shift(m, n, a, x)  v == r + Shift(m, n, b, x)
  <2>1. u \in 1..Len(w[a][x]) /\ v \in 1..Len(w[b][x]) /\ w[a][x][u] = w[b][x][v]
    BY <1>2
  <2> HIDE DEF u, v
  <2>2. a = b /\ u = v
    BY <2>1 DEF Unique
  <2>3. p \in Int /\ r \in Int
    OBVIOUS
  <2> QED BY <1>3, <2>2, <2>3 DEF u, v
<1>5. w[m][n][1] \in S /\ 1 \in 1..Len(w[m][n]) /\ Head(w[m][n]) = w[m][n][1]
  <2>1. w[m][n] \in Seq(S) /\ w[m][n] # <<>>
    BY DEF Take
  <2> QED BY <2>1
<1>6. InTopic(w, n, w[m][n][1])
  BY <1>5 DEF InTopic
<1>7. ASSUME InTopic(z, n, w[m][n][1]) PROVE FALSE
  <2>1. PICK a \in Node : \E p \in 1..Len(z[a][n]) : z[a][n][p] = w[m][n][1]
    BY <1>7 DEF InTopic
  <2>2. PICK p \in 1..Len(z[a][n]) : z[a][n][p] = w[m][n][1]
    BY <2>1
  <2> DEFINE u == p + Shift(m, n, a, n)
  <2>3. u \in 1..Len(w[a][n]) /\ w[a][n][u] = w[m][n][1]
    BY <1>2, <2>2
  <2> HIDE DEF u
  <2>4. a = m /\ u = 1
    BY <1>5, <2>3 DEF Unique
  <2>5. Shift(m, n, a, n) = 1 /\ p \in Int /\ p >= 1
    BY <2>4 DEF Shift
  <2> QED BY <2>4, <2>5 DEF u
<1>8. ASSUME NEW x \in Node, NEW j \in S, InTopic(z, x, j) PROVE InTopic(w, x, j)
  <2>1. PICK a \in Node : \E p \in 1..Len(z[a][x]) : z[a][x][p] = j
    BY <1>8 DEF InTopic
  <2>2. PICK p \in 1..Len(z[a][x]) : z[a][x][p] = j
    BY <2>1
  <2> DEFINE u == p + Shift(m, n, a, x)
  <2>3. u \in 1..Len(w[a][x]) /\ w[a][x][u] = j
    BY <1>2, <2>2
  <2> HIDE DEF u
  <2> QED BY <2>3 DEF InTopic
<1>9. ASSUME NEW x \in Node, NEW j \in S, InTopic(w, x, j), ~(x = n /\ j = w[m][n][1])
      PROVE  InTopic(z, x, j)
  <2>1. PICK a \in Node : \E p \in 1..Len(w[a][x]) : w[a][x][p] = j
    BY <1>9 DEF InTopic
  <2>2. PICK p \in 1..Len(w[a][x]) : w[a][x][p] = j
    BY <2>1
  <2> DEFINE u == p - Shift(m, n, a, x)
  <2>3. \/ a = m /\ x = n /\ p = 1
        \/ u \in 1..Len(z[a][x]) /\ z[a][x][u] = w[a][x][p]
    BY <1>1 DEF IsTaken
  <2> HIDE DEF u
  <2> QED BY <1>9, <2>2, <2>3 DEF InTopic
<1> QED BY <1>4, <1>5, <1>6, <1>7, <1>8, <1>9 DEF AfterTake

-----------------------------------------------------------------------------
(* A message reaches every subscriber, and once. *)

\* A message that is on its way to a proxy was written to no client of it.
TopicFresh ==
    \A n \in Node, i \in Id : InTopic(tnet, n, i) =>
      i <= ops /\ \A c \in Client : Home[c] = n => ~InGot(got, c, i)

GotOld == \A c \in Client, i \in Id : InGot(got, c, i) => i <= ops

\* The PUBLISH in a handler has sent nothing yet.
CtxUnpublished ==
    \A c \in Client : ctx[c] # None =>
      /\ \A n \in Node : ~InTopic(tnet, n, ctx[c].id)
      /\ \A d \in Client : ~InGot(got, d, ctx[c].id)

GotOnce == \A c \in Client : \A p, r \in 1..Len(got[c]) : got[c][p] = got[c][r] => p = r

\* The topic is used after it was entered, and entered after it was joined.
Joined ==
    /\ join \subseteq psub
    /\ \A c \in Client : ctx[c] # None =>
          /\ ctx[c].at = "store" => Home[c] \in psub
          /\ ctx[c].at \in {"use", "make", "enter"} => Home[c] \in join
    /\ \A n \in Node : \A c \in writer[n] : Home[c] = n
    /\ \A c \in subscribed : Home[c] \in psub /\ c \in writer[Home[c]] \cup evicted

\* Who was subscribed has the message, or its proxy has it, unless the map
\* it was entered in was replaced.
Delivery ==
    \A i \in Id :
      /\ audience[i] \subseteq subscribed
      /\ down = {} => \A c \in (audience[i] \cap open) \ evicted :
                        InGot(got, c, i) \/ InTopic(tnet, Home[c], i)

TopicInv ==
    /\ Unique(tnet) /\ TopicFresh /\ GotOld /\ CtxUnpublished /\ GotOnce /\ Joined /\ Delivery

\* The requests of a step are old ones or new: what the invariants ask of it.
Requests ==
    \A d \in Client : ctx'[d] # None =>
      \/ ctx[d] # None /\ ctx'[d].id = ctx[d].id /\ ctx[d].id \in Id
      \/ ctx'[d].id = ops + 1 /\ ops' = ops + 1

(* What Frame says of the requests and of the topic. *)
LEMMA FrameFacts ==
    ASSUME SyncTypes, TopicTypes, Joined, Frame
    PROVE  /\ Requests
           /\ join' \subseteq psub'
           /\ \A c \in Client : ctx'[c] # None =>
                /\ ctx'[c].at = "store" => Home[c] \in psub'
                /\ ctx'[c].at \in {"use", "make", "enter"} => Home[c] \in join'
<1>1. ASSUME NEW d \in Client, ctx'[d] # None
      PROVE  \/ ctx[d] # None /\ ctx'[d].id = ctx[d].id /\ ctx[d].id \in Id
             \/ ctx'[d].id = ops + 1 /\ ops' = ops + 1
  <2>1. Follows(d)
    BY DEF Frame
  <2>2. ctx[d] # None => ctx[d].id \in Id
    BY DEF SyncTypes, Ctx
  <2> QED BY <1>1, <2>1, <2>2 DEF Follows
<1>2. join' \subseteq psub'
  BY DEF Joined, Frame
<1>3. ASSUME NEW c \in Client, ctx'[c] # None
      PROVE  /\ ctx'[c].at = "store" => Home[c] \in psub'
             /\ ctx'[c].at \in {"use", "make", "enter"} => Home[c] \in join'
  <2>1. Follows(c) /\ psub \subseteq psub' /\ join \subseteq join'
    BY DEF Frame
  <2> QED BY <1>3, <2>1 DEF Follows, Joined
<1> QED BY <1>1, <1>2, <1>3 DEF Requests

(* The topic is left alone. *)
LEMMA StillTopic ==
    ASSUME SyncTypes, SyncTypes', TopicTypes, TopicInv, Frame, Still
    PROVE  TopicTypes' /\ TopicInv'
<1>0. /\ ops \in Nat /\ ops' \in Nat /\ ops <= ops'
      /\ UNCHANGED <<writer, tnet, got, subscribed, evicted, audience, down>>
  BY DEF SyncTypes, Frame, Still
<1>1. TopicTypes'
  BY <1>0 DEF TopicTypes, Frame
<1>2. Unique(tnet') /\ GotOnce'
  BY <1>0 DEF TopicInv, GotOnce
<1>3. TopicFresh' /\ GotOld'
  BY <1>0 DEF TopicInv, TopicFresh, GotOld, Id
<1>4. CtxUnpublished'
  <2> SUFFICES ASSUME NEW d \in Client, ctx'[d] # None
               PROVE  /\ \A n \in Node : ~InTopic(tnet, n, ctx'[d].id)
                      /\ \A c \in Client : ~InGot(got, c, ctx'[d].id)
    BY <1>0 DEF CtxUnpublished
  <2>1. CASE ctx[d] # None /\ ctx'[d].id = ctx[d].id
    BY <2>1 DEF TopicInv, CtxUnpublished
  <2>2. CASE ctx'[d].id = ops + 1
    <3>1. ctx'[d].id \in Id /\ ~(ctx'[d].id <= ops)
      BY <1>0, <2>2 DEF SyncTypes, Ctx
    <3> QED BY <3>1 DEF TopicInv, TopicFresh, GotOld
  <2> QED BY <2>1, <2>2, FrameFacts DEF Requests, TopicInv
<1>5. Joined'
  <2>1. psub \subseteq psub'
    BY DEF Frame
  <2> QED BY <1>0, <2>1, FrameFacts DEF TopicInv, Joined
<1>6. Delivery'
  <2>1. open' \subseteq open
    BY DEF Frame
  <2> QED BY <1>0, <2>1 DEF TopicInv, Delivery
<1> QED BY <1>1, <1>2, <1>3, <1>4, <1>5, <1>6 DEF TopicInv

(* SUBSCRIBE: the client is entered as a writer. *)
LEMMA SubsTopic ==
    ASSUME SyncTypes, SyncTypes', TopicTypes, TopicInv, Frame, NEW c \in Client, Subs(c)
    PROVE  TopicTypes' /\ TopicInv'
<1>0. /\ ops \in Nat /\ ops' \in Nat /\ ops <= ops' /\ Home[c] \in Node /\ ctx[c] # None
      /\ UNCHANGED <<tnet, got, evicted, audience, down>> /\ ctx[c].at = "enter"
      /\ writer' = [writer EXCEPT ![Home[c]] = @ \cup {c}]
      /\ subscribed' = subscribed \cup {c}
  BY ProxyAssumption, NoneFacts DEF SyncTypes, Frame, Subs
<1>1. TopicTypes'
  BY <1>0 DEF TopicTypes, Frame
<1>2. Unique(tnet') /\ GotOnce'
  BY <1>0 DEF TopicInv, GotOnce
<1>3. TopicFresh' /\ GotOld'
  BY <1>0 DEF TopicInv, TopicFresh, GotOld, Id
<1>4. CtxUnpublished'
  <2> SUFFICES ASSUME NEW d \in Client, ctx'[d] # None
               PROVE  /\ \A n \in Node : ~InTopic(tnet, n, ctx'[d].id)
                      /\ \A e \in Client : ~InGot(got, e, ctx'[d].id)
    BY <1>0 DEF CtxUnpublished
  <2>1. CASE ctx[d] # None /\ ctx'[d].id = ctx[d].id
    BY <2>1 DEF TopicInv, CtxUnpublished
  <2>2. CASE ctx'[d].id = ops + 1
    <3>1. ctx'[d].id \in Id /\ ~(ctx'[d].id <= ops)
      BY <1>0, <2>2 DEF SyncTypes, Ctx
    <3> QED BY <3>1 DEF TopicInv, TopicFresh, GotOld
  <2> QED BY <2>1, <2>2, FrameFacts DEF Requests, TopicInv
<1>5. Joined'
  <2>1. psub \subseteq psub' /\ Home[c] \in psub
    BY <1>0 DEF Frame, TopicInv, Joined
  <2>2. \A n \in Node : writer'[n] = IF n = Home[c] THEN writer[n] \cup {c} ELSE writer[n]
    BY <1>0 DEF TopicTypes
  <2>3. \A d \in subscribed' : Home[d] \in psub' /\ d \in writer'[Home[d]] \cup evicted'
    <3>1. ASSUME NEW d \in subscribed
          PROVE  Home[d] \in psub' /\ d \in writer'[Home[d]] \cup evicted'
      <4>1. Home[d] \in Node
        BY ProxyAssumption DEF TopicTypes
      <4> QED BY <1>0, <2>1, <2>2, <4>1 DEF TopicInv, Joined
    <3> QED BY <1>0, <2>1, <2>2, <3>1
  <2>4. ASSUME NEW n \in Node, NEW d \in writer'[n] PROVE Home[d] = n
    <3>1. d \in writer[n] \/ (d = c /\ n = Home[c])
      BY <2>2
    <3> QED BY <3>1 DEF TopicInv, Joined
  <2> QED BY <2>3, <2>4, FrameFacts DEF TopicInv, Joined
<1>6. Delivery'
  <2>1. open' \subseteq open
    BY DEF Frame
  <2> QED BY <1>0, <2>1 DEF TopicInv, Delivery
<1> QED BY <1>1, <1>2, <1>3, <1>4, <1>5, <1>6 DEF TopicInv

(* SUBSCRIBE: the map of writers is made, and the one before it is lost. *)
LEMMA MakesTopic ==
    ASSUME SyncTypes, SyncTypes', TopicTypes, TopicInv, Frame, NEW c \in Client, Makes(c)
    PROVE  TopicTypes' /\ TopicInv'
<1>0. /\ ops \in Nat /\ ops' \in Nat /\ ops <= ops' /\ Home[c] \in Node
      /\ UNCHANGED <<tnet, got, subscribed, audience, down>>
      /\ writer' = [writer EXCEPT ![Home[c]] = {}]
      /\ evicted' = evicted \cup writer[Home[c]]
  BY ProxyAssumption DEF SyncTypes, Frame, Makes
<1>1. TopicTypes'
  <2>1. writer' \in [Node -> SUBSET Client] /\ evicted' \in SUBSET Client
    BY <1>0 DEF TopicTypes
  <2> QED BY <1>0, <2>1 DEF TopicTypes, Frame
<1>2. Unique(tnet') /\ GotOnce'
  BY <1>0 DEF TopicInv, GotOnce
<1>3. TopicFresh' /\ GotOld'
  BY <1>0 DEF TopicInv, TopicFresh, GotOld, Id
<1>4. CtxUnpublished'
  <2> SUFFICES ASSUME NEW d \in Client, ctx'[d] # None
               PROVE  /\ \A n \in Node : ~InTopic(tnet, n, ctx'[d].id)
                      /\ \A e \in Client : ~InGot(got, e, ctx'[d].id)
    BY <1>0 DEF CtxUnpublished
  <2>1. CASE ctx[d] # None /\ ctx'[d].id = ctx[d].id
    BY <2>1 DEF TopicInv, CtxUnpublished
  <2>2. CASE ctx'[d].id = ops + 1
    <3>1. ctx'[d].id \in Id /\ ~(ctx'[d].id <= ops)
      BY <1>0, <2>2 DEF SyncTypes, Ctx
    <3> QED BY <3>1 DEF TopicInv, TopicFresh, GotOld
  <2> QED BY <2>1, <2>2, FrameFacts DEF Requests, TopicInv
<1>5. Joined'
  <2>1. psub \subseteq psub'
    BY DEF Frame
  <2>2. \A n \in Node : writer'[n] = IF n = Home[c] THEN {} ELSE writer[n]
    BY <1>0 DEF TopicTypes
  <2>3. ASSUME NEW d \in subscribed
        PROVE  Home[d] \in psub' /\ d \in writer'[Home[d]] \cup evicted'
    <3>1. Home[d] \in Node
      BY ProxyAssumption DEF TopicTypes
    <3>2. Home[d] \in psub /\ d \in writer[Home[d]] \cup evicted
      BY DEF TopicInv, Joined
    <3> QED BY <1>0, <2>1, <2>2, <3>1, <3>2
  <2>4. ASSUME NEW n \in Node, NEW d \in writer'[n] PROVE Home[d] = n
    BY <2>2 DEF TopicInv, Joined
  <2> QED BY <1>0, <2>3, <2>4, FrameFacts DEF TopicInv, Joined
<1>6. Delivery'
  <2>1. open' \subseteq open /\ evicted \subseteq evicted'
    BY <1>0 DEF Frame
  <2> QED BY <1>0, <2>1 DEF TopicInv, Delivery
<1> QED BY <1>1, <1>2, <1>3, <1>4, <1>5, <1>6 DEF TopicInv

(* PUBLISH: the message goes to every proxy that has subscribed, except the *)
(* ones libp2p drops it for.                                               *)
LEMMA PubsTopic ==
    ASSUME SyncTypes, SyncTypes', SyncInv, TopicTypes, TopicInv, Frame, NEW c \in Client, Pubs(c)
    PROVE  TopicTypes' /\ TopicInv'
<1>00. PICK drop \in SUBSET psub : PubsBut(c, drop)
  BY Zenon DEF Pubs
<1> DEFINE h == Home[c]  i == ctx[c].id  T == psub \ (down \cup drop)
           A == {d \in subscribed : Home[d] \notin drop}
<1>0. /\ ops \in Nat /\ ops' \in Nat /\ ops <= ops' /\ h \in Node /\ ctx[c] # None
      /\ UNCHANGED <<writer, got, subscribed, evicted, down>> /\ i \in Id /\ i \in Nat
      /\ ctx' = [ctx EXCEPT ![c] = None]
      /\ audience' = [audience EXCEPT ![i] = A]
  <2>1. /\ UNCHANGED <<writer, got, subscribed, evicted, down>> /\ ctx[c] \in Ctx
        /\ ctx' = [ctx EXCEPT ![c] = None]
        /\ audience' = [audience EXCEPT ![i] = A]
    BY <1>00, Zenon DEF Pubs, PubsBut
  <2>2. i \in Id /\ i \in Nat /\ h \in Node /\ ctx[c] # None
    BY <2>1, ProxyAssumption, NoneFacts DEF Ctx, Id
  <2>3. ops \in Nat /\ ops' \in Nat /\ ops <= ops'
    BY DEF SyncTypes, Frame
  <2> QED BY <2>1, <2>2, <2>3
<1>1. Put(Id, tnet, tnet', h, T, i) /\ tnet' \in [Node -> [Node -> Seq(Id)]]
  <2> DEFINE f == [m \in Node |-> IF m \in T THEN Append(tnet[h][m], i) ELSE tnet[h][m]]
  <2>1. tnet' = [tnet EXCEPT ![h] = f]
    BY <1>00 DEF PubsBut
  <2>2. \A x, y \in Node : tnet[x][y] \in Seq(Id)
    BY DEF TopicTypes
  <2>3. f \in [Node -> Seq(Id)]
    BY <1>0, <2>2
  <2>4. tnet' \in [Node -> [Node -> Seq(Id)]]
    BY <1>0, <2>1, <2>3 DEF TopicTypes
  <2>5. \A x, y \in Node :
          tnet'[x][y] = IF x = h /\ y \in T THEN Append(tnet[x][y], i) ELSE tnet[x][y]
    BY <1>0, <2>1 DEF TopicTypes
  <2> QED BY <2>2, <2>4, <2>5 DEF Put
<1>2. /\ \A n \in Node : ~InTopic(tnet, n, i)
      /\ \A d \in Client : ~InGot(got, d, i)
  BY <1>0 DEF TopicInv, CtxUnpublished
<1>21. A \subseteq subscribed
  OBVIOUS
<1> HIDE DEF h, i, T, A
<1>3. /\ Unique(tnet')
      /\ \A n \in Node, j \in Id : InTopic(tnet, n, j) => InTopic(tnet', n, j)
      /\ \A n \in Node, j \in Id : InTopic(tnet', n, j) => InTopic(tnet, n, j) \/ j = i
      /\ \A n \in T \cap Node : InTopic(tnet', n, i)
  <2>1. Unique(tnet)
    BY DEF TopicInv
  <2>2. AfterPut(Id, tnet, tnet', T, i)
    BY <1>0, <1>1, <1>2, <2>1, PutTopic
  <2> QED BY <2>2 DEF AfterPut
<1>4. TopicTypes'
  <2>1. audience' \in [Id -> SUBSET Client]
    BY <1>0, <1>21 DEF TopicTypes
  <2> QED BY <1>0, <1>1, <2>1 DEF TopicTypes, Frame
<1>5. i <= ops
  BY <1>0 DEF SyncInv, CtxFresh, i
<1>6. TopicFresh'
  <2> SUFFICES ASSUME NEW n \in Node, NEW j \in Id, InTopic(tnet', n, j)
               PROVE  j <= ops' /\ \A d \in Client : Home[d] = n => ~InGot(got, d, j)
    BY <1>0 DEF TopicFresh
  <2>1. InTopic(tnet, n, j) \/ j = i
    BY <1>3
  <2> QED BY <1>0, <1>2, <1>5, <2>1 DEF TopicInv, TopicFresh, Id
<1>7. GotOld' /\ GotOnce'
  BY <1>0 DEF TopicInv, GotOld, GotOnce, Id
<1>8. CtxUnpublished'
  <2> SUFFICES ASSUME NEW d \in Client, ctx'[d] # None
               PROVE  /\ \A n \in Node : ~InTopic(tnet', n, ctx'[d].id)
                      /\ \A e \in Client : ~InGot(got, e, ctx'[d].id)
    BY <1>0 DEF CtxUnpublished
  <2>1. d # c /\ ctx'[d] = ctx[d]
    BY <1>0 DEF SyncTypes
  <2>2. ctx[d] # None /\ ctx[d].id # i /\ ctx[d].id \in Id
    BY <1>0, <2>1 DEF SyncInv, CtxUnique, SyncTypes, Ctx, i
  <2> QED BY <1>3, <2>1, <2>2 DEF TopicInv, CtxUnpublished
<1>9. Joined'
  <2>1. psub \subseteq psub'
    BY DEF Frame
  <2> QED BY <1>0, <2>1, FrameFacts DEF TopicInv, Joined
<1>10. Delivery'
  <2> SUFFICES ASSUME NEW j \in Id
               PROVE  /\ audience'[j] \subseteq subscribed
                      /\ down = {} => \A d \in (audience'[j] \cap open') \ evicted :
                                        InGot(got, d, j) \/ InTopic(tnet', Home[d], j)
    BY <1>0 DEF Delivery
  <2>1. open' \subseteq open
    BY DEF Frame
  <2>2. CASE j # i
    <3>1. audience'[j] = audience[j]
      BY <1>0, <2>2 DEF TopicTypes
    <3>2. \A d \in audience[j] : Home[d] \in Node
      BY ProxyAssumption DEF TopicTypes
    <3> QED BY <1>3, <2>1, <3>1, <3>2 DEF TopicInv, Delivery
  <2>3. CASE j = i
    <3>1. audience'[j] = A
      BY <1>0, <2>3 DEF TopicTypes
    <3>2. ASSUME down = {}, NEW d \in A PROVE InTopic(tnet', Home[d], j)
      <4>1. Home[d] \in psub /\ Home[d] \in Node /\ Home[d] \notin drop
        BY <1>21, ProxyAssumption DEF TopicInv, Joined, TopicTypes, A
      <4> QED BY <1>3, <2>3, <3>2, <4>1 DEF T
    <3> QED BY <1>21, <3>1, <3>2
  <2> QED BY <2>2, <2>3
<1> QED BY <1>3, <1>4, <1>6, <1>7, <1>8, <1>9, <1>10 DEF TopicInv

\* The clients of W get message i.
Gives(W, i) == got' = [c \in Client |-> IF c \in W THEN Append(got[c], i) ELSE got[c]]

\* What that makes of one client's messages.
Given(W, i, c) ==
    /\ got'[c] \in Seq(Id)
    /\ \A j \in Id : InGot(got, c, j) => InGot(got', c, j)
    /\ \A j \in Id : InGot(got', c, j) => InGot(got, c, j) \/ (c \in W /\ j = i)
    /\ c \in W => InGot(got', c, i)
    /\ /\ c \in W => ~InGot(got, c, i)
       /\ \A p, r \in 1..Len(got[c]) : got[c][p] = got[c][r] => p = r
       => \A p, r \in 1..Len(got'[c]) : got'[c][p] = got'[c][r] => p = r

(* A message is written to some clients. *)
LEMMA GotFacts ==
    ASSUME got \in [Client -> Seq(Id)], NEW W, NEW i \in Id, Gives(W, i), NEW c \in Client
    PROVE  Given(W, i, c)
<1> USE DEF Given
<1> DEFINE s == got[c]  z == got'[c]
<1>0. s \in Seq(Id) /\ Len(s) \in Nat
  OBVIOUS
<1>1. CASE c \notin W
  <2>1. z = s
    BY <1>1 DEF Gives
  <2> QED BY <1>0, <1>1, <2>1 DEF InGot
<1>2. CASE c \in W
  <2>1. z = Append(s, i)
    BY <1>2 DEF Gives
  <2>2. /\ z \in Seq(Id) /\ Len(z) = Len(s) + 1 /\ z[Len(s) + 1] = i
        /\ \A p \in 1..Len(s) : z[p] = s[p]
    BY <1>0, <2>1
  <2> HIDE DEF s, z
  <2>3. \A p \in 1..Len(z) : p \in 1..Len(s) \/ p = Len(s) + 1
    BY <1>0, <2>2
  <2>4. \A p \in 1..Len(s) : p \in 1..Len(z)
    BY <1>0, <2>2
  <2>5. \A j : InGot(got, c, j) <=> \E p \in 1..Len(s) : s[p] = j
    BY DEF InGot, s
  <2>6. \A j : InGot(got', c, j) <=> \E p \in 1..Len(z) : z[p] = j
    BY DEF InGot, z
  <2>7. InGot(got', c, i)
    <3>1. Len(s) + 1 \in 1..Len(z)
      BY <1>0, <2>2
    <3> QED BY <2>2, <2>6, <3>1
  <2>8. \A j \in Id : InGot(got, c, j) => InGot(got', c, j)
    BY <2>2, <2>4, <2>5, <2>6
  <2>9. \A j \in Id : InGot(got', c, j) => InGot(got, c, j) \/ j = i
    BY <2>2, <2>3, <2>5, <2>6
  <2>10. ASSUME ~InGot(got, c, i), \A p, r \in 1..Len(s) : s[p] = s[r] => p = r,
                NEW p \in 1..Len(z), NEW r \in 1..Len(z), z[p] = z[r]
         PROVE  p = r
    <3>1. \A t \in 1..Len(s) : s[t] # i
      BY <2>5, <2>10
    <3> QED BY <2>2, <2>3, <2>10, <3>1
  <2> QED BY <1>2, <2>2, <2>7, <2>8, <2>9, <2>10 DEF s, z
<1> QED BY <1>1, <1>2

(* Writer: a message goes to the clients of the proxy. *)
LEMMA WritesTopic ==
    ASSUME SyncTypes, SyncTypes', TopicTypes, TopicInv, Frame, NEW m \in Node, NEW n \in Node,
           Writes1(m, n)
    PROVE  TopicTypes' /\ TopicInv'
<1> DEFINE i == tnet[m][n][1]  W == writer[n] \cap open
<1>0. /\ ops \in Nat /\ ops' \in Nat /\ ops <= ops'
      /\ UNCHANGED <<writer, subscribed, evicted, audience, down, ctx, open>>
  <2>1. UNCHANGED <<writer, subscribed, evicted, audience, down, ctx, open>>
    BY Zenon DEF Writes1
  <2> QED BY <2>1 DEF SyncTypes, Frame
<1>1. Take(Id, tnet, tnet', m, n) /\ tnet' \in [Node -> [Node -> Seq(Id)]]
  <2> DEFINE t == Tail(tnet[m][n])
             g == [tnet[m] EXCEPT ![n] = t]
  <2>0. tnet[m][n] # <<>>
    BY Zenon DEF Writes1
  <2>1. tnet' = [tnet EXCEPT ![m] = g]
    BY Zenon DEF Writes1
  <2>2. \A x, y \in Node : tnet[x][y] \in Seq(Id)
    BY DEF TopicTypes
  <2>3. t \in Seq(Id)
    BY <2>0, <2>2
  <2> HIDE DEF t
  <2>4. g \in [Node -> Seq(Id)] /\ \A y \in Node : g[y] = IF y = n THEN t ELSE tnet[m][y]
    BY <2>3 DEF TopicTypes
  <2> HIDE DEF g
  <2>5. tnet' \in [Node -> [Node -> Seq(Id)]]
    BY <2>1, <2>4 DEF TopicTypes
  <2>6. \A x \in Node : tnet'[x] = IF x = m THEN g ELSE tnet[x]
    BY <2>1 DEF TopicTypes
  <2>7. ASSUME NEW x \in Node, NEW y \in Node
        PROVE  tnet'[x][y] = IF x = m /\ y = n THEN Tail(tnet[x][y]) ELSE tnet[x][y]
    <3>1. CASE x = m
      BY <2>4, <2>6, <3>1, Zenon DEF t
    <3>2. CASE x # m
      BY <2>6, <3>2
    <3> QED BY <3>1, <3>2
  <2> QED BY <2>0, <2>2, <2>5, <2>7 DEF Take
<1>2. /\ Unique(tnet')
      /\ i \in Id /\ InTopic(tnet, n, i) /\ ~InTopic(tnet', n, i)
      /\ Head(tnet[m][n]) = i
      /\ \A x \in Node, j \in Id : InTopic(tnet', x, j) => InTopic(tnet, x, j)
      /\ \A x \in Node, j \in Id : InTopic(tnet, x, j) /\ ~(x = n /\ j = i) => InTopic(tnet', x, j)
  <2>1. Unique(tnet)
    BY DEF TopicInv
  <2>2. AfterTake(Id, tnet, tnet', m, n)
    BY <1>1, <2>1, TakeTopic
  <2> QED BY <2>2 DEF AfterTake
<1> HIDE DEF i
<1>3. Gives(W, i)
  <2>1. got' = [c \in Client |-> IF c \in writer[n] \cap open
                                 THEN Append(got[c], Head(tnet[m][n])) ELSE got[c]]
    BY Zenon DEF Writes1
  <2> QED BY <1>2, <2>1 DEF Gives
<1>4. \A c \in W : Home[c] = n /\ ~InGot(got, c, i) /\ c \in Client
  <2>1. \A c \in W : Home[c] = n /\ c \in Client
    BY DEF TopicInv, Joined, TopicTypes
  <2> QED BY <1>2, <2>1 DEF TopicInv, TopicFresh
<1>5. ASSUME NEW c \in Client PROVE Given(W, i, c)
  <2> HIDE DEF W
  <2> QED BY <1>2, <1>3, GotFacts DEF TopicTypes
<1>51. \A c \in Client, j \in Id : InGot(got', c, j) => InGot(got, c, j) \/ (c \in W /\ j = i)
  <2> HIDE DEF W
  <2> QED BY <1>5 DEF Given
<1>6. /\ \A c \in Client, j \in Id : InGot(got, c, j) => InGot(got', c, j)
      /\ \A c \in Client \cap W : InGot(got', c, i)
      /\ got' \in [Client -> Seq(Id)]
  <2> HIDE DEF W
  <2>1. \A c \in Client : /\ got'[c] \in Seq(Id)
                          /\ \A j \in Id : InGot(got, c, j) => InGot(got', c, j)
                          /\ c \in W => InGot(got', c, i)
    BY <1>5 DEF Given
  <2> QED BY <1>3, <2>1 DEF Gives
<1>7. TopicTypes'
  BY <1>0, <1>1, <1>6 DEF TopicTypes, Frame
<1>8. GotOnce'
  <2> HIDE DEF W
  <2>1. ASSUME NEW c \in Client
        PROVE  \A p, r \in 1..Len(got'[c]) : got'[c][p] = got'[c][r] => p = r
    <3>1. /\ c \in W => ~InGot(got, c, i)
          /\ \A p, r \in 1..Len(got[c]) : got[c][p] = got[c][r] => p = r
      BY <1>4 DEF TopicInv, GotOnce
    <3> QED BY <1>5, <3>1 DEF Given
  <2> QED BY <2>1 DEF GotOnce
<1>9. i <= ops
  BY <1>2 DEF TopicInv, TopicFresh
<1>10. TopicFresh'
  <2> SUFFICES ASSUME NEW x \in Node, NEW j \in Id, InTopic(tnet', x, j)
               PROVE  j <= ops' /\ \A c \in Client : Home[c] = x => ~InGot(got', c, j)
    BY DEF TopicFresh
  <2>1. InTopic(tnet, x, j) /\ ~(x = n /\ j = i)
    BY <1>2
  <2>2. j <= ops /\ \A c \in Client : Home[c] = x => ~InGot(got, c, j)
    BY <2>1 DEF TopicInv, TopicFresh
  <2>3. ASSUME NEW c \in Client, Home[c] = x, InGot(got', c, j) PROVE FALSE
    BY <1>4, <1>51, <2>1, <2>2, <2>3
  <2> QED BY <1>0, <2>2, <2>3 DEF Id
<1>11. GotOld'
  BY <1>0, <1>51, <1>9 DEF TopicInv, GotOld, Id
<1>12. CtxUnpublished'
  <2> SUFFICES ASSUME NEW d \in Client, ctx[d] # None
               PROVE  /\ \A x \in Node : ~InTopic(tnet', x, ctx[d].id)
                      /\ \A e \in Client : ~InGot(got', e, ctx[d].id)
    BY <1>0 DEF CtxUnpublished
  <2>1. ctx[d].id \in Id
    BY DEF SyncTypes, Ctx
  <2>2. /\ \A x \in Node : ~InTopic(tnet, x, ctx[d].id)
        /\ \A e \in Client : ~InGot(got, e, ctx[d].id)
    BY DEF TopicInv, CtxUnpublished
  <2> QED BY <1>2, <1>51, <2>1, <2>2
<1>13. Joined'
  <2>1. psub \subseteq psub'
    BY DEF Frame
  <2> QED BY <1>0, <2>1, FrameFacts DEF TopicInv, Joined
<1>14. Delivery'
  <2> SUFFICES ASSUME NEW j \in Id
               PROVE  /\ audience[j] \subseteq subscribed
                      /\ down = {} => \A d \in (audience[j] \cap open) \ evicted :
                                        InGot(got', d, j) \/ InTopic(tnet', Home[d], j)
    BY <1>0 DEF Delivery
  <2>1. audience[j] \subseteq subscribed
    BY DEF TopicInv, Delivery
  <2>2. ASSUME down = {}, NEW d \in (audience[j] \cap open) \ evicted
        PROVE  InGot(got', d, j) \/ InTopic(tnet', Home[d], j)
    <3>1. d \in Client /\ Home[d] \in Node
      BY ProxyAssumption DEF TopicTypes
    <3>2. CASE InGot(got, d, j)
      BY <1>6, <3>1, <3>2
    <3>3. CASE InTopic(tnet, Home[d], j) /\ Home[d] = n /\ j = i
      <4>1. d \in writer[n]
        BY <2>1, <3>3 DEF TopicInv, Joined
      <4> QED BY <1>6, <3>1, <3>3, <4>1
    <3>4. CASE InTopic(tnet, Home[d], j) /\ ~(Home[d] = n /\ j = i)
      BY <1>2, <3>1, <3>4
    <3> QED BY <2>2, <3>2, <3>3, <3>4 DEF TopicInv, Delivery
  <2> QED BY <2>1, <2>2
<1> QED BY <1>2, <1>7, <1>8, <1>10, <1>11, <1>12, <1>13, <1>14 DEF TopicInv

(* A proxy dies, and the messages that were on their way to it are lost. *)
LEMMA DiesTopic ==
    ASSUME SyncTypes, SyncTypes', TopicTypes, TopicInv, Frame, NEW n \in Node, Dies(n)
    PROVE  TopicTypes' /\ TopicInv'
<1>0. /\ ops \in Nat /\ ops' \in Nat /\ ops <= ops' /\ down' # {}
      /\ UNCHANGED <<writer, got, subscribed, evicted, audience>>
  BY DEF SyncTypes, Frame, Dies
<1>1. \A x, y \in Node : tnet'[x][y] = IF y = n THEN <<>> ELSE tnet[x][y]
  BY DEF Dies, TopicTypes
<1>2. tnet' \in [Node -> [Node -> Seq(Id)]]
  <2>1. \A m \in Node : [tnet[m] EXCEPT ![n] = <<>>] \in [Node -> Seq(Id)]
    <3>1. <<>> \in Seq(Id)
      OBVIOUS
    <3> QED BY <3>1 DEF TopicTypes
  <2> QED BY <2>1 DEF Dies
<1>3. TopicTypes'
  BY <1>0, <1>2 DEF TopicTypes, Frame
<1>4. \A x \in Node : \A j : InTopic(tnet', x, j) => InTopic(tnet, x, j)
  BY <1>1 DEF InTopic
<1>5. Unique(tnet')
  BY <1>1, SMTT(60) DEF TopicInv, Unique
<1>6. TopicFresh' /\ GotOld' /\ GotOnce'
  BY <1>0, <1>4 DEF TopicInv, TopicFresh, GotOld, GotOnce, Id
<1>7. CtxUnpublished'
  <2> SUFFICES ASSUME NEW d \in Client, ctx'[d] # None
               PROVE  /\ \A x \in Node : ~InTopic(tnet, x, ctx'[d].id)
                      /\ \A c \in Client : ~InGot(got, c, ctx'[d].id)
    BY <1>0, <1>4 DEF CtxUnpublished
  <2>1. CASE ctx[d] # None /\ ctx'[d].id = ctx[d].id
    BY <2>1 DEF TopicInv, CtxUnpublished
  <2>2. CASE ctx'[d].id = ops + 1
    <3>1. ctx'[d].id \in Id /\ ~(ctx'[d].id <= ops)
      BY <1>0, <2>2 DEF SyncTypes, Ctx
    <3> QED BY <3>1 DEF TopicInv, TopicFresh, GotOld
  <2> QED BY <2>1, <2>2, FrameFacts DEF Requests, TopicInv
<1>8. Joined'
  <2>1. psub \subseteq psub'
    BY DEF Frame
  <2> QED BY <1>0, <2>1, FrameFacts DEF TopicInv, Joined
<1>9. Delivery'
  BY <1>0 DEF TopicInv, Delivery
<1> QED BY <1>3, <1>5, <1>6, <1>7, <1>8, <1>9 DEF TopicInv

LEMMA TopicStep ==
    ASSUME SyncTypes, SyncTypes', SyncInv, TopicTypes, TopicInv, Frame, TopicEvent
    PROVE  TopicTypes' /\ TopicInv'
  BY StillTopic, MakesTopic, SubsTopic, PubsTopic, WritesTopic, DiesTopic DEF TopicEvent

-----------------------------------------------------------------------------
(* The inductive invariant. *)

Inv ==
    /\ SyncTypes /\ TopicTypes /\ NetSyncs /\ SyncInv /\ TopicInv
    /\ faults = 0 => down = {}
    /\ Ok => /\ Reaches /\ Known /\ Converging /\ Evenly
             /\ \A k \in Key : IsFiniteSet(writers[k])

(* It holds at first. *)
LEMMA InvInit == Init => Inv
<1> SUFFICES ASSUME Init PROVE Inv
  OBVIOUS
<1>0. MaxOps \in Nat /\ Home \in [Client -> Node]
  BY ProxyAssumption
<1>1. /\ \A m, n \in Node : Len(net[m][n]) = 0 /\ Len(tnet[m][n]) = 0
      /\ \A c \in Client : ctx[c] = None /\ Len(got[c]) = 0
      /\ \A n \in Node, k \in Key : value[n][k] = 0
      /\ \A n \in Node, i \in Id : applied[n][i] = 0
  BY DEF Init
<1>2. SyncTypes
  BY <1>0 DEF Init, SyncTypes, Bytes
<1>3. TopicTypes
  BY DEF Init, TopicTypes
<1>4. NetSyncs
  BY <1>1 DEF NetSyncs
<1>5. SyncInv
  BY <1>1 DEF SyncInv, NetUnique, NetFresh, CtxFresh, CtxUnique, AppliedOnce, Occ
<1>6. TopicInv
  <2>1. Unique(tnet) /\ GotOnce
    BY <1>1 DEF Unique, GotOnce
  <2>2. TopicFresh /\ GotOld /\ CtxUnpublished
    BY <1>1 DEF TopicFresh, GotOld, CtxUnpublished, InTopic, InGot
  <2>3. Joined
    BY <1>1 DEF Joined, Init
  <2>4. Delivery
    BY DEF Delivery, Init
  <2> QED BY <2>1, <2>2, <2>3, <2>4 DEF TopicInv
<1>7. Reaches /\ Known
  BY <1>1 DEF Reaches, Known, Occ
<1>8. Converging
  BY <1>0, <1>1 DEF Converging, Drains, Final
<1>81. Evenly
  BY <1>1 DEF Evenly, Occ, Init
<1>9. (faults = 0 => down = {}) /\ \A k \in Key : IsFiniteSet(writers[k])
  BY FS_EmptySet DEF Init
<1> QED BY <1>2, <1>3, <1>4, <1>5, <1>6, <1>7, <1>8, <1>81, <1>9 DEF Inv

(* Every step keeps it. *)
LEMMA InvStep == Inv /\ [Next]_vars => Inv'
<1> SUFFICES ASSUME Inv, [Next]_vars PROVE Inv'
  OBVIOUS
<1>0. Types
  BY DEF Inv, Types, SyncTypes, TopicTypes
<1>1. Event /\ Frame /\ TopicEvent
  BY <1>0, StepEvent, StepFrame DEF Inv
<1>2. SyncTypes' /\ SyncInv'
  BY <1>1, EventTypes, OnceStep DEF Inv
<1>3. TopicTypes' /\ TopicInv'
  BY <1>1, <1>2, TopicStep DEF Inv
<1>4. NetSyncs'
  <2> SUFFICES ASSUME NEW m \in Node, NEW n \in Node, NEW p \in Occ(m, n)'
               PROVE  Syncs(net[m][n][p].cmd)'
    BY DEF NetSyncs, Occ
  <2>1. kind' = kind
    BY <1>1 DEF Frame
  <2>2. Syncs(net'[m][n][p].cmd)
    <3>1. CASE \E r \in Occ(m, n) : net'[m][n][p] = net[m][n][r]
      BY <3>1 DEF Inv, NetSyncs, Occ
    <3>2. CASE \E c \in Client : Publishes(c) /\ Sent(ctx[c], net'[m][n][p])
      BY <3>2 DEF Publishes, Sent
    <3> QED BY <1>1, <3>1, <3>2, NewMessage DEF Inv
  <2> QED BY <2>1, <2>2 DEF Syncs, IsMasterOnly, OpTable
<1>5. faults' = 0 => down' = {}
  BY <1>1 DEF Inv, Frame, TopicTypes
<1>6. ASSUME Ok' PROVE Ok /\ down = {}
  BY <1>1, <1>6 DEF Ok, Inv, Frame, TopicTypes
<1>7. ASSUME Ok' PROVE Reaches' /\ Known' /\ Converging' /\ Evenly'
  BY <1>1, <1>6, <1>7, ReachesStep, KnownStep, ConvergingStep, EvenlyStep DEF Inv
<1>8. ASSUME Ok', NEW k \in Key PROVE IsFiniteSet(writers'[k])
  <2>1. IsFiniteSet(writers[k])
    BY <1>6, <1>8 DEF Inv
  <2>2. CASE \E c \in Client : Publishes(c)
    <3>1. PICK c \in Client : Publishes(c)
      BY <2>2
    <3>2. writers' = [j \in Key |-> IF j \in SentKeys(ctx[c]) THEN writers[j] \cup {c} ELSE writers[j]]
      BY <3>1, Zenon DEF Publishes
    <3>3. writers'[k] = writers[k] \/ writers'[k] = writers[k] \cup {c}
      BY <3>2
    <3> QED BY <2>1, <3>3, FS_AddElement
  <2>3. CASE ~\E c \in Client : Publishes(c)
    <3>1. UNCHANGED writers
      BY <1>1, <1>8, <2>3 DEF Event, Opens, Ends, Moves, Passes, Runs1, Hears, Crashes, Keeps
    <3> QED BY <2>1, <3>1
  <2> QED BY <2>2, <2>3
<1> QED BY <1>2, <1>3, <1>4, <1>5, <1>7, <1>8 DEF Inv

-----------------------------------------------------------------------------
(* The theorems. *)

(* The type invariant and the rest of the inductive invariant hold in every *)
(* reachable state.                                                         *)
THEOREM Invariant == Spec => []Inv
  BY InvInit, InvStep, PTL DEF Spec

(* Spec => []SyncedOnce: no Redis runs a request twice, whatever fails; and *)
(* without faults every write that a key holds anywhere has run behind      *)
(* every node proxy once the proxies are quiet.                             *)
THEOREM RunsOnce == Spec => []SyncedOnce
<1>1. Inv => SyncedOnce
  <2> SUFFICES ASSUME Inv PROVE SyncedOnce
    OBVIOUS
  <2>1. \A n \in Node, i \in Id : applied[n][i] <= 1
    BY DEF Inv, SyncInv, AppliedOnce
  <2>2. ASSUME Quiet, Ok, NEW m \in Node, NEW n \in Node, NEW k \in Key, value[m][k] # 0
        PROVE  applied[n][value[m][k]] = 1
    <3>1. SettledIn(applied, net, ctx, n, value[m][k])
      BY <2>2 DEF Inv, Reaches
    <3>2. \A x \in Node : Len(net[x][n]) = 0
      BY <2>2 DEF Quiet
    <3>3. \A c \in Client : ctx[c] = None
      BY <2>2 DEF Quiet
    <3> QED BY <3>1, <3>2, <3>3 DEF SettledIn
  <2> QED BY <2>1, <2>2 DEF SyncedOnce, Ok
<1> QED BY <1>1, Invariant, PTL

(* Spec => []KeyConverges: without faults, a key that one client alone      *)
(* writes has one value behind all node proxies once they are quiet, and    *)
(* the bytes that the client gave; unless one of its writes has a random    *)
(* result, or arguments that are not UTF-8 and that JSON changes on the way.*)
THEOREM Converged == Spec => []KeyConverges
<1>1. Inv => KeyConverges
  <2> SUFFICES ASSUME Inv, Quiet, Ok, NEW k \in Key, k \notin uneven, Cardinality(writers[k]) <= 1,
                      NEW m \in Node, NEW n \in Node
               PROVE  value[m][k] = value[n][k] /\ bytes[m][k] = bytes[n][k]
    BY DEF KeyConverges, Ok
  <2>0. bytes[m][k] = "given" /\ bytes[n][k] = "given"
    BY DEF Inv, Evenly
  <2>1. IsFiniteSet(writers[k]) /\ writers[k] \subseteq Client
    BY DEF Inv, SyncTypes
  <2>2. Cardinality(writers[k]) \in {0, 1}
    BY <2>1, FS_CardinalityType
  <2>3. ASSUME writers[k] = {} PROVE value[m][k] = value[n][k]
    BY <2>3 DEF Inv, Known
  <2>4. ASSUME NEW c \in Client, writers[k] = {c}, NEW x \in Node
        PROVE  value[x][k] = value[Home[c]][k]
    <3>1. Home[c] \in Node
      BY ProxyAssumption
    <3>2. CASE x # Home[c]
      <4>1. Drains(net[Home[c]][x], value[x][k], k, Final(ctx[c], value[Home[c]][k], k))
        BY <2>4, <3>2 DEF Inv, Converging
      <4>2. Len(net[Home[c]][x]) = 0 /\ ctx[c] = None
        BY <3>1 DEF Quiet
      <4> QED BY <4>1, <4>2 DEF Drains, Final
    <3> QED BY <3>2
  <2>5. writers[k] = {} \/ \E c \in Client : writers[k] = {c}
    <3>1. Cardinality(writers[k]) = 0 => writers[k] = {}
      BY <2>1, FS_EmptySet
    <3>2. Cardinality(writers[k]) = 1 => \E c : writers[k] = {c}
      BY <2>1, FS_Singleton
    <3> QED BY <2>1, <2>2, <3>1, <3>2
  <2>6. value[m][k] = value[n][k]
    BY <2>3, <2>4, <2>5
  <2> QED BY <2>0, <2>6
<1> QED BY <1>1, Invariant, PTL

(* Spec => []DeliveredOnce: a subscriber gets no message twice. *)
THEOREM GetsOnce == Spec => []DeliveredOnce
<1>1. Inv => DeliveredOnce
  <2> SUFFICES ASSUME Inv, NEW c \in Client PROVE IsInjective(got[c])
    BY DEF DeliveredOnce
  <2>1. got[c] \in Seq(Id)
    BY DEF Inv, TopicTypes
  <2>2. DOMAIN got[c] = 1..Len(got[c])
    BY <2>1
  <2>3. \A p, r \in 1..Len(got[c]) : got[c][p] = got[c][r] => p = r
    BY DEF Inv, TopicInv, GotOnce
  <2> QED BY <2>2, <2>3 DEF IsInjective
<1> QED BY <1>1, Invariant, PTL

(* Spec => []SubscribersGetAll: once the proxies are quiet and none has     *)
(* died, whoever was subscribed when a message was published has it, if its *)
(* connection is open, libp2p dropped the message at no proxy of its, and   *)
(* no other SUBSCRIBE replaced the map of writers it was entered in.        *)
THEOREM AllGet == Spec => []SubscribersGetAll
<1>1. Inv => SubscribersGetAll
  <2> SUFFICES ASSUME Inv, Quiet, down = {}, NEW i \in Id, NEW c \in (audience[i] \cap open) \ evicted
               PROVE  Contains(got[c], i)
    BY DEF SubscribersGetAll
  <2>1. c \in Client /\ Home[c] \in Node
    BY ProxyAssumption DEF Inv, TopicTypes
  <2>2. InGot(got, c, i) \/ InTopic(tnet, Home[c], i)
    BY DEF Inv, TopicInv, Delivery
  <2>3. ~InTopic(tnet, Home[c], i)
    <3>1. \A m \in Node : Len(tnet[m][Home[c]]) = 0
      BY <2>1 DEF Quiet
    <3> QED BY <3>1 DEF InTopic
  <2> QED BY <2>2, <2>3 DEF InGot, Contains
<1> QED BY <1>1, Invariant, PTL
=============================================================================
