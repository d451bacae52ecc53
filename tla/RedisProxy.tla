---------------------------- MODULE RedisProxy -----------------------------
(***************************************************************************)
(* IceFireDB-Redis-Proxy and IceFireDB-PubSub: a proxy in front of a Redis *)
(* node or cluster ("node", "cluster") publishes the write commands of its *)
(* clients on a libp2p topic before it runs them, and runs the ones it     *)
(* hears. The PubSub middleware ("pubsub") is the node proxy with PUBLISH  *)
(* and SUBSCRIBE answered by libp2p topics of their own.                   *)
(*                                                                         *)
(* A request is the id-th of the run, and a write leaves its id, so that   *)
(* the value of a key names the write it is from; DEL writes 0.  What a    *)
(* request writes behind different proxies may still differ: its arguments *)
(* reach the others as JSON, and some commands have a random result.       *)
(***************************************************************************)
EXTENDS Integers, Sequences, FiniteSets, SequencesExt, FiniteSetsExt

CONSTANTS Node, Client, None, Key,
          Home,         \* the proxy a client is connected to
          Command,      \* what clients send: [cmd, keys, raw], raw when an
                        \* argument other than the keys is not UTF-8
          Utf8,         \* the key that the bytes of a key become in JSON
          CMDList,      \* commands the configuration ignores
          MaxOps,       \* bound on the requests
          MaxFaults     \* bound on errors and crashes

ASSUME ProxyAssumption == /\ Home \in [Client -> Node]
                          /\ Command \subseteq [cmd : STRING, keys : SUBSET Key, raw : BOOLEAN]
                          /\ Utf8 \in [Key -> Key]
                          /\ {MaxOps, MaxFaults} \subseteq Nat
                          /\ None \notin [cmd : STRING, keys : SUBSET Key, raw : BOOLEAN,
                                          id : Nat, index : Nat,
                                          at : {"check", "join", "store", "use", "make", "enter"}]

VARIABLES kind,
          open,     \* clients whose connection is open
          ctx,      \* ctx[c]: the request c's handler works on, or None
          net,      \* net[m][n]: commands m published and n has not synced
          value,    \* value[n]: the Redis behind n, Key -> id
          bytes,    \* bytes[n][k]: what the write made of it, see Results
          applied,  \* applied[n][id]: how often n's Redis ran request id
          stuck,    \* proxies whose PubLoop hangs on Logs
          down,     \* proxies that died of a map race
          topic,    \* proxies that have joined the topic in libp2p
          psub,     \* proxies with a subscription of the topic
          join,     \* proxies whose pss.join has the topic
          made,     \* proxies whose pss.writer has a map for the topic
          writer,   \* writer[n]: the clients in that map
          tnet,     \* tnet[m][n]: topic messages n's Writer has not written
          got,      \* got[c]: what Writer wrote to c
          ops, faults,
          subscribed, \* ghost: the clients whose SUBSCRIBE returned
          writers,  \* ghost: writers[k], the clients that wrote key k
          uneven,   \* ghost: keys of a write that differs between proxies
          evicted,  \* ghost: clients whose map of writers was replaced
          audience  \* ghost: audience[id], who was subscribed at PUBLISH
                    \* where libp2p delivers the message

sync   == <<net, value, bytes, applied, stuck, writers, uneven>>
maps   == <<topic, psub, join, made, writer>>
store  == <<maps, tnet, got, subscribed, evicted, audience>>
bounds == <<ops, faults>>
vars   == <<kind, open, ctx, sync, down, store, bounds>>

Id == 1..MaxOps

Init == /\ kind \in {"node", "cluster", "pubsub"}
        /\ open = Client
        /\ ctx = [c \in Client |-> None]
        /\ net = [m \in Node |-> [n \in Node |-> <<>>]]
        /\ value = [n \in Node |-> [k \in Key |-> 0]]
        /\ bytes = [n \in Node |-> [k \in Key |-> "given"]]
        /\ applied = [n \in Node |-> [i \in Id |-> 0]]
        /\ stuck = {} /\ down = {}
        /\ topic = {} /\ psub = {} /\ join = {} /\ made = {}
        /\ writer = [n \in Node |-> {}]
        /\ tnet = [m \in Node |-> [n \in Node |-> <<>>]]
        /\ got = [c \in Client |-> <<>>]
        /\ ops = 0 /\ faults = 0
        /\ subscribed = {} /\ evicted = {}
        /\ writers = [k \in Key |-> {}] /\ uneven = {}
        /\ audience = [i \in Id |-> {}]

-----------------------------------------------------------------------------
(* The command table and the handler chain.                                *)

\* The commands of the tables by flag; the check of the number of arguments
\* that goes with each is left out.
Written == {
  "APPEND", "DECRBY", "EXPIRE", "EXPIREAT", "GETSET", "INCRBY", "INCRBYFLOAT", "PEXPIRE",
  "PEXPIREAT", "SETNX", "BITFIELD", "DEL", "LPOP", "SORT", "SPOP", "DECR", "INCR", "PERSIST",
  "RPOP", "EVAL", "EVALSHA", "HDEL", "LPUSH", "LPUSHX", "PFADD", "PFMERGE", "RPUSH", "RPUSHX",
  "SADD", "SET", "SREM", "ZREM", "XDEL", "GEOADD", "GEORADIUSBYMEMBER", "XADD", "WCONFIG",
  "GEORADIUS", "XCLAIM", "HINCRBY", "HINCRBYFLOAT", "HSETNX", "LREM", "LSET", "LTRIM",
  "PSETEX", "SETBIT", "SETEX", "SETRANGE", "ZINCRBY", "ZREMRANGEBYLEX", "ZREMRANGEBYRANK",
  "ZREMRANGEBYSCORE", "HMSET", "HSET", "ZADD", "XACK", "XREVRANGE", "XTRIM", "XGROUP",
  "LINSERT", "MSET", "PFDEBUG", "XREADGROUP"}
Read == {
  "AUTH", "DUMP", "ECHO", "GET", "HGETALL", "HKEYS", "HLEN", "HVALS", "LLEN", "PTTL", "SCARD",
  "SMEMBERS", "STRLEN", "TTL", "TYPE", "ZCARD", "BITCOUNT", "EXISTS", "MGET", "PFCOUNT",
  "PUBSUB", "SRANDMEMBER", "XLEN", "BITPOS", "GEOHASH", "GEOPOS", "HMGET", "XINFO",
  "XPENDING", "COMMAND", "PFSELFTEST", "PING", "GEODIST", "ZRANGE", "ZRANGEBYLEX",
  "ZRANGEBYSCORE", "ZREVRANGE", "ZREVRANGEBYLEX", "ZREVRANGEBYSCORE", "XRANGE", "GETBIT",
  "HEXISTS", "HGET", "HSTRLEN", "LINDEX", "SISMEMBER", "ZRANK", "ZREVRANK", "ZSCORE",
  "GETRANGE", "LRANGE", "SUBSTR", "ZCOUNT", "ZLEXCOUNT"}

\* OpTable: the flags of a command. One that is not listed is refused like
\* the others, which are listed as not allowed.
RedisOpTable(cmd) ==
  CASE cmd \in Written                      -> {"Write"}
    [] cmd \in Read                         -> {}
    [] cmd \in {"HSCAN", "SSCAN", "ZSCAN"}  -> {"MasterOnly"}
    [] cmd \in {"ZPOPMAX", "ZPOPMIN"}       -> {"MayWrite"}
    [] OTHER                                -> {"NotAllow"}

PubSubOpTable(cmd) ==
  CASE cmd = "PUBLISH"   -> {"Write"}
    [] cmd = "SUBSCRIBE" -> {}
    [] OTHER             -> RedisOpTable(cmd)

OpTable(cmd) == IF kind = "pubsub" THEN PubSubOpTable(cmd) ELSE RedisOpTable(cmd)

IsNotAllowed(cmd) == "NotAllow" \in OpTable(cmd)
IsMasterOnly(cmd) == OpTable(cmd) \cap {"Write", "MayWrite", "MasterOnly"} # {}

\* InitCMD: the commands with a handler of their own.
NodeCMD    == {"COMMAND", "PING"}
ClusterCMD == {"COMMAND", "PING", "DEL", "EXISTS", "MGET"}
PubSubCMD  == {"COMMAND", "PING", "PUBLISH", "SUBSCRIBE"}

OwnHandler(cmd) == cmd \in CASE kind = "node" -> NodeCMD [] kind = "cluster" -> ClusterCMD
                            [] kind = "pubsub" -> PubSubCMD

\* The chain combineHandlers builds: the middlewares New installed, then the
\* command's own handler or the generic one.
Handlers(cmd) == <<"IgnoreCMD", "PubSub", IF OwnHandler(cmd) THEN cmd ELSE "CMDEXEC">>

\* Context.Next runs Handlers[Index] once Index is advanced, as long as there
\* is one; a middleware calls Next itself. Positions start at 0.
Runs(q)    == q.index < Len(Handlers(q.cmd))
Current(q) == Handlers(q.cmd)[q.index + 1]
Advance(q) == [q EXCEPT !.index = @ + 1]

\* Slip: the loop of Next does not advance the index.
NextAgain(q) == q

\* The context after its handler returned nil: None when the chain is over.
Next1(q) == IF Runs(Advance(q)) THEN Advance(q) ELSE None

\* An error goes up the chain; the proxy's handle writes it and closes.
CloseOnError(c) == /\ open' = open \ {c}
                   /\ ctx' = [ctx EXCEPT ![c] = None]

\* IgnoreCMDMiddleware fails the commands of the configured list.
IgnoreCMD(cmd) == cmd \in CMDList

\* What a client sends. handle and Handle refuse a frame that is no array
\* of bulk strings (and close), a command that is not allowed and a wrong
\* number of arguments (and go on); the first middleware is local to the
\* handler, so that the request is next seen at the second.
Request(c) ==
  /\ c \in open /\ ctx[c] = None /\ ops < MaxOps
  /\ ops' = ops + 1
  /\ \/ CloseOnError(c)                                   \* no command, or the end
     \/ \E r \in Command :
          /\ ~IsNotAllowed(r.cmd)
          /\ (kind = "pubsub") = (r.cmd \in {"PUBLISH", "SUBSCRIBE"})
          /\ IF IgnoreCMD(r.cmd) THEN CloseOnError(c)
             ELSE /\ ctx' = [ctx EXCEPT ![c] =
                              Advance([cmd |-> r.cmd, keys |-> r.keys, raw |-> r.raw,
                                       id |-> ops + 1, index |-> 0, at |-> "check"])]
                  /\ UNCHANGED open
  /\ UNCHANGED <<kind, sync, down, store, faults>>

-----------------------------------------------------------------------------
(* Commands published to the other proxies. *)

\* Slip: PUBLISH is synced like every other write.
SyncsEveryWrite(cmd) == IsMasterOnly(cmd)

Syncs(cmd) == IsMasterOnly(cmd) /\ ~(kind = "pubsub" /\ cmd = "PUBLISH")

\* Slip: the hand-over to Outbound does not keep the order.
QueueFirst(q, msg) == <<msg>> \o q

Queue(q, msg) == Append(q, msg)

\* The arguments as a JSON array: bytes that are not UTF-8 become U+FFFD.
Message(q) == [q EXCEPT !.index = 0, !.keys = {Utf8[k] : k \in @}]

\* Commands whose result Redis draws, or takes from its clock or its state.
Drawn == {"SPOP", "EVAL", "EVALSHA", "XADD"}

\* A write that has the same effect wherever it runs in the same order.
Plain(q) == ~q.raw /\ q.cmd \notin Drawn /\ \A k \in q.keys : Utf8[k] = k

Fault == faults < MaxFaults /\ faults' = faults + 1

\* libp2p drops a message for a proxy when its queue to that peer, or the
\* buffer of the subscription there, is full.
Drops(drop) == IF drop = {} THEN UNCHANGED faults ELSE Fault

\* PubSubMiddleware: the handler waits for the publishing loop to take the
\* command. The loop hangs for good when Publish fails.
PubSubMiddleware(c) ==
  LET n == Home[c]
      q == ctx[c]
      ks == q.keys \cup Message(q).keys
  IN  /\ q # None /\ Current(q) = "PubSub"
      /\ ctx' = [ctx EXCEPT ![c] = Advance(@)]
      /\ IF ~Syncs(q.cmd)
         THEN UNCHANGED <<sync, faults>>
         ELSE /\ n \notin stuck
              /\ writers' = [k \in Key |-> IF k \in ks THEN writers[k] \cup {c} ELSE writers[k]]
              /\ uneven' = IF Plain(q) THEN uneven ELSE uneven \cup ks
              /\ \/ \E drop \in SUBSET (Node \ {n}) :
                      /\ Drops(drop)
                      /\ net' = [net EXCEPT ![n] = [m \in Node |->
                                   IF m \notin down \cup drop \cup {n}
                                   THEN Queue(@[m], Message(q)) ELSE @[m]]]
                      /\ UNCHANGED stuck
                 \/ /\ Fault
                    /\ stuck' = stuck \cup {n}
                    /\ UNCHANGED net
              /\ UNCHANGED <<value, bytes, applied>>
      /\ UNCHANGED <<kind, open, down, store, ops>>

\* What a write leaves: the bytes its client gave, those with U+FFFD in a
\* command that was heard, or what one Redis or another makes of it.
Results(q, heard) ==
  IF q.cmd \in Drawn THEN {"one", "other"}
  ELSE IF q.raw /\ heard THEN {"altered"} ELSE {"given"}

\* What the Redis behind n holds once it ran request q on the keys ks.
Apply(n, q, ks, heard) ==
  LET writes(k) == k \in ks /\ q.cmd \in {"SET", "DEL", "INCR", "SPOP"}
  IN  /\ value' = [value EXCEPT ![n] = [k \in Key |->
                     IF writes(k) THEN IF q.cmd = "DEL" THEN 0 ELSE q.id ELSE @[k]]]
      /\ \E x \in Results(q, heard) :
           bytes' = [bytes EXCEPT ![n] = [k \in Key |-> IF writes(k) THEN x ELSE @[k]]]
      /\ applied' = [applied EXCEPT ![n][q.id] = IF ks # {} THEN @ + 1 ELSE @]

\* What follows when Redis ran the command.
Executes(c) == /\ Apply(Home[c], ctx[c], ctx[c].keys, FALSE)
               /\ ctx' = [ctx EXCEPT ![c] = Next1(@)]
               /\ UNCHANGED <<open, faults>>

At(c, handlers) == ctx[c] # None /\ Current(ctx[c]) \in handlers
OfRedis == <<kind, net, stuck, writers, uneven, down, store, ops>>
Unran == UNCHANGED <<value, bytes, applied>>

\* cmdCMDEXEC of the node router writes an error of Redis and goes on.
NodeCMDEXEC(c) ==
  /\ kind # "cluster" /\ At(c, {"CMDEXEC"})
  /\ \/ Executes(c)
     \/ /\ Fault /\ ctx' = [ctx EXCEPT ![c] = Next1(@)]
        /\ UNCHANGED open /\ Unran
  /\ UNCHANGED OfRedis

\* cmdCMDEXEC of the cluster router returns it.
ClusterCMDEXEC(c) ==
  /\ kind = "cluster" /\ At(c, {"CMDEXEC"})
  /\ \/ Executes(c)
     \/ Fault /\ CloseOnError(c) /\ Unran
  /\ UNCHANGED OfRedis

\* Batch.Put fails when no node is known for a key, before anything runs.
PutFails(c) == /\ Cardinality(ctx[c].keys) > 1
               /\ Fault /\ CloseOnError(c) /\ Unran

\* cmdDEL of the cluster router: one batch over the nodes of the cluster,
\* which may fail on some of them; the error is written, the connection lives.
ClusterDEL(c) ==
  LET q == ctx[c]
  IN  /\ At(c, {"DEL"})
      /\ \/ PutFails(c)
         \/ /\ \E ks \in SUBSET q.keys :
                 /\ Apply(Home[c], q, ks, FALSE)
                 /\ IF ks = q.keys THEN UNCHANGED faults ELSE Fault
            /\ ctx' = [ctx EXCEPT ![c] = Next1(q)]
            /\ UNCHANGED open
      /\ UNCHANGED OfRedis

\* cmdEXISTS and cmdMGET: the same with reads.
ClusterRead(c) ==
  /\ At(c, {"EXISTS", "MGET"})
  /\ \/ PutFails(c)
     \/ ctx' = [ctx EXCEPT ![c] = Next1(@)] /\ UNCHANGED <<open, faults>> /\ Unran
  /\ UNCHANGED OfRedis

\* cmdCOMMAND and cmdPING write an answer of their own.
Reply(c) ==
  /\ At(c, {"COMMAND", "PING"})
  /\ ctx' = [ctx EXCEPT ![c] = Next1(@)]
  /\ UNCHANGED <<open, faults, OfRedis>> /\ Unran

\* Which handlers Sync runs: the node router calls the last one; the cluster
\* router sets Index to the last position and lets Next advance it first.
NodeSync(q) == {Last(Handlers(q.cmd))}
ClusterSync(q) == LET s == Advance([q EXCEPT !.index = Len(Handlers(q.cmd)) - 1])
                  IN  IF Runs(s) THEN {Current(s)} ELSE {}
SyncRuns(q) == IF kind = "cluster" THEN ClusterSync(q) ELSE NodeSync(q)

\* subscribe: the commands heard are synced one after another.
Sync(n) ==
  \E m \in Node :
    /\ n \notin down /\ net[m][n] # <<>>
    /\ LET q == Head(net[m][n])
           runs == SyncRuns(q)
       IN  /\ net' = [net EXCEPT ![m][n] = Tail(@)]
           /\ IF "CMDEXEC" \in runs
              THEN \/ Apply(n, q, q.keys, TRUE) /\ UNCHANGED faults
                   \/ Fault /\ Unran
              ELSE Unran /\ UNCHANGED faults
           /\ IF "PUBLISH" \in runs /\ n \in join
              THEN tnet' = [tnet EXCEPT ![n] = [x \in Node |->
                              IF x \in psub THEN Append(@[x], q.id) ELSE @[x]]]
              ELSE UNCHANGED tnet
    /\ UNCHANGED <<kind, open, ctx, stuck, writers, uneven, down, maps, got,
                   subscribed, evicted, audience, ops>>

-----------------------------------------------------------------------------
(* PUBLISH and SUBSCRIBE: the topic is looked up in pss.join, joined and   *)
(* entered, and used, with no lock between the steps.                      *)

InStore(c, at) == /\ ctx[c] # None /\ ctx[c].at = at
                  /\ Current(ctx[c]) \in {"PUBLISH", "SUBSCRIBE"}

Goto(c, at) == ctx' = [ctx EXCEPT ![c].at = at]

\* Slip: a topic that is not in pss.join is waited for.
CheckWaits(c) ==
  /\ InStore(c, "check") /\ Home[c] \in join
  /\ Goto(c, "use")
  /\ UNCHANGED <<kind, open, sync, down, store, bounds>>

\* Pub and Sub look the topic up.
Check(c) ==
  /\ InStore(c, "check")
  /\ Goto(c, IF Home[c] \in join THEN "use" ELSE "join")
  /\ UNCHANGED <<kind, open, sync, down, store, bounds>>

\* JoinPubSub: libp2p refuses a topic that has been joined before, and the
\* command fails. It fails too when the topic cannot be subscribed, and then
\* the topic stays joined.
Join(c) ==
  LET n == Home[c]
  IN  /\ InStore(c, "join")
      /\ \/ n \in topic /\ CloseOnError(c) /\ UNCHANGED <<topic, psub, faults>>
         \/ /\ n \notin topic /\ topic' = topic \cup {n}
            /\ \/ psub' = psub \cup {n} /\ Goto(c, "store") /\ UNCHANGED <<open, faults>>
               \/ Fault /\ CloseOnError(c) /\ UNCHANGED psub
      /\ UNCHANGED <<kind, sync, down, join, made, writer, tnet, got, subscribed, evicted,
                     audience, ops>>

\* JoinPubSub enters the topic and starts its loops.
Store(c) ==
  /\ InStore(c, "store")
  /\ join' = join \cup {Home[c]}
  /\ Goto(c, "use")
  /\ UNCHANGED <<kind, open, sync, down, topic, psub, made, writer, tnet, got, subscribed,
                 evicted, audience, bounds>>

\* Pub hands the message to the topic's PubLoop, which sends it to every
\* proxy that has subscribed, its own included, and hangs for good on an
\* error.
Pub(c) ==
  LET n == Home[c]
      q == ctx[c]
  IN  /\ InStore(c, "use") /\ q.cmd = "PUBLISH" /\ n \notin stuck
      /\ \/ \E drop \in SUBSET psub :
              /\ Drops(drop)
              /\ tnet' = [tnet EXCEPT ![n] = [m \in Node |->
                            IF m \in psub \ (down \cup drop) THEN Append(@[m], q.id) ELSE @[m]]]
              /\ audience' = [audience EXCEPT ![q.id] = {d \in subscribed : Home[d] \notin drop}]
              /\ UNCHANGED stuck
         \/ /\ Fault
            /\ stuck' = stuck \cup {n}
            /\ UNCHANGED <<tnet, audience>>
      /\ ctx' = [ctx EXCEPT ![c] = Next1(q)]
      /\ UNCHANGED <<kind, open, net, value, bytes, applied, writers, uneven, down, maps,
                     got, subscribed, evicted, ops>>

\* Sub looks for the map of the topic's writers.
Find(c) ==
  /\ InStore(c, "use") /\ ctx[c].cmd = "SUBSCRIBE"
  /\ Goto(c, IF Home[c] \in made THEN "enter" ELSE "make")
  /\ UNCHANGED <<kind, open, sync, down, store, bounds>>

\* It makes one. Another SUBSCRIBE may have done so, and entered its client,
\* since it looked: that map is gone.
Make(c) ==
  LET n == Home[c]
  IN  /\ InStore(c, "make")
      /\ made' = made \cup {n}
      /\ writer' = [writer EXCEPT ![n] = {}]
      /\ evicted' = evicted \cup writer[n]
      /\ Goto(c, "enter")
      /\ UNCHANGED <<kind, open, sync, down, topic, psub, join, tnet, got, subscribed,
                     audience, bounds>>

\* Slip: only the first client is entered as a writer.
FirstWriter(n, c) == IF writer[n] = {} THEN {c} ELSE writer[n]

\* pss.writer is keyed by the address of the client's writer.
Writers(n, c) == writer[n] \cup {c}

Sub(c) ==
  LET n == Home[c]
  IN  /\ InStore(c, "enter")
      /\ writer' = [writer EXCEPT ![n] = Writers(n, c)]
      /\ subscribed' = subscribed \cup {c}
      /\ ctx' = [ctx EXCEPT ![c] = Next1(ctx[c])]
      /\ UNCHANGED <<kind, open, sync, down, topic, psub, join, made, tnet, got, evicted,
                     audience, bounds>>

\* Writer: a message goes to every writer of the topic; one whose client has
\* gone gives an error and stays.
Writer(n) ==
  \E m \in Node :
    /\ n \in join \ down /\ tnet[m][n] # <<>>
    /\ tnet' = [tnet EXCEPT ![m][n] = Tail(@)]
    /\ got' = [c \in Client |-> IF c \in writer[n] \cap open
                                THEN Append(got[c], Head(tnet[m][n])) ELSE got[c]]
    /\ UNCHANGED <<kind, open, ctx, sync, down, maps, subscribed, evicted, audience, bounds>>

\* A map that is written while another goroutine uses it kills the process.
Touches(c, n) == Home[c] = n /\ \E at \in {"check", "store", "use", "make", "enter"} : InStore(c, at)
Writes(c, n)  == Home[c] = n /\ \E at \in {"store", "make", "enter"} : InStore(c, at)

MapRace(n) ==
  /\ n \notin down /\ Fault
  /\ \E c \in Client : /\ Writes(c, n)
                       /\ \/ \E d \in Client \ {c} : Touches(d, n)
                          \/ n \in join /\ \E m \in Node : tnet[m][n] # <<>>
  /\ down' = down \cup {n}
  /\ open' = {c \in open : Home[c] # n}
  /\ ctx' = [c \in Client |-> IF Home[c] = n THEN None ELSE ctx[c]]
  /\ net' = [m \in Node |-> [net[m] EXCEPT ![n] = <<>>]]
  /\ tnet' = [m \in Node |-> [tnet[m] EXCEPT ![n] = <<>>]]
  /\ UNCHANGED <<kind, value, bytes, applied, stuck, writers, uneven, maps, got,
                 subscribed, evicted, audience, ops>>

-----------------------------------------------------------------------------
Step(c) == \/ PubSubMiddleware(c) \/ NodeCMDEXEC(c) \/ ClusterCMDEXEC(c)
           \/ ClusterDEL(c) \/ ClusterRead(c) \/ Reply(c) \/ Check(c) \/ Join(c) \/ Store(c)
           \/ Pub(c) \/ Find(c) \/ Make(c) \/ Sub(c)

Next == \/ \E c \in Client : Request(c) \/ Step(c)
        \/ \E n \in Node : Sync(n) \/ Writer(n) \/ MapRace(n)

\* Handlers and loops are goroutines that are scheduled.
Spec == /\ Init /\ [][Next]_vars
        /\ \A c \in Client : WF_vars(Step(c))
        /\ \A n \in Node : WF_vars(Sync(n)) /\ WF_vars(Writer(n))

-----------------------------------------------------------------------------
Quiet == /\ \A c \in Client : ctx[c] = None
         /\ \A m, n \in Node : net[m][n] = <<>> /\ tnet[m][n] = <<>>

\* SyncedOnce (PubSubMiddleware, Sync): no Redis runs a request twice,
\* whatever fails, and a published command is not published again; without
\* faults the Redis behind every node proxy has run each write once in the
\* end (behind other cluster proxies none: their Sync runs no handler).
SyncedOnce ==
  /\ \A n \in Node, i \in Id : applied[n][i] <= 1
  /\ Quiet /\ faults = 0 /\ kind = "node" =>
       \A m, n \in Node, k \in Key :
         value[m][k] # 0 => applied[n][value[m][k]] = 1

\* KeyConverges (PubSubMiddleware, subscribe): a key that one client alone
\* writes has one value behind all proxies once nothing is under way, if no
\* command failed and no publication was refused or dropped; unless a command
\* with a random result or with arguments that are not UTF-8 wrote it.
KeyConverges ==
  Quiet /\ faults = 0 /\ kind = "node" =>
    \A k \in Key \ uneven : Cardinality(writers[k]) <= 1 =>
      \A m, n \in Node : value[m][k] = value[n][k] /\ bytes[m][k] = bytes[n][k]

\* DeliveredOnce (Pub, SubLoop, Writer, PubSubMiddleware): a subscriber gets
\* no message twice, though subscribing again is allowed, every proxy hears
\* its own messages and writes are synced to the peers.
DeliveredOnce ==
  \A c \in Client : IsInjective(got[c])

\* SubscribersGetAll (Sub, JoinPubSub, Writer): who had subscribed anywhere
\* when a message was published has it in the end, unless its connection
\* closed, a proxy died, libp2p dropped the message, or another first
\* SUBSCRIBE at the same proxy replaced the map that it was entered in.
SubscribersGetAll ==
  Quiet /\ down = {} =>
    \A i \in Id : \A c \in (audience[i] \cap open) \ evicted : Contains(got[c], i)

\* Answered (Context.Next, PubSubMiddleware, PubLoop): when the clients have
\* asked all they will, every request is eventually done with, answered or
\* its connection closed, unless the publishing loop of its proxy met an
\* error and hangs.
Answered == <>[](\A c \in Client : ctx[c] = None \/ Home[c] \in stuck)

=============================================================================
