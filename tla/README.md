# A TLA+ model of IceFireDB

IceFireDB is a set of Go programs around one idea: Redis and SQL protocols in
front of replicated, partly decentralised storage. This directory models the
parts whose correctness depends on the order of concurrent or replayed steps,
checks them with TLC on small instances, and proves the safety properties that
matter most with TLAPS for every instance.

Paths below are relative to the repository. `ledis` is
`vendor/github.com/ledisdb/ledisdb/ledis`, `uhaha` is
`vendor/github.com/tidwall/uhaha/uhaha.go`; both are vendored, but they are where
the commands of IceFireDB end up, and the model follows them as far as the
program's own handlers use them.

## 1. Inventory

| Part | State | Operations | Who it works with | What is hard | What makes it correct |
|---|---|---|---|---|---|
| Replicated machine (`main.go`, uhaha) | raft log, `main.db` of each replica, machine time `m.ts`, applied index, snapshots | Apply, read execution, Snapshot, Restore, TICK, restart, installed snapshot | commands, drivers, raft | restart over a database newer than the snapshot; the applied index is not on disk; restore deletes nothing | replicas with the same index have the same data; playback ends in the state of the log |
| String commands (`strings.go`) | KV, expiry and time entries | SET, SETNX, GETSET, MSET, DEL, INCR(BY), DECR(BY), EXPIRE(AT), SETEX(AT), APPEND, SETRANGE, bit operations, reads | ledis | relative times, local clock, read-modify-write under replay | effect depends on the log only |
| Sorted sets (`sorted_sets.go`) | member scores, score index, size | ZADD, ZREM, ZINCRBY, ZREMRANGEBY*, ranges, ZCLEAR | ledis | three writing commands are registered as reads; size and index are read and rewritten | every write goes through the log |
| Hashes, lists, sets (`hashes.go`, `lists.go`, `set.go`) | ledis entries and sizes | HSET…, LPUSH…, RPOPLPUSH, SADD… | ledis | pops under replay, several writes per command | as for strings |
| SCAN (`scan.go`) | none | SCAN, HSCAN, SSCAN, ZSCAN | ledis | a cursor over keys that change | complete for keys that stay |
| Expiry (`ledis/t_ttl.go`) | expiry times, time keys, next check time | expireAt, rmExpire, check | command handlers | iterator older than the writes it meets, two locks, forced next check time | never early, always in the end, never a string without TTL |
| hybriddb driver (`driver/hybriddb`) | leveldb, ristretto cache and its buffer | Get, batch Put/Delete/Commit | FSM loop, readers, TTL checker, restore | the cache is invalidated before the commit and asynchronously; a failed read caches that there is nothing | reads do not stay stale; a command builds on the current value |
| Other drivers (`driver/badger`, `ipfs`, `ipfs-log`, `oss`, `crdt`) | leveldb or badger plus a remote store | Get, batch operations, iterators | ledis | batches that take effect when filled or in parts, errors kept or dropped, a cache filled after a commit | a batch is all or nothing |
| SQL proxy pool (`IceFireDB-SQLProxy/pkg/mysql/client/pool.go`) | TotalCount, idle list, hand-over channel | GetConn, PutConn, DropConn, producer, upkeep | proxy sessions | check and block are two steps; stale counts; partial failure | exact count, bounded, GetConn returns |
| SQL proxy sessions (`IceFireDB-SQLProxy/internal/mysql`) | connection of each session, transaction connection of each peer | onConn, popConn, pushConn, handleInboundSQL | pool, pubsub | abandoned connections; a loop that waits for a connection while it keeps one per sender | what is taken is given back |
| SQL synchronisation (`IceFireDB-SQLProxy/pkg/p2p`, `internal/mysql/p2p.go`) | topics, inbound and outbound channels | publish, receive, execute | other proxies | own messages come back, no order between peers | a statement runs once at every proxy |
| SQLite node (`IceFireDB-SQLite`) | sqlite database, pubsub channels | statements, broadcast | other nodes | log channel nobody reads; one pool of connections for all clients | as above |
| MySQL protocol library (`pkg/mysql` of both) | connection phase, sequence number, prepared statements, GTID sets | handshake, commands, result sets, encodings | handlers of proxy and SQLite node, the MySQL server | answers of different length per command, lengths at their limits, three authentication plugins | both ends stay in step, data arrives as sent, only the right password gets in |
| Redis proxy (`IceFireDB-Redis-Proxy`) | handler chain and index of a context | middleware, broadcast, Sync | Redis, other proxies | the handler index on the Sync path; arguments travel as JSON | a broadcast command is executed |
| PubSub (`IceFireDB-PubSub`) | joined topics, writers per topic | Pub, Sub, delivery loops | clients, libp2p | maps checked and changed without the mutex; messages dropped at a full buffer | every subscriber gets every message |
| Server, flags, statistics (`servers.go`, `server_info.go`, `flags.go`, `global.go`) | counters | command line, INFO | — | nothing | — |

The interactions modelled: a client's write becomes a log entry, the FSM loop of
every replica applies it through a handler (`Commands`) to its database
(`Replication`); the same handlers share the batch lock with the TTL checker
(`Expiry`); what the handlers of all data types leave in one database is `Keyspace`,
over `Strings` and `Collections`; under ledis, a driver turns batches into writes
(`Drivers`), hybriddb with a cache between handler and leveldb (`HybridDB`). In the
SQL programs a client's command passes the protocol library (`MySQLLink`, over
`MySQLServer`, `MySQLClient`, `Resultset`, `Wire`), takes a connection of the pool
(`ProxyPool`, `Pool`) and is broadcast to the other nodes (`SqlSync`). The Redis proxies
and the PubSub middleware broadcast commands and messages (`RedisProxy`).

## 2. Modules

| Module | Models | Extends |
|---|---|---|
| `Commands` | the effect of the handlers on the entries of one database | Integers |
| `Replication` | the replicated machine | `Commands` |
| `Expiry` | expiring strings on one node, at the granularity of the locks | Integers |
| `HybridDB` | the hybriddb driver and its cache | Integers, Sequences |
| `Pool` | the MySQL connection pool, with clients that keep its contract | Integers, Sequences, FiniteSets |
| `ProxyPool` | the pool with the clients the SQL proxy really has | `Pool` |
| `Strings` | ranges and bits of string values | Integers, Sequences |
| `Collections` | list, hash, set and sorted set handlers on one database | `Strings` |
| `Keyspace` | one node under commands, TTL checker, flushes and scans | `Collections` |
| `BatchStore` | abstract: what ledis expects of a driver | Integers, Sequences |
| `Drivers` | the six storage drivers; shown to implement `BatchStore` | Integers, Sequences |
| `SqlSync` | broadcast and execution of statements between SQL nodes | Integers, Sequences |
| `RedisProxy` | the Redis proxies and the PubSub middleware | Integers, Sequences |
| `Wire` | encodings of the MySQL protocol library | Integers, Sequences |
| `Resultset` | columns and rows, as written and as read | `Wire` |
| `MySQLServer` | the server end of a connection, as operators | `Resultset` |
| `MySQLClient` | the client end | `MySQLServer` |
| `MySQLLink` | a client and a server on one connection | `MySQLClient` |
| `Gtid` | sets of transaction ids and binlog positions | Integers, Sequences |
| `ReplicationProofs`, `ExpiryProofs`, `KeyspaceProofs`, `PoolProofs`, `HybridDBProofs`, `DriversProofs`, `SqlSyncProofs`, `RedisProxyProofs` | theorems | the module each is about, TLAPS |
| `MC*` | instances for TLC | the module each is about |

### Commands

A database is a function from slots to values: `<<"kv", k>>` for the string at `k`,
`<<"exp", k>>` for its expiry time, `<<"z", m>>` for the score of a member of one
sorted set, `<<"zs", <<m, x>>>>` for the entry of its score index and `ZSize` for its size,
which ZCARD answers; the time keys that the TTL checker scans are a separate set. A value is
an integer (what INCRBY parses) or `Text` (a string that does not parse). Each
operator is one ledis operation or handler; `Exec` is the dispatch, with the machine
time `ts` (`m.Now()`) and the node's clock `now` as separate arguments, because
EXPIRE and SETEX compute the expiry time from the first and compare it with the
second. INCR is INCRBY 1 and DECR is DECRBY 1; DECRBY of a missing key first writes
"0" with SET, as `cmdDECRBY` does. `Writes`, `Blind`, `Expires` and `Erases` classify commands for the
properties; `Blind` is said of a command and a slot, since ZADD and ZREM write the score
whatever they find but compute size and index from the old score; the lemmas `ExecFrame`, `ExecBlind`, `ExecNoExpiry` and `ExecClockFree`
prove the classification right.

### Replication

`log` is the sequence raft has committed; each replica has its leveldb (`db`,
`timers`), machine time, applied index, latest snapshot and clock. The actions:
`Commit` (raft's commitment of an entry), `Apply` (`machine.Apply`: TICK moves the time forward,
commands before the first TICK are refused), `ExecRead` (a command registered with
`AddReadCommand` runs on one node), `TakeSnapshot` (`machine.Snapshot` with
`snap.Persist`), `Restart` (`tryRestoreSingleSnapshot`, `machine.Restore`, `restore()` of
`main.go`, which puts the entries of the snapshot and deletes none),
`InstallSnapshot`, `ClockTick` and `ExpireKey` (a visit of the TTL checker). `ref`,
`seen` and `fresh` are history variables: the machine after each entry when every
entry is applied once, the highest entry that left a trace on a disk, and whether a
replica has restored anything yet.

A restart is a restart of the process: what was written to leveldb is still there.

### Expiry

The FSM loop runs a string command in the steps the code has between lock
operations: `Begin` (the handler compares with the clock), `Refuse` (`ExpireAt` and
`SetEXAT` compare again), `Lock` (batch lock; `expireAt` lowers the next check time
before the commit), `Commit`. The checker's `check()` is `CheckStart`, `CheckOpen`
(iterator: a leveldb snapshot), `CheckBreak`, `CheckVisit` (one time key, under the
batch lock, second look at the expiry time), `CheckEnd` (forces the next check time).
`Stop` loses what is in memory. The clock stops at `LastTime`, which stands for every
later time.

### HybridDB

One action per operation on the leveldb or the cache. Readers run under the read
lock of the machine, a command under its write lock and the batch lock, the checker
under the batch lock alone, `Restore` under neither and past the driver. The cache is
ristretto: `Set` of an existing key is immediate, of a new one goes through `setBuf`
and is dropped when that is full; `Del` is immediate and also queued, and blocks when
the buffer is full; `ProcessItem` is the cache's goroutine, whose admission and
eviction policy is nondeterministic. A read of the leveldb may fail: `Get` tests for
`ErrNotFound` only, caches the nil slice (`NoBytes`) and answers that there is no value, to
a reader and to a command alike. `failed` is a ghost: the keys a read of which failed since
a command last wrote them.

### Pool and ProxyPool

Connections are counted, not named: `total` is TotalCount, `idle` the length of the
idle list, `producer`, `upkeep` and `client[c]` the places of the goroutines,
`waiting` the clients blocked on `readyConnection` in the order in which Go serves
them, `batch` what the upkeep holds, `lost` what a failed `startNewConnections`
forgot. Each section under the mutex, channel operation or round trip is an action;
in particular `GetIdle` (look at the idle list) and `Block` (wait on the channel) are two,
as in `getConnection`. `ProxyPool` replaces the client's contract (`PutConn` or
`DropConn`) by `popConn` and `pushConn`, which close connections, or leave them aside
in a transaction, without telling the pool. Its clients are sessions (`OnConn`,
`SessionEnds`) and the `Senders` whose statements the one inbound loop executes
(`AsyncSQL`, `HandleNew`, `HandleKept`): `inbound` is the sender it serves, `txConn` the
senders for which it keeps a connection, also while it waits in `popConn` for another.

### Strings, Collections, Keyspace

A behaviour is about one data type (`kind`), since the types have separate entries and
batches. A database holds, per key, the list elements with the sequence number of the
first, the entries, the stored count, the score entries and the expiry time, each
where ledis keeps it, so that they can disagree. `CmdX` is the handler of X, reads
included; a command takes its members as a sequence, since a client may name one
twice. Actions: one per command group and key (`ListCommand`, `HashCommand`,
`SetCommand`, `ZSetCommand`, `StringCommand`), `Persist`, `RPopLPush` (three ledis calls
that the FSM loop runs without another command between them), `CheckTTL` (a visit of
the TTL checker), `FlushAll` (with the loop of `flushType`, which may not end: `hung`),
`ClockTick`, and a scan as a client runs it, `ScanBegin` and `ScanNext`, with other
commands between the pages. Bytes have `ByteBits` bits and offsets `OffsetBits` bits;
list numbers lie between `MinSeq` and `MaxSeq`. A value may be `Blank`, the empty string,
which HGET and LINDEX answer as none; an element of a list may be missing. `suspect` is a
ghost: keys on which a command named a member twice, a ZINCRBY added 0, an LSET met no
list, or an LTRIM had both ends before the list (`TrimsBefore`).

### BatchStore and Drivers

`BatchStore` is the promise: a store that changes by batches, by `mode` as a whole, in parts
(what was added so far is applied, or lost, when the next operation arrives), or eagerly,
operation by operation. `Drivers` has, for `kind` in badger, hybriddb, ipfs, oss,
crdt and ipfs-log, what `Put`, `Delete`, `Commit` and `Rollback` do to the local database,
the remote store and the cache; steps `Lock`, `AddOp`, commit or `Unlock`, and between
them reads, failures of disk and remote store, and crashes. badger's batch may outgrow a
transaction with any operation, which writes what it has (`WriteOut`), and its errors come
out at the commit. A read of hybriddb or ipfs is in steps (`ReadLevel`, `ReadFill`), so that
a batch may commit before the old value goes to the cache; `ReadFails` and `ReadBroken` are
errors of IPFS and of hybriddb's leveldb, and `Get` has the outcome of the read as a
parameter. `doubt` and `risk` are ghosts: the keys whose value clients cannot know, now or
when the open batch is given up. The refinement mapping (`Batches`) takes as the
store what a read without cache would find: the leveldb, the contents behind the CIDs in it
(ipfs), or the remote store. `RangeKeys` and `Listed` are ledis' range iterators over
the iterator of each driver.

### SqlSync

Nodes of one program (`kind`: sqlproxy or sqlite), clients with a home node. A client's
statement (`Begin`, insert, `Commit`, `Rollback`, prepared or not, broadcast or not)
runs on a connection, is offered to the outbound channel, published and delivered in
order per sender. sqlproxy: connections come from the pool (`MaxAlive`), a remote
transaction keeps its connection in `txConn` by sender, and the inbound loop waits while
the pool is exhausted by leaked, kept and session connections (`Exhausted`). sqlite: statements run on
whichever connection of the `sql.DB` is free, and a node drops what it sent itself. A
database is how often each insertion has been committed. `upset` is a ghost: why a
run need not converge (a message lost or failed, a statement outside the broadcast
list, a node not linked yet, a statement that ran in another client's transaction).

### RedisProxy

A request is its command, keys and id with the handler index of its `Context`;
`Handlers` is the chain `combineHandlers` makes, `Next1` is `Context.Next`. A step of a
handler is an action: `PubSubMiddleware` (publishes before the command runs; `Message` is
what JSON makes of the arguments: a key or value that is not UTF-8 becomes another one),
`NodeCMDEXEC`, `ClusterCMDEXEC`, `ClusterDEL`, `ClusterRead`, `Reply`; `Sync` is the subscriber.
For PUBLISH and SUBSCRIBE the steps are those between which the store holds no lock:
`Check`, `Join` (which may fail after the topic is joined), `Store`, then `Pub`, or `Find`,
`Make` and `Sub` for the map of writers, and `Writer` for delivery. libp2p may drop a message
where a buffer is full (`Drops`). A write leaves its id in `value` and what became of its
bytes in `bytes`; the ghosts `uneven` (keys of writes that differ between proxies) and
`evicted` (clients whose map of writers was replaced) name the exceptions. `MapRace` is the end of the
process that the Go runtime may choose when a map is written during another use.
External: Redis itself and the library `components-go`, whose subscriber is taken to drop
a node's own messages; of libp2p the topics, queues and buffers are modelled.

### The MySQL modules

Modelled from the copy under `IceFireDB-SQLProxy`; the copy under `IceFireDB-SQLite`
differs in import paths and a few lines of `client/pool.go` and `client/conn.go`. `Wire`
works with bytes that are digits of `Base` (256 in the code), so that the marker bytes
are the largest digits and short texts meet every length case; a packet is cut into
frames of `MaxPayloadLen`, with sequence numbers modulo `SeqSize`. Names, hashes and
ciphertexts are single elements that differ when their inputs do. `MySQLServer` and
`MySQLClient` are operators from a connection and a packet to the connection after it
and the packets written; `MySQLLink` has the streams and the actions `Dial`,
`ServerHandshake`, `ClientHandshake`, `ClientCommand`, `ServerCommand`, `ServerEOF`,
`ClientAnswer`, `ClientFails`, `Cut`. Behind the server is one of three handlers: the
SQLite node, the SQL proxy (the command passes through the library's client to a
MySQL server and back), or one that uses the library's result set helpers. `quirk` is
a ghost that records the five ways in which the code is known to leave the protocol:
full authentication whose end the client does not read, the answered COM_STMT_CLOSE,
the empty field list, a default value whose length Dump and Parse write and read
differently so that the field does not parse, the cell length in one byte. A client that
asks for a public key and gets an error panics (`cli.phase = "panic"`). A cell of the
helpers may be a Go string (`GoStr`), whose empty form is a nil slice. `Gtid` keeps `gone`, the set of ids
that were added, as the reference for the intervals.

## 3. Runs

| Run | Instance | Checks | Result |
|---|---|---|---|
| `replay` | 1 replica, 2 keys, 1 member, 7 commands, log of 4, 2 restarts | `TypeOK`, `SlotFromLog`, `FirstPassExact`, `PlaybackEnds` | holds |
| `install` | 2 replicas, blind, expiring and read-registered commands, log of 3, time 2, 1 restart, 1 installed snapshot | `SlotFromLog`, `FirstPassExact` | holds |
| `double_apply` | 2 replicas, INCRBY, 1 restart | `ReplicasAgree` | violated |
| `expiry` | 2 keys, 3 commands, times up to 3, 1 stop | `TypeOK`, `ExpiryIndexed`, `NeverEarly`, `ExpiryHappens` | holds |
| `hybrid` | 2 keys, 1 reader, 4 commands, buffer of 3 | `CommandsCoherent`, `StaleEnds` | holds |
| `pool` | 3 clients, minAlive = maxAlive = maxIdle = 2 | `TypeOK`, `Accounted`, `AliveBounded`, `LossBounded`, `GetConnReturns` | holds |
| `sessions` | 1 session, 2 senders, minAlive = maxAlive = maxIdle = 2, 2 attempts | `ServedWhileSpare` | holds |
| `collections` | every data type, 2 keys (1 for hashes and sorted sets), 2 members, lists of 2 in a range of 5 numbers, 3 commands, 2 of them during a scan | `TypeOK`, `ReadsAgree`, `ScanComplete`, `FlushEmpties`, `MoveConserves`, `ExpiryKept`, `ScanEnds` | holds |
| `drivers` | every driver, 4 keys (2 with one encoding, 2 with one prefix), 2 values, 1 reader, 3 operations, 1 fault | `AckedVisible`, `RangesRight`, `ImplementsBatches` | holds |
| `sqlsync` | both programs, 2 nodes, 2 clients on one node or two, pools of 2, 3 statements, 1 fault | `AppliedAtMost`, `Converges`, `Settles` | holds |
| `redis` | node, cluster and PubSub, 2 proxies, 3 clients, 2 keys (one not UTF-8), 3 requests, 1 fault | `SyncedOnce`, `KeyConverges`, `DeliveredOnce`, `SubscribersGetAll`, `Answered` | holds |
| `mysql` | 3 handlers, 3 plugins, with and without TLS and cache, 2 sessions, `Base` 8, frames of 20 | `InStep`, `LoginRight`, `DataArrives`, `GtidExact` | holds |

What they show:

- `SlotFromLog`: with `main.db` kept over a restart, a replica in the middle of a
  playback may show values from the past and the future of its applied index, but in
  a slot written by logged blind commands only values the log really had between
  the applied index and the highest index on its disk, so the playback ends in the
  right state. With installed snapshots this needs, in addition, that no command
  erases the slot: `restore()` deletes nothing, so a slot erased before the snapshot
  would come back. `FirstPassExact` covers the read-modify-write commands until the
  first restore; `double_apply` shows that they are lost after it: INCRBY is applied
  a second time to the database that already counts it. That contradicts what the
  README says of RAFT and consistency. ZADD and ZREM read and rewrite the size of the set and
  its score index: a playback over a newer disk can leave a wrong ZCARD and entries of old
  scores, so that of a sorted set only the members' scores are stable.
  ZINCRBY, ZREMRANGEBYSCORE and ZREMRANGEBYRANK are registered with `AddReadCommand`; a
  single one makes replicas differ without any fault, which is why both properties
  leave out the slots such commands write.
- `ExpiryIndexed`, `NeverEarly`, `ExpiryHappens`: the second look under the lock keeps
  the checker from deleting early, and a check that overwrites the next check time
  delays an expiry but does not lose it (the check that overwrites it sleeps at most
  its horizon). The second look misses one thing, of which `NeverEarly` does not speak:
  a missing expiry time reads as 0, so an old time key makes the checker delete a
  string whose TTL a SET has removed.
- `CommandsCoherent`, `StaleEnds`: invalidating the cache before the commit is enough
  for keys that a command wrote last, because the queued deletion follows every
  insertion made before it. It is not enough for the TTL checker, which does not
  exclude readers, nor for `restore()`; and a read that failed leaves a key without value
  in the cache until a write or an eviction, which both properties name: while such an entry is stale an INCR counts on
  from it, and one node writes a value the others do not have.
- `Accounted`, `AliveBounded`, `LossBounded`, `GetConnReturns`: the pool's count is exact,
  exceeds `maxAlive` by at most `minAlive`, loses fewer than `minAlive` connections to
  failures ever, and serves every client if clients give back what they get. The bound
  the pool's comment gives (`maxAlive` + 1) is not kept, as the upkeep makes connections on a
  stale count. The proxy's sessions do not give back what they get, and the pool
  can run dry; nor does the inbound loop, which keeps the connection of a sender in a
  transaction while it waits for the next one: with `maxAlive` senders in transactions it
  waits for ever, and so does every session. `ServedWhileSpare` says that this is the only
  harm they do: until the lost and the kept connections are `maxAlive` together, everyone
  who waits is served.
- `ReadsAgree`: after any commands the reads of a key tell one story, as do the bit
  and range reads of a string with each other, but for the keys in `suspect`: a
  member named twice is counted twice, ZINCRBY by 0 loses its score entry, LSET on a
  missing list leaves an element only LINDEX sees, LTRIM with both ends before the list
  deletes the elements and keeps the expiry time, or the meta entry too. `FlushEmpties`:
  FLUSHALL empties everything, but with a sorted set whose count is too large it never
  returns, and the expiry time that such an LTRIM left stays.
  `MoveConserves`, `ExpiryKept`: RPOPLPUSH neither loses an element nor the expiry of a
  rotated list, except after the expiry time has come; an RPOPLPUSH of the only element
  whose push is refused puts the element back, but not its expiry. `ScanComplete`, `ScanEnds`: a
  scan returns all that stays and ends, but the Redis variants end early when a page
  ends at the name "0".
- `ImplementsBatches`: hybriddb and ipfs batches are all or nothing, also after errors;
  badger's are as long as they fit in a transaction, and take effect in parts beyond it; oss, crdt and ipfs-log are eager: what was added stays, whatever a rollback
  says. ipfs keeps the first error of the content store for ever, and no later batch
  commits. `AckedVisible` gives the writes that are then still read back; oss loses one
  when S3 fails, since the error is dropped, and badger one whose `Set` was refused; a failing
  read is an error, but hybriddb and oss call the key missing; in hybriddb and ipfs a reader
  that is slower than a commit puts the old value in the cache, where it stays.
  `RangesRight`: ranges are right forwards, in crdt among the keys that begin like the one
  sought; backwards badger repeats the first key of the database and panics in an empty
  one, and crdt starts at the wrong end.
- `AppliedAtMost`, `Converges`, `Settles`: a committed statement is committed everywhere,
  by SQL proxies twice at home (the node hears itself), as long as transactions of two
  clients of a node do not overlap, since they share one connection at the peers. A
  finished remote transaction loses its connection, so that the pool runs dry; `Settles`
  holds until leaked connections, those kept for senders and those of sessions are all the
  pool has. Then the loop waits, for ever if the sessions stay.
- `SyncedOnce`, `KeyConverges`: no request runs twice, and a key with one writer has one
  value in the end behind node proxies, unless a write had arguments that are not UTF-8,
  which JSON changes on the way, or a random result; behind cluster proxies commands of the
  peers are never run. `DeliveredOnce`, `SubscribersGetAll`, `Answered`: the lock-free topic
  store costs connections (a client that joins second is refused), the process, or, when
  two first SUBSCRIBEs both make the map of writers, all messages of the one whose map is
  replaced; otherwise one who stays gets what libp2p delivers, once, and no request hangs
  unless the publishing loop does.
- `InStep`, `LoginRight`, `DataArrives`: outside the five quirks, client and server agree on
  what is a whole answer at every point where a connection can be cut; a login gets in
  exactly with the right password, with two refusals named (`MissesDb`, `NulRefused`), and an
  unknown user who asks for the key of a full authentication panics the library's client;
  texts, numbers, dates and NULLs arrive in both formats and through the proxy's
  re-encoding, but for the cases in `Altered` (an empty Go string is NULL in the helpers'
  text rows, among others) and for default values of fields: one that is not empty never
  arrives, one of 254 bytes (modulo 256) makes the client stop in the middle of the list, and
  a missing one becomes empty through the proxy. An execution with long data is always refused. `GtidExact`: interval sets are
  the canonical form of the ids added; containment, comparison and equality agree with sets.

Bounds. Two replicas suffice for disagreement, and one for a property of each replica
by itself. A log of four holds a TICK, a write, its erasure or second write and a
third command, on both sides of a snapshot; two restarts allow a restart in the
middle of a playback. In `expiry`, three times and a horizon of two let a check sleep past
an expiry time and wake before the end; three commands give a string, its expiry and
a change of it while a check runs. In `sessions`, two senders in transactions exhaust a pool of two. In `hybrid`, a buffer of three holds an insertion
ahead of a deletion and can be full. In `pool`, clients outnumber connections, the idle
list can be full, and the upkeep and the producer compete for the last connection.
`MaxCommands`, `MaxLog` and the like end behaviours, which is why those configurations
switch the deadlock check off; `pool` has no such bound and checks for deadlock;
`sessions` does not, as the system there really stops when all
connections are lost. Of EXPIRE, EXPIREAT, SETEX and SETEXAT, `install` uses
EXPIRE and `expiry` the two absolute forms; the relative ones differ by the addition in `Exec`.
In `collections` three commands make a count wrong, show it and flush it, or add, expire
and rotate; two members and pages of one or two names make a scan meet a name that was
removed and one that was added. In `drivers` four keys fill a range with an end on
each side and a key with another prefix in it; one reader is enough to be overtaken by a commit. In `sqlsync` three statements are a transaction of one client with a
statement of another in it, or an insertion before it. In `redis` three requests on three
clients are two that meet in the store of one proxy and one at the other. In `mysql`, `Base` 8
leaves three digits below the markers, so that texts of 3 to 8 bytes are what 251 to
256 bytes are in the code; frames of 20 digits are exceeded by a row and met exactly by
others; sequence numbers wrap within one result. The ids in `Gtid` reach 4, enough for
two intervals that are apart, adjacent or overlapping.

Fairness. `Apply`: raft's FSM goroutine runs as long as the process does. `Expiry`:
time passes, the ledis ticker calls `check()` each second, a handler that has begun
runs to its end. `HybridDB`: goroutines that can go on do. `Pool`: the same, and strong
fairness for three steps: `Produce`, since the producer looks every 10 ms and its
competitors take connections every 5 s or when a client asks; `Connected` and `Got`, since a server that is
tried again and again answers in the end (without it no pool could promise anything).
Clients give back what they hold (`ClientFairness`): the pool's usage comment asks for it.
`ProxyPool`: `popConn` and the inbound loop go on and sessions end (`SessionFairness`), but
nobody owes the loop another statement, so a sender's transaction may stay open.
`Keyspace`: the scanning client goes on. `SqlSync`, `RedisProxy`: the publishing and receiving
loops and the handlers are goroutines that run; nothing is assumed of clients, of
libp2p beyond delivery, or of the race for a map.

## 4. Proofs

All theorems are for arbitrary sets of replicas, nodes, keys, members, commands and
clients and arbitrary bounds. The only assumptions are the named `ASSUME`s of the
modules: the bounds are natural numbers, the limits of the pool are ordered as `NewPool`
orders them, clients are connected to nodes, and the values that stand for a missing one
(`Nil`, `None`, `Text`, `Blank`, `NoBytes`) are none of the values they are compared with, as `nil` in the code
is not a value. `SyncAssumption` also has clients, nodes and the connections of `sql.DB`
apart, since all three name connections, and some node; `ScoreAssumption` has finitely many
members, whose number the size entry counts, and `RetryAssumption` makes senders clients. TLC evaluates all of them in the runs.

Each component has one inductive invariant (`SqlSync` two). TLC checked it on the instance of the
component's run before it was proved (not `ConvInv`, see below), and every action has a lemma
that it preserves it.

- `ReplicationProofs!ReplaySafe`, `FirstPass`, `TypeCorrect` (`SlotFromLog`,
  `FirstPassExact`, `TypeOK`). `SlotFromLog` alone is not inductive: a snapshot must satisfy
  it too (`SnapFromLog`), a replayed TICK must give the time it gave before (`Times`: machine
  time is a function of the index; `Chain`: `ref` is the log, entry by entry), indices
  must be ordered (`Indices`), no checker may delete a slot whose commands set no expiry
  (`NoExpiries`, `NoTimers`), and with installed snapshots the log must not empty a stable
  slot (`Growing`). The step that matters is `Apply`: a blind command either leaves the
  slot alone, and the witness index stays in range or moves with the applied index, or
  writes what the log wrote there. The first part of the module has the facts about `Exec`:
  it keeps databases databases, changes only what `Writes` says, and blind commands do
  not depend on what they find in that slot.
- `ExpiryProofs!Indexed`, `ExpiryNeverEarly`, `TypeCorrect`. The invariant adds that
  EXPIREAT holds the lock only over an existing string and that a check works with a
  time that has come.
- `PoolProofs!CountExact`, `AliveBound`, `LossBound`, `TypeCorrect`. The bound on open
  connections needs `Reserved` (what is counted plus what `startNewConnections` may still
  make), the bound on losses `AtRisk`, and the count needs that the queue of waiting
  clients holds blocked clients once each, so that a hand-over adds one holder.

- `HybridDBProofs!TypeCorrect`, `Coherent` (`TypeOK`, `CommandsCoherent`). Of a key that a
  command wrote last, a copy that differs from the leveldb, in the cache or waiting in
  its buffer, must have a deletion behind it in the buffer (`Settles`), and a reader about
  to fill the cache must have the leveldb's value (`ReadersFresh`). Between the batch's
  Put and the commit every copy of the key, also one that is still right, has a deletion
  behind it (`Dropped` in `WriterFresh`), which is why the commit may then change the
  leveldb. The lock part of `TypeOK` (a command excludes readers and the TTL checker) is
  what keeps a new copy from entering between the two. The nil of a failed read is the one
  copy that may differ and stay; the invariant allows it, with the key in `failed`, wherever
  it speaks of copies.
- `DriversProofs!Visible`, `Refines` (`AckedVisible`, `ImplementsBatches`), for the six
  drivers at once. `LocalInv`, `HeldInv`, `ReadInv`: the leveldb of hybriddb
  and ipfs means what clients were told, whatever fails, and the contents behind its CIDs,
  those in the queue and those a reader has, exist. `BatchInv`: unless the batch's error is
  kept, the queue lacks no operation. `CacheInv`: the cache has nothing old and nothing that
  the batch will change. `BadgerInv`: what no part of the open batch has changed is as
  clients know it, and with the last part written everything is as the batch will have it.
  `EagerInv`: in oss, crdt and ipfs-log the open batch is in the store already, and writing
  oss's batch once more changes nothing. The last three, like `AckedVisible`,
  speak of keys that are not in doubt.
  That a batch with several operations on a key leaves the last (`ApplyAll`) needs the
  greatest position of a key, which `WFMin` of `WellFoundedInduction` gives. The refinement
  goes step by step: `Lock` is the abstract `Lock`; `AddOp` is `Add`, `Part`, `Lose` or a stutter, by driver
  and outcome; `CommitOk` is `Commit`; `CommitFails`, `Unlock` and `Restart` are `Discard` or
  stutters; the steps of reads stutter, since the mapping does not look at the cache.
- `SqlSyncProofs!AtMost` (`AppliedAtMost`). Counting commits is not enough: the sum of what a
  node has committed of a write, of the open transactions that hold it (one on a
  client's connection, one on a connection that heard it) and of what is still to be
  heard is at most `Copies` (`Bound`). A BEGIN that commits another client's transaction, or a COMMIT
  that finishes it, moves a write from one summand to another. This needs that at most one
  transaction of each sort holds the write and none that heard it while it is still
  to come (`Single`), that a write is offered by one client or carried by one message per
  node (`NetInv`), also after messages were swapped, and that writes not made yet are
  nowhere (`Unused`).
- `SqlSyncProofs!Convergence` (`Converges`). While nothing has gone wrong (`upset` is empty), there are
  for every client the writes it made and its view of its own node: whether it is in a
  transaction, the writes in it and those it committed (`Ghost`). What its statements in the queue to
  another node, and then the one in its handler, make of the view that this node has of
  the client (`Trail`) is the client's view at home; and each node's transactions (`Owns`) and commits
  (`Counts`) are those of the views. A statement that runs in no other client's transaction does to the
  connection and the database what it does to the view, in MySQL and, when it
  succeeds, in SQLite (`MySQLDid`, `SQLiteDid`); so a client's statement lengthens the trail, a publication
  moves its end into the queue and a reception shortens it. When nothing is on its way, the
  views are equal. The invariant says that such views exist, which TLC cannot evaluate
  (they are functions on the naturals); it checked `Converges` itself.
- `RedisProxyProofs!RunsOnce`, `Converged`, `GetsOnce`, `AllGet` (`SyncedOnce`, `KeyConverges`, `DeliveredOnce`,
  `SubscribersGetAll`). A request is in one handler, or in one message for each
  other proxy, or counted (`SyncInv`); the same of a published message (`TopicInv`, whose `Delivery` says that
  whoever was subscribed has it or a message for its proxy carries it). Without faults, a write that any
  key holds has run at every proxy or will (`Reaches`), and what a proxy will have made of a
  key once it has run the messages from the only writer's proxy is what that proxy has
  now (`Converging`, over the last message that sets the key), its bytes included unless the
  key is `uneven` (`Evenly`). A subscriber is in the map of writers of its proxy or `evicted`, and
  the audience of a message leaves out proxies where libp2p dropped it (`Delivery`); messages
  of a proxy may be dropped only at a cost in faults.

- `KeyspaceProofs!StoredAgree`, `ScansComplete`, `ExpiriesKept`, `MovesConserve`, `FlushesEmpty` (`ScanComplete`,
  `ExpiryKept`, `MoveConserves`, `FlushEmpties`), for all data types at once. `KeysInv` says of every
  key what no command can break (`Basic`: the types' fields are apart, list numbers are in
  range, an expiry time has its time key) and of every key that is not suspect that what is
  stored tells one story (`Sound`: the count is the number of entries, the score entries are
  those of the members, an expiry time is of a key that exists); LTRIM is the one list command
  that may leave an expiry time behind, and then the key is suspect. Each command is brought to
  one of three forms, whose effect on the invariant is proved once: it puts or removes
  entries and moves the count by the number of names that are new or gone (`Done`), it
  clears keys (`Cleared`), or it works on a list (`Good`). That a count is right after a command
  is a fact about cardinalities of the sets of names before and after. RPOPLPUSH is a
  bijection between the places of the elements before and after it (`MovedConserves`). The proof
  about scans has its own invariant (`ScanKept`): what was there all along and comes before the
  cursor has been seen; a page holds the names with fewer than `count` names before them,
  so no name is left between it and the next cursor, whatever is added or removed. The
  induction it needs (the greatest name of a page, the least name left out) is that of `WFMin`.

What is only model-checked, and why:

- Liveness (`PlaybackEnds`, `ExpiryHappens`, `StaleEnds`, `GetConnReturns`, `ServedWhileSpare`, `ScanEnds`,
  `Settles`, `Answered`): the prover handles neither fairness nor `ENABLED`.
- `TypeOK` and `ReadsAgree` of `Keyspace`, `MySQLLink` and `Gtid` (`InStep`, `LoginRight`,
  `DataArrives`, `GtidExact`): what they say is computed by folds over bits, bytes and
  intervals, or compared with sorted sequences, and the provers cannot do induction over
  data, which even the existence of the sorted sequence of a finite set needs. Of `ReadsAgree`,
  `StoredAgree` proves the part about what is stored; that sorted reads list it is checked by TLC.
- `RangesRight`: the same; the iterators' positions are a recursive function and the
  reference is a sorted sequence.

## 5. What is not in the model

- Raft: elections, log matching, leases, sessions and the request pipeline. The model
  starts from the committed log. The guard of `InstallSnapshot` (the sender's snapshot
  is ahead of the receiver) is wider than raft's, which needs the log to be truncated.
- In `Replication`, a handler reads the clock once and a visit of the checker is one
  step; `Expiry` has the finer steps. The nanoseconds of `m.ts` and the random seed of
  TICK are left out.
- Of the commands: in `Commands`, the logged ones are strings and one sorted set with
  one score per ZADD and one value per MSET, without the 64-bit wrap of INCRBY; in
  `Collections` and `Keyspace`, HSTRLEN, COUNT below 1, MATCH patterns, negative SETRANGE
  offsets and scores that do not parse. HPERSIST and LPERSIST are not registered.
- In `Drivers`: `DB.Put`, `DB.Delete`, `SyncCommit` and driver snapshots, which ledis'
  commands do not reach; `singularity.go`; the side databases from which raft snapshots
  of crdt and ipfs-log nodes are taken, which stay empty, and badger's, which has none, so
  that such a node, started from a snapshot, has lost what the log no longer holds.
  badger writes a part of a batch asynchronously; here it is there at once, or lost with an
  error that the commit returns. An operation is refused for the size of its value only.
  Failing queries of the CRDT store are left out.
- In `SqlSync`: the read-only channel (a second copy of the same loop), implicit commits
  of DDL, shutdown, and the discovery of peers, which is one step.
- In `RedisProxy`: the namespace middleware, values and formats of replies, the checks
  of argument numbers; what becomes of the bytes of a PUBLISHed message (its id is followed);
  entering a writer into a map is one step, which Go's runtime may instead end the process
  for (`MapRace`). Commands with random results (`Drawn`) are in the model and the proofs but
  not among the commands of the run. A command that panics is recovered and gets no reply; no command
  of the model does.
- In the MySQL modules: TLS itself (a flag), compression, the streaming readers, error
  codes and names, charsets beyond their number, and the read-only user's check in the
  proxy's handler. `bindStmtArgs` without new types panics, which ends the connection.
- In the pool: cancellation of the context (shutdown of the proxy), CreatedCount, and
  a failing `NewPool`, which ends the program.
- In `HybridDB`, which keys are due is nondeterministic, INCR saturates at `MaxValue`,
  and the admission of the cache is wider than ristretto's (it may admit any new item).
- `servers.go` beyond the flushes, `server_info.go`, `flags.go`, `global.go`: INFO output,
  counters and the command line.

## 6. Plan

In this order:

1. An abstract counter pool refined by `Pool`, an abstract replicated map refined by
   `Replication` without restarts.
2. The commands of `Collections` as log entries of `Replication`, with the
   classification of `Commands` and its lemmas extended.
3. The snapshot of nodes whose driver is not a leveldb, in `Replication`.
