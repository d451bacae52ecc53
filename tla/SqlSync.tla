------------------------------ MODULE SqlSync ------------------------------
(***************************************************************************)
(* How the nodes of IceFireDB-SQLProxy and IceFireDB-SQLite keep their     *)
(* databases alike: a client's statement runs on the local database and is *)
(* then published as text on a libp2p topic; every node runs the           *)
(* statements it hears on its own database.                                *)
(*                                                                         *)
(* kind tells which of the two programs the nodes run. A SQLProxy client   *)
(* has a backend connection of its own from the pool, and the statements   *)
(* heard from a peer share one connection while a transaction is open      *)
(* (txConn). SQLite nodes run everything on the connections of one sql.DB, *)
(* whichever is free. Write w is the w-th INSERT of the run; the database  *)
(* is how often each one has been committed.                               *)
(***************************************************************************)
EXTENDS Integers, Sequences, FiniteSets, SequencesExt

CONSTANTS Node, Client, None,
          Homes,        \* the ways the clients choose their nodes
          DBConn,       \* the connections sql.DB opens
          MaxAlive,     \* the size of a SQLProxy pool
          MaxOps,       \* bound on the statements of all clients
          MaxFaults,    \* bound on lost, reordered, failed messages
          MaxUpset      \* clients stop after this many kinds of mishap

VARIABLES kind,     \* "sqlproxy" or "sqlite"
          home,     \* the node a client connects to
          up,       \* the nodes that have joined the topic
          found,    \* found[n]: peers that n's discovery will still dial
          links,    \* pairs of connected hosts
          session,  \* each client's session: new, on or gone
          offer,    \* offer[c]: statement c's handler sends to Outbound, or None
          net,      \* net[m][n]: what m published and n has not consumed
          stuck,    \* nodes whose PubLoop waits on Logs, which nobody reads
          tx,       \* tx[n][k]: the transaction on connection k of n
          free,     \* free[n]: connections of n's pool that can be taken
          db,       \* db[n][w]: how often write w is committed at n
          ops, faults,
          leaked,   \* ghost: connections the code drops without a push
          upset     \* ghost: what happened that the design does not cover

topic  == <<up, found, links>>
bounds == <<ops, faults>>
vars   == <<kind, home, topic, session, offer, net, stuck, tx, free, db,
            bounds, leaked, upset>>

Write     == 1..MaxOps
Statement == [op : {"begin", "start", "commit", "rollback", "insert", "prepared"},
              w  : Write \cup {0}]      \* 0: no write
Conn      == Client \cup Node \cup DBConn
NoTx      == [open |-> FALSE, writes |-> {}, owner |-> None]

ASSUME SyncAssumption == /\ None \notin Client \cup Statement
                         /\ Client \cap Node = {} /\ DBConn \cap (Client \cup Node) = {}
                         /\ Node # {}
                         /\ Homes \subseteq [Client -> Node]
                         /\ {MaxAlive, MaxOps, MaxFaults, MaxUpset} \subseteq Nat

Init == /\ kind \in {"sqlproxy", "sqlite"}
        /\ home \in Homes
        /\ up = {} /\ links = {}
        /\ found = [n \in Node |-> {}]
        /\ session = [c \in Client |-> "new"]
        /\ offer = [c \in Client |-> None]
        /\ net = [m \in Node |-> [n \in Node |-> <<>>]]
        /\ stuck = {}
        /\ tx = [n \in Node |-> [k \in Conn |-> NoTx]]
        /\ free = [n \in Node |-> MaxAlive]
        /\ db = [n \in Node |-> [w \in Write |-> 0]]
        /\ ops = 0 /\ faults = 0
        /\ leaked = [n \in Node |-> 0]
        /\ upset = {}

-----------------------------------------------------------------------------
(* Joining the topic and dialling peers. *)

\* InitP2P joins the topic after the peers that advertise the service now
\* have been asked for; they are dialled in a goroutine.
InitP2P(n) ==
  /\ n \notin up
  /\ up' = up \cup {n}
  /\ found' = [found EXCEPT ![n] = up]
  /\ UNCHANGED <<kind, home, links, session, offer, net, stuck, tx, free, db,
                 bounds, leaked, upset>>

\* Each peer found is dialled once; an error of the dial is only logged.
HandlePeerDiscovery(n) ==
  \E m \in found[n] :
    /\ found' = [found EXCEPT ![n] = @ \ {m}]
    /\ links' \in {links, links \cup {{m, n}}}
    /\ UNCHANGED <<kind, home, up, session, offer, net, stuck, tx, free, db,
                   bounds, leaked, upset>>

-----------------------------------------------------------------------------
(* The databases. A result is [ok, tx, add]: whether the statement         *)
(* succeeded, the connection's transaction after it, and the writes that   *)
(* it committed.                                                           *)

Result(ok, t, add) == [ok |-> ok, tx |-> t, add |-> add]
Opened(c)          == [open |-> TRUE, writes |-> {}, owner |-> c]
Insert(t, w)       == IF t.open
                      THEN Result(TRUE, [t EXCEPT !.writes = @ \cup {w}], {})
                      ELSE Result(TRUE, t, {w})

\* MySQL: BEGIN commits an open transaction, ending none is not an error.
MySQLExecute(n, k, c, s) ==
  LET t == tx[n][k]
  IN  CASE s.op \in {"begin", "start"} -> Result(TRUE, Opened(c), t.writes)
        [] s.op = "commit"             -> Result(TRUE, NoTx, t.writes)
        [] s.op = "rollback"           -> Result(TRUE, NoTx, {})
        [] OTHER                       -> Insert(t, s.w)

\* SQLite: transactions do not nest, none can be ended when none is open,
\* and a writer waits in vain for a transaction that has written.
SQLiteExecute(n, k, c, s) ==
  LET t == tx[n][k]
      Fail == Result(FALSE, t, {})
  IN  CASE s.op = "begin"    -> IF t.open THEN Fail ELSE Result(TRUE, Opened(c), {})
        [] s.op = "commit"   -> IF t.open THEN Result(TRUE, NoTx, t.writes) ELSE Fail
        [] s.op = "rollback" -> IF t.open THEN Result(TRUE, NoTx, {}) ELSE Fail
        [] OTHER             -> IF \E j \in Conn \ {k} : tx[n][j].writes # {}
                                THEN Fail ELSE Insert(t, s.w)

\* The effect of result r of a statement of c on connection k of node n.
Effect(n, k, r) ==
  /\ tx' = [tx EXCEPT ![n][k] = r.tx]
  /\ db' = [db EXCEPT ![n] = [w \in Write |-> @[w] + (IF w \in r.add THEN 1 ELSE 0)]]

\* Client c's statement meets a transaction of another client, or runs
\* beside its own.
Shares(n, k, c) == \/ tx[n][k].open /\ tx[n][k].owner # c
                   \/ kind = "sqlite" /\ \E j \in DBConn \ {k} : tx[n][j].owner = c

Upset(reason, holds) == IF holds THEN {reason} ELSE {}

-----------------------------------------------------------------------------
(* Clients. *)

\* A connection is served once the node listens and, for SQLProxy, the pool
\* gives the session a backend connection.
OnConn(c) ==
  LET n == home[c]
  IN  /\ n \in up /\ session[c] = "new"
      /\ session' = [session EXCEPT ![c] = "on"]
      /\ IF kind = "sqlproxy"
         THEN free[n] > 0 /\ free' = [free EXCEPT ![n] = @ - 1]
         ELSE UNCHANGED free
      /\ ops < MaxOps
      /\ UNCHANGED <<kind, home, topic, offer, net, stuck, tx, db, bounds, leaked, upset>>

\* What the prefixes of DMLSQL catch: neither START TRANSACTION nor what a
\* prepared statement was given as arguments.
IsDML(s) == s.op # "start"

\* HandleQuery and HandleStmtExecute of SQLProxy: run on the session's own
\* connection; a DML statement that succeeded waits to be broadcast.
HandleQuery(c, s) ==
  LET n == home[c]
      r == MySQLExecute(n, c, c, s)
  IN  /\ Effect(n, c, r)
      /\ offer' = [offer EXCEPT ![c] = IF r.ok /\ IsDML(s) THEN s ELSE None]
      /\ upset' = upset \cup Upset("unsent", ~IsDML(s))

\* Exec of SQLite: db.Exec takes any connection of the sql.DB. A statement
\* that is no DML goes to db.Query (START TRANSACTION is a syntax error
\* there), and prepared statements are refused.
Exec(c, s) ==
  LET n == home[c]
  IN  IF s.op \in {"start", "prepared"}
      THEN UNCHANGED <<tx, db, offer, upset>>
      ELSE \E k \in DBConn :
             LET r == SQLiteExecute(n, k, c, s)
             IN  /\ Effect(n, k, r)
                 /\ offer' = [offer EXCEPT ![c] = IF r.ok /\ IsDML(s) THEN s ELSE None]
                 /\ upset' = upset \cup Upset("shared", Shares(n, k, c))

Query(c) ==
  /\ session[c] = "on" /\ offer[c] = None
  /\ ops < MaxOps /\ Cardinality(upset) < MaxUpset
  /\ ops' = ops + 1
  /\ \E s \in {x \in Statement :
               x.w = IF x.op \in {"insert", "prepared"} THEN ops + 1 ELSE 0} :
       IF kind = "sqlproxy" THEN HandleQuery(c, s) ELSE Exec(c, s)
  /\ UNCHANGED <<kind, home, topic, session, net, stuck, free, faults, leaked>>

\* The client leaves. SQLProxy's pushConn drops a connection that is in a
\* transaction (the server rolls it back when it is collected); SQLite
\* leaves the transaction on the sql.DB's connection.
Quit(c) ==
  LET n == home[c]
      inTx == tx[n][c].open
  IN  /\ session[c] = "on" /\ offer[c] = None /\ ops < MaxOps
      /\ ops' = ops + 1
      /\ session' = [session EXCEPT ![c] = "gone"]
      /\ tx' = [tx EXCEPT ![n][c] = NoTx]
      /\ free' = [free EXCEPT ![n] = IF kind = "sqlproxy" /\ ~inTx THEN @ + 1 ELSE @]
      /\ leaked' = [leaked EXCEPT ![n] = IF inTx THEN @ + 1 ELSE @]
      /\ UNCHANGED <<kind, home, topic, offer, net, stuck, db, faults, upset>>

-----------------------------------------------------------------------------
(* The publishing loop of a node: it takes a statement from Outbound and   *)
(* publishes it. libp2p hands it to every connected node and to the        *)
(* publisher's own subscription; SQLite's SubLoop drops the latter.        *)

Reached(m) == {n \in up : n = m \/ {m, n} \in links}

\* Slip: the sender is not looked at.
PassesOnAll(n, m) == TRUE

PassesOn(n, m) == kind = "sqlite" => m # n

Publish(m) ==
  \E c \in Client :
    /\ m \notin stuck /\ home[c] = m /\ offer[c] # None
    /\ offer' = [offer EXCEPT ![c] = None]
    /\ net' = [net EXCEPT ![m] = [n \in Node |->
                 IF n \in Reached(m) /\ PassesOn(n, m)
                 THEN Append(@[n], [s |-> offer[c], by |-> c]) ELSE @[n]]]
    /\ upset' = upset \cup Upset("unlinked", Reached(m) # Node)
    /\ UNCHANGED <<kind, home, topic, session, stuck, tx, free, db, bounds, leaked>>

\* SQLProxy's handleOutbound logs the error and goes on.
HandleOutbound(m) == stuck' = stuck

\* SQLite's PubLoop reports the error on Logs and never returns from it.
PubLoop(m) == stuck' = stuck \cup {m}

PublishFails(m) ==
  \E c \in Client :
    /\ m \notin stuck /\ home[c] = m /\ offer[c] # None /\ faults < MaxFaults
    /\ offer' = [offer EXCEPT ![c] = None]
    /\ IF kind = "sqlproxy" THEN HandleOutbound(m) ELSE PubLoop(m)
    /\ faults' = faults + 1
    /\ upset' = upset \cup {"fault"}
    /\ UNCHANGED <<kind, home, topic, session, net, tx, free, db, ops, leaked>>

\* Messages between nodes are lost, or validated out of order.
Disturb(m, n) ==
  /\ m # n /\ net[m][n] # <<>> /\ faults < MaxFaults
  /\ faults' = faults + 1
  /\ \/ net' = [net EXCEPT ![m][n] = Tail(@)]
     \/ /\ Len(net[m][n]) > 1
        /\ net' = [net EXCEPT ![m][n] = <<@[2], @[1]>> \o SubSeq(@, 3, Len(@))]
  /\ upset' = upset \cup {"fault"}
  /\ UNCHANGED <<kind, home, topic, session, offer, stuck, tx, free, db, ops, leaked>>

-----------------------------------------------------------------------------
(* The subscription of node n: SubLoop or handleInbound passes each message *)
(* to asyncSQL, one at a time.                                              *)

\* A heard prepared statement has lost its arguments and fails; any other
\* may fail for reasons of this node.
Failing(s) == IF s.op = "prepared" THEN {TRUE}
              ELSE IF faults < MaxFaults THEN BOOLEAN ELSE {FALSE}

\* Slip: the connection of an open transaction is not kept for its sender.
InboundNotKept(n, m, c, r) ==
  /\ free[n] > 0
  /\ Effect(n, m, [r EXCEPT !.tx = NoTx])
  /\ UNCHANGED <<free, leaked, upset>>

\* Slip: a plain connection is not pushed back.
InboundNotPushed(n, m, c, r) ==
  /\ tx[n][m].open \/ free[n] > 0
  /\ Effect(n, m, r)
  /\ free' = [free EXCEPT ![n] = IF tx[n][m].open THEN @ ELSE @ - 1]
  /\ UNCHANGED <<leaked, upset>>

\* A plain connection is taken from the pool (while it has none the loop waits
\* in popConn, without effect on anything), and pushed back, kept for the
\* sender while in a transaction, and dropped after an error. A kept one is
\* forgotten when its transaction ends.
HandleInboundSQL(n, m, c, r) ==
  LET ok   == tx[n][m].open        \* txConn has a connection of the sender
      Pool(f, l) == /\ free'   = [free EXCEPT ![n] = @ + f]
                    /\ leaked' = [leaked EXCEPT ![n] = @ + l]
  IN  /\ ok \/ free[n] > 0
      /\ Effect(n, m, r)
      /\ IF ok THEN Pool(0, IF r.ok /\ ~r.tx.open THEN 1 ELSE 0)
         ELSE IF ~r.ok THEN Pool(-1, 1)
         ELSE Pool(IF r.tx.open THEN -1 ELSE 0, 0)
      /\ upset' = upset \cup Upset("shared", Shares(n, m, c))
                        \cup Upset("failed", ~r.ok)

\* asyncSQL of SQLite: db.Exec on any connection, errors are logged.
AsyncSQL(n, k, c, r) ==
  /\ Effect(n, k, r)
  /\ upset' = upset \cup Upset("shared", Shares(n, k, c)) \cup Upset("failed", ~r.ok)
  /\ UNCHANGED <<free, leaked>>

Receive(n) ==
  \E m \in Node :
    /\ net[m][n] # <<>>
    /\ net' = [net EXCEPT ![m][n] = Tail(@)]
    /\ LET s == Head(net[m][n]).s
           c == Head(net[m][n]).by
       IN  \E fails \in Failing(s), k \in IF kind = "sqlite" THEN DBConn ELSE {m} :
             LET r == IF fails THEN Result(FALSE, tx[n][k], {})
                      ELSE IF kind = "sqlite" THEN SQLiteExecute(n, k, c, s)
                      ELSE MySQLExecute(n, k, c, s)
             IN  /\ IF kind = "sqlite" THEN AsyncSQL(n, k, c, r)
                                       ELSE HandleInboundSQL(n, m, c, r)
                 /\ faults' = faults + (IF fails /\ s.op # "prepared" THEN 1 ELSE 0)
    /\ UNCHANGED <<kind, home, topic, session, offer, stuck, ops>>

Next == \/ \E n \in Node : \/ InitP2P(n) \/ HandlePeerDiscovery(n)
                           \/ Publish(n) \/ PublishFails(n) \/ Receive(n)
        \/ \E m, n \in Node : Disturb(m, n)
        \/ \E c \in Client : OnConn(c) \/ Query(c) \/ Quit(c)

\* The goroutines of a node are scheduled; clients and faults owe nothing.
Spec == /\ Init /\ [][Next]_vars
        /\ \A n \in Node : WF_vars(Publish(n)) /\ WF_vars(Receive(n))

-----------------------------------------------------------------------------
(* Properties. *)

\* How often the node of its client has a committed write: SQLProxy hears
\* its own publication and runs it again, SQLite drops it by its sender.
Copies == IF kind = "sqlproxy" THEN 2 ELSE 1

\* AppliedAtMost (SubLoop, handleInbound, asyncSQL): however messages are
\* lost, reordered or fail, no node commits a write more often than the
\* client's node hears it.
AppliedAtMost ==
  \A n \in Node, w \in Write : db[n][w] <= Copies

Quiet == /\ \A c \in Client : offer[c] = None
         /\ \A m, n \in Node : net[m][n] = <<>>

\* Converges (broadcast, handleInboundSQL, Exec): once everything published
\* is consumed, all nodes have committed the same writes (SQLProxy the
\* client's own node twice), rolled back ones nowhere, provided that no
\* message met a fault or failed, no statement escaped the broadcast or found
\* a node not linked, and no statement ran in another client's transaction.
Converges ==
  Quiet /\ upset = {} =>
    \A w \in Write : \E origin \in Node : \A n \in Node :
      db[origin][w] = (IF n = origin THEN 1 ELSE Copies) * db[n][w]

\* The pool of n has nothing to give: sessions have its connections, the
\* inbound loop keeps them for senders in a transaction, or they leaked.
Exhausted(n) ==
  /\ kind = "sqlproxy"
  /\ leaked[n] + Cardinality({m \in Node : tx[n][m].open})
       + Cardinality({c \in Client : home[c] = n /\ session[c] = "on"}) >= MaxAlive

\* Settles (handleOutbound, PubLoop, SubLoop, handleInboundSQL): every
\* statement that succeeded is eventually published and consumed by every
\* node, unless SQLite's PubLoop met an error before or all connections of a
\* SQLProxy pool are leaked, kept for senders in a transaction, or held by
\* sessions, so that the inbound loop waits in popConn.
Settles == <>[](Quiet \/ stuck # {} \/ \E n \in Node : Exhausted(n))

=============================================================================
