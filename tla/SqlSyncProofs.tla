--------------------------- MODULE SqlSyncProofs ---------------------------
(***************************************************************************)
(* Theorems about SqlSync for every set of nodes, clients and connections, *)
(* every number of statements and of faults.  Of a write, a node has what  *)
(* it committed, what is in an open transaction and what it will still     *)
(* hear; the first invariant bounds their sum.  The second one, which      *)
(* needs that nothing went wrong yet, says that what a node has made of a  *)
(* client's statements and has still to hear of them is what the client    *)
(* made at its own node; so the databases are alike when all is heard.     *)
(***************************************************************************)
EXTENDS SqlSync, TLAPS

TxRec == [open : BOOLEAN, writes : SUBSET Write, owner : Client \cup {None}]

\* The statements of clients, and those that are broadcast.
Stmt == {x \in Statement : x.op \in {"insert", "prepared"} => x.w \in Write}
Sent == {x \in Stmt : x.op # "start"}
Msg == [s : Sent, by : Client]

Types ==
    /\ kind \in {"sqlproxy", "sqlite"} /\ home \in [Client -> Node]
    /\ offer \in [Client -> Sent \cup {None}]
    /\ net \in [Node -> [Node -> Seq(Msg)]]
    /\ tx \in [Node -> [Conn -> TxRec]]
    /\ db \in [Node -> [Write -> Nat]]
    /\ ops \in Nat

\* The connections on which a node runs what it hears.  In SQLite they are
\* all alike; in SQLProxy the clients have their own.
Heard == IF kind = "sqlite" THEN Conn ELSE Node

Holds(n, k, w) == w \in tx[n][k].writes
InTx(n, w) == \E k \in Heard : Holds(n, k, w)
Own(n, w) == kind = "sqlproxy" /\ \E c \in Client : Holds(n, c, w)

Carries(m, n, i, w) == i \in DOMAIN net[m][n] /\ net[m][n][i].s.w = w
InNet(n, w) == \E m \in Node : \E i \in Nat : Carries(m, n, i, w)
Offered(c, w) == offer[c] # None /\ offer[c].w = w

\* Write w is still to be heard by node n.
Coming(n, w) ==
    \/ InNet(n, w)
    \/ \E c \in Client : Offered(c, w) /\ (kind = "sqlite" => home[c] # n)

One(b) == IF b THEN 1 ELSE 0

\* No node commits a write more often than Copies, ever.
Bound(n, w) == db[n][w] + One(InTx(n, w)) + One(Own(n, w)) + One(Coming(n, w)) <= Copies

\* One transaction of each sort holds a write, and none that heard it while
\* it is still to be heard.
Single(n, w) ==
    /\ \A j, k \in Heard : Holds(n, j, w) /\ Holds(n, k, w) => j = k
    /\ kind = "sqlproxy" => \A c, d \in Client : Holds(n, c, w) /\ Holds(n, d, w) => c = d
    /\ Coming(n, w) => ~InTx(n, w)

NodeInv(n, w) == Bound(n, w) /\ Single(n, w)

\* A write is offered by one client, or in one message for each node.
NetInv(w) ==
    /\ \A c, d \in Client : Offered(c, w) /\ Offered(d, w) => c = d
    /\ \A c \in Client, n \in Node : Offered(c, w) => ~InNet(n, w)
    /\ \A n, l, m \in Node : \A i, j \in Nat :
          Carries(l, n, i, w) /\ Carries(m, n, j, w) => l = m /\ i = j

\* A write that no client has made yet is nowhere.
Unused(w) ==
    w > ops =>
        /\ \A n \in Node : db[n][w] = 0 /\ ~InNet(n, w) /\ \A k \in Conn : ~Holds(n, k, w)
        /\ \A c \in Client : ~Offered(c, w)

Inv ==
    /\ Types
    /\ \A w \in Write : NetInv(w) /\ Unused(w) /\ \A n \in Node : NodeInv(n, w)

-----------------------------------------------------------------------------
(* What a statement does to a connection's transaction. *)

\* A write other than the statement's is committed, rolled back or stays.
Keeps(t, u, add, w) ==
    /\ w \in add => w \in t.writes /\ w \notin u.writes
    /\ w \in u.writes => w \in t.writes

\* Its own goes into the transaction or is committed.
Makes(t, u, add, w) == w \notin t.writes => w \notin add \/ w \notin u.writes

Good(t, r, x) ==
    /\ r.tx \in TxRec /\ r.add \in SUBSET Write
    /\ \A w \in Write : IF w = x.w THEN Makes(t, r.tx, r.add, w) ELSE Keeps(t, r.tx, r.add, w)

(* Statements that fail change nothing. *)
LEMMA FailGood ==
    ASSUME NEW t \in TxRec, NEW x
    PROVE  Good(t, Result(FALSE, t, {}), x)
  BY DEF Good, Result, Makes, Keeps

(* BEGIN, COMMIT and ROLLBACK, whatever they do with the open writes. *)
LEMMA EndGood ==
    ASSUME NEW t \in TxRec, NEW x, NEW u \in TxRec, u.writes = {}, NEW add \in {t.writes, {}}
    PROVE  Good(t, Result(TRUE, u, add), x)
<1>1. t.writes \in SUBSET Write
  BY DEF TxRec
<1> QED BY <1>1 DEF Good, Result, Makes, Keeps

(* New transactions. *)
LEMMA TxFacts ==
    /\ NoTx \in TxRec /\ NoTx.writes = {}
    /\ \A c \in Client : Opened(c) \in TxRec /\ Opened(c).writes = {}
  BY DEF NoTx, Opened, TxRec

(* INSERT. *)
LEMMA InsertGood ==
    ASSUME NEW t \in TxRec, NEW x, x.w \in Write
    PROVE  Good(t, Insert(t, x.w), x)
<1> DEFINE w == x.w
           u == [t EXCEPT !.writes = @ \cup {w}]
<1>1. t.writes \in SUBSET Write
  BY DEF TxRec
<1>2. t.writes \cup {w} \in SUBSET Write
  BY <1>1
<1>3. u \in TxRec
  BY <1>2, Zenon DEF TxRec
<1>4. u.writes = t.writes \cup {w}
  BY Zenon DEF TxRec
<1>5. Insert(t, w) = IF t.open THEN Result(TRUE, u, {}) ELSE Result(TRUE, t, {w})
  BY Zenon DEF Insert
<1> HIDE DEF u
<1> QED BY <1>1, <1>3, <1>4, <1>5 DEF Good, Result, Makes, Keeps

(* Statements on MySQL. *)
LEMMA MySQLGood ==
    ASSUME Types, NEW n \in Node, NEW k \in Conn, NEW c \in Client, NEW x \in Stmt
    PROVE  Good(tx[n][k], MySQLExecute(n, k, c, x), x)
<1>1. tx[n][k] \in TxRec
  BY DEF Types
<1>2. CASE x.op \in {"begin", "start"}
  <2>1. MySQLExecute(n, k, c, x) = Result(TRUE, Opened(c), tx[n][k].writes)
    BY <1>2 DEF MySQLExecute
  <2> QED BY <1>1, <2>1, TxFacts, EndGood
<1>3. CASE x.op = "commit"
  <2>1. MySQLExecute(n, k, c, x) = Result(TRUE, NoTx, tx[n][k].writes)
    BY <1>3 DEF MySQLExecute
  <2> QED BY <1>1, <2>1, TxFacts, EndGood
<1>4. CASE x.op = "rollback"
  <2>1. MySQLExecute(n, k, c, x) = Result(TRUE, NoTx, {})
    BY <1>4 DEF MySQLExecute
  <2> QED BY <1>1, <2>1, TxFacts, EndGood
<1>5. CASE x.op \in {"insert", "prepared"}
  <2>1. MySQLExecute(n, k, c, x) = Insert(tx[n][k], x.w)
    BY <1>5 DEF MySQLExecute
  <2>2. x.w \in Write
    BY <1>5 DEF Stmt
  <2> QED BY <1>1, <2>1, <2>2, InsertGood
<1> QED BY <1>2, <1>3, <1>4, <1>5 DEF Stmt, Statement

(* Statements on SQLite. *)
LEMMA SQLiteGood ==
    ASSUME Types, NEW n \in Node, NEW k \in Conn, NEW c \in Client, NEW x \in Sent
    PROVE  Good(tx[n][k], SQLiteExecute(n, k, c, x), x)
<1>1. tx[n][k] \in TxRec
  BY DEF Types
<1>2. Good(tx[n][k], Result(FALSE, tx[n][k], {}), x)
  BY <1>1, FailGood
<1>3. CASE x.op = "begin"
  <2>1. SQLiteExecute(n, k, c, x) \in {Result(TRUE, Opened(c), {}), Result(FALSE, tx[n][k], {})}
    BY <1>3 DEF SQLiteExecute
  <2> QED BY <1>1, <1>2, <2>1, TxFacts, EndGood
<1>4. CASE x.op = "commit"
  <2>1. SQLiteExecute(n, k, c, x) \in {Result(TRUE, NoTx, tx[n][k].writes), Result(FALSE, tx[n][k], {})}
    BY <1>4 DEF SQLiteExecute
  <2> QED BY <1>1, <1>2, <2>1, TxFacts, EndGood
<1>5. CASE x.op = "rollback"
  <2>1. SQLiteExecute(n, k, c, x) \in {Result(TRUE, NoTx, {}), Result(FALSE, tx[n][k], {})}
    BY <1>5 DEF SQLiteExecute
  <2> QED BY <1>1, <1>2, <2>1, TxFacts, EndGood
<1>6. CASE x.op \in {"insert", "prepared"}
  <2>1. SQLiteExecute(n, k, c, x) \in {Insert(tx[n][k], x.w), Result(FALSE, tx[n][k], {})}
    BY <1>6 DEF SQLiteExecute
  <2>2. x.w \in Write
    BY <1>6 DEF Stmt, Sent
  <2> QED BY <1>1, <1>2, <2>1, <2>2, InsertGood
<1> QED BY <1>3, <1>4, <1>5, <1>6 DEF Sent, Stmt, Statement

-----------------------------------------------------------------------------
(* What that does to the databases. *)

\* The transactions and the commits of write w at node a after a statement
\* on connection k of node n.
Runs(n, k, r) ==
    /\ tx' \in [Node -> [Conn -> TxRec]] /\ db' \in [Node -> [Write -> Nat]]
    /\ \A a \in Node, j \in Conn : tx'[a][j] = IF a = n /\ j = k THEN r.tx ELSE tx[a][j]
    /\ \A a \in Node, w \in Write : db'[a][w] = IF a = n /\ w \in r.add THEN db[a][w] + 1 ELSE db[a][w]

(* Effect, key by key. *)
LEMMA EffectRuns ==
    ASSUME Types, NEW n \in Node, NEW k \in Conn, NEW r, r.tx \in TxRec, Effect(n, k, r)
    PROVE  Runs(n, k, r)
<1>1. tx' = [tx EXCEPT ![n][k] = r.tx]
  BY DEF Effect
<1>2. db' = [db EXCEPT ![n] = [w \in Write |-> @[w] + (IF w \in r.add THEN 1 ELSE 0)]]
  BY DEF Effect
<1>3. \A w \in Write : db[n][w] \in Nat /\ db[n][w] + 0 = db[n][w]
  BY DEF Types
<1>4. tx' \in [Node -> [Conn -> TxRec]]
  BY <1>1 DEF Types
<1>5. [w \in Write |-> db[n][w] + (IF w \in r.add THEN 1 ELSE 0)] \in [Write -> Nat]
  BY <1>3
<1>6. db' \in [Node -> [Write -> Nat]]
  BY <1>2, <1>5 DEF Types
<1>7. \A a \in Node, j \in Conn : tx'[a][j] = IF a = n /\ j = k THEN r.tx ELSE tx[a][j]
  BY <1>1 DEF Types
<1>8. ASSUME NEW a \in Node, NEW w \in Write
      PROVE  db'[a][w] = IF a = n /\ w \in r.add THEN db[a][w] + 1 ELSE db[a][w]
  <2>1. CASE a # n
    <3>1. db'[a] = db[a]
      BY <1>2, <2>1 DEF Types
    <3> QED BY <2>1, <3>1
  <2>2. CASE a = n
    <3>1. db'[n][w] = db[n][w] + (IF w \in r.add THEN 1 ELSE 0)
      BY <1>2 DEF Types
    <3> QED BY <1>3, <2>2, <3>1
  <2> QED BY <2>1, <2>2
<1> QED BY <1>4, <1>6, <1>7, <1>8 DEF Runs

\* Connections that run statements, of either sort.
Runner == IF kind = "sqlite" THEN Conn ELSE Node \cup Client

\* A step makes nothing new of write w at node a.
TxKeeps(a, w) ==
    /\ \A j \in Conn : Holds(a, j, w)' => Holds(a, j, w)
    /\ \/ db'[a][w] = db[a][w]
       \/ db'[a][w] = db[a][w] + 1 /\ \E k \in Runner : Holds(a, k, w) /\ ~Holds(a, k, w)'

\* It runs w on connection k.
TxMakes(a, k, w) ==
    /\ \A j \in Conn : Holds(a, j, w)' => Holds(a, j, w) \/ j = k
    /\ \/ db'[a][w] = db[a][w]
       \/ db'[a][w] = db[a][w] + 1 /\ ~Holds(a, k, w)'

(* Where connections are. *)
LEMMA ConnFacts ==
    /\ Heard \subseteq Conn /\ Node \subseteq Conn /\ Client \subseteq Conn /\ DBConn \subseteq Conn
    /\ Heard \subseteq Runner /\ (kind = "sqlproxy" => Client \subseteq Runner /\ Heard = Node)
  BY DEF Heard, Runner, Conn

(* A statement keeps the writes that are not its own... *)
LEMMA RunsKeeps ==
    ASSUME NEW n \in Node, NEW k \in Runner, NEW r, NEW x, Runs(n, k, r), Good(tx[n][k], r, x),
           NEW a \in Node, NEW w \in Write, w # x.w
    PROVE  TxKeeps(a, w)
<1>1. Keeps(tx[n][k], r.tx, r.add, w) /\ k \in Conn
  BY ConnFacts DEF Good, Runner, Conn
<1>2. ASSUME NEW j \in Conn, Holds(a, j, w)' PROVE Holds(a, j, w)
  BY <1>1, <1>2 DEF Runs, Holds, Keeps
<1>3. CASE a = n /\ w \in r.add
  <2>1. Holds(a, k, w) /\ ~Holds(a, k, w)'
    BY <1>1, <1>3 DEF Runs, Holds, Keeps
  <2>2. db'[a][w] = db[a][w] + 1
    BY <1>3 DEF Runs
  <2> QED BY <1>2, <2>1, <2>2 DEF TxKeeps
<1>4. CASE ~(a = n /\ w \in r.add)
  <2>1. db'[a][w] = db[a][w]
    BY <1>4 DEF Runs
  <2> QED BY <1>2, <2>1 DEF TxKeeps
<1> QED BY <1>3, <1>4

(* ... and its own at the other nodes. *)
LEMMA RunsOthers ==
    ASSUME NEW n \in Node, NEW k \in Runner, NEW r, Runs(n, k, r),
           NEW a \in Node, a # n, NEW w \in Write
    PROVE  TxKeeps(a, w)
  BY DEF TxKeeps, Runs, Holds

(* Its own, where it runs. *)
LEMMA RunsMakes ==
    ASSUME NEW n \in Node, NEW k \in Runner, NEW r, NEW x, Runs(n, k, r), Good(tx[n][k], r, x),
           NEW w \in Write, w = x.w, ~Holds(n, k, w)
    PROVE  TxMakes(n, k, w)
<1>1. Makes(tx[n][k], r.tx, r.add, w) /\ k \in Conn
  BY ConnFacts DEF Good, Runner, Conn
<1>2. w \notin r.add \/ w \notin r.tx.writes
  BY <1>1 DEF Makes, Holds
<1>3. ASSUME NEW j \in Conn, Holds(n, j, w)' PROVE Holds(n, j, w) \/ j = k
  BY <1>3 DEF Runs, Holds
<1>4. Holds(n, k, w)' => w \in r.tx.writes
  BY <1>1 DEF Runs, Holds
<1>5. db'[n][w] = IF w \in r.add THEN db[n][w] + 1 ELSE db[n][w]
  BY DEF Runs
<1> QED BY <1>2, <1>3, <1>4, <1>5 DEF TxMakes

(* Nothing new of a write at a node. *)
LEMMA KeepNode ==
    ASSUME Types, kind' = kind, NEW a \in Node, NEW w \in Write, NodeInv(a, w), TxKeeps(a, w),
           Coming(a, w)' => Coming(a, w)
    PROVE  NodeInv(a, w)'
<1>0. db[a][w] \in Nat /\ Copies' = Copies /\ Copies \in Nat /\ Heard' = Heard
  BY DEF Types, Copies, Heard
<1>1. \A j \in Conn : Holds(a, j, w)' => Holds(a, j, w)
  BY DEF TxKeeps
<1>2. (InTx(a, w)' => InTx(a, w)) /\ (Own(a, w)' => Own(a, w))
  BY <1>0, <1>1, ConnFacts DEF InTx, Own
<1>3. Single(a, w)'
  <2>1. \A j, k \in Heard : Holds(a, j, w)' /\ Holds(a, k, w)' => j = k
    BY <1>1, ConnFacts DEF NodeInv, Single
  <2>2. kind = "sqlproxy" => \A c, d \in Client : Holds(a, c, w)' /\ Holds(a, d, w)' => c = d
    BY <1>1, ConnFacts DEF NodeInv, Single
  <2>3. Coming(a, w)' => ~InTx(a, w)'
    BY <1>2 DEF NodeInv, Single
  <2> QED BY <1>0, <2>1, <2>2, <2>3 DEF Single
<1>4. db[a][w] + One(InTx(a, w)) + One(Own(a, w)) + One(Coming(a, w)) <= Copies
  BY DEF NodeInv, Bound
<1>5. db'[a][w] + One(InTx(a, w)') + One(Own(a, w)') + One(Coming(a, w)') <= Copies
  <2>1. CASE db'[a][w] = db[a][w]
    BY <1>0, <1>2, <1>4, <2>1 DEF One
  <2>2. CASE db'[a][w] = db[a][w] + 1 /\ \E k \in Runner : Holds(a, k, w) /\ ~Holds(a, k, w)'
    <3>1. PICK k \in Runner : Holds(a, k, w) /\ ~Holds(a, k, w)'
      BY <2>2
    <3>2. CASE k \in Heard
      <4>1. InTx(a, w) /\ ~InTx(a, w)'
        BY <1>0, <1>1, <3>1, <3>2, ConnFacts DEF InTx, NodeInv, Single
      <4> QED BY <1>0, <1>2, <1>4, <2>2, <4>1 DEF One
    <3>3. CASE k \notin Heard
      <4>1. kind = "sqlproxy" /\ k \in Client
        BY <3>1, <3>3 DEF Runner, Heard, Types
      <4>2. Own(a, w) /\ ~Own(a, w)'
        BY <1>0, <1>1, <3>1, <4>1, ConnFacts DEF Own, NodeInv, Single
      <4> QED BY <1>0, <1>2, <1>4, <2>2, <4>2 DEF One
    <3> QED BY <3>2, <3>3
  <2> QED BY <2>1, <2>2 DEF TxKeeps
<1>6. Bound(a, w)'
  BY <1>0, <1>5 DEF Bound
<1> QED BY <1>3, <1>6 DEF NodeInv

(* A node has heard a write. *)
LEMMA HearNode ==
    ASSUME Types, kind' = kind, NEW a \in Node, NEW w \in Write, NodeInv(a, w),
           NEW k \in Heard, TxMakes(a, k, w), Coming(a, w), ~Coming(a, w)'
    PROVE  NodeInv(a, w)'
<1>0. db[a][w] \in Nat /\ Copies' = Copies /\ Copies \in Nat /\ Heard' = Heard
  BY DEF Types, Copies, Heard
<1>1. \A j \in Conn : Holds(a, j, w)' => Holds(a, j, w) \/ j = k
  BY DEF TxMakes
<1>2. \A j \in Heard : ~Holds(a, j, w)
  BY DEF NodeInv, Single, InTx
<1>3. kind = "sqlproxy" => k \notin Client
  BY SyncAssumption, ConnFacts
<1>4. \A j \in Heard : Holds(a, j, w)' => j = k
  BY <1>1, <1>2, ConnFacts
<1>5. kind = "sqlproxy" => \A c \in Client : Holds(a, c, w)' => Holds(a, c, w)
  BY <1>1, <1>3, ConnFacts
<1>6. Single(a, w)'
  <2>1. kind = "sqlproxy" => \A c, d \in Client : Holds(a, c, w)' /\ Holds(a, d, w)' => c = d
    BY <1>5 DEF NodeInv, Single
  <2> QED BY <1>0, <1>4, <2>1 DEF Single
<1>7. ~InTx(a, w) /\ (InTx(a, w)' => Holds(a, k, w)') /\ (Own(a, w)' => Own(a, w))
  BY <1>0, <1>2, <1>4, <1>5 DEF InTx, Own
<1>8. db[a][w] + One(InTx(a, w)) + One(Own(a, w)) + One(Coming(a, w)) <= Copies
  BY DEF NodeInv, Bound
<1>9. db'[a][w] = db[a][w] \/ (db'[a][w] = db[a][w] + 1 /\ ~Holds(a, k, w)')
  BY DEF TxMakes
<1>10. db'[a][w] + One(InTx(a, w)') + One(Own(a, w)') + One(Coming(a, w)') <= Copies
  BY <1>0, <1>7, <1>8, <1>9 DEF One
<1>11. Bound(a, w)'
  BY <1>0, <1>10 DEF Bound
<1> QED BY <1>6, <1>11 DEF NodeInv

(* A write its client has just made; c's node does not hear SQLite's. *)
LEMMA FreshNode ==
    ASSUME Types, kind' = kind, NEW a \in Node, NEW w \in Write,
           db[a][w] = 0, \A j \in Conn : ~Holds(a, j, w),
           \/ TxKeeps(a, w)
           \/ \E k \in Conn : /\ TxMakes(a, k, w) /\ (kind = "sqlproxy" => k \in Client)
                              /\ kind = "sqlite" => ~Coming(a, w)'
    PROVE  NodeInv(a, w)'
<1>0. Copies' = Copies /\ Copies \in {1, 2} /\ (kind = "sqlproxy" => Copies = 2) /\ Heard' = Heard
  BY DEF Copies, Heard
<1>1. CASE TxKeeps(a, w)
  <2>1. db'[a][w] = 0 /\ \A j \in Conn : ~Holds(a, j, w)'
    BY <1>1 DEF TxKeeps, Runner, Conn
  <2>2. ~InTx(a, w)' /\ ~Own(a, w)'
    BY <1>0, <2>1, ConnFacts DEF InTx, Own
  <2>3. Single(a, w)'
    BY <1>0, <2>1, <2>2, ConnFacts DEF Single
  <2>4. db'[a][w] + One(InTx(a, w)') + One(Own(a, w)') + One(Coming(a, w)') <= Copies
    BY <1>0, <2>1, <2>2 DEF One
  <2>5. Bound(a, w)'
    BY <1>0, <2>4 DEF Bound
  <2> QED BY <2>3, <2>5 DEF NodeInv
<1>2. CASE \E k \in Conn : /\ TxMakes(a, k, w) /\ (kind = "sqlproxy" => k \in Client)
                           /\ kind = "sqlite" => ~Coming(a, w)'
  <2>1. PICK k \in Conn : /\ TxMakes(a, k, w) /\ (kind = "sqlproxy" => k \in Client)
                          /\ kind = "sqlite" => ~Coming(a, w)'
    BY <1>2
  <2>2. \A j \in Conn : Holds(a, j, w)' => j = k
    BY <2>1 DEF TxMakes
  <2>3. db'[a][w] = 0 \/ (db'[a][w] = 1 /\ \A j \in Conn : ~Holds(a, j, w)')
    BY <2>1, <2>2 DEF TxMakes
  <2>4. kind = "sqlproxy" => ~InTx(a, w)'
    BY <1>0, <2>1, <2>2, ConnFacts, SyncAssumption DEF InTx
  <2>5. kind = "sqlite" => ~Own(a, w)'
    BY DEF Own
  <2>6. db'[a][w] = 1 => ~InTx(a, w)' /\ ~Own(a, w)'
    BY <1>0, <2>3, ConnFacts DEF InTx, Own
  <2>7. Single(a, w)'
    <3>1. Coming(a, w)' => ~InTx(a, w)'
      BY <2>1, <2>4 DEF Types
    <3> QED BY <1>0, <2>2, <3>1, ConnFacts DEF Single
  <2>8. db'[a][w] + One(InTx(a, w)') + One(Own(a, w)') + One(Coming(a, w)') <= Copies
    BY <1>0, <2>1, <2>3, <2>4, <2>5, <2>6 DEF One, Types
  <2>9. Bound(a, w)'
    BY <1>0, <2>8 DEF Bound
  <2> QED BY <2>7, <2>9 DEF NodeInv
<1> QED BY <1>1, <1>2

-----------------------------------------------------------------------------
(* The steps. *)

(* The initial state. *)
LEMMA InvInit == Init => Inv
<1> SUFFICES ASSUME Init PROVE Inv
  OBVIOUS
<1>1. Types
  <2>1. home \in [Client -> Node]
    BY SyncAssumption DEF Init
  <2>2. <<>> \in Seq(Msg)
    OBVIOUS
  <2> QED BY <2>1, <2>2, TxFacts DEF Init, Types
<1>2. ASSUME NEW w \in Write PROVE NetInv(w) /\ Unused(w) /\ \A n \in Node : NodeInv(n, w)
  <2>1. \A m, n \in Node : net[m][n] = <<>>
    BY DEF Init
  <2>2. \A n \in Node : ~InNet(n, w)
    BY <2>1 DEF InNet, Carries
  <2>3. \A c \in Client : ~Offered(c, w)
    BY DEF Init, Offered
  <2>4. \A n \in Node : db[n][w] = 0
    BY DEF Init
  <2>5. \A n \in Node, k \in Conn : ~Holds(n, k, w)
    BY TxFacts DEF Init, Holds
  <2>6. NetInv(w)
    BY <2>1, <2>2, <2>3 DEF NetInv, Carries
  <2>7. Unused(w)
    BY <2>2, <2>3, <2>4, <2>5 DEF Unused
  <2>8. ASSUME NEW n \in Node PROVE NodeInv(n, w)
    <3>1. ~InTx(n, w) /\ ~Own(n, w) /\ ~Coming(n, w)
      BY <2>2, <2>3, <2>5, ConnFacts DEF InTx, Own, Coming
    <3>2. db[n][w] = 0 /\ Copies \in {1, 2}
      BY <2>4 DEF Copies
    <3> QED BY <2>5, <3>1, <3>2, ConnFacts DEF NodeInv, Bound, Single, One
  <2> QED BY <2>6, <2>7, <2>8
<1> QED BY <1>1, <1>2 DEF Inv

(* Steps that touch neither statements nor databases. *)
LEMMA InvSame ==
    ASSUME Inv, UNCHANGED <<kind, home, offer, net, tx, db, ops>>
    PROVE  Inv'
<1>1. Types'
  BY DEF Inv, Types
<1>2. ASSUME NEW w \in Write PROVE (NetInv(w) /\ Unused(w) /\ \A n \in Node : NodeInv(n, w))'
  <2>1. NetInv(w) /\ Unused(w) /\ \A n \in Node : NodeInv(n, w)
    BY DEF Inv
  <2>2. NetInv(w)'
    BY <2>1 DEF NetInv, Offered, InNet, Carries
  <2>3. Unused(w)'
    BY <2>1 DEF Unused, Offered, InNet, Carries, Holds
  <2>4. ASSUME NEW n \in Node PROVE NodeInv(n, w)'
    <3>1. NodeInv(n, w) /\ Types
      BY <2>1 DEF Inv
    <3>2. TxKeeps(n, w)
      BY DEF TxKeeps, Holds
    <3>3. Coming(n, w)' => Coming(n, w)
      BY DEF Coming, InNet, Carries, Offered
    <3> QED BY <3>1, <3>2, <3>3, KeepNode
  <2> QED BY <2>2, <2>3, <2>4
<1> QED BY <1>1, <1>2 DEF Inv

\* A client's statement x has run on connection k of its node n with result
\* r, and y, x or None, waits to be broadcast.
Asks(c, n, k, x, r, y) ==
    /\ n = home[c] /\ Runs(n, k, r) /\ Good(tx[n][k], r, x)
    /\ offer[c] = None /\ offer' = [offer EXCEPT ![c] = y]
    /\ y = None \/ (y = x /\ x \in Sent)
    /\ x \in Stmt /\ x.w \in {0, ops + 1} /\ ops + 1 \in Write /\ ops' = ops + 1
    /\ kind' = kind /\ home' = home /\ net' = net
    /\ kind = "sqlproxy" => k = c
    /\ kind = "sqlite" => k \in DBConn

(* A statement of a client. *)
LEMMA InvAsks ==
    ASSUME Inv, NEW c \in Client, NEW n, NEW k, NEW x, NEW r, NEW y, Asks(c, n, k, x, r, y)
    PROVE  Inv'
<1>1. Types /\ n \in Node /\ k \in Runner /\ k \in Conn
  BY ConnFacts DEF Inv, Types, Asks, Runner
<1>2. /\ n = home[c] /\ Runs(n, k, r) /\ Good(tx[n][k], r, x)
      /\ offer[c] = None /\ (y = None \/ (y = x /\ x \in Sent))
      /\ x.w \in {0, ops + 1} /\ ops + 1 \in Write /\ ops' = ops + 1
      /\ kind' = kind /\ home' = home /\ net' = net
      /\ (kind = "sqlproxy" => k \in Client)
  BY DEF Asks
<1>3. offer' \in [Client -> Sent \cup {None}] /\ \A d \in Client : offer'[d] = IF d = c THEN y ELSE offer[d]
  BY <1>1, <1>2 DEF Asks, Types
<1>4. Types'
  BY <1>1, <1>2, <1>3 DEF Types, Runs
<1>5. ASSUME NEW w \in Write PROVE (NetInv(w) /\ Unused(w) /\ \A a \in Node : NodeInv(a, w))'
  <2>1. NetInv(w) /\ Unused(w) /\ \A a \in Node : NodeInv(a, w)
    BY DEF Inv
  <2>2. \A a \in Node : InNet(a, w)' => InNet(a, w)
    BY <1>2 DEF InNet, Carries
  <2>3. CASE w # x.w
    <3>1. \A d \in Client : Offered(d, w)' => Offered(d, w)
      BY <1>2, <1>3, <2>3 DEF Offered
    <3>2. NetInv(w)'
      BY <1>2, <2>1, <2>2, <3>1 DEF NetInv, Carries
    <3>3. \A a \in Node : TxKeeps(a, w)
      BY <1>1, <1>2, <2>3, RunsKeeps
    <3>4. Unused(w)'
      <4> SUFFICES ASSUME w > ops' PROVE /\ \A a \in Node : db'[a][w] = 0 /\ ~InNet(a, w)' /\ \A j \in Conn : ~Holds(a, j, w)'
                                         /\ \A d \in Client : ~Offered(d, w)'
        BY DEF Unused
      <4>1. w > ops
        BY <1>1, <1>2 DEF Types, Write
      <4>2. /\ \A a \in Node : db[a][w] = 0 /\ ~InNet(a, w) /\ \A j \in Conn : ~Holds(a, j, w)
            /\ \A d \in Client : ~Offered(d, w)
        BY <2>1, <4>1 DEF Unused
      <4>3. Runner \subseteq Conn
        BY DEF Runner, Conn
      <4> QED BY <2>2, <3>1, <3>3, <4>2, <4>3 DEF TxKeeps
    <3>5. ASSUME NEW a \in Node PROVE NodeInv(a, w)'
      <4>1. Coming(a, w)' => Coming(a, w)
        BY <1>2, <2>2, <3>1 DEF Coming
      <4> QED BY <1>1, <1>2, <2>1, <3>3, <4>1, KeepNode
    <3> QED BY <3>2, <3>4, <3>5
  <2>4. CASE w = x.w
    <3>1. w = ops + 1
      BY <1>2, <2>4 DEF Write
    <3>2. /\ \A a \in Node : db[a][w] = 0 /\ ~InNet(a, w) /\ \A j \in Conn : ~Holds(a, j, w)
          /\ \A d \in Client : ~Offered(d, w)
      BY <1>1, <2>1, <3>1 DEF Unused, Types
    <3>3. \A d \in Client : Offered(d, w)' => d = c
      BY <1>3, <3>2 DEF Offered
    <3>4. NetInv(w)'
      <4>1. \A l, m \in Node : \A i \in Nat : ~Carries(l, m, i, w)'
        BY <1>2, <3>2 DEF InNet, Carries
      <4> QED BY <2>2, <3>2, <3>3, <4>1 DEF NetInv
    <3>5. Unused(w)'
      BY <1>1, <1>2, <3>1 DEF Unused, Types
    <3>6. ASSUME NEW a \in Node PROVE NodeInv(a, w)'
      <4>1. CASE a # n
        <5>1. TxKeeps(a, w)
          BY <1>1, <1>2, <4>1, RunsOthers
        <5> QED BY <1>1, <1>2, <3>2, <5>1, FreshNode
      <4>2. CASE a = n
        <5>1. TxMakes(n, k, w)
          BY <1>1, <1>2, <2>4, <3>2, RunsMakes
        <5>2. kind = "sqlite" => ~Coming(n, w)'
          <6>1. ~InNet(n, w)'
            BY <1>1, <2>2, <3>2
          <6>2. kind' = kind /\ \A d \in Client : Offered(d, w)' => home'[d] = n
            BY <1>2, <3>3
          <6> QED BY <6>1, <6>2 DEF Coming
        <5> QED BY <1>1, <1>2, <3>2, <4>2, <5>1, <5>2, FreshNode
      <4> QED BY <4>1, <4>2
    <3> QED BY <3>4, <3>5, <3>6
  <2> QED BY <2>3, <2>4
<1> QED BY <1>4, <1>5 DEF Inv

(* HandleQuery of SQLProxy and Exec of SQLite. *)
LEMMA InvQuery ==
    ASSUME Inv, NEW c \in Client, Query(c)
    PROVE  Inv'
<1>1. /\ offer[c] = None /\ ops < MaxOps /\ ops' = ops + 1
      /\ kind' = kind /\ home' = home /\ net' = net
  BY DEF Query
<1>2. PICK x \in Statement : /\ x.w = IF x.op \in {"insert", "prepared"} THEN ops + 1 ELSE 0
                             /\ IF kind = "sqlproxy" THEN HandleQuery(c, x) ELSE Exec(c, x)
  BY DEF Query
<1>3. Types /\ ops + 1 \in Write /\ home[c] \in Node
  BY <1>1, SyncAssumption DEF Inv, Types, Write
<1>4. x \in Stmt /\ x.w \in {0, ops + 1} /\ (IsDML(x) => x \in Sent)
  BY <1>2, <1>3 DEF Stmt, Sent, IsDML
<1> DEFINE n == home[c]
<1>5. CASE kind = "sqlproxy"
  <2> DEFINE r == MySQLExecute(n, c, c, x)
             y == IF r.ok /\ IsDML(x) THEN x ELSE None
  <2>1. Effect(n, c, r) /\ offer' = [offer EXCEPT ![c] = y]
    BY <1>2, <1>5 DEF HandleQuery
  <2>2. Good(tx[n][c], r, x)
    BY <1>3, <1>4, ConnFacts, MySQLGood
  <2> HIDE DEF r
  <2>3. Runs(n, c, r)
    BY <1>3, <2>1, <2>2, ConnFacts, EffectRuns DEF Good
  <2>4. Asks(c, n, c, x, r, y)
    BY <1>1, <1>3, <1>4, <1>5, <2>1, <2>2, <2>3 DEF Asks
  <2> QED BY <2>4, InvAsks
<1>6. CASE kind = "sqlite" /\ x.op \in {"start", "prepared"}
  <2>1. UNCHANGED <<tx, db, offer>>
    BY <1>2, <1>6 DEF Exec
  <2>2. Types'
    BY <1>1, <1>3, <2>1 DEF Types
  <2>3. ASSUME NEW w \in Write PROVE (NetInv(w) /\ Unused(w) /\ \A a \in Node : NodeInv(a, w))'
    <3>1. NetInv(w) /\ Unused(w) /\ \A a \in Node : NodeInv(a, w)
      BY DEF Inv
    <3>2. NetInv(w)'
      BY <1>1, <2>1, <3>1 DEF NetInv, Offered, InNet, Carries
    <3>3. w > ops' => w > ops
      BY <1>1, <1>3 DEF Types, Write
    <3>4. Unused(w)'
      BY <1>1, <2>1, <3>1, <3>3 DEF Unused, Offered, InNet, Carries, Holds
    <3>5. ASSUME NEW a \in Node PROVE NodeInv(a, w)'
      <4>1. TxKeeps(a, w)
        BY <2>1 DEF TxKeeps, Holds
      <4>2. Coming(a, w)' => Coming(a, w)
        BY <1>1, <2>1 DEF Coming, InNet, Carries, Offered
      <4> QED BY <1>1, <1>3, <3>1, <4>1, <4>2, KeepNode
    <3> QED BY <3>2, <3>4, <3>5
  <2> QED BY <2>2, <2>3 DEF Inv
<1>7. CASE kind = "sqlite" /\ x.op \notin {"start", "prepared"}
  <2>1. PICK k \in DBConn :
          LET r == SQLiteExecute(n, k, c, x)
          IN  /\ Effect(n, k, r)
              /\ offer' = [offer EXCEPT ![c] = IF r.ok /\ IsDML(x) THEN x ELSE None]
    BY <1>2, <1>7 DEF Exec
  <2> DEFINE r == SQLiteExecute(n, k, c, x)
             y == IF r.ok /\ IsDML(x) THEN x ELSE None
  <2>2. x \in Sent
    BY <1>4, <1>7 DEF Sent
  <2>3. Good(tx[n][k], r, x)
    BY <1>3, <2>2, ConnFacts, SQLiteGood
  <2>4. Effect(n, k, r) /\ offer' = [offer EXCEPT ![c] = y]
    BY <2>1
  <2> HIDE DEF r
  <2>5. Runs(n, k, r)
    BY <1>3, <2>3, <2>4, ConnFacts, EffectRuns DEF Good
  <2>6. Asks(c, n, k, x, r, y)
    BY <1>1, <1>3, <1>4, <1>7, <2>2, <2>3, <2>4, <2>5 DEF Asks
  <2> QED BY <2>6, InvAsks
<1> QED BY <1>3, <1>5, <1>6, <1>7 DEF Types

\* What the invariant says of one write.
WriteInv(w) == NetInv(w) /\ Unused(w) /\ \A n \in Node : NodeInv(n, w)

\* Write w is on its way.
Spoken(w) == (\E n \in Node : InNet(n, w)) \/ \E c \in Client : Offered(c, w)

(* A step that makes nothing new of a write. *)
LEMMA LessWrite ==
    ASSUME Types, kind' = kind, ops' \in Nat, ops <= ops', NEW w \in Write, WriteInv(w), NetInv(w)',
           \A a \in Node : TxKeeps(a, w) /\ (Coming(a, w)' => Coming(a, w)),
           Spoken(w)' => Spoken(w)
    PROVE  WriteInv(w)'
<1>1. \A a \in Node : NodeInv(a, w)'
  BY KeepNode DEF WriteInv
<1>2. Unused(w)'
  <2> SUFFICES ASSUME w > ops' PROVE /\ \A a \in Node : db'[a][w] = 0 /\ ~InNet(a, w)' /\ \A j \in Conn : ~Holds(a, j, w)'
                                     /\ \A d \in Client : ~Offered(d, w)'
    BY DEF Unused
  <2>1. w > ops
    BY DEF Types, Write
  <2>2. /\ \A a \in Node : db[a][w] = 0 /\ ~InNet(a, w) /\ \A j \in Conn : ~Holds(a, j, w)
        /\ \A d \in Client : ~Offered(d, w)
    BY <2>1 DEF WriteInv, Unused
  <2>3. Runner \subseteq Conn
    BY DEF Runner, Conn
  <2>4. ~Spoken(w)'
    BY <2>2 DEF Spoken
  <2>5. (\A a \in Node : ~InNet(a, w)') /\ \A d \in Client : ~Offered(d, w)'
    BY <2>4 DEF Spoken
  <2> QED BY <2>2, <2>3, <2>5 DEF TxKeeps
<1> QED BY <1>1, <1>2 DEF WriteInv

\* Where position i of what m published for n was before the step.
Before(m, n, l, b, f, i) == IF l = m /\ b = n THEN f[i] ELSE i

(* Messages are removed or change places. *)
LEMMA NetMoves ==
    ASSUME NEW w \in Write, NetInv(w), NEW m \in Node, NEW n \in Node, NEW f \in [Nat -> Nat],
           \A i, j \in Nat : f[i] = f[j] => i = j,
           \A l, b \in Node, i \in Nat : Carries(l, b, i, w)' => Carries(l, b, Before(m, n, l, b, f, i), w),
           \A d \in Client : Offered(d, w)' => Offered(d, w)
    PROVE  NetInv(w)' /\ \A b \in Node : InNet(b, w)' => InNet(b, w)
<1>1. \A l, b \in Node, i \in Nat : Before(m, n, l, b, f, i) \in Nat
  BY DEF Before
<1>2. ASSUME NEW b \in Node, InNet(b, w)' PROVE InNet(b, w)
  <2>1. PICK l \in Node, i \in Nat : Carries(l, b, i, w)'
    BY <1>2 DEF InNet
  <2>2. Carries(l, b, Before(m, n, l, b, f, i), w)
    BY <2>1
  <2> QED BY <1>1, <2>2 DEF InNet
<1>3. ASSUME NEW b \in Node, NEW l \in Node, NEW k \in Node, NEW i \in Nat, NEW j \in Nat,
             Carries(l, b, i, w)', Carries(k, b, j, w)'
      PROVE  l = k /\ i = j
  <2>1. Carries(l, b, Before(m, n, l, b, f, i), w) /\ Carries(k, b, Before(m, n, k, b, f, j), w)
    BY <1>3
  <2>2. l = k /\ Before(m, n, l, b, f, i) = Before(m, n, k, b, f, j)
    <3> DEFINE p == Before(m, n, l, b, f, i)
               q == Before(m, n, k, b, f, j)
    <3>1. p \in Nat /\ q \in Nat /\ Carries(l, b, p, w) /\ Carries(k, b, q, w)
      BY <1>1, <2>1
    <3> HIDE DEF p, q
    <3>2. l = k /\ p = q
      BY <3>1 DEF NetInv
    <3> QED BY <3>2 DEF p, q
  <2> QED BY <2>2 DEF Before
<1>4. (\A c, d \in Client : Offered(c, w)' /\ Offered(d, w)' => c = d)
      /\ \A c \in Client, b \in Node : Offered(c, w)' => ~InNet(b, w)'
  BY <1>2 DEF NetInv
<1>5. NetInv(w)'
  BY <1>3, <1>4 DEF NetInv
<1> QED BY <1>2, <1>5

(* Nothing new is still to be heard. *)
LEMMA NoNews ==
    ASSUME kind' = kind, home' = home, NEW w \in Write,
           \A b \in Node : InNet(b, w)' => InNet(b, w),
           \A d \in Client : Offered(d, w)' => Offered(d, w)
    PROVE  (\A a \in Node : Coming(a, w)' => Coming(a, w)) /\ (Spoken(w)' => Spoken(w))
<1>1. ASSUME NEW a \in Node, Coming(a, w)' PROVE Coming(a, w)
  <2>1. InNet(a, w)' \/ \E c \in Client : Offered(c, w)' /\ (kind = "sqlite" => home[c] # a)
    BY <1>1 DEF Coming
  <2> QED BY <2>1 DEF Coming
<1>2. Spoken(w)' => Spoken(w)
  BY DEF Spoken
<1> QED BY <1>1, <1>2

(* Transactions and databases that stay. *)
LEMMA TxSame ==
    ASSUME tx' = tx, db' = db, NEW a \in Node, NEW w \in Write
    PROVE  TxKeeps(a, w)
  BY DEF TxKeeps, Holds

(* The invariant, write by write. *)
LEMMA InvWrites == Inv <=> Types /\ \A w \in Write : WriteInv(w)
  BY DEF Inv, WriteInv

(* COM_QUIT. *)
LEMMA InvQuit ==
    ASSUME Inv, NEW c \in Client, Quit(c)
    PROVE  Inv'
<1>1. /\ ops' = ops + 1 /\ tx' = [tx EXCEPT ![home[c]][c] = NoTx]
      /\ kind' = kind /\ home' = home /\ offer' = offer /\ net' = net /\ db' = db
  BY DEF Quit
<1>2. Types /\ home[c] \in Node /\ ops' \in Nat /\ ops <= ops'
  BY <1>1 DEF Inv, Types
<1>3. /\ tx' \in [Node -> [Conn -> TxRec]]
      /\ \A a \in Node, j \in Conn : tx'[a][j] = IF a = home[c] /\ j = c THEN NoTx ELSE tx[a][j]
  BY <1>1, <1>2, ConnFacts, TxFacts DEF Types
<1>4. Types'
  BY <1>1, <1>2, <1>3 DEF Types
<1>5. ASSUME NEW w \in Write PROVE WriteInv(w)'
  <2>1. WriteInv(w)
    BY InvWrites
  <2>2. \A a \in Node, j \in Conn : Holds(a, j, w)' => Holds(a, j, w)
    BY <1>3, TxFacts DEF Holds
  <2>3. \A a \in Node : TxKeeps(a, w)
    BY <1>1, <2>2 DEF TxKeeps
  <2>4. \A b \in Node : InNet(b, w)' => InNet(b, w)
    BY <1>1 DEF InNet, Carries
  <2>5. \A d \in Client : Offered(d, w)' => Offered(d, w)
    BY <1>1 DEF Offered
  <2>6. (\A a \in Node : Coming(a, w)' => Coming(a, w)) /\ (Spoken(w)' => Spoken(w))
    BY <1>1, <2>4, <2>5, NoNews
  <2>7. NetInv(w)'
    BY <1>1, <2>1 DEF WriteInv, NetInv, Offered, InNet, Carries
  <2> QED BY <1>1, <1>2, <2>1, <2>3, <2>6, <2>7, LessWrite
<1> QED BY <1>4, <1>5 DEF Inv, WriteInv

\* Client c's statement leaves the handler.
Leaves(c) ==
    /\ c \in Client /\ offer[c] # None /\ offer' = [offer EXCEPT ![c] = None]
    /\ kind' = kind /\ home' = home /\ tx' = tx /\ db' = db /\ ops' = ops

(* Its statement was in the handler, and is not any more. *)
LEMMA LeaveFacts ==
    ASSUME Types, NEW c, Leaves(c)
    PROVE  /\ offer' \in [Client -> Sent \cup {None}] /\ offer[c] \in Sent
           /\ \A w \in Write, d \in Client : Offered(d, w)' => d # c /\ Offered(d, w)
<1>1. /\ offer' \in [Client -> Sent \cup {None}]
      /\ \A d \in Client : offer'[d] = IF d = c THEN None ELSE offer[d]
  BY DEF Leaves, Types
<1> QED BY <1>1 DEF Leaves, Types, Offered

(* A publication that fails. *)
LEMMA InvPublishFails ==
    ASSUME Inv, NEW m \in Node, PublishFails(m)
    PROVE  Inv'
<1>1. PICK c \in Client : Leaves(c) /\ net' = net
  BY DEF PublishFails, Leaves
<1>2. Types /\ kind' = kind /\ home' = home /\ tx' = tx /\ db' = db /\ ops' = ops
  BY <1>1 DEF Inv, Leaves
<1>3. ops' \in Nat /\ ops <= ops'
  BY <1>2 DEF Types
<1>4. /\ offer' \in [Client -> Sent \cup {None}]
      /\ \A w \in Write, d \in Client : Offered(d, w)' => d # c /\ Offered(d, w)
  BY <1>1, <1>2, LeaveFacts
<1>5. Types'
  BY <1>1, <1>2, <1>4 DEF Types
<1>6. ASSUME NEW w \in Write PROVE WriteInv(w)'
  <2>1. WriteInv(w)
    BY InvWrites
  <2>2. \A b \in Node : InNet(b, w)' => InNet(b, w)
    BY <1>1 DEF InNet, Carries
  <2>3. \A d \in Client : Offered(d, w)' => Offered(d, w)
    BY <1>4
  <2>4. (\A a \in Node : Coming(a, w)' => Coming(a, w)) /\ (Spoken(w)' => Spoken(w))
    BY <1>2, <2>2, <2>3, NoNews
  <2>5. \A l, b \in Node, i \in Nat : Carries(l, b, i, w)' => Carries(l, b, i, w)
    BY <1>1 DEF Carries
  <2>6. NetInv(w)'
    BY <2>1, <2>2, <2>3, <2>5 DEF WriteInv, NetInv
  <2>7. \A a \in Node : TxKeeps(a, w)
    BY <1>2, TxSame
  <2> QED BY <1>2, <1>3, <2>1, <2>4, <2>6, <2>7, LessWrite
<1> QED BY <1>5, <1>6 DEF Inv, WriteInv

(* A publication. *)
LEMMA InvPublish ==
    ASSUME Inv, NEW m \in Node, Publish(m)
    PROVE  Inv'
<1>0. PICK c \in Client :
        /\ home[c] = m /\ offer[c] # None /\ offer' = [offer EXCEPT ![c] = None]
        /\ kind' = kind /\ home' = home /\ tx' = tx /\ db' = db /\ ops' = ops
        /\ net' = [net EXCEPT ![m] = [n \in Node |->
                     IF n \in Reached(m) /\ PassesOn(n, m)
                     THEN Append(@[n], [s |-> offer[c], by |-> c]) ELSE @[n]]]
  BY Zenon DEF Publish, bounds
<1>1. Leaves(c) /\ home[c] = m
  BY <1>0 DEF Leaves
<1> DEFINE v == [s |-> offer[c], by |-> c]
           Gets(n) == n \in Reached(m) /\ PassesOn(n, m)
           q == [n \in Node |-> IF Gets(n) THEN Append(net[m][n], v) ELSE net[m][n]]
<1>2. Types /\ kind' = kind /\ home' = home /\ tx' = tx /\ db' = db /\ ops' = ops
  BY <1>1 DEF Inv, Leaves
<1>3. ops' \in Nat /\ ops <= ops'
  BY <1>2 DEF Types
<1>4. /\ offer' \in [Client -> Sent \cup {None}] /\ offer[c] \in Sent
      /\ \A w \in Write, d \in Client : Offered(d, w)' => d # c /\ Offered(d, w)
  BY <1>1, <1>2, LeaveFacts
<1>5. v \in Msg /\ v.s = offer[c] /\ offer[c] # None
  BY <1>1, <1>4 DEF Msg, Leaves
<1>6. net' = [net EXCEPT ![m] = q]
  BY <1>0
<1>7. \A n \in Node : Gets(n) => (kind = "sqlite" => home[c] # n)
  BY <1>1 DEF PassesOn
<1> HIDE DEF v, Gets
<1>8. \A l, b \in Node : net[l][b] \in Seq(Msg)
  BY <1>2 DEF Types
<1>9. \A n \in Node : q[n] = IF Gets(n) THEN Append(net[m][n], v) ELSE net[m][n]
  OBVIOUS
<1>10. q \in [Node -> Seq(Msg)]
  BY <1>5, <1>8
<1> HIDE DEF q
<1>11. net' \in [Node -> [Node -> Seq(Msg)]] /\ \A l \in Node : net'[l] = IF l = m THEN q ELSE net[l]
  BY <1>2, <1>6, <1>10 DEF Types
<1>12. Types'
  BY <1>2, <1>4, <1>11 DEF Types
<1>13. ASSUME NEW w \in Write PROVE WriteInv(w)'
  <2>1. WriteInv(w)
    BY InvWrites
  <2>2. \A d \in Client : Offered(d, w)' => d # c /\ Offered(d, w)
    BY <1>4
  <2>3. ASSUME NEW l \in Node, NEW b \in Node, NEW i \in Nat, Carries(l, b, i, w)'
        PROVE  \/ Carries(l, b, i, w)
               \/ l = m /\ i = Len(net[m][b]) + 1 /\ Gets(b) /\ Offered(c, w)
    <3>1. i \in DOMAIN net'[l][b] /\ net'[l][b][i].s.w = w
      BY <2>3 DEF Carries
    <3>2. CASE l # m
      BY <1>11, <3>1, <3>2 DEF Carries
    <3>3. CASE l = m /\ ~Gets(b)
      BY <1>9, <1>11, <3>1, <3>3 DEF Carries
    <3>4. CASE l = m /\ Gets(b)
      <4> DEFINE u == net[m][b]
      <4>1. net'[l][b] = Append(u, v)
        BY <1>9, <1>11, <3>4
      <4>2. u \in Seq(Msg)
        BY <1>8
      <4> HIDE DEF u
      <4>3. i \in DOMAIN Append(u, v) /\ Append(u, v)[i].s.w = w
        BY <3>1, <4>1
      <4>4. i \in 1..Len(u) + 1
        BY <1>5, <4>2, <4>3
      <4>5. CASE i = Len(u) + 1
        <5>1. Append(u, v)[i] = v
          BY <1>5, <4>2, <4>5
        <5>2. Offered(c, w)
          BY <1>5, <4>3, <5>1 DEF Offered
        <5> QED BY <3>4, <4>5, <5>2 DEF u
      <4>6. CASE i # Len(u) + 1
        <5>1. i \in DOMAIN u /\ Append(u, v)[i] = u[i]
          BY <1>5, <4>2, <4>4, <4>6
        <5> QED BY <3>4, <4>3, <5>1 DEF u, Carries
      <4> QED BY <4>5, <4>6
    <3> QED BY <3>2, <3>3, <3>4
  <2>4. ASSUME NEW b \in Node, InNet(b, w)' PROVE InNet(b, w) \/ (Offered(c, w) /\ Gets(b))
    BY <2>3, <2>4 DEF InNet
  <2>5. ASSUME NEW a \in Node, Coming(a, w)' PROVE Coming(a, w)
    <3>1. CASE InNet(a, w)'
      BY <1>7, <2>4, <3>1 DEF Coming
    <3>2. CASE \E d \in Client : Offered(d, w)' /\ (kind' = "sqlite" => home'[d] # a)
      BY <1>2, <2>2, <3>2 DEF Coming
    <3> QED BY <2>5, <3>1, <3>2 DEF Coming
  <2>6. Spoken(w)' => Spoken(w)
    BY <2>2, <2>4 DEF Spoken
  <2>7. NetInv(w)'
    <3>0. NetInv(w)
      BY <2>1 DEF WriteInv
    <3>1. CASE Offered(c, w)
      <4>1. \A b \in Node : ~InNet(b, w)
        BY <3>0, <3>1 DEF NetInv
      <4>2. \A l, b \in Node, i \in Nat : ~Carries(l, b, i, w)
        BY <4>1 DEF InNet
      <4>3. \A l, b \in Node, i \in Nat : Carries(l, b, i, w)' => l = m /\ i = Len(net[m][b]) + 1
        BY <2>3, <4>2
      <4>4. \A d \in Client : ~Offered(d, w)'
        BY <2>2, <3>0, <3>1 DEF NetInv
      <4> QED BY <4>3, <4>4 DEF NetInv
    <3>2. CASE ~Offered(c, w)
      <4>1. \A l, b \in Node, i \in Nat : Carries(l, b, i, w)' => Carries(l, b, i, w)
        BY <2>3, <3>2
      <4>2. \A b \in Node : InNet(b, w)' => InNet(b, w)
        BY <2>4, <3>2
      <4> QED BY <2>2, <3>0, <4>1, <4>2 DEF NetInv
    <3> QED BY <3>1, <3>2
  <2>8. \A a \in Node : TxKeeps(a, w)
    BY <1>2, TxSame
  <2> QED BY <1>2, <1>3, <2>1, <2>5, <2>6, <2>7, <2>8, LessWrite
<1> QED BY <1>12, <1>13 DEF Inv, WriteInv

-----------------------------------------------------------------------------
(* Messages that are consumed, lost or change places. *)

(* The rest of a queue. *)
LEMMA TailFacts ==
    ASSUME NEW q \in Seq(Msg), q # <<>>
    PROVE  /\ Head(q) \in Msg /\ Head(q) = q[1] /\ 1 \in DOMAIN q /\ Tail(q) \in Seq(Msg)
           /\ \A i \in Nat : i \in DOMAIN Tail(q) => i + 1 \in DOMAIN q /\ Tail(q)[i] = q[i + 1]
  OBVIOUS

(* A queue with its first two messages swapped. *)
LEMMA SwapFacts ==
    ASSUME NEW q \in Seq(Msg), Len(q) > 1, NEW t, t = <<q[2], q[1]>> \o SubSeq(q, 3, Len(q))
    PROVE  /\ t \in Seq(Msg) /\ DOMAIN t = DOMAIN q
           /\ t[1] = q[2] /\ t[2] = q[1]
           /\ \A i \in DOMAIN q : i > 2 => t[i] = q[i]
<1> DEFINE p == <<q[2], q[1]>>
           u == SubSeq(q, 3, Len(q))
<1>1. Len(q) \in Nat /\ q[1] \in Msg /\ q[2] \in Msg
  OBVIOUS
<1>2. p \in Seq(Msg) /\ Len(p) = 2 /\ p[1] = q[2] /\ p[2] = q[1]
  BY <1>1
<1>3. u \in Seq(Msg) /\ Len(u) = Len(q) - 2 /\ \A i \in 1..Len(u) : u[i] = q[i + 2]
  BY <1>1
<1> HIDE DEF p, u
<1>4. t = p \o u
  BY DEF p, u
<1>5. t \in Seq(Msg) /\ Len(t) = Len(q)
  BY <1>1, <1>2, <1>3, <1>4
<1>6. t[1] = q[2] /\ t[2] = q[1]
  BY <1>1, <1>2, <1>3, <1>4, <1>5
<1>7. ASSUME NEW i \in DOMAIN q, i > 2 PROVE t[i] = q[i]
  <2>1. i \in 3..Len(q) /\ i - 2 \in 1..Len(u) /\ i - 2 + 2 = i
    BY <1>1, <1>3, <1>7
  <2>2. t[i] = u[i - 2]
    BY <1>1, <1>2, <1>3, <1>4, <2>1
  <2> QED BY <1>3, <2>1, <2>2
<1> QED BY <1>5, <1>6, <1>7

\* Of the queue from m to n, which becomes q, message i was message f[i].
Moves(m, n, q, f) ==
    /\ net' = [net EXCEPT ![m][n] = q] /\ q \in Seq(Msg)
    /\ f \in [Nat -> Nat] /\ \A i, j \in Nat : f[i] = f[j] => i = j
    /\ \A i \in Nat : i \in DOMAIN q => f[i] \in DOMAIN net[m][n] /\ q[i] = net[m][n][f[i]]

(* The first message goes... *)
LEMMA TailMoves ==
    ASSUME Types, NEW m \in Node, NEW n \in Node, net[m][n] # <<>>,
           net' = [net EXCEPT ![m][n] = Tail(@)]
    PROVE  Moves(m, n, Tail(net[m][n]), [i \in Nat |-> i + 1])
<1> DEFINE q == net[m][n]
           f == [i \in Nat |-> i + 1]
<1>1. q \in Seq(Msg)
  BY DEF Types
<1>2. Tail(q) \in Seq(Msg) /\ \A i \in Nat : i \in DOMAIN Tail(q) => i + 1 \in DOMAIN q /\ Tail(q)[i] = q[i + 1]
  BY <1>1, TailFacts
<1>3. f \in [Nat -> Nat] /\ \A i \in Nat : f[i] = i + 1
  OBVIOUS
<1>4. net' = [net EXCEPT ![m][n] = Tail(q)]
  OBVIOUS
<1> HIDE DEF f
<1>5. \A i, j \in Nat : f[i] = f[j] => i = j
  BY <1>3
<1> QED BY <1>2, <1>3, <1>4, <1>5 DEF Moves, f

(* ... or changes places with the second. *)
LEMMA SwapMoves ==
    ASSUME Types, NEW m \in Node, NEW n \in Node, Len(net[m][n]) > 1,
           net' = [net EXCEPT ![m][n] = <<@[2], @[1]>> \o SubSeq(@, 3, Len(@))]
    PROVE  \E q, f : Moves(m, n, q, f)
<1> DEFINE p == net[m][n]
           q == <<p[2], p[1]>> \o SubSeq(p, 3, Len(p))
           f == [i \in Nat |-> IF i = 1 THEN 2 ELSE IF i = 2 THEN 1 ELSE i]
<1>1. p \in Seq(Msg)
  BY DEF Types
<1>2. net' = [net EXCEPT ![m][n] = q]
  OBVIOUS
<1>3. /\ q \in Seq(Msg) /\ DOMAIN q = DOMAIN p /\ q[1] = p[2] /\ q[2] = p[1]
      /\ \A i \in DOMAIN p : i > 2 => q[i] = p[i]
  BY <1>1, SwapFacts, SMTT(60)
<1>4. f \in [Nat -> Nat] /\ \A i \in Nat : f[i] = IF i = 1 THEN 2 ELSE IF i = 2 THEN 1 ELSE i
  OBVIOUS
<1>5. {1, 2} \subseteq DOMAIN p /\ \A i \in DOMAIN p : i \in Nat /\ i >= 1
  BY <1>1
<1> HIDE DEF f, q, p
<1>6. \A i, j \in Nat : f[i] = f[j] => i = j
  BY <1>4
<1>7. ASSUME NEW i \in Nat, i \in DOMAIN q PROVE f[i] \in DOMAIN p /\ q[i] = p[f[i]]
  <2>1. CASE i = 1
    BY <1>3, <1>4, <1>5, <2>1
  <2>2. CASE i = 2
    BY <1>3, <1>4, <1>5, <2>2
  <2>3. CASE i # 1 /\ i # 2
    <3>1. i \in DOMAIN p
      BY <1>3, <1>7
    <3>2. i > 2
      BY <1>5, <2>3, <3>1
    <3>3. f[i] = i
      BY <1>4, <2>3
    <3> QED BY <1>3, <3>1, <3>2, <3>3
  <2> QED BY <2>1, <2>2, <2>3
<1>8. Moves(m, n, q, f)
  BY <1>2, <1>3, <1>4, <1>6, <1>7 DEF Moves, p
<1> QED BY <1>8

(* What moved messages leave of the invariant. *)
LEMMA MovesNet ==
    ASSUME Types, NEW m \in Node, NEW n \in Node, NEW q, NEW f, Moves(m, n, q, f),
           offer' = offer, home' = home, kind' = kind
    PROVE  /\ net' \in [Node -> [Node -> Seq(Msg)]]
           /\ \A w \in Write : NetInv(w) =>
                 /\ NetInv(w)' /\ (Spoken(w)' => Spoken(w))
                 /\ \A a \in Node : Coming(a, w)' => Coming(a, w)
                 /\ \A l, b \in Node, i \in Nat : Carries(l, b, i, w)' => Carries(l, b, Before(m, n, l, b, f, i), w)
<1>1. net' = [net EXCEPT ![m][n] = q] /\ q \in Seq(Msg)
  BY DEF Moves
<1>2. net' \in [Node -> [Node -> Seq(Msg)]]
  BY <1>1 DEF Types
<1>3. \A l, b \in Node : net'[l][b] = IF l = m /\ b = n THEN q ELSE net[l][b]
  BY <1>1 DEF Types
<1>4. f \in [Nat -> Nat] /\ (\A i, j \in Nat : f[i] = f[j] => i = j)
      /\ \A i \in Nat : i \in DOMAIN q => f[i] \in DOMAIN net[m][n] /\ q[i] = net[m][n][f[i]]
  BY DEF Moves
<1>5. ASSUME NEW w \in Write, NetInv(w)
      PROVE  /\ NetInv(w)' /\ (Spoken(w)' => Spoken(w))
             /\ \A a \in Node : Coming(a, w)' => Coming(a, w)
             /\ \A l, b \in Node, i \in Nat : Carries(l, b, i, w)' => Carries(l, b, Before(m, n, l, b, f, i), w)
  <2>1. ASSUME NEW l \in Node, NEW b \in Node, NEW i \in Nat, Carries(l, b, i, w)'
        PROVE  Carries(l, b, Before(m, n, l, b, f, i), w)
    <3>1. i \in DOMAIN net'[l][b] /\ net'[l][b][i].s.w = w
      BY <2>1 DEF Carries
    <3>2. CASE l = m /\ b = n
      BY <1>3, <1>4, <3>1, <3>2 DEF Carries, Before
    <3>3. CASE ~(l = m /\ b = n)
      BY <1>3, <3>1, <3>3 DEF Carries, Before
    <3> QED BY <3>2, <3>3
  <2>2. \A d \in Client : Offered(d, w)' => Offered(d, w)
    BY DEF Offered
  <2>3. NetInv(w)' /\ \A b \in Node : InNet(b, w)' => InNet(b, w)
    BY <1>4, <1>5, <2>1, <2>2, NetMoves
  <2>4. (\A a \in Node : Coming(a, w)' => Coming(a, w)) /\ (Spoken(w)' => Spoken(w))
    BY <2>2, <2>3, NoNews
  <2> QED BY <2>1, <2>3, <2>4
<1> QED BY <1>2, <1>5

(* A lost or overtaken message. *)
LEMMA InvDisturb ==
    ASSUME Inv, NEW m \in Node, NEW n \in Node, Disturb(m, n)
    PROVE  Inv'
<1>1. /\ net[m][n] # <<>>
      /\ kind' = kind /\ home' = home /\ offer' = offer /\ tx' = tx /\ db' = db /\ ops' = ops
  BY DEF Disturb
<1>2. Types /\ ops' \in Nat /\ ops <= ops'
  BY <1>1 DEF Inv, Types
<1>3. \E q, f : Moves(m, n, q, f)
  <2>1. CASE net' = [net EXCEPT ![m][n] = Tail(@)]
    BY <1>1, <1>2, <2>1, TailMoves
  <2>2. CASE Len(net[m][n]) > 1 /\ net' = [net EXCEPT ![m][n] = <<@[2], @[1]>> \o SubSeq(@, 3, Len(@))]
    BY <1>1, <1>2, <2>2, SwapMoves
  <2> QED BY <2>1, <2>2, Zenon DEF Disturb
<1>4. PICK q, f : Moves(m, n, q, f)
  BY <1>3
<1>5. /\ net' \in [Node -> [Node -> Seq(Msg)]]
      /\ \A w \in Write : NetInv(w) =>
            /\ NetInv(w)' /\ (Spoken(w)' => Spoken(w))
            /\ \A a \in Node : Coming(a, w)' => Coming(a, w)
  BY <1>1, <1>2, <1>4, MovesNet
<1>6. Types'
  BY <1>1, <1>2, <1>5 DEF Types
<1>7. ASSUME NEW w \in Write PROVE WriteInv(w)'
  <2>1. WriteInv(w) /\ NetInv(w)
    BY InvWrites DEF WriteInv
  <2>2. \A a \in Node : TxKeeps(a, w)
    BY <1>1, TxSame
  <2> QED BY <1>1, <1>2, <1>5, <2>1, <2>2, LessWrite
<1> QED BY <1>6, <1>7 DEF Inv, WriteInv

\* Node n runs the first message from m, statement x, on connection k.
Hears(m, n, k, x, r) ==
    /\ net[m][n] # <<>> /\ x = Head(net[m][n]).s
    /\ net' = [net EXCEPT ![m][n] = Tail(@)]
    /\ k \in Heard /\ Runs(n, k, r) /\ Good(tx[n][k], r, x)
    /\ kind' = kind /\ home' = home /\ offer' = offer /\ ops' = ops

(* A statement that a node hears. *)
LEMMA InvHears ==
    ASSUME Inv, NEW m \in Node, NEW n \in Node, NEW k, NEW x, NEW r, Hears(m, n, k, x, r)
    PROVE  Inv'
<1> DEFINE f == [i \in Nat |-> i + 1]
<1>1. /\ net[m][n] # <<>> /\ x = Head(net[m][n]).s
      /\ k \in Heard /\ Runs(n, k, r) /\ Good(tx[n][k], r, x)
      /\ kind' = kind /\ home' = home /\ offer' = offer /\ ops' = ops
  BY DEF Hears
<1>2. net' = [net EXCEPT ![m][n] = Tail(@)]
  BY DEF Hears
<1>3. Types /\ ops' \in Nat /\ ops <= ops' /\ k \in Runner
  BY <1>1, ConnFacts DEF Inv, Types
<1>4. Moves(m, n, Tail(net[m][n]), f)
  BY <1>1, <1>2, <1>3, TailMoves
<1>5. \A i \in Nat : f[i] = i + 1
  OBVIOUS
<1> HIDE DEF f
<1>6. /\ net' \in [Node -> [Node -> Seq(Msg)]]
      /\ \A w \in Write : NetInv(w) =>
            /\ NetInv(w)' /\ (Spoken(w)' => Spoken(w))
            /\ \A a \in Node : Coming(a, w)' => Coming(a, w)
            /\ \A l, b \in Node, i \in Nat : Carries(l, b, i, w)' => Carries(l, b, Before(m, n, l, b, f, i), w)
  BY <1>1, <1>3, <1>4, MovesNet
<1>7. Types'
  BY <1>1, <1>3, <1>6 DEF Types, Runs
<1>8. ASSUME NEW w \in Write PROVE WriteInv(w)'
  <2>1. WriteInv(w) /\ NetInv(w) /\ Unused(w) /\ \A a \in Node : NodeInv(a, w)
    BY InvWrites DEF WriteInv
  <2>2. /\ NetInv(w)' /\ (Spoken(w)' => Spoken(w))
        /\ \A a \in Node : Coming(a, w)' => Coming(a, w)
        /\ \A l, b \in Node, i \in Nat : Carries(l, b, i, w)' => Carries(l, b, Before(m, n, l, b, f, i), w)
    BY <1>6, <2>1
  <2>3. CASE w # x.w
    <3>1. \A a \in Node : TxKeeps(a, w)
      BY <1>1, <1>3, <2>3, RunsKeeps
    <3> QED BY <1>1, <1>3, <2>1, <2>2, <3>1, LessWrite
  <2>4. CASE w = x.w
    <3>1. Carries(m, n, 1, w)
      <4>1. net[m][n] \in Seq(Msg)
        BY <1>3 DEF Types
      <4>2. Head(net[m][n]) = net[m][n][1] /\ 1 \in DOMAIN net[m][n]
        BY <1>1, <4>1, TailFacts
      <4> QED BY <1>1, <2>4, <4>2 DEF Carries
    <3>2. InNet(n, w) /\ Coming(n, w)
      BY <3>1 DEF InNet, Coming
    <3>3. \A l \in Node, i \in Nat : ~Carries(l, n, i, w)'
      <4> SUFFICES ASSUME NEW l \in Node, NEW i \in Nat, Carries(l, n, i, w)' PROVE FALSE
        OBVIOUS
      <4> DEFINE j == Before(m, n, l, n, f, i)
      <4>1. j \in Nat /\ Carries(l, n, j, w) /\ j = IF l = m THEN i + 1 ELSE i
        BY <1>5, <2>2 DEF Before
      <4> HIDE DEF j
      <4>2. l = m /\ j = 1
        BY <2>1, <3>1, <4>1 DEF NetInv
      <4>3. i = 0
        BY <4>1, <4>2
      <4>4. Carries(m, n, 0, w)'
        BY <4>2, <4>3
      <4>5. net'[m][n] \in Seq(Msg)
        BY <1>6
      <4> QED BY <4>4, <4>5 DEF Carries
    <3>4. \A d \in Client : ~Offered(d, w)'
      <4>1. \A d \in Client : ~Offered(d, w)
        BY <2>1, <3>2 DEF NetInv
      <4> QED BY <1>1, <4>1 DEF Offered
    <3>5. ~Coming(n, w)'
      <4>1. ~InNet(n, w)'
        BY <3>3 DEF InNet
      <4> QED BY <3>4, <4>1 DEF Coming
    <3>6. ASSUME NEW a \in Node PROVE NodeInv(a, w)'
      <4>1. CASE a # n
        <5>1. TxKeeps(a, w)
          BY <1>1, <1>3, <4>1, RunsOthers
        <5> QED BY <1>1, <1>3, <2>1, <2>2, <5>1, KeepNode
      <4>2. CASE a = n
        <5>1. ~Holds(n, k, w)
          BY <1>1, <2>1, <3>2 DEF NodeInv, Single, InTx
        <5>2. TxMakes(n, k, w)
          BY <1>1, <1>3, <2>4, <5>1, RunsMakes
        <5>3. NodeInv(n, w)
          BY <2>1
        <5>4. NodeInv(n, w)'
          BY <1>1, <1>3, <3>2, <3>5, <5>2, <5>3, HearNode
        <5> QED BY <4>2, <5>4
      <4> QED BY <4>1, <4>2
    <3>7. Unused(w)'
      <4>1. ~(w > ops)
        BY <2>1, <3>2 DEF Unused
      <4> QED BY <1>1, <4>1 DEF Unused
    <3> QED BY <2>2, <3>6, <3>7 DEF WriteInv
  <2> QED BY <2>3, <2>4
<1> QED BY <1>7, <1>8 DEF Inv, WriteInv

(* SubLoop or handleInbound with asyncSQL. *)
LEMMA InvReceive ==
    ASSUME Inv, NEW n \in Node, Receive(n)
    PROVE  Inv'
<1>1. PICK m \in Node :
        /\ net[m][n] # <<>> /\ net' = [net EXCEPT ![m][n] = Tail(@)]
        /\ kind' = kind /\ home' = home /\ offer' = offer /\ ops' = ops
        /\ \E fails \in Failing(Head(net[m][n]).s), k \in IF kind = "sqlite" THEN DBConn ELSE {m} :
             LET s == Head(net[m][n]).s
                 c == Head(net[m][n]).by
                 r == IF fails THEN Result(FALSE, tx[n][k], {})
                      ELSE IF kind = "sqlite" THEN SQLiteExecute(n, k, c, s)
                      ELSE MySQLExecute(n, k, c, s)
             IN  IF kind = "sqlite" THEN AsyncSQL(n, k, c, r) ELSE HandleInboundSQL(n, m, c, r)
  BY ZenonT(60) DEF Receive
<1> DEFINE s == Head(net[m][n]).s
           c == Head(net[m][n]).by
<1>2. PICK fails \in Failing(s), k \in IF kind = "sqlite" THEN DBConn ELSE {m} :
             LET r == IF fails THEN Result(FALSE, tx[n][k], {})
                      ELSE IF kind = "sqlite" THEN SQLiteExecute(n, k, c, s)
                      ELSE MySQLExecute(n, k, c, s)
             IN  IF kind = "sqlite" THEN AsyncSQL(n, k, c, r) ELSE HandleInboundSQL(n, m, c, r)
  BY <1>1
<1> DEFINE r == IF fails THEN Result(FALSE, tx[n][k], {})
                ELSE IF kind = "sqlite" THEN SQLiteExecute(n, k, c, s)
                ELSE MySQLExecute(n, k, c, s)
<1>3. Types
  BY DEF Inv
<1>4. s \in Sent /\ s \in Stmt /\ c \in Client
  <2>1. net[m][n] \in Seq(Msg)
    BY <1>3 DEF Types
  <2>2. Head(net[m][n]) \in Msg
    BY <1>1, <2>1, TailFacts
  <2> QED BY <2>2 DEF Msg, Sent
<1>5. k \in Heard /\ k \in Conn /\ (kind # "sqlite" => k = m)
  BY <1>2, ConnFacts DEF Heard, Conn
<1>6. IF kind = "sqlite" THEN AsyncSQL(n, k, c, r) ELSE HandleInboundSQL(n, m, c, r)
  BY <1>2
<1>7. Good(tx[n][k], r, s)
  <2>0. tx[n][k] \in TxRec
    BY <1>3, <1>5 DEF Types
  <2>1. CASE fails
    BY <2>0, <2>1, FailGood
  <2>2. CASE ~fails /\ kind = "sqlite"
    BY <1>3, <1>4, <1>5, <2>2, SQLiteGood
  <2>3. CASE ~fails /\ kind # "sqlite"
    BY <1>3, <1>4, <1>5, <2>3, MySQLGood
  <2> QED BY <2>1, <2>2, <2>3
<1> HIDE DEF r
<1>8. Effect(n, k, r)
  <2>1. CASE kind = "sqlite"
    BY <1>6, <2>1 DEF AsyncSQL
  <2>2. CASE kind # "sqlite"
    <3>1. HandleInboundSQL(n, m, c, r)
      BY <1>6, <2>2
    <3>2. Effect(n, m, r)
      BY <3>1 DEF HandleInboundSQL
    <3> QED BY <1>5, <2>2, <3>2
  <2> QED BY <2>1, <2>2
<1>9. Runs(n, k, r)
  BY <1>3, <1>5, <1>7, <1>8, EffectRuns DEF Good
<1>10. Hears(m, n, k, s, r)
  BY <1>1, <1>5, <1>7, <1>9 DEF Hears
<1> QED BY <1>10, InvHears

-----------------------------------------------------------------------------
(* The theorems. *)

(* Every step. *)
LEMMA InvStep == Inv /\ [Next]_vars => Inv'
<1> SUFFICES ASSUME Inv, [Next]_vars PROVE Inv'
  OBVIOUS
<1>1. CASE UNCHANGED vars
  BY <1>1, InvSame DEF vars, bounds
<1>2. ASSUME NEW n \in Node, InitP2P(n) PROVE Inv'
  BY <1>2, InvSame DEF InitP2P, bounds
<1>3. ASSUME NEW n \in Node, HandlePeerDiscovery(n) PROVE Inv'
  BY <1>3, InvSame DEF HandlePeerDiscovery, bounds
<1>4. ASSUME NEW c \in Client, OnConn(c) PROVE Inv'
  BY <1>4, InvSame DEF OnConn, bounds
<1> QED BY <1>1, <1>2, <1>3, <1>4, InvQuery, InvQuit, InvPublish, InvPublishFails, InvDisturb, InvReceive DEF Next

(* The invariant: of every write, what a node has committed, holds in open *)
(* transactions and has still to hear is bounded by Copies, a transaction  *)
(* that heard the write excludes a message that carries it, and a write is *)
(* offered by one client or carried by one message for each node.          *)
THEOREM Invariant == Spec => []Inv
  BY InvInit, InvStep, PTL DEF Spec

(* AppliedAtMost (SubLoop, handleInbound, asyncSQL): however messages are  *)
(* lost, reordered or fail, and whatever transactions the statements of    *)
(* several clients end up in, no node of SQLite commits a write twice and  *)
(* none of SQLProxy three times.                                           *)
THEOREM AtMost == Spec => []AppliedAtMost
<1>1. Inv => AppliedAtMost
  <2> SUFFICES ASSUME Inv, NEW n \in Node, NEW w \in Write PROVE db[n][w] <= Copies
    BY DEF AppliedAtMost
  <2>1. db[n][w] + One(InTx(n, w)) + One(Own(n, w)) + One(Coming(n, w)) <= Copies
    BY DEF Inv, NodeInv, Bound
  <2>2. db[n][w] \in Nat /\ Copies \in Nat
    BY DEF Inv, Types, Copies
  <2> QED BY <2>1, <2>2 DEF One
<1> QED BY <1>1, Invariant, PTL

-----------------------------------------------------------------------------
(* That the databases converge.  What a client has made of its own node's  *)
(* database is what its statements that another node has still to run      *)
(* would make of that node's.                                              *)

\* What a client made of a database: whether it is in a transaction, the
\* writes in it, and the writes it has committed.
View == [open : BOOLEAN, writes : SUBSET Write, done : SUBSET Write]

IsWrite(s) == s.op \in {"insert", "prepared"}

\* A statement that runs in its client's own transaction, and succeeds.
After(v, s) ==
    IF s.op = "begin" THEN [open |-> TRUE, writes |-> {}, done |-> v.done \cup v.writes]
    ELSE IF s.op = "commit" THEN [open |-> FALSE, writes |-> {}, done |-> v.done \cup v.writes]
    ELSE IF s.op = "rollback" THEN [open |-> FALSE, writes |-> {}, done |-> v.done]
    ELSE IF v.open THEN [open |-> TRUE, writes |-> v.writes \cup {s.w}, done |-> v.done]
    ELSE [open |-> FALSE, writes |-> {}, done |-> v.done \cup {s.w}]

Fresh(v, s) == IsWrite(s) => s.w \notin v.writes \cup v.done

\* A view by a client that has made the writes M.
Proper(v, M) ==
    /\ v \in View /\ v.writes \cup v.done \subseteq M /\ v.writes \cap v.done = {}
    /\ v.open \/ v.writes = {}

\* One message of the queue on the way to a node, as client c sees it.
Goes(v, u, msg, c) ==
    IF msg.by = c THEN u = After(v, msg.s) /\ Fresh(v, msg.s) ELSE u = v

\* What is in the handler leads from view u to h.
Ends(u, h, o) == IF o = None THEN h = u ELSE h = After(u, o) /\ Fresh(u, o)

\* The views st[0], st[1], ... of client c that the queue q leads through, and
\* then the statement o that is still in c's handler, to the view h.
Trail(q, o, c, st, h, M) ==
    /\ st \in [Nat -> View]
    /\ \A i \in 0..Len(q) : Proper(st[i], M)
    /\ \A i \in 1..Len(q) : Goes(st[i - 1], st[i], q[i], c)
    /\ Ends(st[Len(q)], h, o)

(* A statement of c waits to be published. *)
LEMMA TrailAsk ==
    ASSUME NEW q, NEW c, NEW st, NEW h, NEW M, NEW N, M \subseteq N, Trail(q, None, c, st, h, M),
           NEW s \in Sent, Fresh(h, s)
    PROVE  Trail(q, s, c, st, After(h, s), N)
<1>1. s # None
  BY SyncAssumption DEF Sent, Stmt
<1>2. \A v : Proper(v, M) => Proper(v, N)
  BY DEF Proper
<1> QED BY <1>1, <1>2 DEF Trail, Ends

(* A queue with one more message. *)
LEMMA AppendFacts ==
    ASSUME NEW q \in Seq(Msg), NEW v \in Msg
    PROVE  /\ Append(q, v) \in Seq(Msg) /\ Len(q) \in Nat /\ Len(Append(q, v)) = Len(q) + 1
           /\ Append(q, v)[Len(q) + 1] = v /\ \A i \in 1..Len(q) : Append(q, v)[i] = q[i]
OBVIOUS

(* A message joins the queue. *)
LEMMA TrailAppend ==
    ASSUME NEW q \in Seq(Msg), NEW c, NEW st, NEW h, NEW M, NEW o, Trail(q, o, c, st, h, M),
           NEW v \in Msg, NEW u, Proper(u, M), Goes(st[Len(q)], u, v, c), NEW x, Ends(u, h, x)
    PROVE  LET t == [st EXCEPT ![Len(q) + 1] = u]
           IN  Trail(Append(q, v), x, c, t, h, M) /\ t[0] = st[0] /\ t \in [Nat -> View]
<1> DEFINE t == [st EXCEPT ![Len(q) + 1] = u]
           r == Append(q, v)
           l == Len(q)
<1>1. l \in Nat /\ Len(r) = l + 1 /\ r[l + 1] = v /\ \A i \in 1..l : r[i] = q[i]
  BY AppendFacts
<1>2. st \in [Nat -> View] /\ u \in View
  BY DEF Trail, Proper
<1>3. t \in [Nat -> View] /\ t[l + 1] = u /\ \A i \in Nat : i # l + 1 => t[i] = st[i]
  BY <1>1, <1>2
<1>4. /\ \A i \in 0..l : Proper(st[i], M)
      /\ \A i \in 1..l : Goes(st[i - 1], st[i], q[i], c)
  BY DEF Trail
<1>5. Goes(st[l], u, v, c)
  OBVIOUS
<1> HIDE DEF t, r, l
<1>6. ASSUME NEW i \in 0..(l + 1) PROVE Proper(t[i], M)
  <2>1. CASE i = l + 1
    BY <1>3, <2>1
  <2>2. CASE i \in 0..l
    BY <1>1, <1>3, <1>4, <2>2
  <2> QED BY <1>1, <2>1, <2>2
<1>7. ASSUME NEW i \in 1..(l + 1) PROVE Goes(t[i - 1], t[i], r[i], c)
  <2>1. CASE i = l + 1
    <3>1. t[i - 1] = st[l] /\ t[i] = u /\ r[i] = v
      BY <1>1, <1>3, <2>1
    <3> QED BY <1>5, <3>1
  <2>2. CASE i \in 1..l
    <3>1. t[i - 1] = st[i - 1] /\ t[i] = st[i] /\ r[i] = q[i]
      BY <1>1, <1>3, <2>2
    <3> QED BY <1>4, <2>2, <3>1
  <2> QED BY <1>1, <2>1, <2>2
<1>8. Trail(r, x, c, t, h, M)
  BY <1>1, <1>3, <1>6, <1>7 DEF Trail
<1>9. t[0] = st[0]
  BY <1>1, <1>3
<1> QED BY <1>3, <1>8, <1>9 DEF t, r, l

(* The first message leaves the queue. *)
LEMMA TrailTail ==
    ASSUME NEW q \in Seq(Msg), q # <<>>, NEW c, NEW st, NEW h, NEW M, NEW o, Trail(q, o, c, st, h, M)
    PROVE  LET t == [i \in Nat |-> st[i + 1]]
           IN  /\ Trail(Tail(q), o, c, t, h, M) /\ t \in [Nat -> View] /\ t[0] = st[1]
               /\ Goes(st[0], st[1], q[1], c) /\ Proper(st[0], M) /\ Proper(st[1], M)
<1> DEFINE t == [i \in Nat |-> st[i + 1]]
           r == Tail(q)
           l == Len(q)
<1>1. l \in Nat /\ l > 0 /\ Len(r) = l - 1 /\ \A i \in 1..(l - 1) : r[i] = q[i + 1]
  OBVIOUS
<1>2. st \in [Nat -> View]
  BY DEF Trail
<1>3. t \in [Nat -> View] /\ \A i \in Nat : t[i] = st[i + 1]
  BY <1>2
<1>4. /\ \A i \in 0..l : Proper(st[i], M)
      /\ \A i \in 1..l : Goes(st[i - 1], st[i], q[i], c)
      /\ Ends(st[l], h, o)
  BY DEF Trail
<1> HIDE DEF t, r, l
<1>5. ASSUME NEW i \in 0..(l - 1) PROVE Proper(t[i], M)
  <2>1. i \in Nat /\ i + 1 \in 0..l
    BY <1>1
  <2> QED BY <1>3, <1>4, <2>1
<1>6. ASSUME NEW i \in 1..(l - 1) PROVE Goes(t[i - 1], t[i], r[i], c)
  <2>1. i \in Nat /\ i - 1 \in Nat /\ i + 1 \in 1..l /\ (i + 1) - 1 = i /\ (i - 1) + 1 = i
    BY <1>1
  <2>2. t[i - 1] = st[i] /\ t[i] = st[i + 1] /\ r[i] = q[i + 1]
    BY <1>1, <1>3, <2>1
  <2>3. Goes(st[(i + 1) - 1], st[i + 1], q[i + 1], c)
    BY <1>4, <2>1
  <2> QED BY <2>1, <2>2, <2>3
<1>7. t[l - 1] = st[l]
  <2>1. l - 1 \in Nat /\ (l - 1) + 1 = l
    BY <1>1
  <2>2. t[l - 1] = st[(l - 1) + 1]
    BY <1>3, <2>1
  <2> QED BY <2>1, <2>2
<1>8. Trail(r, o, c, t, h, M)
  BY <1>1, <1>3, <1>4, <1>5, <1>6, <1>7 DEF Trail
<1>9. Goes(st[0], st[1], q[1], c) /\ Proper(st[0], M) /\ Proper(st[1], M)
  <2>1. 0 \in 0..l /\ 1 \in 0..l /\ 1 \in 1..l /\ 1 - 1 = 0
    BY <1>1
  <2>2. Goes(st[1 - 1], st[1], q[1], c) /\ Proper(st[0], M) /\ Proper(st[1], M)
    BY <1>4, <2>1
  <2> QED BY <2>1, <2>2
<1>10. t[0] = st[1]
  BY <1>3
<1> QED BY <1>3, <1>8, <1>9, <1>10 DEF t, r

\* Transaction t is client c's, as its view says.
Is(t, v, c) == t.open = v.open /\ t.writes = v.writes /\ t.owner = IF v.open THEN c ELSE None

\* A statement s of c that ran with result r did to the connection and to the
\* database what it does to the view.
Did(r, v, s, c) ==
    /\ r.tx \in TxRec /\ Is(r.tx, After(v, s), c)
    /\ After(v, s).done = v.done \cup r.add /\ r.add \cap v.done = {}
    /\ r.add \subseteq After(v, s).done

(* Views stay views. *)
LEMMA AfterView ==
    ASSUME NEW v \in View, NEW s \in Sent
    PROVE  After(v, s) \in View
BY DEF View, After, Sent, Stmt, Statement

(* One case of what follows. *)
LEMMA DidParts ==
    ASSUME NEW r, NEW u \in TxRec, NEW add, r.tx = u, r.add = add, NEW v, NEW s, NEW c,
           NEW open, NEW writes, NEW done,
           After(v, s) = [open |-> open, writes |-> writes, done |-> done],
           u.open = open, u.writes = writes, u.owner = IF open THEN c ELSE None,
           done = v.done \cup add, add \cap v.done = {}
    PROVE  Did(r, v, s, c)
<1> DEFINE a == After(v, s)
<1>1. a.open = open /\ a.writes = writes /\ a.done = done
  OBVIOUS
<1> HIDE DEF a
<1>2. Is(u, a, c)
  BY <1>1, Zenon DEF Is
<1>3. a.done = v.done \cup add /\ add \subseteq a.done
  BY <1>1
<1>4. Is(r.tx, a, c) /\ r.tx \in TxRec /\ a.done = v.done \cup r.add /\ r.add \cap v.done = {}
      /\ r.add \subseteq a.done
  BY <1>2, <1>3
<1> QED BY <1>4, Zenon DEF Did, a

(* INSERT, in the client's transaction or in none. *)
LEMMA InsertDid ==
    ASSUME NEW v, NEW M, Proper(v, M), NEW s \in Sent, IsWrite(s), Fresh(v, s), NEW c \in Client,
           NEW t \in TxRec, Is(t, v, c)
    PROVE  Did(Insert(t, s.w), v, s, c)
<1> DEFINE w == s.w
           u == [t EXCEPT !.writes = @ \cup {w}]
           r == Insert(t, w)
<1>1. w \in Write /\ s.op \notin {"begin", "commit", "rollback"} /\ v \in View /\ t.writes \in SUBSET Write
  BY DEF IsWrite, Sent, Stmt, Proper, TxRec
<1>2. t.writes \cup {w} \in SUBSET Write
  BY <1>1
<1>3. u \in TxRec
  BY <1>2, Zenon DEF TxRec
<1>4. u.writes = t.writes \cup {w} /\ u.open = t.open /\ u.owner = t.owner
  BY Zenon DEF TxRec
<1>5. r = IF t.open THEN Result(TRUE, u, {}) ELSE Result(TRUE, t, {w})
  BY Zenon DEF Insert
<1>6. t.open = v.open /\ t.writes = v.writes /\ t.owner = IF v.open THEN c ELSE None
  BY DEF Is
<1>7. w \notin v.done /\ w = s.w
  BY DEF Fresh
<1>8. Did(Insert(t, s.w), v, s, c) <=> Did(r, v, s, c)
  OBVIOUS
<1>9. v.open \in BOOLEAN
  BY <1>1 DEF View
<1> HIDE DEF u, w, r
<1>10. CASE v.open = TRUE
  <2>1. r = Result(TRUE, u, {})
    BY <1>5, <1>6, <1>10
  <2>2. After(v, s) = [open |-> TRUE, writes |-> v.writes \cup {w}, done |-> v.done]
    BY <1>1, <1>7, <1>10 DEF After
  <2>3. r.tx = u /\ r.add = {}
    BY <2>1 DEF Result
  <2>4. u.open = TRUE /\ u.writes = v.writes \cup {w} /\ u.owner = c
    BY <1>4, <1>6, <1>10
  <2> QED BY <1>3, <1>8, <2>2, <2>3, <2>4, DidParts
<1>11. CASE v.open = FALSE
  <2>1. r = Result(TRUE, t, {w})
    BY <1>5, <1>6, <1>11
  <2>2. After(v, s) = [open |-> FALSE, writes |-> {}, done |-> v.done \cup {w}]
    BY <1>1, <1>7, <1>11 DEF After
  <2>3. r.tx = t /\ r.add = {w}
    BY <2>1 DEF Result
  <2>4. v.writes = {}
    BY <1>11 DEF Proper
  <2>5. t.open = FALSE /\ t.writes = {} /\ t.owner = None
    BY <1>6, <1>11, <2>4
  <2>6. {w} \cap v.done = {}
    BY <1>7
  <2> QED BY <1>8, <2>2, <2>3, <2>5, <2>6, DidParts
<1> QED BY <1>9, <1>10, <1>11

(* BEGIN and COMMIT, ROLLBACK: the transaction's writes are committed, or not. *)
LEMMA EndDid ==
    ASSUME NEW v, NEW M, Proper(v, M), NEW s, NEW c \in Client,
           NEW t \in TxRec, Is(t, v, c), NEW u \in TxRec, NEW add, NEW ok,
           \/ s.op = "begin" /\ u = Opened(c) /\ add = t.writes
           \/ s.op = "commit" /\ u = NoTx /\ add = t.writes
           \/ s.op = "rollback" /\ u = NoTx /\ add = {}
    PROVE  Did(Result(ok, u, add), v, s, c)
<1> DEFINE r == Result(ok, u, add)
<1>1. r.tx = u /\ r.add = add
  BY DEF Result
<1>2. t.writes = v.writes /\ v.writes \cap v.done = {}
  BY DEF Is, Proper
<1>3. CASE s.op = "begin" /\ u = Opened(c) /\ add = t.writes
  <2>1. After(v, s) = [open |-> TRUE, writes |-> {}, done |-> v.done \cup add]
    BY <1>2, <1>3 DEF After
  <2>2. u.open = TRUE /\ u.writes = {} /\ u.owner = c
    BY <1>3 DEF Opened
  <2>3. add \cap v.done = {}
    BY <1>2, <1>3
  <2> HIDE DEF r
  <2>4. Did(r, v, s, c)
    BY <1>1, <2>1, <2>2, <2>3, DidParts
  <2> QED BY <2>4 DEF r
<1>4. CASE s.op = "commit" /\ u = NoTx /\ add = t.writes
  <2>1. After(v, s) = [open |-> FALSE, writes |-> {}, done |-> v.done \cup add]
    BY <1>2, <1>4 DEF After
  <2>2. u.open = FALSE /\ u.writes = {} /\ u.owner = None
    BY <1>4 DEF NoTx
  <2>3. add \cap v.done = {}
    BY <1>2, <1>4
  <2> HIDE DEF r
  <2>4. Did(r, v, s, c)
    BY <1>1, <2>1, <2>2, <2>3, DidParts
  <2> QED BY <2>4 DEF r
<1>5. CASE s.op = "rollback" /\ u = NoTx /\ add = {}
  <2>1. After(v, s) = [open |-> FALSE, writes |-> {}, done |-> v.done]
    BY <1>5 DEF After
  <2>2. u.open = FALSE /\ u.writes = {} /\ u.owner = None
    BY <1>5 DEF NoTx
  <2>3. v.done = v.done \cup add /\ add \cap v.done = {}
    BY <1>5
  <2> HIDE DEF r
  <2>4. Did(r, v, s, c)
    BY <1>1, <2>1, <2>2, <2>3, DidParts
  <2> QED BY <2>4 DEF r
<1> QED BY <1>3, <1>4, <1>5

(* MySQL, on a connection that has the client's transaction or none. *)
LEMMA MySQLDid ==
    ASSUME NEW n, NEW k, NEW c \in Client, NEW s \in Sent, tx[n][k] \in TxRec,
           NEW v, NEW M, Proper(v, M), Fresh(v, s), Is(tx[n][k], v, c)
    PROVE  Did(MySQLExecute(n, k, c, s), v, s, c) /\ MySQLExecute(n, k, c, s).ok
<1>1. NoTx \in TxRec /\ Opened(c) \in TxRec
  BY TxFacts
<1>2. CASE s.op = "begin"
  <2>1. MySQLExecute(n, k, c, s) = Result(TRUE, Opened(c), tx[n][k].writes)
    BY <1>2 DEF MySQLExecute
  <2>2. Did(Result(TRUE, Opened(c), tx[n][k].writes), v, s, c)
    BY <1>1, <1>2, EndDid
  <2> QED BY <2>1, <2>2 DEF Result
<1>3. CASE s.op = "commit"
  <2>1. MySQLExecute(n, k, c, s) = Result(TRUE, NoTx, tx[n][k].writes)
    BY <1>3 DEF MySQLExecute
  <2>2. Did(Result(TRUE, NoTx, tx[n][k].writes), v, s, c)
    BY <1>1, <1>3, EndDid
  <2> QED BY <2>1, <2>2 DEF Result
<1>4. CASE s.op = "rollback"
  <2>1. MySQLExecute(n, k, c, s) = Result(TRUE, NoTx, {})
    BY <1>4 DEF MySQLExecute
  <2>2. Did(Result(TRUE, NoTx, {}), v, s, c)
    BY <1>1, <1>4, EndDid
  <2> QED BY <2>1, <2>2 DEF Result
<1>5. CASE IsWrite(s)
  <2>1. MySQLExecute(n, k, c, s) = Insert(tx[n][k], s.w)
    BY <1>5 DEF MySQLExecute, IsWrite
  <2>2. Did(Insert(tx[n][k], s.w), v, s, c)
    BY <1>5, InsertDid
  <2>3. Insert(tx[n][k], s.w).ok
    BY ZenonT(30) DEF Insert, Result
  <2> QED BY <2>1, <2>2, <2>3
<1> QED BY <1>2, <1>3, <1>4, <1>5 DEF Sent, Stmt, Statement, IsWrite

(* SQLite, when the statement succeeds; when not, nothing happens. *)
LEMMA SQLiteDid ==
    ASSUME NEW n, NEW k, NEW c \in Client, NEW s \in Sent, tx[n][k] \in TxRec,
           NEW v, NEW M, Proper(v, M), Fresh(v, s), Is(tx[n][k], v, c)
    PROVE  LET r == SQLiteExecute(n, k, c, s)
           IN  IF r.ok THEN Did(r, v, s, c) ELSE r = Result(FALSE, tx[n][k], {})
<1>1. NoTx \in TxRec /\ Opened(c) \in TxRec
  BY TxFacts
<1> DEFINE r == SQLiteExecute(n, k, c, s)
           t == tx[n][k]
           Fail == Result(FALSE, t, {})
<1>0. Fail.ok = FALSE /\ \A u, a : Result(TRUE, u, a).ok = TRUE
  BY DEF Result
<1>2. CASE s.op = "begin"
  <2>1. r = IF t.open THEN Fail ELSE Result(TRUE, Opened(c), {})
    BY <1>2 DEF SQLiteExecute
  <2>2. CASE t.open
    BY <1>0, <2>1, <2>2
  <2>3. CASE ~t.open
    <3>1. t.writes = {}
      BY <2>3 DEF Is, Proper
    <3>2. Did(Result(TRUE, Opened(c), {}), v, s, c)
      BY <1>1, <1>2, <3>1, EndDid
    <3> QED BY <1>0, <2>1, <2>3, <3>2
  <2> QED BY <2>2, <2>3
<1>3. CASE s.op = "commit"
  <2>1. r = IF t.open THEN Result(TRUE, NoTx, t.writes) ELSE Fail
    BY <1>3 DEF SQLiteExecute
  <2>2. Did(Result(TRUE, NoTx, t.writes), v, s, c)
    BY <1>1, <1>3, EndDid
  <2> QED BY <1>0, <2>1, <2>2
<1>4. CASE s.op = "rollback"
  <2>1. r = IF t.open THEN Result(TRUE, NoTx, {}) ELSE Fail
    BY <1>4 DEF SQLiteExecute
  <2>2. Did(Result(TRUE, NoTx, {}), v, s, c)
    BY <1>1, <1>4, EndDid
  <2> QED BY <1>0, <2>1, <2>2
<1>5. CASE IsWrite(s)
  <2>1. r = Fail \/ r = Insert(t, s.w)
    BY <1>5 DEF SQLiteExecute, IsWrite
  <2>2. Did(Insert(t, s.w), v, s, c)
    BY <1>5, InsertDid
  <2>3. Insert(t, s.w).ok = TRUE
    BY ZenonT(30) DEF Insert, Result
  <2> QED BY <1>0, <2>1, <2>2, <2>3
<1> QED BY <1>2, <1>3, <1>4, <1>5 DEF Sent, Stmt, Statement, IsWrite

\* Of the transactions T on connections K, client c's is the one its view has.
Owns(T, K, c, v) ==
    /\ \A k \in K : T[k].owner = c => v.open /\ T[k].writes = v.writes
    /\ v.open => \E k \in K : T[k].owner = c

\* An open transaction has an owner, and none that is closed has writes.
Shape(t) == (t.open <=> t.owner # None) /\ (t.open \/ t.writes = {})

\* The statement of c on k neither meets another client's transaction nor
\* runs beside c's own.
Apart(T, K, k, c) ==
    /\ k \in K /\ T[k] \in TxRec /\ Shape(T[k]) /\ (T[k].open => T[k].owner = c)
    /\ \A j \in K \ {k} : T[j].owner # c

\* The transactions U are T after one on connection k became t.
Becomes(T, U, k, t) == \A j \in Conn : U[j] = IF j = k THEN t ELSE T[j]

\* A statement of client c left k to c or to nobody.
Between(T, k, t, c) == T[k].owner \in {None, c} /\ t.owner \in {None, c}

(* The connection has the client's transaction, or none. *)
LEMMA ApartIs ==
    ASSUME NEW T, NEW K, NEW c \in Client, NEW v, NEW M, Proper(v, M), Owns(T, K, c, v),
           NEW k, Apart(T, K, k, c)
    PROVE  Is(T[k], v, c)
<1> DEFINE t == T[k]
<1>1. /\ k \in K /\ t \in TxRec /\ Shape(t) /\ (t.open => t.owner = c)
      /\ \A j \in K \ {k} : T[j].owner # c
  BY DEF Apart
<1>2. t.owner = c => v.open /\ t.writes = v.writes
  BY <1>1 DEF Owns
<1>3. v.open => t.owner = c
  BY <1>1 DEF Owns
<1> HIDE DEF t
<1>4. c # None /\ v.open \in BOOLEAN /\ t.open \in BOOLEAN
  BY <1>1, SyncAssumption DEF Proper, View, TxRec
<1>5. CASE t.owner = c
  BY <1>1, <1>2, <1>4, <1>5 DEF Is, Shape, t
<1>6. CASE t.owner # c
  <2>1. t.open = FALSE /\ v.open = FALSE
    BY <1>1, <1>3, <1>4, <1>6
  <2>2. t.owner = None /\ t.writes = {} /\ v.writes = {}
    BY <1>1, <2>1 DEF Shape, Proper
  <2> QED BY <2>1, <2>2 DEF Is, t
<1> QED BY <1>5, <1>6

(* What such a transaction looks like. *)
LEMMA IsShape ==
    ASSUME NEW t, NEW v, NEW M, Proper(v, M), NEW c \in Client, Is(t, v, c)
    PROVE  Shape(t) /\ t.owner \in {None, c}
<1>1. c # None /\ v.open \in BOOLEAN /\ (v.open \/ v.writes = {})
  BY SyncAssumption DEF Proper, View
<1>2. CASE v.open = TRUE
  BY <1>1, <1>2 DEF Is, Shape
<1>3. CASE v.open = FALSE
  BY <1>1, <1>3 DEF Is, Shape
<1> QED BY <1>1, <1>2, <1>3

(* The client's own statement. *)
LEMMA OwnsNext ==
    ASSUME NEW T, NEW U, NEW K \in SUBSET Conn, NEW c \in Client, NEW k, Apart(T, K, k, c),
           NEW t, Becomes(T, U, k, t), NEW a, Is(t, a, c), a.open \in BOOLEAN
    PROVE  Owns(U, K, c, a)
<1>1. k \in K /\ \A j \in K \ {k} : T[j].owner # c
  BY DEF Apart
<1>2. U[k] = t /\ \A j \in K \ {k} : U[j].owner # c
  BY <1>1 DEF Becomes
<1>3. c # None
  BY SyncAssumption
<1>4. t.owner = c => a.open
  BY <1>3 DEF Is
<1>5. t.writes = a.writes /\ (a.open => t.owner = c)
  BY DEF Is
<1> QED BY <1>1, <1>2, <1>4, <1>5 DEF Owns

(* The other clients. *)
LEMMA OwnsOther ==
    ASSUME NEW T, NEW U, NEW K \in SUBSET Conn, NEW c \in Client, NEW d \in Client, d # c,
           NEW k, NEW t, Becomes(T, U, k, t), Between(T, k, t, c), NEW v, Owns(T, K, d, v)
    PROVE  Owns(U, K, d, v)
<1>1. d # None /\ T[k].owner # d /\ t.owner # d
  BY SyncAssumption DEF Between
<1>2. \A j \in K : U[j] = IF j = k THEN t ELSE T[j]
  BY DEF Becomes
<1>3. \A j \in K : U[j].owner = d => j # k /\ U[j] = T[j]
  BY <1>1, <1>2
<1>4. \A j \in K : T[j].owner = d => j # k /\ U[j] = T[j]
  BY <1>1, <1>2
<1> QED BY <1>3, <1>4 DEF Owns

(* Connections on which nothing ran. *)
LEMMA OwnsElse ==
    ASSUME NEW T, NEW U, NEW K \in SUBSET Conn, NEW d, NEW k, k \notin K,
           NEW t, Becomes(T, U, k, t), NEW v, Owns(T, K, d, v)
    PROVE  Owns(U, K, d, v)
<1>1. \A j \in K : U[j] = T[j]
  BY DEF Becomes
<1> QED BY <1>1 DEF Owns

-----------------------------------------------------------------------------
(* Counting commits. *)

\* Database E is D with the writes add committed once more.
Commits(D, E, add) == \A w \in Write : D[w] \in Nat /\ E[w] = IF w \in add THEN D[w] + 1 ELSE D[w]

\* A node has the writes of M as often as they are in X and in Y.
Counts(D, M, X, Y) == \A w \in M : D[w] = One(w \in X) + One(w \in Y)

(* Commits of a node's own, *)
LEMMA CountsLeft ==
    ASSUME NEW D, NEW E, NEW add, Commits(D, E, add), NEW M, M \subseteq Write, NEW X, NEW Y,
           Counts(D, M, X, Y), add \cap X = {}
    PROVE  Counts(E, M, X \cup add, Y)
<1> SUFFICES ASSUME NEW w \in M PROVE E[w] = One(w \in X \cup add) + One(w \in Y)
  BY DEF Counts
<1>1. w \in Write /\ D[w] = One(w \in X) + One(w \in Y) /\ E[w] = IF w \in add THEN D[w] + 1 ELSE D[w]
  BY DEF Counts, Commits
<1>2. CASE w \in add
  <2>1. w \notin X /\ w \in X \cup add
    BY <1>2
  <2> QED BY <1>1, <1>2, <2>1 DEF One
<1>3. CASE w \notin add
  <2>1. w \in X <=> w \in X \cup add
    BY <1>3
  <2> QED BY <1>1, <1>3, <2>1 DEF One
<1> QED BY <1>2, <1>3

(* of what it heard, *)
LEMMA CountsRight ==
    ASSUME NEW D, NEW E, NEW add, Commits(D, E, add), NEW M, M \subseteq Write, NEW X, NEW Y,
           Counts(D, M, X, Y), add \cap Y = {}
    PROVE  Counts(E, M, X, Y \cup add)
<1> SUFFICES ASSUME NEW w \in M PROVE E[w] = One(w \in X) + One(w \in Y \cup add)
  BY DEF Counts
<1>1. w \in Write /\ D[w] = One(w \in X) + One(w \in Y) /\ E[w] = IF w \in add THEN D[w] + 1 ELSE D[w]
  BY DEF Counts, Commits
<1>2. CASE w \in add
  <2>1. w \notin Y /\ w \in Y \cup add
    BY <1>2
  <2> QED BY <1>1, <1>2, <2>1 DEF One
<1>3. CASE w \notin add
  <2>1. w \in Y <=> w \in Y \cup add
    BY <1>3
  <2> QED BY <1>1, <1>3, <2>1 DEF One
<1> QED BY <1>2, <1>3

(* and of other clients. *)
LEMMA CountsElse ==
    ASSUME NEW D, NEW E, NEW add, Commits(D, E, add), NEW M, M \subseteq Write, NEW X, NEW Y,
           Counts(D, M, X, Y), add \cap M = {}
    PROVE  Counts(E, M, X, Y)
<1>1. \A w \in M : E[w] = D[w]
  BY DEF Commits
<1> QED BY <1>1 DEF Counts

(* A write that nobody had is one of the client's. *)
LEMMA CountsMore ==
    ASSUME NEW D, NEW M, NEW N, NEW X, NEW Y, Counts(D, M, X, Y), X \subseteq M, Y \subseteq M,
           \A w \in N : w \in M \/ D[w] = 0
    PROVE  Counts(D, N, X, Y)
<1> SUFFICES ASSUME NEW w \in N PROVE D[w] = One(w \in X) + One(w \in Y)
  BY DEF Counts
<1>1. CASE w \in M
  BY <1>1 DEF Counts
<1>2. CASE w \notin M
  <2>1. D[w] = 0 /\ w \notin X /\ w \notin Y
    BY <1>2
  <2> QED BY <2>1 DEF One
<1> QED BY <1>1, <1>2

-----------------------------------------------------------------------------
(* What a node has of a client: what it has run, in its transactions T and  *)
(* its database D, and what it has still to hear, in the queue q and in the *)
(* client's handler.  X is what the node has not heard but run itself.      *)

Seen(c, K, q, o, T, D, X, h, M) ==
    \E st \in [Nat -> View] :
        Trail(q, o, c, st, h, M) /\ Owns(T, K, c, st[0]) /\ Counts(D, M, X, st[0].done)

\* Statement s of c on a connection with transaction t ends in result r.
Does(r, t, s, c) == \A v, M : Proper(v, M) /\ Fresh(v, s) /\ Is(t, v, c) => Did(r, v, s, c)

(* The first view is a proper one. *)
LEMMA TrailFirst ==
    ASSUME NEW q \in Seq(Msg), NEW o, NEW c, NEW st, NEW h, NEW M, Trail(q, o, c, st, h, M)
    PROVE  Proper(st[0], M)
<1>1. Len(q) \in Nat
  OBVIOUS
<1>2. 0 \in 0..Len(q)
  BY <1>1
<1> QED BY <1>2 DEF Trail

(* A statement of a client makes a proper view of a proper one. *)
LEMMA ProperAfter ==
    ASSUME NEW v, NEW M, Proper(v, M), NEW s \in Sent, Fresh(v, s), NEW N, M \subseteq N,
           IsWrite(s) => s.w \in N
    PROVE  Proper(After(v, s), N)
<1> DEFINE a == After(v, s)
<1>1. v \in View /\ v.writes \cup v.done \subseteq M /\ v.writes \cap v.done = {} /\ (v.open \/ v.writes = {})
  BY DEF Proper
<1>2. a \in View
  BY <1>1, AfterView
<1>3. v.writes \subseteq N /\ v.done \subseteq N
  BY <1>1
<1>4. CASE s.op \in {"begin", "commit"}
  <2>1. a.writes = {} /\ a.done = v.done \cup v.writes
    BY <1>4 DEF After
  <2> HIDE DEF a
  <2>2. Proper(a, N)
    BY <1>2, <1>3, <2>1 DEF Proper
  <2> QED BY <2>2 DEF a
<1>5. CASE s.op = "rollback"
  <2>1. a.writes = {} /\ a.done = v.done
    BY <1>5 DEF After
  <2> HIDE DEF a
  <2>2. Proper(a, N)
    BY <1>2, <1>3, <2>1 DEF Proper
  <2> QED BY <2>2 DEF a
<1>6. CASE IsWrite(s)
  <2>1. s.w \in N /\ s.w \notin v.writes /\ s.w \notin v.done
    BY <1>6 DEF Fresh
  <2>2. s.op \notin {"begin", "commit", "rollback"}
    BY <1>6 DEF IsWrite
  <2>3. CASE v.open
    <3>1. a.open /\ a.writes = v.writes \cup {s.w} /\ a.done = v.done
      BY <2>2, <2>3 DEF After
    <3> HIDE DEF a
    <3>2. a.writes \cup a.done \subseteq N /\ a.writes \cap a.done = {}
      BY <1>1, <1>3, <2>1, <3>1
    <3>3. Proper(a, N)
      BY <1>2, <3>1, <3>2 DEF Proper
    <3> QED BY <3>3 DEF a
  <2>4. CASE ~v.open
    <3>1. a.writes = {} /\ a.done = v.done \cup {s.w}
      BY <2>2, <2>4 DEF After
    <3> HIDE DEF a
    <3>2. Proper(a, N)
      BY <1>2, <1>3, <2>1, <3>1 DEF Proper
    <3> QED BY <3>2 DEF a
  <2> QED BY <2>3, <2>4
<1> QED BY <1>4, <1>5, <1>6 DEF Sent, Stmt, Statement, IsWrite

(* Another client's statement ran. *)
LEMMA SeenOther ==
    ASSUME NEW c \in Client, NEW d \in Client, d # c, NEW K \in SUBSET Conn, NEW q, NEW o,
           NEW T, NEW U, NEW D, NEW E, NEW X, NEW h, NEW M, M \subseteq Write,
           Seen(d, K, q, o, T, D, X, h, M),
           NEW k, NEW t, Becomes(T, U, k, t), Between(T, k, t, c),
           NEW add, Commits(D, E, add), add \cap M = {}
    PROVE  Seen(d, K, q, o, U, E, X, h, M)
<1>1. PICK st \in [Nat -> View] :
        Trail(q, o, d, st, h, M) /\ Owns(T, K, d, st[0]) /\ Counts(D, M, X, st[0].done)
  BY DEF Seen
<1> DEFINE v == st[0]
           Y == v.done
<1>2. Owns(T, K, d, v) /\ Counts(D, M, X, Y)
  BY <1>1
<1> HIDE DEF v, Y
<1>3. Owns(U, K, d, v)
  BY <1>2, OwnsOther
<1>4. Counts(E, M, X, Y)
  BY <1>2, CountsElse
<1> QED BY <1>1, <1>3, <1>4 DEF Seen, v, Y

(* The client's own statement ran, on a connection of another kind. *)
LEMMA SeenElse ==
    ASSUME NEW c, NEW K \in SUBSET Conn, NEW q, NEW o,
           NEW T, NEW U, NEW D, NEW E, NEW X, NEW h, NEW M, M \subseteq Write,
           Seen(c, K, q, o, T, D, X, h, M),
           NEW k, k \notin K, NEW t, Becomes(T, U, k, t),
           NEW add, Commits(D, E, add), add \cap X = {}
    PROVE  Seen(c, K, q, o, U, E, X \cup add, h, M)
<1>1. PICK st \in [Nat -> View] :
        Trail(q, o, c, st, h, M) /\ Owns(T, K, c, st[0]) /\ Counts(D, M, X, st[0].done)
  BY DEF Seen
<1> DEFINE v == st[0]
           Y == v.done
<1>2. Owns(T, K, c, v) /\ Counts(D, M, X, Y)
  BY <1>1
<1> HIDE DEF v, Y
<1>3. Owns(U, K, c, v)
  BY <1>2, OwnsElse
<1>4. Counts(E, M, X \cup add, Y)
  BY <1>2, CountsLeft
<1> QED BY <1>1, <1>3, <1>4 DEF Seen, v, Y

(* A statement of the client comes into its handler. *)
LEMMA SeenAsk ==
    ASSUME NEW c, NEW K, NEW q \in Seq(Msg), NEW T, NEW D, NEW X, NEW h, NEW M, NEW N,
           Seen(c, K, q, None, T, D, X, h, M), NEW s \in Sent, Fresh(h, s),
           M \subseteq N, X \subseteq M, \A w \in N : w \in M \/ D[w] = 0
    PROVE  Seen(c, K, q, s, T, D, X, After(h, s), N)
<1>1. PICK st \in [Nat -> View] :
        Trail(q, None, c, st, h, M) /\ Owns(T, K, c, st[0]) /\ Counts(D, M, X, st[0].done)
  BY DEF Seen
<1> DEFINE Y == st[0].done
<1>2. Proper(st[0], M)
  BY <1>1, TrailFirst
<1>3. Y \subseteq M
  BY <1>2 DEF Proper
<1>4. Counts(D, M, X, Y)
  BY <1>1
<1> HIDE DEF Y
<1>5. Counts(D, N, X, Y)
  BY <1>3, <1>4, CountsMore
<1>6. Trail(q, s, c, st, After(h, s), N)
  BY <1>1, TrailAsk
<1> QED BY <1>1, <1>5, <1>6 DEF Seen, Y

\* A message v comes between the queue and the handler.
Joins(v, c, h, M, o, x) ==
    \A u : Proper(u, M) /\ Ends(u, h, o) => \E a : Proper(a, M) /\ Goes(u, a, v, c) /\ Ends(a, h, x)

(* A message is published. *)
LEMMA SeenPublish ==
    ASSUME NEW c, NEW K, NEW q \in Seq(Msg), NEW o, NEW T, NEW D, NEW X, NEW h, NEW M,
           Seen(c, K, q, o, T, D, X, h, M), NEW v \in Msg, NEW x, Joins(v, c, h, M, o, x)
    PROVE  Seen(c, K, Append(q, v), x, T, D, X, h, M)
<1>1. PICK st \in [Nat -> View] :
        Trail(q, o, c, st, h, M) /\ Owns(T, K, c, st[0]) /\ Counts(D, M, X, st[0].done)
  BY DEF Seen
<1>2. Len(q) \in 0..Len(q)
  OBVIOUS
<1>3. Proper(st[Len(q)], M) /\ Ends(st[Len(q)], h, o)
  BY <1>1, <1>2 DEF Trail
<1>4. PICK a : Proper(a, M) /\ Goes(st[Len(q)], a, v, c) /\ Ends(a, h, x)
  BY <1>3 DEF Joins
<1> DEFINE r == [st EXCEPT ![Len(q) + 1] = a]
<1>5. Trail(Append(q, v), x, c, r, h, M) /\ r[0] = st[0] /\ r \in [Nat -> View]
  BY <1>1, <1>4, TrailAppend
<1> HIDE DEF r
<1> QED BY <1>1, <1>5 DEF Seen

(* The client's own message leaves its handler, *)
LEMMA JoinsOwn ==
    ASSUME NEW v, NEW c, NEW h, NEW M, Proper(h, M), NEW o, o # None, v.s = o, v.by = c
    PROVE  Joins(v, c, h, M, o, None)
<1> SUFFICES ASSUME NEW u, Ends(u, h, o)
             PROVE  \E a : Proper(a, M) /\ Goes(u, a, v, c) /\ Ends(a, h, None)
  BY Zenon DEF Joins
<1>1. Goes(u, h, v, c)
  BY DEF Ends, Goes
<1>2. Ends(h, h, None)
  BY DEF Ends
<1> QED BY <1>1, <1>2, Zenon

(* and another client's is nothing to it. *)
LEMMA JoinsOther ==
    ASSUME NEW v, NEW c, NEW h, NEW M, NEW o, v.by # c
    PROVE  Joins(v, c, h, M, o, o)
<1> SUFFICES ASSUME NEW u, Proper(u, M), Ends(u, h, o)
             PROVE  \E a : Proper(a, M) /\ Goes(u, a, v, c) /\ Ends(a, h, o)
  BY Zenon DEF Joins
<1>1. Goes(u, u, v, c)
  BY DEF Goes
<1> QED BY <1>1, Zenon

(* Another client's message is consumed. *)
LEMMA SeenSkip ==
    ASSUME NEW c, NEW K, NEW q \in Seq(Msg), q # <<>>, NEW o, NEW T, NEW D, NEW X, NEW h, NEW M,
           Seen(c, K, q, o, T, D, X, h, M), q[1].by # c
    PROVE  Seen(c, K, Tail(q), o, T, D, X, h, M)
<1>1. PICK st \in [Nat -> View] :
        Trail(q, o, c, st, h, M) /\ Owns(T, K, c, st[0]) /\ Counts(D, M, X, st[0].done)
  BY DEF Seen
<1> DEFINE r == [i \in Nat |-> st[i + 1]]
<1>2. /\ Trail(Tail(q), o, c, r, h, M) /\ r \in [Nat -> View] /\ r[0] = st[1]
      /\ Goes(st[0], st[1], q[1], c)
  BY <1>1, TrailTail
<1> HIDE DEF r
<1>3. r[0] = st[0]
  BY <1>2 DEF Goes
<1> QED BY <1>1, <1>2, <1>3 DEF Seen

\* What a statement of c with result r leaves on connection k.
Within(T, k, r, c, M) == Between(T, k, r.tx, c) /\ Shape(r.tx) /\ r.add \subseteq M

(* The client's own message is consumed, and runs. *)
LEMMA SeenHear ==
    ASSUME NEW c \in Client, NEW K \in SUBSET Conn, NEW q \in Seq(Msg), q # <<>>, q[1].by = c, NEW o,
           NEW T, NEW U, NEW D, NEW E, NEW X, NEW h, NEW M, M \subseteq Write,
           Seen(c, K, q, o, T, D, X, h, M),
           NEW k, Apart(T, K, k, c), NEW r, Does(r, T[k], q[1].s, c),
           Becomes(T, U, k, r.tx), Commits(D, E, r.add)
    PROVE  Seen(c, K, Tail(q), o, U, E, X, h, M) /\ Within(T, k, r, c, M)
<1>1. PICK st \in [Nat -> View] :
        Trail(q, o, c, st, h, M) /\ Owns(T, K, c, st[0]) /\ Counts(D, M, X, st[0].done)
  BY DEF Seen
<1> DEFINE p == [i \in Nat |-> st[i + 1]]
           s == q[1].s
           v == st[0]
           a == st[1]
<1>2. /\ Trail(Tail(q), o, c, p, h, M) /\ p \in [Nat -> View] /\ p[0] = a
      /\ Goes(v, a, q[1], c) /\ Proper(v, M) /\ Proper(a, M)
  BY <1>1, TrailTail
<1> HIDE DEF p
<1>3. a = After(v, s) /\ Fresh(v, s)
  BY <1>2 DEF Goes
<1>4. Owns(T, K, c, v) /\ Counts(D, M, X, v.done)
  BY <1>1
<1> HIDE DEF v, a
<1>5. Is(T[k], v, c)
  BY <1>2, <1>4, ApartIs
<1>6. Did(r, v, s, c)
  BY <1>2, <1>3, <1>5 DEF Does
<1>7. /\ r.tx \in TxRec /\ Is(r.tx, a, c) /\ a.done = v.done \cup r.add /\ r.add \cap v.done = {}
      /\ r.add \subseteq a.done
  BY <1>3, <1>6 DEF Did
<1>8. a.open \in BOOLEAN /\ a.done \subseteq M
  BY <1>2 DEF Proper, View
<1> DEFINE t == r.tx
           add == r.add
           Y == v.done
<1>9. Becomes(T, U, k, t) /\ Is(t, a, c) /\ Commits(D, E, add) /\ Counts(D, M, X, Y) /\ add \cap Y = {}
      /\ a.done = Y \cup add
  BY <1>4, <1>7
<1> HIDE DEF t, add, Y
<1>10. Owns(U, K, c, a)
  BY <1>8, <1>9, OwnsNext
<1>11. Counts(E, M, X, Y \cup add)
  BY <1>9, CountsRight
<1>12. Seen(c, K, Tail(q), o, U, E, X, h, M)
  BY <1>2, <1>9, <1>10, <1>11 DEF Seen
<1>13. Shape(t) /\ t.owner \in {None, c}
  BY <1>2, <1>9, IsShape
<1> DEFINE z == T[k]
<1>14. Is(z, v, c)
  BY <1>5
<1> HIDE DEF z
<1>15. z.owner \in {None, c}
  BY <1>2, <1>14, IsShape
<1>16. Within(T, k, r, c, M)
  BY <1>7, <1>8, <1>13, <1>15 DEF Within, Between, t, z
<1> QED BY <1>12, <1>16

-----------------------------------------------------------------------------
(* The invariant of convergence. *)

\* The connections that run client c's statements at its own node, and at
\* the nodes that hear them.
HomeConns(c) == IF kind = "sqlite" THEN DBConn ELSE {c}
PeerConns(c) == IF kind = "sqlite" THEN DBConn ELSE {home[c]}
HearsOf(c, n) == kind = "sqlite" => n # home[c]

\* Client c, who has made the writes M, sees h at its own node.
AtHome(c, h, M) ==
    /\ session[c] # "gone" => Owns(tx[home[c]], HomeConns(c), c, h)
    /\ kind = "sqlite" => Counts(db[home[c]], M, h.done, {})

\* Node n has made or will make the same of c's statements.
AtPeer(c, n, h, M) ==
    HearsOf(c, n) => Seen(c, PeerConns(c), net[home[c]][n], offer[c], tx[n], db[n],
                          IF n = home[c] THEN h.done ELSE {}, h, M)

\* mine[c]: the writes that client c made; hs[c]: its view of its own node.
Ghost(mine, hs) ==
    /\ mine \in [Client -> SUBSET Write] /\ hs \in [Client -> View]
    /\ \A c, d \in Client : c # d => mine[c] \cap mine[d] = {}
    /\ \A c \in Client : (\A w \in mine[c] : w <= ops) /\ Proper(hs[c], mine[c])
    /\ \A c \in Client : AtHome(c, hs[c], mine[c])
    /\ \A c \in Client, n \in Node : AtPeer(c, n, hs[c], mine[c])
    /\ \A w \in Write : (\A c \in Client : w \notin mine[c]) => \A n \in Node : db[n][w] = 0

Shapes == \A n \in Node, k \in Conn : Shape(tx[n][k])

\* Nobody else uses the connection of a SQLProxy client.
SoleOwner == kind = "sqlproxy" => \A n \in Node, c \in Client : tx[n][c].owner \in {None, c}

\* Messages are heard from the nodes of their clients.
NetBy == \A m, n \in Node : \A i \in DOMAIN net[m][n] :
            home[net[m][n][i].by] = m /\ HearsOf(net[m][n][i].by, n)

Calm == Shapes /\ SoleOwner /\ NetBy /\ \E mine, hs : Ghost(mine, hs)

ConvInv == /\ session \in [Client -> {"new", "on", "gone"}]
           /\ upset = {} => Calm

(* The initial state. *)
LEMMA CalmInit == Init => ConvInv
<1> SUFFICES ASSUME Init PROVE ConvInv
  OBVIOUS
<1> DEFINE v == [open |-> FALSE, writes |-> {}, done |-> {}]
           mine == [c \in Client |-> {}]
           hs == [c \in Client |-> v]
           st == [i \in Nat |-> v]
<1>0. home \in [Client -> Node] /\ Types
  BY SyncAssumption, InvInit DEF Init, Inv
<1>1. v \in View /\ v.open = FALSE /\ v.writes = {} /\ v.done = {}
  BY DEF View
<1> HIDE DEF v
<1>2. Proper(v, {})
  BY <1>1 DEF Proper
<1>3. mine \in [Client -> SUBSET Write] /\ hs \in [Client -> View] /\ st \in [Nat -> View]
      /\ (\A c \in Client : mine[c] = {} /\ hs[c] = v) /\ \A i \in Nat : st[i] = v
  BY <1>1
<1> HIDE DEF mine, hs, st
<1>4. \A n \in Node, k \in Conn : tx[n][k] = NoTx
  BY DEF Init
<1>5. Shape(NoTx) /\ NoTx.owner = None
  BY DEF Shape, NoTx
<1>6. Shapes /\ SoleOwner
  BY <1>4, <1>5, ConnFacts DEF Shapes, SoleOwner
<1>7. \A m, n \in Node : net[m][n] = <<>>
  BY DEF Init
<1>8. NetBy
  BY <1>7 DEF NetBy
<1>9. ASSUME NEW c \in Client, NEW n \in Node, NEW K \in SUBSET Conn PROVE Owns(tx[n], K, c, v)
  <2>1. c # None
    BY SyncAssumption
  <2>2. \A k \in K : tx[n][k].owner # c
    BY <1>4, <1>5, <2>1
  <2> QED BY <1>1, <2>2 DEF Owns
<1>10. ASSUME NEW c \in Client PROVE PeerConns(c) \in SUBSET Conn /\ HomeConns(c) \in SUBSET Conn
  BY <1>0 DEF PeerConns, HomeConns, Conn
<1>11. \A D, X, Y : Counts(D, {}, X, Y)
  BY DEF Counts
<1>12. ASSUME NEW c \in Client PROVE AtHome(c, v, {})
  BY <1>0, <1>9, <1>10, <1>11 DEF AtHome
<1>13. ASSUME NEW c \in Client, NEW n \in Node PROVE AtPeer(c, n, v, {})
  <2> DEFINE q == net[home[c]][n]
             o == offer[c]
             T == tx[n]
             D == db[n]
             X == IF n = home[c] THEN v.done ELSE {}
             K == PeerConns(c)
  <2>1. q = <<>> /\ o = None
    BY <1>0, <1>7 DEF Init
  <2>2. Len(q) = 0
    BY <2>1
  <2>3. Owns(T, K, c, v) /\ Counts(D, {}, X, v.done)
    BY <1>9, <1>10, <1>11
  <2> HIDE DEF q, o, T, D, X, K
  <2>4. Trail(q, o, c, st, v, {})
    <3>1. \A i \in 0..Len(q) : Proper(st[i], {})
      BY <1>2, <1>3, <2>2
    <3>2. \A i \in 1..Len(q) : Goes(st[i - 1], st[i], q[i], c)
      BY <2>2
    <3>3. Ends(st[Len(q)], v, o)
      BY <1>3, <2>1, <2>2 DEF Ends
    <3> QED BY <1>3, <3>1, <3>2, <3>3 DEF Trail
  <2>5. st[0] = v
    BY <1>3
  <2>6. Seen(c, K, q, o, T, D, X, v, {})
    BY <1>3, <2>3, <2>4, <2>5 DEF Seen
  <2> QED BY <2>6 DEF AtPeer, q, o, T, D, X, K
<1>14. \A w \in Write, n \in Node : db[n][w] = 0
  BY DEF Init
<1>15. Ghost(mine, hs)
  BY <1>2, <1>3, <1>12, <1>13, <1>14 DEF Ghost
<1>16. session \in [Client -> {"new", "on", "gone"}]
  BY DEF Init
<1> QED BY <1>6, <1>8, <1>15, <1>16 DEF ConvInv, Calm

(* Steps that run nothing and send nothing. *)
LEMMA CalmSame ==
    ASSUME Types, Calm, UNCHANGED <<kind, home, offer, net, tx, db>>, ops' \in Nat, ops <= ops',
           \A c \in Client : session[c] = "gone" => session'[c] = "gone"
    PROVE  Calm'
<1>1. Shapes' /\ SoleOwner' /\ NetBy'
  BY DEF Calm, Shapes, SoleOwner, NetBy, HearsOf
<1>2. PICK mine, hs : Ghost(mine, hs)
  BY DEF Calm
<1>3. ASSUME NEW c \in Client PROVE AtHome(c, hs[c], mine[c])' /\ \A w \in mine[c] : w <= ops'
  <2>1. AtHome(c, hs[c], mine[c])
    BY <1>2 DEF Ghost
  <2>2. AtHome(c, hs[c], mine[c])'
    BY <2>1 DEF AtHome, HomeConns
  <2>3. \A w \in mine[c] : w \in Nat /\ w <= ops
    BY <1>2 DEF Ghost, Write
  <2> QED BY <2>2, <2>3 DEF Types
<1>4. ASSUME NEW c \in Client, NEW n \in Node PROVE AtPeer(c, n, hs[c], mine[c])'
  <2>1. AtPeer(c, n, hs[c], mine[c])
    BY <1>2 DEF Ghost
  <2> QED BY <2>1 DEF AtPeer, PeerConns, HearsOf
<1>5. Ghost(mine, hs)'
  BY <1>2, <1>3, <1>4 DEF Ghost
<1> QED BY <1>1, <1>5 DEF Calm

(* Where statements run. *)
LEMMA ConnSets ==
    ASSUME Types, NEW c \in Client
    PROVE  /\ HomeConns(c) \in SUBSET Conn /\ PeerConns(c) \in SUBSET Conn /\ home[c] \in Node
           /\ c \notin PeerConns(c) /\ \A d \in Client : c \in HomeConns(d) => c = d
           /\ \A d \in Client : c \notin PeerConns(d)
           /\ kind # "sqlite" => \A d \in Client : \A n \in Node : n \notin HomeConns(d)
  BY SyncAssumption DEF Types, HomeConns, PeerConns, Conn

(* COM_QUIT. *)
LEMMA CalmQuit ==
    ASSUME Types, ConvInv, Calm, NEW c \in Client, Quit(c)
    PROVE  Calm'
<1>1. /\ ops' = ops + 1 /\ tx' = [tx EXCEPT ![home[c]][c] = NoTx]
      /\ kind' = kind /\ home' = home /\ offer' = offer /\ net' = net /\ db' = db
      /\ session' = [session EXCEPT ![c] = "gone"]
  BY DEF Quit
<1>2. \A d \in Client : session'[d] = IF d = c THEN "gone" ELSE session[d]
  BY <1>1 DEF ConvInv
<1>3. home[c] \in Node /\ \A d \in Client : home[d] \in Node
  BY DEF Types
<1>4. /\ \A a \in Node, j \in Conn : tx'[a][j] = IF a = home[c] /\ j = c THEN NoTx ELSE tx[a][j]
      /\ \A a \in Node : a # home[c] => tx'[a] = tx[a]
  BY <1>1, <1>3, ConnFacts, TxFacts DEF Types
<1>5. Shape(NoTx) /\ NoTx.owner = None
  BY DEF Shape, NoTx
<1>6. Shapes' /\ SoleOwner'
  <2>1. Shapes'
    BY <1>4, <1>5 DEF Calm, Shapes
  <2>2. SoleOwner'
    BY <1>1, <1>4, <1>5, ConnFacts DEF Calm, SoleOwner
  <2> QED BY <2>1, <2>2
<1>7. NetBy'
  BY <1>1 DEF Calm, NetBy, HearsOf
<1>8. PICK mine, hs : Ghost(mine, hs)
  BY DEF Calm
<1>9. ASSUME NEW a \in Node, NEW K \in SUBSET Conn, c \notin K, NEW d, NEW v, Owns(tx[a], K, d, v)
      PROVE  Owns(tx'[a], K, d, v)
  <2> DEFINE T == tx[a]
             U == tx'[a]
  <2>1. CASE a = home[c]
    <3>1. Becomes(T, U, c, NoTx)
      BY <1>4, <2>1 DEF Becomes
    <3>2. Owns(T, K, d, v)
      BY <1>9
    <3> HIDE DEF T, U
    <3>3. Owns(U, K, d, v)
      BY <1>9, <3>1, <3>2, OwnsElse
    <3> QED BY <3>3 DEF U
  <2>2. CASE a # home[c]
    BY <1>4, <1>9, <2>2
  <2> QED BY <2>1, <2>2
<1>10. ASSUME NEW d \in Client PROVE AtHome(d, hs[d], mine[d])' /\ \A w \in mine[d] : w <= ops'
  <2>1. AtHome(d, hs[d], mine[d])
    BY <1>8 DEF Ghost
  <2>2. \A w \in mine[d] : w \in Nat /\ w <= ops
    BY <1>8 DEF Ghost, Write
  <2>3. \A w \in mine[d] : w <= ops'
    BY <1>1, <2>2 DEF Types
  <2>4. kind = "sqlite" => Counts(db[home[d]], mine[d], hs[d].done, {})
    BY <2>1 DEF AtHome
  <2>5. ASSUME session'[d] # "gone" PROVE Owns(tx'[home[d]], HomeConns(d), d, hs[d])
    <3>1. d # c /\ session[d] # "gone"
      BY <1>2, <2>5
    <3>2. Owns(tx[home[d]], HomeConns(d), d, hs[d])
      BY <2>1, <3>1 DEF AtHome
    <3>3. HomeConns(d) \in SUBSET Conn /\ c \notin HomeConns(d)
      BY <3>1, ConnSets
    <3> QED BY <1>3, <1>9, <3>2, <3>3
  <2>6. HomeConns(d)' = HomeConns(d)
    BY <1>1 DEF HomeConns
  <2>7. AtHome(d, hs[d], mine[d])'
    BY <1>1, <2>4, <2>5, <2>6 DEF AtHome
  <2> QED BY <2>3, <2>7
<1>11. ASSUME NEW d \in Client, NEW n \in Node PROVE AtPeer(d, n, hs[d], mine[d])'
  <2> DEFINE K == PeerConns(d)
             X == IF n = home[d] THEN hs[d].done ELSE {}
             h == hs[d]
             M == mine[d]
             q == net[home[d]][n]
             o == offer[d]
             D == db[n]
  <2>1. AtPeer(d, n, hs[d], mine[d])
    BY <1>8 DEF Ghost
  <2>2. K \in SUBSET Conn /\ c \notin K
    BY ConnSets
  <2>3. ASSUME HearsOf(d, n) PROVE Seen(d, K, q, o, tx'[n], D, X, h, M)
    <3>1. Seen(d, K, q, o, tx[n], D, X, h, M)
      BY <2>1, <2>3 DEF AtPeer
    <3> HIDE DEF K, X, h, M, q, o, D
    <3>2. PICK st \in [Nat -> View] : Trail(q, o, d, st, h, M) /\ Owns(tx[n], K, d, st[0]) /\ Counts(D, M, X, st[0].done)
      BY <3>1 DEF Seen
    <3>3. Owns(tx'[n], K, d, st[0])
      BY <1>9, <2>2, <3>2
    <3> QED BY <3>2, <3>3 DEF Seen
  <2>4. HearsOf(d, n)' = HearsOf(d, n) /\ PeerConns(d)' = K
    BY <1>1 DEF HearsOf, PeerConns
  <2> QED BY <1>1, <2>3, <2>4 DEF AtPeer
<1>12. Ghost(mine, hs)'
  BY <1>1, <1>8, <1>10, <1>11 DEF Ghost
<1> QED BY <1>6, <1>7, <1>12 DEF Calm

(* What a statement did, node by node. *)
LEMMA RunFacts ==
    ASSUME Types, NEW n \in Node, NEW k, NEW r, Runs(n, k, r)
    PROVE  /\ Becomes(tx[n], tx'[n], k, r.tx) /\ Commits(db[n], db'[n], r.add)
           /\ \A a \in Node : a # n => tx'[a] = tx[a] /\ db'[a] = db[a]
<1>1. Becomes(tx[n], tx'[n], k, r.tx)
  BY DEF Becomes, Runs
<1>2. Commits(db[n], db'[n], r.add)
  BY DEF Commits, Runs, Types
<1>3. ASSUME NEW a \in Node, a # n PROVE tx'[a] = tx[a] /\ db'[a] = db[a]
  <2>1. tx[a] \in [Conn -> TxRec] /\ tx'[a] \in [Conn -> TxRec] /\ \A j \in Conn : tx'[a][j] = tx[a][j]
    BY <1>3 DEF Types, Runs
  <2>2. db[a] \in [Write -> Nat] /\ db'[a] \in [Write -> Nat] /\ \A w \in Write : db'[a][w] = db[a][w]
    BY <1>3 DEF Types, Runs
  <2> QED BY <2>1, <2>2
<1> QED BY <1>1, <1>2, <1>3

(* The shapes and owners it leaves. *)
LEMMA RunShapes ==
    ASSUME Types, Shapes, SoleOwner, kind' = kind, NEW n \in Node, NEW k, NEW r, Runs(n, k, r),
           Shape(r.tx), NEW c \in Client, r.tx.owner \in {None, c},
           kind = "sqlproxy" => k = c \/ k \in Node
    PROVE  Shapes' /\ SoleOwner'
<1>1. \A a \in Node, j \in Conn : tx'[a][j] = IF a = n /\ j = k THEN r.tx ELSE tx[a][j]
  BY DEF Runs
<1>2. Shapes'
  BY <1>1 DEF Shapes
<1>3. SoleOwner'
  BY <1>1, ConnFacts, SyncAssumption DEF SoleOwner
<1> QED BY <1>2, <1>3

\* A statement of c ran on connection k of node n; k was c's or nobody's.
Ran(c, n, k, r) ==
    /\ n \in Node /\ Runs(n, k, r) /\ Between(tx[n], k, r.tx, c)
    /\ kind' = kind /\ home' = home /\ session' = session

(* The other clients at their own nodes... *)
LEMMA RanHome ==
    ASSUME Types, NEW c \in Client, NEW d \in Client, d # c, NEW n, NEW k, NEW r, Ran(c, n, k, r),
           NEW h, NEW M, M \subseteq Write, r.add \cap M = {}, AtHome(d, h, M)
    PROVE  AtHome(d, h, M)'
<1> DEFINE a == home[d]
           T == tx[a]
           U == tx'[a]
           D == db[a]
           E == db'[a]
           K == HomeConns(d)
           X == h.done
           Y == {}
<1>1. n \in Node /\ Runs(n, k, r) /\ kind' = kind /\ home' = home /\ session' = session
  BY DEF Ran
<1>2. K \in SUBSET Conn /\ a \in Node /\ K' = K /\ a' = a
  BY <1>1, ConnSets DEF HomeConns
<1>3. (session[d] # "gone" => Owns(T, K, d, h)) /\ (kind = "sqlite" => Counts(D, M, X, Y))
  BY DEF AtHome
<1>4. CASE a # n
  <2>1. U = T /\ E = D
    BY <1>1, <1>2, <1>4, RunFacts
  <2> QED BY <1>1, <1>2, <1>3, <2>1 DEF AtHome
<1>5. CASE a = n
  <2> DEFINE t == r.tx
             add == r.add
  <2>1. Becomes(T, U, k, t) /\ Between(T, k, t, c) /\ Commits(D, E, add) /\ add \cap M = {}
    BY <1>1, <1>5, RunFacts DEF Ran
  <2> HIDE DEF T, U, D, E, K, X, Y, t, add
  <2>2. session[d] # "gone" => Owns(U, K, d, h)
    BY <1>2, <1>3, <2>1, OwnsOther
  <2>3. kind = "sqlite" => Counts(E, M, X, Y)
    BY <1>3, <2>1, CountsElse
  <2> QED BY <1>1, <1>2, <2>2, <2>3 DEF AtHome, U, E, K, X, Y
<1> QED BY <1>4, <1>5

(* ... and at their peers. *)
LEMMA RanPeer ==
    ASSUME Types, NEW c \in Client, NEW d \in Client, d # c, NEW n, NEW k, NEW r, Ran(c, n, k, r),
           NEW h, NEW M, M \subseteq Write, r.add \cap M = {}, NEW b \in Node, NEW K \in SUBSET Conn,
           NEW q, NEW o, NEW X, Seen(d, K, q, o, tx[b], db[b], X, h, M)
    PROVE  Seen(d, K, q, o, tx'[b], db'[b], X, h, M)
<1> DEFINE T == tx[b]
           U == tx'[b]
           D == db[b]
           E == db'[b]
<1>1. n \in Node /\ Runs(n, k, r)
  BY DEF Ran
<1>2. CASE b # n
  <2>1. U = T /\ E = D
    BY <1>1, <1>2, RunFacts
  <2> QED BY <2>1
<1>3. CASE b = n
  <2> DEFINE t == r.tx
             add == r.add
  <2>1. Becomes(T, U, k, t) /\ Between(T, k, t, c) /\ Commits(D, E, add) /\ add \cap M = {}
    BY <1>1, <1>3, RunFacts DEF Ran
  <2>2. Seen(d, K, q, o, T, D, X, h, M)
    OBVIOUS
  <2> HIDE DEF T, U, D, E, t, add
  <2>3. Seen(d, K, q, o, U, E, X, h, M)
    BY <2>1, <2>2, SeenOther
  <2> QED BY <2>3 DEF U, E
<1> QED BY <1>2, <1>3

\* Client c's statement s ran at its own node and waits to be broadcast.
Asked(c, n, k, s, r) ==
    /\ n = home[c] /\ Runs(n, k, r) /\ Apart(tx[n], HomeConns(c), k, c) /\ Does(r, tx[n][k], s, c)
    /\ session[c] # "gone" /\ offer[c] = None /\ offer' = [offer EXCEPT ![c] = s]
    /\ s \in Sent /\ (IsWrite(s) => s.w = ops + 1) /\ ops + 1 \in Write /\ ops' = ops + 1
    /\ kind' = kind /\ home' = home /\ net' = net /\ session' = session

(* What it makes of the client's view of its own node. *)
LEMMA AskedDid ==
    ASSUME Types, NEW c \in Client, NEW n, NEW k, NEW s, NEW r, Asked(c, n, k, s, r),
           NEW h, NEW M, Proper(h, M), M \subseteq Write, \A w \in M : w <= ops, AtHome(c, h, M)
    PROVE  /\ Fresh(h, s) /\ Is(tx[n][k], h, c) /\ Did(r, h, s, c)
           /\ Ran(c, n, k, r) /\ Shape(r.tx) /\ r.tx.owner \in {None, c}
<1>0. n \in Node /\ ops \in Nat
  BY DEF Asked, Types
<1>1. Fresh(h, s)
  <2>1. ops + 1 \notin M
    BY <1>0
  <2> QED BY <2>1 DEF Fresh, Asked, Proper
<1> DEFINE T == tx[n]
           K == HomeConns(c)
           t == tx[n][k]
           u == r.tx
           a == After(h, s)
<1>2. Owns(T, K, c, h) /\ Apart(T, K, k, c)
  BY DEF Asked, AtHome
<1> HIDE DEF T, K
<1>3. Is(T[k], h, c)
  BY <1>2, ApartIs
<1>4. Is(t, h, c)
  BY <1>3 DEF T
<1>5. Did(r, h, s, c)
  BY <1>1, <1>4 DEF Asked, Does
<1>6. Is(u, a, c)
  BY <1>5 DEF Did
<1> DEFINE N == M \cup {ops + 1}
<1>7. Proper(a, N)
  <2>1. M \subseteq N /\ (IsWrite(s) => s.w \in N) /\ s \in Sent
    BY DEF Asked
  <2> HIDE DEF N
  <2> QED BY <1>1, <2>1, ProperAfter
<1> HIDE DEF t, u, a, N
<1>8. t.owner \in {None, c}
  BY <1>4, IsShape
<1>9. Shape(u) /\ u.owner \in {None, c}
  BY <1>6, <1>7, IsShape
<1>10. Between(tx[n], k, r.tx, c)
  BY <1>8, <1>9 DEF Between, t, u
<1>11. Ran(c, n, k, r)
  BY <1>0, <1>10 DEF Ran, Asked
<1> QED BY <1>1, <1>4, <1>5, <1>9, <1>11 DEF t, u

\* The writes N are M and some that no database has.
Extends(N, M) == M \subseteq N /\ N \subseteq Write /\ \A w \in N : w \in M \/ \A b \in Node : db[b][w] = 0

(* The client that asked, at its own node... *)
LEMMA AskedHome ==
    ASSUME Types, NEW c \in Client, NEW n, NEW k, NEW s, NEW r, Asked(c, n, k, s, r),
           NEW h, NEW M, Proper(h, M), NEW N, Extends(N, M), Did(r, h, s, c), Proper(After(h, s), N),
           AtHome(c, h, M)
    PROVE  AtHome(c, After(h, s), N)'
<1> DEFINE T == tx[n]
           U == tx'[n]
           D == db[n]
           E == db'[n]
           K == HomeConns(c)
           a == After(h, s)
           t == r.tx
           add == r.add
           X == h.done
           Y == {}
<1>1. n \in Node /\ n = home[c] /\ Runs(n, k, r) /\ kind' = kind /\ home' = home /\ session' = session
      /\ session[c] # "gone"
  BY DEF Asked, Types
<1>2. K \in SUBSET Conn /\ K' = K
  BY <1>1, ConnSets DEF HomeConns
<1>3. Apart(T, K, k, c)
  BY DEF Asked
<1>4. Is(t, a, c) /\ a.done = X \cup add /\ add \cap X = {} /\ a.open \in BOOLEAN
  BY DEF Did, Proper, View
<1>5. Becomes(T, U, k, t) /\ Commits(D, E, add)
  BY <1>1, RunFacts
<1>6. kind = "sqlite" => Counts(D, M, X, Y)
  BY <1>1 DEF AtHome
<1>7. X \subseteq M /\ Y \subseteq M /\ N \subseteq Write /\ \A w \in N : w \in M \/ D[w] = 0
  BY <1>1 DEF Extends, Proper
<1> HIDE DEF T, U, D, E, K, a, t, add, X, Y
<1>8. Owns(U, K, c, a)
  BY <1>2, <1>3, <1>4, <1>5, OwnsNext
<1>9. kind = "sqlite" => Counts(D, N, X, Y)
  BY <1>6, <1>7, CountsMore
<1>10. kind = "sqlite" => Counts(E, N, X \cup add, Y)
  BY <1>4, <1>5, <1>7, <1>9, CountsLeft
<1> QED BY <1>1, <1>2, <1>4, <1>8, <1>10 DEF AtHome, U, E, K, a, Y

(* ... and at its peers. *)
LEMMA AskedPeer ==
    ASSUME Types, NEW c \in Client, NEW n, NEW k, NEW s, NEW r, Asked(c, n, k, s, r),
           NEW h, NEW M, Proper(h, M), Fresh(h, s), NEW N, Extends(N, M), Did(r, h, s, c),
           NEW b \in Node, AtPeer(c, b, h, M)
    PROVE  AtPeer(c, b, After(h, s), N)'
<1> DEFINE T == tx[b]
           U == tx'[b]
           D == db[b]
           E == db'[b]
           K == PeerConns(c)
           a == After(h, s)
           t == r.tx
           add == r.add
           X == IF b = n THEN h.done ELSE {}
           Z == IF b = n THEN a.done ELSE {}
           q == net[n][b]
<1>1. /\ n \in Node /\ n = home[c] /\ Runs(n, k, r) /\ kind' = kind /\ home' = home /\ net' = net
      /\ offer[c] = None /\ offer' = [offer EXCEPT ![c] = s] /\ s \in Sent
  BY DEF Asked, Types
<1>2. K \in SUBSET Conn /\ K' = K /\ HearsOf(c, b)' = HearsOf(c, b) /\ offer'[c] = s
  BY <1>1, ConnSets DEF PeerConns, HearsOf, Types
<1>3. a.done = h.done \cup add /\ add \cap h.done = {}
  BY DEF Did
<1>4. X \subseteq M /\ M \subseteq N /\ N \subseteq Write /\ \A w \in N : w \in M \/ D[w] = 0
  BY <1>1 DEF Extends, Proper
<1>5. q \in Seq(Msg)
  BY <1>1 DEF Types
<1>6. ASSUME HearsOf(c, b) PROVE Seen(c, K, q, s, U, E, Z, a, N)
  <2>1. Seen(c, K, q, None, T, D, X, h, M)
    BY <1>1, <1>6 DEF AtPeer
  <2> HIDE DEF T, U, D, E, K, a, X, Z, q
  <2>2. Seen(c, K, q, s, T, D, X, After(h, s), N)
    BY <1>1, <1>4, <1>5, <2>1, SeenAsk
  <2>3. Seen(c, K, q, s, T, D, X, a, N)
    BY <2>2 DEF a
  <2>4. CASE b # n
    <3>1. U = T /\ E = D /\ X = Z
      BY <1>1, <2>4, RunFacts DEF T, U, D, E, X, Z
    <3> QED BY <2>3, <3>1
  <2>5. CASE b = n
    <3>1. Becomes(T, U, k, t) /\ Commits(D, E, add)
      BY <1>1, <2>5, RunFacts DEF T, U, D, E
    <3>2. k = c
      BY <1>1, <1>6, <2>5 DEF HearsOf, Asked, Apart, HomeConns, Types
    <3>3. k \notin K
      BY <3>2, ConnSets DEF K
    <3>4. X = h.done /\ Z = X \cup add /\ add \cap X = {}
      BY <1>3, <2>5 DEF X, Z
    <3> HIDE DEF t, add
    <3>5. Seen(c, K, q, s, U, E, X \cup add, a, N)
      BY <1>2, <1>4, <2>3, <3>1, <3>3, <3>4, SeenElse
    <3> QED BY <3>4, <3>5
  <2> QED BY <2>4, <2>5
<1> HIDE DEF a
<1> QED BY <1>1, <1>2, <1>6 DEF AtPeer, a

(* A statement of a client. *)
LEMMA CalmAsked ==
    ASSUME Types, Calm, NEW c \in Client, NEW n, NEW k, NEW s, NEW r, Asked(c, n, k, s, r)
    PROVE  Calm'
<1>1. PICK mine, hs : Ghost(mine, hs)
  BY DEF Calm
<1> DEFINE h == hs[c]
           M == mine[c]
           N == IF IsWrite(s) THEN M \cup {s.w} ELSE M
           a == After(h, s)
           mn == [mine EXCEPT ![c] = N]
           hn == [hs EXCEPT ![c] = a]
<1>2. /\ mine \in [Client -> SUBSET Write] /\ hs \in [Client -> View]
      /\ \A d, e \in Client : d # e => mine[d] \cap mine[e] = {}
      /\ \A d \in Client : (\A w \in mine[d] : w <= ops) /\ Proper(hs[d], mine[d])
      /\ \A d \in Client : AtHome(d, hs[d], mine[d])
      /\ \A d \in Client, b \in Node : AtPeer(d, b, hs[d], mine[d])
      /\ \A w \in Write : (\A d \in Client : w \notin mine[d]) => \A b \in Node : db[b][w] = 0
  BY <1>1 DEF Ghost
<1>3. Proper(h, M) /\ M \subseteq Write /\ (\A w \in M : w <= ops) /\ AtHome(c, h, M)
  BY <1>2
<1>4. /\ Fresh(h, s) /\ Did(r, h, s, c) /\ Ran(c, n, k, r) /\ Shape(r.tx) /\ r.tx.owner \in {None, c}
  BY <1>3, AskedDid
<1>5. /\ n \in Node /\ n = home[c] /\ Runs(n, k, r) /\ kind' = kind /\ home' = home /\ net' = net
      /\ offer' = [offer EXCEPT ![c] = s] /\ s \in Sent
      /\ (IsWrite(s) => s.w = ops + 1) /\ ops + 1 \in Write /\ ops' = ops + 1 /\ ops \in Nat
  BY DEF Asked, Types
<1>6. \A w \in N : w \in M \/ w = ops + 1
  BY <1>5
<1>7. \A d \in Client : ops + 1 \notin mine[d]
  BY <1>2, <1>5
<1>8. M \subseteq N /\ N \subseteq Write /\ (IsWrite(s) => s.w \in N)
  BY <1>3, <1>5
<1>9. Extends(N, M)
  BY <1>2, <1>5, <1>6, <1>7, <1>8 DEF Extends
<1> HIDE DEF N, M, h
<1>10. Proper(a, N)
  BY <1>3, <1>4, <1>5, <1>8, ProperAfter
<1>11. AtHome(c, a, N)'
  BY <1>3, <1>4, <1>9, <1>10, AskedHome
<1>12. ASSUME NEW b \in Node PROVE AtPeer(c, b, a, N)'
  <2>1. AtPeer(c, b, h, M)
    BY <1>2 DEF h, M
  <2> QED BY <1>3, <1>4, <1>9, <2>1, AskedPeer
<1>13. r.add \subseteq N
  BY <1>4, <1>10 DEF Did, Proper
<1>14. ASSUME NEW d \in Client, d # c PROVE r.add \cap mine[d] = {} /\ N \cap mine[d] = {} /\ mine[d] \subseteq Write
  <2>1. M \cap mine[d] = {} /\ mine[d] \subseteq Write
    BY <1>2, <1>14 DEF M
  <2> QED BY <1>6, <1>7, <1>13, <2>1
<1> HIDE DEF a
<1>15. ASSUME NEW d \in Client, d # c PROVE AtHome(d, hs[d], mine[d])'
  <2>1. AtHome(d, hs[d], mine[d])
    BY <1>2
  <2> QED BY <1>4, <1>14, <1>15, <2>1, RanHome
<1>16. ASSUME NEW d \in Client, d # c, NEW b \in Node PROVE AtPeer(d, b, hs[d], mine[d])'
  <2> DEFINE K == PeerConns(d)
             q == net[home[d]][b]
             o == offer[d]
             X == IF b = home[d] THEN hs[d].done ELSE {}
             g == hs[d]
             L == mine[d]
  <2>1. HearsOf(d, b) => Seen(d, K, q, o, tx[b], db[b], X, g, L)
    BY <1>2 DEF AtPeer
  <2>2. K \in SUBSET Conn /\ L \subseteq Write /\ r.add \cap L = {}
    BY <1>14, <1>16, ConnSets
  <2>3. K' = K /\ HearsOf(d, b)' = HearsOf(d, b) /\ net'[home'[d]][b] = q /\ offer'[d] = o
        /\ home' = home
    BY <1>5, <1>16 DEF PeerConns, HearsOf, Types
  <2> HIDE DEF K, q, o, X, g, L
  <2>4. HearsOf(d, b) => Seen(d, K, q, o, tx'[b], db'[b], X, g, L)
    BY <1>4, <1>16, <2>1, <2>2, RanPeer
  <2> QED BY <2>3, <2>4 DEF AtPeer, X, g, L, K
<1>17. /\ mn \in [Client -> SUBSET Write] /\ hn \in [Client -> View] /\ mn[c] = N /\ hn[c] = a
       /\ \A d \in Client : d # c => mn[d] = mine[d] /\ hn[d] = hs[d]
  <2>1. a \in View
    BY <1>10 DEF Proper
  <2> QED BY <1>2, <1>8, <2>1
<1> HIDE DEF mn, hn
<1>18. \A d, e \in Client : d # e => mn[d] \cap mn[e] = {}
  BY <1>2, <1>14, <1>17
<1>19. ASSUME NEW d \in Client PROVE (\A w \in mn[d] : w <= ops') /\ Proper(hn[d], mn[d])
  <2>1. CASE d = c
    <3>1. \A w \in M : w \in Nat /\ w <= ops
      BY <1>3 DEF Write
    <3>2. \A w \in N : w <= ops'
      BY <1>5, <1>6, <3>1
    <3> QED BY <1>10, <1>17, <2>1, <3>2
  <2>2. CASE d # c
    <3>1. \A w \in mine[d] : w \in Nat /\ w <= ops
      BY <1>2 DEF Write
    <3> QED BY <1>2, <1>5, <1>17, <2>2, <3>1
  <2> QED BY <2>1, <2>2
<1>20. ASSUME NEW d \in Client PROVE AtHome(d, hn[d], mn[d])' /\ \A b \in Node : AtPeer(d, b, hn[d], mn[d])'
  <2>1. CASE d = c
    BY <1>11, <1>12, <1>17, <2>1
  <2>2. CASE d # c
    BY <1>15, <1>16, <1>17, <2>2
  <2> QED BY <2>1, <2>2
<1>21. ASSUME NEW w \in Write, \A d \in Client : w \notin mn[d], NEW b \in Node PROVE db'[b][w] = 0
  <2>1. w \notin N
    BY <1>17, <1>21
  <2>2. w \notin M
    BY <1>8, <2>1
  <2>3. \A d \in Client : w \notin mine[d]
    BY <1>17, <1>21, <2>2 DEF M
  <2>4. db[b][w] = 0 /\ w \notin r.add
    BY <1>2, <1>13, <2>1, <2>3
  <2> QED BY <1>5, <2>4 DEF Runs
<1>22. Ghost(mn, hn)'
  BY <1>17, <1>18, <1>19, <1>20, <1>21 DEF Ghost
<1>23. kind = "sqlproxy" => k = c
  BY DEF Asked, Apart, HomeConns
<1>24. Shapes' /\ SoleOwner'
  BY <1>4, <1>5, <1>23, RunShapes DEF Calm
<1>25. NetBy'
  BY <1>5 DEF Calm, NetBy, HearsOf
<1> QED BY <1>22, <1>24, <1>25 DEF Calm

(* MySQL runs every statement. *)
LEMMA MySQLOk ==
    ASSUME NEW n, NEW k, NEW c, NEW s \in Sent
    PROVE  MySQLExecute(n, k, c, s).ok = TRUE
<1>1. \A u, a : Result(TRUE, u, a).ok = TRUE
  BY DEF Result
<1>2. CASE s.op = "begin"
  <2>1. MySQLExecute(n, k, c, s) = Result(TRUE, Opened(c), tx[n][k].writes)
    BY <1>2 DEF MySQLExecute
  <2> QED BY <1>1, <2>1
<1>3. CASE s.op = "commit"
  <2>1. MySQLExecute(n, k, c, s) = Result(TRUE, NoTx, tx[n][k].writes)
    BY <1>3 DEF MySQLExecute
  <2> QED BY <1>1, <2>1
<1>4. CASE s.op = "rollback"
  <2>1. MySQLExecute(n, k, c, s) = Result(TRUE, NoTx, {})
    BY <1>4 DEF MySQLExecute
  <2> QED BY <1>1, <2>1
<1>5. CASE IsWrite(s)
  <2>1. MySQLExecute(n, k, c, s) = Insert(tx[n][k], s.w)
    BY <1>5 DEF MySQLExecute, IsWrite
  <2>2. Insert(tx[n][k], s.w).ok = TRUE
    BY ZenonT(30) DEF Insert, Result
  <2> QED BY <2>1, <2>2
<1> QED BY <1>2, <1>3, <1>4, <1>5 DEF Sent, Stmt, Statement, IsWrite

(* What the connection makes of a statement is what the view does. *)
LEMMA MySQLDoes ==
    ASSUME NEW n, NEW k, NEW c \in Client, NEW s \in Sent, tx[n][k] \in TxRec
    PROVE  Does(MySQLExecute(n, k, c, s), tx[n][k], s, c)
<1> SUFFICES ASSUME NEW v, NEW M, Proper(v, M), Fresh(v, s), Is(tx[n][k], v, c)
             PROVE  Did(MySQLExecute(n, k, c, s), v, s, c)
  BY DEF Does
<1> QED BY MySQLDid

(* So it is with SQLite, if the statement succeeds. *)
LEMMA SQLiteDoes ==
    ASSUME NEW n, NEW k, NEW c \in Client, NEW s \in Sent, tx[n][k] \in TxRec,
           SQLiteExecute(n, k, c, s).ok
    PROVE  Does(SQLiteExecute(n, k, c, s), tx[n][k], s, c)
<1> SUFFICES ASSUME NEW v, NEW M, Proper(v, M), Fresh(v, s), Is(tx[n][k], v, c)
             PROVE  Did(SQLiteExecute(n, k, c, s), v, s, c)
  BY DEF Does
<1> QED BY SQLiteDid

(* A statement that fails does nothing. *)
LEMMA SQLiteFails ==
    ASSUME NEW n, NEW k, NEW c, NEW s \in Sent, ~SQLiteExecute(n, k, c, s).ok
    PROVE  SQLiteExecute(n, k, c, s) = Result(FALSE, tx[n][k], {})
<1> DEFINE r == SQLiteExecute(n, k, c, s)
           t == tx[n][k]
           Fail == Result(FALSE, t, {})
<1>1. \A u, a : Result(TRUE, u, a).ok = TRUE
  BY DEF Result
<1>2. CASE s.op = "begin"
  <2>1. r = IF t.open THEN Fail ELSE Result(TRUE, Opened(c), {})
    BY <1>2 DEF SQLiteExecute
  <2> QED BY <1>1, <2>1
<1>3. CASE s.op = "commit"
  <2>1. r = IF t.open THEN Result(TRUE, NoTx, t.writes) ELSE Fail
    BY <1>3 DEF SQLiteExecute
  <2> QED BY <1>1, <2>1
<1>4. CASE s.op = "rollback"
  <2>1. r = IF t.open THEN Result(TRUE, NoTx, {}) ELSE Fail
    BY <1>4 DEF SQLiteExecute
  <2> QED BY <1>1, <2>1
<1>5. CASE IsWrite(s)
  <2>1. r = Fail \/ r = Insert(t, s.w)
    BY <1>5 DEF SQLiteExecute, IsWrite
  <2>2. Insert(t, s.w).ok = TRUE
    BY ZenonT(30) DEF Insert, Result
  <2> QED BY <2>1, <2>2
<1> QED BY <1>2, <1>3, <1>4, <1>5 DEF Sent, Stmt, Statement, IsWrite

(* A statement that changed nothing. *)
LEMMA RunsNothing ==
    ASSUME Types, NEW n \in Node, NEW k \in Conn, NEW r, Runs(n, k, r), r = Result(FALSE, tx[n][k], {})
    PROVE  tx' = tx /\ db' = db
<1>1. r.tx = tx[n][k] /\ r.add = {}
  BY DEF Result
<1>2. \A a \in Node, j \in Conn : tx'[a][j] = tx[a][j]
  BY <1>1 DEF Runs
<1>3. \A a \in Node, w \in Write : db'[a][w] = db[a][w]
  BY <1>1 DEF Runs
<1>4. \A a \in Node : tx[a] \in [Conn -> TxRec] /\ tx'[a] \in [Conn -> TxRec]
                      /\ db[a] \in [Write -> Nat] /\ db'[a] \in [Write -> Nat]
  BY DEF Runs, Types
<1>5. \A a \in Node : tx'[a] = tx[a] /\ db'[a] = db[a]
  BY <1>2, <1>3, <1>4
<1>6. tx' \in [Node -> [Conn -> TxRec]] /\ tx \in [Node -> [Conn -> TxRec]]
      /\ db' \in [Node -> [Write -> Nat]] /\ db \in [Node -> [Write -> Nat]]
  BY DEF Runs, Types
<1> QED BY <1>5, <1>6

(* No transaction of another client is met: SQLite's connections. *)
LEMMA NotShared ==
    ASSUME Types, Shapes, kind = "sqlite", NEW n \in Node, NEW k \in DBConn, NEW c, ~Shares(n, k, c)
    PROVE  Apart(tx[n], DBConn, k, c)
<1>1. k \in Conn /\ tx[n][k] \in TxRec /\ Shape(tx[n][k])
  BY ConnFacts DEF Types, Shapes
<1>2. (tx[n][k].open => tx[n][k].owner = c) /\ \A j \in DBConn \ {k} : tx[n][j].owner # c
  BY DEF Shares
<1> QED BY <1>1, <1>2 DEF Apart

(* HandleQuery of SQLProxy and Exec of SQLite. *)
LEMMA CalmQuery ==
    ASSUME Inv, Calm, NEW c \in Client, Query(c), upset' = {}
    PROVE  Calm'
<1>1. /\ offer[c] = None /\ ops < MaxOps /\ ops' = ops + 1 /\ session[c] # "gone"
      /\ kind' = kind /\ home' = home /\ net' = net /\ session' = session
  BY DEF Query
<1>2. PICK x \in Statement : /\ x.w = IF x.op \in {"insert", "prepared"} THEN ops + 1 ELSE 0
                             /\ IF kind = "sqlproxy" THEN HandleQuery(c, x) ELSE Exec(c, x)
  BY DEF Query
<1>3. Types /\ ops + 1 \in Write /\ home[c] \in Node /\ ops' \in Nat /\ ops <= ops'
  BY <1>1, SyncAssumption DEF Inv, Types, Write
<1>4. x \in Stmt /\ (IsDML(x) => x \in Sent) /\ (IsWrite(x) => x.w = ops + 1)
  BY <1>2, <1>3 DEF Stmt, Sent, IsDML, IsWrite
<1> DEFINE n == home[c]
<1>5. CASE kind = "sqlproxy"
  <2> DEFINE r == MySQLExecute(n, c, c, x)
             y == IF r.ok /\ IsDML(x) THEN x ELSE None
  <2>1. Effect(n, c, r) /\ offer' = [offer EXCEPT ![c] = y] /\ upset' = upset \cup Upset("unsent", ~IsDML(x))
    BY <1>2, <1>5 DEF HandleQuery
  <2>2. x \in Sent /\ IsDML(x)
    BY <1>4, <2>1 DEF Upset
  <2>3. tx[n][c] \in TxRec /\ Good(tx[n][c], r, x) /\ Does(r, tx[n][c], x, c) /\ r.ok = TRUE
    <3>1. tx[n][c] \in TxRec
      BY <1>3, ConnFacts DEF Types
    <3>2. Good(tx[n][c], r, x)
      BY <1>3, <1>4, ConnFacts, MySQLGood
    <3>3. Does(r, tx[n][c], x, c)
      BY <2>2, <3>1, MySQLDoes
    <3>4. r.ok = TRUE
      BY <2>2, MySQLOk
    <3> QED BY <3>1, <3>2, <3>3, <3>4
  <2> HIDE DEF r
  <2>4. Runs(n, c, r)
    BY <1>3, <2>1, <2>3, ConnFacts, EffectRuns DEF Good
  <2>5. y = x
    BY <2>2, <2>3
  <2>6. Apart(tx[n], HomeConns(c), c, c)
    <3>1. HomeConns(c) = {c}
      BY <1>5 DEF HomeConns
    <3>2. tx[n][c].owner \in {None, c} /\ Shape(tx[n][c])
      BY <1>3, <1>5, ConnFacts DEF Calm, SoleOwner, Shapes
    <3>3. tx[n][c].open => tx[n][c].owner = c
      BY <3>2 DEF Shape
    <3> QED BY <2>3, <3>1, <3>2, <3>3 DEF Apart
  <2>7. Asked(c, n, c, x, r)
    BY <1>1, <1>3, <1>4, <2>1, <2>2, <2>3, <2>4, <2>5, <2>6 DEF Asked
  <2> QED BY <1>3, <2>7, CalmAsked
<1>6. CASE kind = "sqlite" /\ x.op \in {"start", "prepared"}
  <2>1. UNCHANGED <<tx, db, offer>>
    BY <1>2, <1>6 DEF Exec
  <2> QED BY <1>1, <1>3, <2>1, CalmSame
<1>7. CASE kind = "sqlite" /\ x.op \notin {"start", "prepared"}
  <2>1. PICK k \in DBConn :
          LET r == SQLiteExecute(n, k, c, x)
          IN  /\ Effect(n, k, r)
              /\ offer' = [offer EXCEPT ![c] = IF r.ok /\ IsDML(x) THEN x ELSE None]
              /\ upset' = upset \cup Upset("shared", Shares(n, k, c))
    BY <1>2, <1>7 DEF Exec
  <2> DEFINE r == SQLiteExecute(n, k, c, x)
             y == IF r.ok /\ IsDML(x) THEN x ELSE None
  <2>2. x \in Sent /\ IsDML(x)
    BY <1>4, <1>7 DEF Sent, IsDML
  <2>3. Good(tx[n][k], r, x) /\ k \in Conn /\ tx[n][k] \in TxRec
    BY <1>3, <2>2, ConnFacts, SQLiteGood DEF Types
  <2>4. Effect(n, k, r) /\ offer' = [offer EXCEPT ![c] = y] /\ ~Shares(n, k, c)
    BY <2>1 DEF Upset
  <2>5. r.ok => Does(r, tx[n][k], x, c)
    BY <2>2, <2>3, SQLiteDoes
  <2>6. ~r.ok => r = Result(FALSE, tx[n][k], {})
    BY <2>2, SQLiteFails
  <2> HIDE DEF r
  <2>7. Runs(n, k, r)
    BY <1>3, <2>3, <2>4, ConnFacts, EffectRuns DEF Good
  <2>8. CASE r.ok
    <3>1. y = x
      BY <2>2, <2>8
    <3>2. Apart(tx[n], HomeConns(c), k, c)
      BY <1>3, <1>7, <2>4, NotShared DEF Calm, HomeConns
    <3>3. Asked(c, n, k, x, r)
      BY <1>1, <1>3, <1>4, <2>2, <2>4, <2>5, <2>7, <2>8, <3>1, <3>2 DEF Asked
    <3> QED BY <1>3, <3>3, CalmAsked
  <2>9. CASE ~r.ok
    <3>1. tx' = tx /\ db' = db
      BY <1>3, <2>3, <2>6, <2>7, <2>9, RunsNothing
    <3>2. offer' = offer
      BY <1>1, <1>3, <2>4, <2>9 DEF Types
    <3> QED BY <1>1, <1>3, <3>1, <3>2, CalmSame
  <2> QED BY <2>8, <2>9
<1> QED BY <1>3, <1>5, <1>6, <1>7 DEF Types

(* A publication that reaches every node. *)
LEMMA CalmPublish ==
    ASSUME Inv, Calm, NEW m \in Node, Publish(m), upset' = {}
    PROVE  Calm'
<1>0. PICK c \in Client :
        /\ home[c] = m /\ offer[c] # None /\ offer' = [offer EXCEPT ![c] = None]
        /\ kind' = kind /\ home' = home /\ tx' = tx /\ db' = db /\ ops' = ops /\ session' = session
        /\ net' = [net EXCEPT ![m] = [n \in Node |->
                     IF n \in Reached(m) /\ PassesOn(n, m)
                     THEN Append(@[n], [s |-> offer[c], by |-> c]) ELSE @[n]]]
        /\ upset' = upset \cup Upset("unlinked", Reached(m) # Node)
  BY Zenon DEF Publish, bounds
<1> DEFINE v == [s |-> offer[c], by |-> c]
           Gets(n) == n \in Reached(m) /\ PassesOn(n, m)
           q == [n \in Node |-> IF Gets(n) THEN Append(net[m][n], v) ELSE net[m][n]]
<1>1. Types
  BY DEF Inv
<1>2. home[c] = m /\ offer[c] # None /\ kind' = kind /\ home' = home /\ tx' = tx /\ db' = db /\ ops' = ops
      /\ session' = session
  BY <1>0
<1>3. \A d \in Client : offer'[d] = IF d = c THEN None ELSE offer[d]
  BY <1>0, <1>1 DEF Types
<1>4. Reached(m) = Node
  BY <1>0 DEF Upset
<1>5. \A n \in Node : Gets(n) <=> HearsOf(c, n)
  BY <1>2, <1>4 DEF PassesOn, HearsOf
<1>6. v \in Msg /\ v.s = offer[c] /\ v.by = c
  BY <1>1, <1>2 DEF Msg, Types
<1>7. net' = [net EXCEPT ![m] = q]
  BY <1>0
<1> HIDE DEF v, Gets
<1>8. \A l, b \in Node : net[l][b] \in Seq(Msg)
  BY <1>1 DEF Types
<1>9. \A n \in Node : q[n] = IF HearsOf(c, n) THEN Append(net[m][n], v) ELSE net[m][n]
  BY <1>5
<1> HIDE DEF q
<1>10. \A l \in Node : net'[l] = IF l = m THEN q ELSE net[l]
  BY <1>1, <1>7 DEF Types
<1>11. \A l, b \in Node : net'[l][b] = IF l = m /\ HearsOf(c, b) THEN Append(net[l][b], v) ELSE net[l][b]
  BY <1>9, <1>10
<1>12. Shapes' /\ SoleOwner'
  BY <1>2 DEF Calm, Shapes, SoleOwner
<1>13. NetBy'
  <2> SUFFICES ASSUME NEW l \in Node, NEW b \in Node, NEW i \in DOMAIN net'[l][b]
               PROVE  home[net'[l][b][i].by] = l /\ HearsOf(net'[l][b][i].by, b)
    BY <1>2 DEF NetBy, HearsOf
  <2> DEFINE u == net[l][b]
  <2>1. \A j \in DOMAIN u : home[u[j].by] = l /\ HearsOf(u[j].by, b)
    BY DEF Calm, NetBy
  <2>2. u \in Seq(Msg)
    BY <1>8
  <2>3. CASE l = m /\ HearsOf(c, b)
    <3>1. net'[l][b] = Append(u, v)
      BY <1>11, <2>3
    <3> HIDE DEF u
    <3>2. i \in 1..Len(u) + 1
      BY <1>6, <2>2, <3>1
    <3>3. CASE i = Len(u) + 1
      <4>1. Append(u, v)[i] = v
        BY <1>6, <2>2, <3>3
      <4> QED BY <1>2, <1>6, <2>3, <3>1, <4>1
    <3>4. CASE i # Len(u) + 1
      <4>1. i \in DOMAIN u /\ Append(u, v)[i] = u[i]
        BY <1>6, <2>2, <3>2, <3>4
      <4> QED BY <2>1, <3>1, <4>1
    <3> QED BY <3>3, <3>4
  <2>4. CASE ~(l = m /\ HearsOf(c, b))
    BY <1>11, <2>1, <2>4
  <2> QED BY <2>3, <2>4
<1>14. PICK mine, hs : Ghost(mine, hs)
  BY DEF Calm
<1>15. ASSUME NEW d \in Client PROVE AtHome(d, hs[d], mine[d])'
  <2>1. AtHome(d, hs[d], mine[d])
    BY <1>14 DEF Ghost
  <2> QED BY <1>2, <2>1 DEF AtHome, HomeConns
<1>16. ASSUME NEW d \in Client, NEW b \in Node PROVE AtPeer(d, b, hs[d], mine[d])'
  <2> DEFINE K == PeerConns(d)
             h == hs[d]
             M == mine[d]
             X == IF b = home[d] THEN hs[d].done ELSE {}
             p == net[home[d]][b]
             o == offer[d]
             x == offer'[d]
             T == tx[b]
             D == db[b]
  <2>1. HearsOf(d, b) => Seen(d, K, p, o, T, D, X, h, M)
    BY <1>14 DEF Ghost, AtPeer
  <2>2. Proper(h, M)
    BY <1>14 DEF Ghost
  <2>3. p \in Seq(Msg) /\ home[d] \in Node
    BY <1>1, <1>8 DEF Types
  <2>4. K' = K /\ HearsOf(d, b)' = HearsOf(d, b)
    BY <1>2 DEF PeerConns, HearsOf
  <2>5. ASSUME HearsOf(d, b) PROVE Seen(d, K, net'[home[d]][b], x, T, D, X, h, M)
    <3>1. CASE home[d] # m
      <4>1. net'[home[d]][b] = p /\ x = o
        BY <1>2, <1>3, <1>11, <2>3, <3>1
      <4> QED BY <2>1, <2>5, <4>1
    <3>2. CASE home[d] = m
      <4>1. net'[home[d]][b] = Append(p, v)
        BY <1>2, <1>11, <2>5, <3>2 DEF HearsOf
      <4>2. Joins(v, d, h, M, o, x)
        <5>1. CASE d = c
          <6>1. x = None /\ o # None /\ v.s = o /\ v.by = d
            BY <1>2, <1>3, <1>6, <5>1
          <6> HIDE DEF x, o, h, M
          <6> QED BY <2>2, <6>1, JoinsOwn
        <5>2. CASE d # c
          <6>1. x = o /\ v.by # d
            BY <1>3, <1>6, <5>2
          <6> HIDE DEF x, o, h, M
          <6> QED BY <6>1, JoinsOther
        <5> QED BY <5>1, <5>2
      <4> HIDE DEF K, h, M, X, p, o, x, T, D
      <4>3. Seen(d, K, Append(p, v), x, T, D, X, h, M)
        BY <1>6, <2>1, <2>3, <2>5, <4>2, SeenPublish
      <4> QED BY <4>1, <4>3
    <3> QED BY <3>1, <3>2
  <2> QED BY <1>2, <2>4, <2>5 DEF AtPeer
<1>17. Ghost(mine, hs)'
  BY <1>2, <1>14, <1>15, <1>16 DEF Ghost
<1> QED BY <1>12, <1>13, <1>17 DEF Calm

\* Node n took statement s of client c from the queue of m and ran it.
Took(c, m, n, k, s, r) ==
    /\ net[m][n] # <<>> /\ s = net[m][n][1].s /\ c = net[m][n][1].by
    /\ net' = [net EXCEPT ![m][n] = Tail(@)]
    /\ Runs(n, k, r) /\ Apart(tx[n], PeerConns(c), k, c) /\ Does(r, tx[n][k], s, c)
    /\ kind' = kind /\ home' = home /\ offer' = offer /\ ops' = ops /\ session' = session

(* A statement that a node hears. *)
LEMMA CalmTook ==
    ASSUME Types, Calm, NEW c \in Client, NEW m \in Node, NEW n \in Node, NEW k, NEW s, NEW r,
           Took(c, m, n, k, s, r)
    PROVE  Calm'
<1> DEFINE q == net[m][n]
<1>1. /\ q # <<>> /\ s = q[1].s /\ c = q[1].by /\ Runs(n, k, r)
      /\ Apart(tx[n], PeerConns(c), k, c) /\ Does(r, tx[n][k], s, c)
      /\ kind' = kind /\ home' = home /\ offer' = offer /\ ops' = ops /\ session' = session
  BY DEF Took
<1>2. q \in Seq(Msg)
  BY DEF Types
<1>3. /\ net' \in [Node -> [Node -> Seq(Msg)]]
      /\ \A l, b \in Node : net'[l][b] = IF l = m /\ b = n THEN Tail(q) ELSE net[l][b]
  <2>1. net' = [net EXCEPT ![m][n] = Tail(q)]
    BY DEF Took
  <2>2. Tail(q) \in Seq(Msg)
    BY <1>1, <1>2, TailFacts
  <2> HIDE DEF q
  <2> QED BY <2>1, <2>2 DEF Types
<1>4. home[c] = m /\ HearsOf(c, n)
  <2>1. 1 \in DOMAIN q
    BY <1>1, <1>2, TailFacts
  <2> QED BY <1>1, <2>1 DEF Calm, NetBy
<1>5. PICK mine, hs : Ghost(mine, hs)
  BY DEF Calm
<1>6. /\ mine \in [Client -> SUBSET Write] /\ hs \in [Client -> View]
      /\ \A d, e \in Client : d # e => mine[d] \cap mine[e] = {}
      /\ \A d \in Client : (\A w \in mine[d] : w <= ops) /\ Proper(hs[d], mine[d])
      /\ \A d \in Client : AtHome(d, hs[d], mine[d])
      /\ \A d \in Client, b \in Node : AtPeer(d, b, hs[d], mine[d])
      /\ \A w \in Write : (\A d \in Client : w \notin mine[d]) => \A b \in Node : db[b][w] = 0
  BY <1>5 DEF Ghost
<1>7. /\ Becomes(tx[n], tx'[n], k, r.tx) /\ Commits(db[n], db'[n], r.add)
      /\ \A a \in Node : a # n => tx'[a] = tx[a] /\ db'[a] = db[a]
  BY <1>1, RunFacts
<1> DEFINE h == hs[c]
           M == mine[c]
           K == PeerConns(c)
           o == offer[c]
           X == IF n = home[c] THEN h.done ELSE {}
           T == tx[n]
           U == tx'[n]
           D == db[n]
           E == db'[n]
<1>8. Seen(c, K, q, o, T, D, X, h, M) /\ M \subseteq Write /\ K \in SUBSET Conn
  BY <1>4, <1>6, ConnSets DEF AtPeer
<1>9. Seen(c, K, Tail(q), o, U, E, X, h, M) /\ Within(T, k, r, c, M)
  <2>1. /\ q # <<>> /\ q[1].by = c /\ Apart(T, K, k, c) /\ Does(r, T[k], q[1].s, c)
        /\ Becomes(T, U, k, r.tx) /\ Commits(D, E, r.add)
    BY <1>1, <1>7
  <2> HIDE DEF q, h, M, K, o, X, T, U, D, E
  <2> QED BY <1>2, <1>8, <2>1, SeenHear
<1>10. /\ Between(tx[n], k, r.tx, c) /\ Shape(r.tx) /\ r.tx.owner \in {None, c} /\ r.add \subseteq mine[c]
  BY <1>9 DEF Within, Between
<1>11. Ran(c, n, k, r)
  BY <1>1, <1>10 DEF Ran
<1>12. \A d \in Client : PeerConns(d)' = PeerConns(d) /\ \A b \in Node : HearsOf(d, b)' = HearsOf(d, b)
  BY <1>1 DEF PeerConns, HearsOf
<1> HIDE DEF q
<1>13. ASSUME NEW d \in Client, d # c PROVE AtHome(d, hs[d], mine[d])'
  <2>1. AtHome(d, hs[d], mine[d]) /\ mine[d] \subseteq Write
    BY <1>6
  <2>2. r.add \cap mine[d] = {}
    BY <1>6, <1>10, <1>13
  <2> QED BY <1>11, <1>13, <2>1, <2>2, RanHome
<1>14. ASSUME NEW d \in Client, d # c, NEW b \in Node PROVE AtPeer(d, b, hs[d], mine[d])'
  <2> DEFINE J == PeerConns(d)
             p == net[home[d]][b]
             u == offer[d]
             Y == IF b = home[d] THEN hs[d].done ELSE {}
             g == hs[d]
             L == mine[d]
             V == tx'[b]
             F == db'[b]
  <2>1. HearsOf(d, b) => Seen(d, J, p, u, tx[b], db[b], Y, g, L)
    BY <1>6 DEF AtPeer
  <2>2. J \in SUBSET Conn /\ L \subseteq Write /\ r.add \cap L = {} /\ home[d] \in Node
    BY <1>6, <1>10, <1>14, ConnSets
  <2>3. p \in Seq(Msg)
    BY <2>2 DEF Types
  <2> HIDE DEF J, p, u, Y, g, L
  <2>4. HearsOf(d, b) => Seen(d, J, p, u, V, F, Y, g, L)
    BY <1>11, <1>14, <2>1, <2>2, RanPeer
  <2> HIDE DEF V, F
  <2>5. HearsOf(d, b) => Seen(d, J, net'[home[d]][b], u, V, F, Y, g, L)
    <3>1. CASE home[d] = m /\ b = n
      <4>1. p = q /\ net'[home[d]][b] = Tail(p)
        BY <1>3, <2>2, <3>1 DEF p, q
      <4>2. p # <<>> /\ p[1].by # d
        BY <1>1, <1>14, <4>1
      <4>3. HearsOf(d, b) => Seen(d, J, Tail(p), u, V, F, Y, g, L)
        BY <2>3, <2>4, <4>2, SeenSkip
      <4> QED BY <4>1, <4>3
    <3>2. CASE ~(home[d] = m /\ b = n)
      <4>1. net'[home[d]][b] = p
        BY <1>3, <2>2, <3>2 DEF p
      <4> QED BY <2>4, <4>1
    <3> QED BY <3>1, <3>2
  <2> QED BY <1>1, <1>12, <2>5 DEF AtPeer, J, u, Y, g, L, V, F
<1>15. AtHome(c, hs[c], mine[c])'
  <2>0. AtHome(c, hs[c], mine[c]) /\ HomeConns(c)' = HomeConns(c)
    BY <1>1, <1>6 DEF HomeConns
  <2>1. CASE m # n
    <3>1. tx'[home[c]] = tx[home[c]] /\ db'[home[c]] = db[home[c]]
      BY <1>4, <1>7, <2>1
    <3> QED BY <1>1, <2>0, <3>1 DEF AtHome
  <2>2. CASE m = n
    <3> DEFINE J == HomeConns(c)
               t == r.tx
    <3>1. kind # "sqlite" /\ home[c] = n
      BY <1>4, <2>2 DEF HearsOf
    <3>2. k = m
      BY <1>1, <1>4, <3>1 DEF Apart, PeerConns
    <3>3. J \in SUBSET Conn /\ k \notin J
      BY <3>1, <3>2, ConnSets
    <3>4. session[c] # "gone" => Owns(T, J, c, h)
      BY <2>0, <3>1 DEF AtHome
    <3>5. Becomes(T, U, k, t)
      BY <1>7
    <3> HIDE DEF J, T, U, h, t
    <3>6. session[c] # "gone" => Owns(U, J, c, h)
      BY <3>3, <3>4, <3>5, OwnsElse
    <3> QED BY <1>1, <2>0, <3>1, <3>6 DEF AtHome, U, J, h
  <2> QED BY <2>1, <2>2
<1>16. ASSUME NEW b \in Node PROVE AtPeer(c, b, hs[c], mine[c])'
  <2>1. CASE b = n
    <3>1. net'[home'[c]][b] = Tail(q) /\ PeerConns(c)' = K /\ offer' = offer /\ home' = home
      BY <1>1, <1>3, <1>4, <1>12, <2>1
    <3> QED BY <1>9, <2>1, <3>1 DEF AtPeer
  <2>2. CASE b # n
    <3>1. /\ net'[home'[c]][b] = net[home[c]][b] /\ PeerConns(c)' = K /\ offer' = offer /\ home' = home
          /\ tx'[b] = tx[b] /\ db'[b] = db[b] /\ HearsOf(c, b)' = HearsOf(c, b)
      BY <1>1, <1>3, <1>4, <1>7, <1>12, <2>2
    <3>2. AtPeer(c, b, hs[c], mine[c])
      BY <1>6
    <3> QED BY <3>1, <3>2 DEF AtPeer
  <2> QED BY <2>1, <2>2
<1>17. ASSUME NEW w \in Write, \A d \in Client : w \notin mine[d], NEW b \in Node PROVE db'[b][w] = 0
  <2>1. w \notin r.add /\ db[b][w] = 0
    BY <1>6, <1>10, <1>17
  <2> QED BY <1>1, <2>1 DEF Runs
<1>18. ASSUME NEW d \in Client PROVE AtHome(d, hs[d], mine[d])' /\ \A b \in Node : AtPeer(d, b, hs[d], mine[d])'
  <2>1. CASE d = c
    BY <1>15, <1>16, <2>1
  <2>2. CASE d # c
    BY <1>13, <1>14, <2>2
  <2> QED BY <2>1, <2>2
<1>19. Ghost(mine, hs)'
  BY <1>1, <1>6, <1>17, <1>18 DEF Ghost
<1>20. kind = "sqlproxy" => k = c \/ k \in Node
  BY <1>1, <1>4 DEF Apart, PeerConns
<1>21. Shapes' /\ SoleOwner'
  BY <1>1, <1>10, <1>20, RunShapes DEF Calm
<1>22. NetBy'
  <2> SUFFICES ASSUME NEW l \in Node, NEW b \in Node, NEW i \in DOMAIN net'[l][b]
               PROVE  home[net'[l][b][i].by] = l /\ HearsOf(net'[l][b][i].by, b)
    BY <1>1 DEF NetBy, HearsOf
  <2>1. \A j \in DOMAIN net[l][b] : home[net[l][b][j].by] = l /\ HearsOf(net[l][b][j].by, b)
    BY DEF Calm, NetBy
  <2>2. CASE l = m /\ b = n
    <3>1. net'[l][b] = Tail(q) /\ net[l][b] = q
      BY <1>3, <2>2 DEF q
    <3>2. i \in Nat
      BY <1>3
    <3>3. i + 1 \in DOMAIN q /\ Tail(q)[i] = q[i + 1]
      BY <1>1, <1>2, <3>1, <3>2, TailFacts
    <3> QED BY <2>1, <3>1, <3>3
  <2>3. CASE ~(l = m /\ b = n)
    BY <1>3, <2>1, <2>3
  <2> QED BY <2>2, <2>3
<1> QED BY <1>19, <1>21, <1>22 DEF Calm

(* SubLoop or handleInbound with asyncSQL. *)
LEMMA CalmReceive ==
    ASSUME Inv, Calm, NEW n \in Node, Receive(n), upset' = {}
    PROVE  Calm'
<1>1. PICK m \in Node :
        /\ net[m][n] # <<>> /\ net' = [net EXCEPT ![m][n] = Tail(@)]
        /\ kind' = kind /\ home' = home /\ offer' = offer /\ ops' = ops /\ session' = session
        /\ \E fails \in Failing(Head(net[m][n]).s), k \in IF kind = "sqlite" THEN DBConn ELSE {m} :
             LET s == Head(net[m][n]).s
                 c == Head(net[m][n]).by
                 r == IF fails THEN Result(FALSE, tx[n][k], {})
                      ELSE IF kind = "sqlite" THEN SQLiteExecute(n, k, c, s)
                      ELSE MySQLExecute(n, k, c, s)
             IN  IF kind = "sqlite" THEN AsyncSQL(n, k, c, r) ELSE HandleInboundSQL(n, m, c, r)
  BY ZenonT(60) DEF Receive
<1> DEFINE s == Head(net[m][n]).s
           c == Head(net[m][n]).by
<1>2. PICK fails \in Failing(s), k \in IF kind = "sqlite" THEN DBConn ELSE {m} :
             LET r == IF fails THEN Result(FALSE, tx[n][k], {})
                      ELSE IF kind = "sqlite" THEN SQLiteExecute(n, k, c, s)
                      ELSE MySQLExecute(n, k, c, s)
             IN  IF kind = "sqlite" THEN AsyncSQL(n, k, c, r) ELSE HandleInboundSQL(n, m, c, r)
  BY <1>1
<1> DEFINE r == IF fails THEN Result(FALSE, tx[n][k], {})
                ELSE IF kind = "sqlite" THEN SQLiteExecute(n, k, c, s)
                ELSE MySQLExecute(n, k, c, s)
<1>3. Types /\ kind \in {"sqlproxy", "sqlite"} /\ Shapes
  BY DEF Inv, Types, Calm
<1>4. s \in Sent /\ c \in Client /\ s = net[m][n][1].s /\ c = net[m][n][1].by
  <2>1. net[m][n] \in Seq(Msg)
    BY <1>3 DEF Types
  <2>2. Head(net[m][n]) \in Msg /\ Head(net[m][n]) = net[m][n][1]
    BY <1>1, <2>1, TailFacts
  <2> QED BY <2>2 DEF Msg
<1>5. k \in Conn /\ (kind # "sqlite" => k = m) /\ (kind = "sqlite" => k \in DBConn)
  BY <1>2, ConnFacts DEF Conn
<1>6. IF kind = "sqlite" THEN AsyncSQL(n, k, c, r) ELSE HandleInboundSQL(n, m, c, r)
  BY <1>2
<1>7. home[c] = m
  <2>1. 1 \in DOMAIN net[m][n]
    BY <1>1, <1>3, TailFacts DEF Types
  <2> QED BY <1>4, <2>1 DEF Calm, NetBy
<1>8. tx[n][k] \in TxRec /\ Shape(tx[n][k])
  BY <1>3, <1>5 DEF Types, Shapes
<1>9. fails => r = Result(FALSE, tx[n][k], {})
  OBVIOUS
<1>10. ~fails => r = IF kind = "sqlite" THEN SQLiteExecute(n, k, c, s) ELSE MySQLExecute(n, k, c, s)
  OBVIOUS
<1> HIDE DEF r, s, c
<1>11. Effect(n, k, r) /\ ~Shares(n, k, c) /\ r.ok
  <2>1. CASE kind = "sqlite"
    <3>1. AsyncSQL(n, k, c, r)
      BY <1>6, <2>1
    <3> QED BY <3>1 DEF AsyncSQL, Upset
  <2>2. CASE kind # "sqlite"
    <3>1. HandleInboundSQL(n, k, c, r)
      BY <1>5, <1>6, <2>2
    <3>2. Effect(n, k, r) /\ upset' = upset \cup Upset("shared", Shares(n, k, c)) \cup Upset("failed", ~r.ok)
      BY <3>1 DEF HandleInboundSQL
    <3> QED BY <3>2 DEF Upset
  <2> QED BY <2>1, <2>2
<1>12. ~fails
  BY <1>9, <1>11 DEF Result
<1>13. Does(r, tx[n][k], s, c) /\ r.tx \in TxRec
  <2>1. CASE kind = "sqlite"
    <3>1. r = SQLiteExecute(n, k, c, s)
      BY <1>10, <1>12, <2>1
    <3>2. Good(tx[n][k], r, s)
      BY <1>3, <1>4, <1>5, <3>1, SQLiteGood
    <3>3. Does(r, tx[n][k], s, c)
      BY <1>4, <1>8, <1>11, <3>1, SQLiteDoes
    <3> QED BY <3>2, <3>3 DEF Good
  <2>2. CASE kind # "sqlite"
    <3>1. r = MySQLExecute(n, k, c, s)
      BY <1>10, <1>12, <2>2
    <3>2. Good(tx[n][k], r, s)
      BY <1>3, <1>4, <1>5, <3>1, MySQLGood DEF Sent
    <3>3. Does(r, tx[n][k], s, c)
      BY <1>4, <1>8, <3>1, MySQLDoes
    <3> QED BY <3>2, <3>3 DEF Good
  <2> QED BY <2>1, <2>2
<1>14. Runs(n, k, r)
  BY <1>3, <1>5, <1>11, <1>13, EffectRuns
<1>15. Apart(tx[n], PeerConns(c), k, c)
  <2>1. CASE kind = "sqlite"
    BY <1>3, <1>5, <1>11, <2>1, NotShared DEF PeerConns
  <2>2. CASE kind # "sqlite"
    <3>1. PeerConns(c) = {k}
      BY <1>5, <1>7, <2>2 DEF PeerConns
    <3>2. tx[n][k].open => tx[n][k].owner = c
      BY <1>11 DEF Shares
    <3> QED BY <1>8, <3>1, <3>2 DEF Apart
  <2> QED BY <2>1, <2>2
<1>16. Took(c, m, n, k, s, r)
  BY <1>1, <1>4, <1>13, <1>14, <1>15 DEF Took
<1> QED BY <1>3, <1>4, <1>16, CalmTook

-----------------------------------------------------------------------------
(* That they converge. *)

(* Every step. *)
LEMMA ConvStep == Inv /\ ConvInv /\ [Next]_vars => ConvInv'
<1> SUFFICES ASSUME Inv, ConvInv, [Next]_vars PROVE ConvInv'
  OBVIOUS
<1>0. Types /\ session \in [Client -> {"new", "on", "gone"}] /\ (upset = {} => Calm) /\ ops \in Nat /\ ops <= ops
  BY DEF Inv, ConvInv, Types
<1>1. CASE UNCHANGED vars
  BY <1>0, <1>1, CalmSame DEF vars, bounds, ConvInv
<1>2. ASSUME NEW n \in Node, InitP2P(n) PROVE ConvInv'
  BY <1>0, <1>2, CalmSame DEF InitP2P, bounds, ConvInv
<1>3. ASSUME NEW n \in Node, HandlePeerDiscovery(n) PROVE ConvInv'
  BY <1>0, <1>3, CalmSame DEF HandlePeerDiscovery, bounds, ConvInv
<1>4. ASSUME NEW c \in Client, OnConn(c) PROVE ConvInv'
  <2>1. /\ session' = [session EXCEPT ![c] = "on"] /\ session[c] = "new"
        /\ UNCHANGED <<kind, home, offer, net, tx, db, ops, upset>>
    BY <1>4 DEF OnConn, bounds
  <2>2. /\ session' \in [Client -> {"new", "on", "gone"}]
        /\ \A d \in Client : session[d] = "gone" => session'[d] = "gone"
    BY <1>0, <2>1
  <2> QED BY <1>0, <2>1, <2>2, CalmSame DEF ConvInv
<1>5. ASSUME NEW c \in Client, Query(c) PROVE ConvInv'
  <2>1. session' = session
    BY <1>5 DEF Query
  <2>2. upset \subseteq upset'
    BY <1>5, Zenon DEF Query, HandleQuery, Exec
  <2> QED BY <1>0, <1>5, <2>1, <2>2, CalmQuery DEF ConvInv
<1>6. ASSUME NEW c \in Client, Quit(c) PROVE ConvInv'
  <2>1. session' = [session EXCEPT ![c] = "gone"] /\ upset' = upset
    BY <1>6 DEF Quit
  <2>2. session' \in [Client -> {"new", "on", "gone"}]
    BY <1>0, <2>1
  <2> QED BY <1>0, <1>6, <2>1, <2>2, CalmQuit DEF ConvInv
<1>7. ASSUME NEW m \in Node, Publish(m) PROVE ConvInv'
  <2>1. session' = session /\ upset \subseteq upset'
    BY <1>7, Zenon DEF Publish
  <2> QED BY <1>0, <1>7, <2>1, CalmPublish DEF ConvInv
<1>8. ASSUME NEW m \in Node, PublishFails(m) PROVE ConvInv'
  <2>1. session' = session /\ upset' = upset \cup {"fault"}
    BY <1>8 DEF PublishFails
  <2> QED BY <1>0, <2>1 DEF ConvInv
<1>9. ASSUME NEW m \in Node, NEW n \in Node, Disturb(m, n) PROVE ConvInv'
  <2>1. session' = session /\ upset' = upset \cup {"fault"}
    BY <1>9 DEF Disturb
  <2> QED BY <1>0, <2>1 DEF ConvInv
<1>10. ASSUME NEW n \in Node, Receive(n) PROVE ConvInv'
  <2>1. \A m, c, r : HandleInboundSQL(n, m, c, r) => upset \subseteq upset'
    BY DEF HandleInboundSQL
  <2>2. \A k, c, r : AsyncSQL(n, k, c, r) => upset \subseteq upset'
    BY DEF AsyncSQL
  <2>3. session' = session /\ upset \subseteq upset'
    BY <1>10, <2>1, <2>2, ZenonT(60) DEF Receive
  <2> QED BY <1>0, <1>10, <2>3, CalmReceive DEF ConvInv
<1> QED BY <1>1, <1>2, <1>3, <1>4, <1>5, <1>6, <1>7, <1>8, <1>9, <1>10 DEF Next

(* Nothing is on its way to a node: it has what the client made at its own. *)
LEMMA SeenAll ==
    ASSUME NEW c, NEW K, NEW q, q = <<>>, NEW o, o = None, NEW T, NEW D, NEW X, NEW h, NEW M,
           Seen(c, K, q, o, T, D, X, h, M)
    PROVE  Counts(D, M, X, h.done)
<1>1. PICK st \in [Nat -> View] :
        Trail(q, o, c, st, h, M) /\ Owns(T, K, c, st[0]) /\ Counts(D, M, X, st[0].done)
  BY DEF Seen
<1>2. Len(q) = 0
  OBVIOUS
<1>3. Ends(st[Len(q)], h, o)
  BY <1>1 DEF Trail
<1>4. h = st[0]
  BY <1>2, <1>3 DEF Ends
<1> QED BY <1>1, <1>4

(* When all is quiet, the counts are those that Converges asks for. *)
LEMMA CalmConverges ==
    ASSUME Types, Calm, Quiet
    PROVE  \A w \in Write : \E origin \in Node : \A n \in Node :
             db[origin][w] = (IF n = origin THEN 1 ELSE Copies) * db[n][w]
<1> SUFFICES ASSUME NEW w \in Write
             PROVE  \E origin \in Node : \A n \in Node :
                      db[origin][w] = (IF n = origin THEN 1 ELSE Copies) * db[n][w]
  OBVIOUS
<1>0. (\A n \in Node : db[n][w] \in Nat) /\ kind \in {"sqlproxy", "sqlite"} /\ Copies \in Nat
      /\ Copies = IF kind = "sqlproxy" THEN 2 ELSE 1
  BY DEF Types, Copies
<1>1. PICK mine, hs : Ghost(mine, hs)
  BY DEF Calm
<1>2. CASE \E c \in Client : w \in mine[c]
  <2>1. PICK c \in Client : w \in mine[c]
    BY <1>2
  <2> DEFINE h == hs[c]
             M == mine[c]
             g == home[c]
             x == One(w \in h.done)
  <2>2. g \in Node /\ x \in {0, 1}
    BY DEF Types, One
  <2>3. ASSUME NEW n \in Node, HearsOf(c, n) PROVE db[n][w] = One(n = g /\ w \in h.done) + x
    <3> DEFINE K == PeerConns(c)
               q == net[g][n]
               o == offer[c]
               T == tx[n]
               D == db[n]
               X == IF n = home[c] THEN h.done ELSE {}
    <3>1. Seen(c, K, q, o, T, D, X, h, M)
      BY <1>1, <2>3 DEF Ghost, AtPeer
    <3>2. q = <<>> /\ o = None
      BY <2>2 DEF Quiet
    <3> HIDE DEF K, q, o, T, D, X, h, M
    <3>3. Counts(D, M, X, h.done)
      BY <3>1, <3>2, SeenAll
    <3>4. D[w] = One(w \in X) + One(w \in h.done)
      BY <2>1, <3>3 DEF Counts, M
    <3>5. One(w \in X) = One(n = g /\ w \in h.done)
      BY DEF One, X
    <3> QED BY <3>4, <3>5 DEF D
  <2>4. kind = "sqlite" => db[g][w] = x
    <3>1. kind = "sqlite" => Counts(db[g], M, h.done, {})
      BY <1>1 DEF Ghost, AtHome
    <3>2. kind = "sqlite" => db[g][w] = x + One(w \in {})
      BY <2>1, <3>1 DEF Counts
    <3> QED BY <2>2, <3>2 DEF One
  <2> HIDE DEF g, h
  <2>5. ASSUME NEW n \in Node PROVE db[g][w] = (IF n = g THEN 1 ELSE Copies) * db[n][w]
    <3>1. CASE n = g
      BY <1>0, <2>2, <3>1
    <3>2. CASE n # g
      <4>1. db[n][w] = x
        <5>1. HearsOf(c, n)
          BY <3>2 DEF HearsOf, g
        <5> QED BY <2>2, <2>3, <3>2, <5>1 DEF One
      <4>2. kind = "sqlproxy" => db[g][w] = x + x
        <5>1. kind = "sqlproxy" => HearsOf(c, g)
          BY DEF HearsOf
        <5>2. One(g = g /\ w \in h.done) = x
          BY DEF One
        <5> QED BY <2>2, <2>3, <5>1, <5>2
      <4> QED BY <1>0, <2>2, <2>4, <3>2, <4>1, <4>2
    <3> QED BY <3>1, <3>2
  <2> QED BY <2>2, <2>5
<1>3. CASE \A c \in Client : w \notin mine[c]
  <2>1. \A n \in Node : db[n][w] = 0
    BY <1>1, <1>3 DEF Ghost
  <2>2. PICK n \in Node : TRUE
    BY SyncAssumption
  <2>3. \A b \in Node : db[n][w] = (IF b = n THEN 1 ELSE Copies) * db[b][w]
    BY <1>0, <2>1, <2>2
  <2> QED BY <2>2, <2>3
<1> QED BY <1>2, <1>3

(* Converges (broadcast, handleInboundSQL, Exec): once everything          *)
(* published is consumed, every node has committed every write as often as *)
(* the others, the SQLProxy node of its client twice as often, and no node *)
(* one that was rolled back.  For any number of nodes, clients and         *)
(* statements, as long as no message met a fault or failed, no statement   *)
(* escaped the broadcast or found a node not linked, and none ran in       *)
(* another client's transaction.                                           *)
THEOREM Convergence == Spec => []Converges
<1>1. Inv /\ ConvInv => Converges
  BY CalmConverges DEF Inv, ConvInv, Converges
<1> QED BY <1>1, InvInit, InvStep, CalmInit, ConvStep, PTL DEF Spec
=============================================================================
