----------------------------- MODULE MySQLLink ------------------------------
(***************************************************************************)
(* A client and a server of the MySQL protocol library on one connection:  *)
(* the login, then commands and their answers, over two streams of frames  *)
(* that may be cut off at any point. The handler behind the server is the  *)
(* SQLite node, the SQL proxy (which passes the command to a MySQL server  *)
(* with the library's own client and writes back what it read) or one that *)
(* builds its results with the library's helpers.                          *)
(*                                                                         *)
(* The tag of a frame is whether it belongs to the client's latest         *)
(* exchange; a new command makes the tags of what is under way FALSE.      *)
(***************************************************************************)
EXTENDS MySQLClient

CONSTANTS Servers,     \* what a server may be: the fields of conf up to pw
          LoginsTo(_), \* how the next client may log in, given conf: its other
                       \* fields, and asks, the operations it goes on to use
          Requests,    \* commands, as [op, arg]
          Tables,      \* what a query may find: [names, types, vals], and by
                       \* the handlers it may come from
          Lists,       \* the fields a table may have
          Shapes,      \* statements: [params, columns]
          MaxSessions, \* bound: connections one after the other
          MaxStmts,    \* bound: statements prepared on a connection
          MaxLong,     \* bound: length of a parameter sent as long data
          MaxAhead     \* bound: frames a client sends before they are read

VARIABLES conf,      \* both ends' configuration
          cli, srv,  \* client.Conn and server.Conn
          c2s, s2c,  \* frames under way
          cache,     \* the server's cache of passwords, by user
          sessions,  \* connections so far
          ex,        \* the latest exchange, for the properties
          quirk      \* what is known to put the two ends out of step

vars == <<conf, cli, srv, c2s, s2c, cache, sessions, ex, quirk>>

None == [kind |-> "nothing"]
NoExchange == [cmd |-> [op |-> "none", arg |-> <<>>], given |-> None, heard |-> <<>>,
               got |-> None, mixed |-> FALSE]
NobodyIn == [tls |-> FALSE, cplugin |-> 0, db |-> <<>>, user |-> <<>>, cpw |-> <<>>,
             asks |-> {}]

Init == /\ \E s \in Servers : conf = s @@ NobodyIn
        /\ cli = [Connect(conf) EXCEPT !.phase = "none"]
        /\ srv = [NewConn(conf) EXCEPT !.phase = "closed"]
        /\ c2s = <<>> /\ s2c = <<>>
        /\ cache = <<>> /\ sessions = 0 /\ ex = NoExchange /\ quirk = {}

Over == {"none", "denied", "panic", "broken", "lost", "closed"}
Handshaking == {"response", "switch", "rsa"}

Old(frames) == [i \in 1..Len(frames) |-> [frames[i] EXCEPT !.tag = FALSE]]

(* a client connects: net.Dial on one side, NewClientConn on the other *)
Dial(l) ==
    /\ cli.phase \in Over /\ sessions < MaxSessions
    /\ conf' = l @@ conf
    /\ cli' = Connect(conf') /\ srv' = NewConn(conf')
    /\ c2s' = <<>>
    /\ s2c' = WritePacket(0, writeInitialHandshake(conf', srv'.salt), TRUE)
    /\ sessions' = sessions + 1
    /\ ex' = NoExchange /\ quirk' = {}
    /\ UNCHANGED cache

(* handshake reads one packet of the client *)
ServerHandshake ==
    /\ srv.phase \in Handshaking
    /\ \E p \in {ReadPacket(srv.seq, c2s)} :
         /\ p.status = "ok" /\ c2s' = p.rest
         /\ \E h \in {HandshakeStep(conf, cache, srv, p.data)} :
              /\ \E out \in {WritePackets(p.seq, h.out, TRUE)} :
                   /\ srv' = [h.srv EXCEPT !.seq = IF h.srv.phase = "ready" THEN 0
                                                   ELSE (p.seq + Len(out)) % SeqSize]
                   /\ s2c' = s2c \o out
              /\ cache' = IF h.learn THEN (srv.user :> conf.pw) @@ cache ELSE cache
    /\ UNCHANGED <<conf, cli, sessions, ex, quirk>>

(* handshake of the client reads one packet of the server *)
ClientHandshake ==
    /\ cli.phase \in LoggingIn
    /\ \E p \in {ReadPacket(cli.seq, s2c)} :
         /\ p.status = "ok" /\ s2c' = p.rest
         /\ \E h \in {handleAuthResult(conf, cli, p.data)} :
              /\ \E out \in {WritePackets(p.seq, h.out, TRUE)} :
                   /\ cli' = [h.cli EXCEPT !.seq = (p.seq + Len(out)) % SeqSize]
                   /\ c2s' = c2s \o out
              /\ quirk' = IF h.cli.phase = "idle" /\ h.out # <<>>
                          THEN quirk \cup {"full auth"} ELSE quirk
    /\ UNCHANGED <<conf, srv, cache, sessions, ex>>

(* which commands a client can give: its statement's, and one statement.   *)
(* What a client that is out of step makes of more answers is not followed *)
Possible(cmd) ==
    CASE cmd.op = "Prepare" -> cli.stmt = <<>> /\ srv.stmtID < MaxStmts
      [] cmd.op \in {"Close", "Reset"} -> cli.stmt # <<>>
      [] cmd.op = "Execute" -> cli.stmt # <<>> /\ Len(cmd.arg) = cli.stmt.params
      [] cmd.op = "ExecuteLong" -> cli.stmt # <<>> /\ cli.stmt.params = 1
      [] cmd.op = "Reexecute" -> cli.stmt # <<>> /\ cli.stmt.params > 0
      [] cmd.op = "SendLongData" ->
           /\ cli.stmt # <<>> /\ cli.stmt.params > 0
           /\ Len(srv.stmts[cli.stmt.id].args[1].v.s) < MaxLong
      [] OTHER -> TRUE

ClientCommand(cmd) ==
    /\ cli.phase = "idle" /\ ~ex.mixed /\ Len(c2s) <= MaxAhead
    /\ cmd.op \in conf.asks /\ Possible(cmd)
    /\ \E data \in {CommandPacket(cli, cmd)} \ {<<>>} :
         \E out \in {WritePacket(0, data, TRUE)} :
           /\ c2s' = Old(c2s) \o out
           /\ cli' = [cli EXCEPT
                        !.seq = Len(out) % SeqSize,
                        !.stmt = IF cmd.op = "Close" THEN <<>> ELSE @,
                        !.phase = IF cmd.op = "Quit" THEN "closed"
                                  ELSE IF cmd.op \in NoResponse THEN "idle" ELSE "wait"]
    /\ s2c' = Old(s2c)
    /\ ex' = [NoExchange EXCEPT !.cmd = cmd]
    /\ UNCHANGED <<conf, srv, cache, sessions, quirk>>
-----------------------------------------------------------------------------
(* The handlers *)

(* what the handler or, behind the proxy, MySQL may find *)
Findings(data) ==
    LET results == {AnErr(80), AnOK([affected |-> 1, insertId |-> Base + 1, status |-> 2])}
                   \cup {[kind |-> "rows"] @@ t : t \in {u \in Tables : conf.handler \in u.by}}
    IN  CASE data[1] = COM_QUERY /\ conf.handler = "sqlite"
               /\ data[2] \in {SET_NAMES(0)[1], SET_AUTOCOMMIT(0)[1]} ->
               {AnOK([affected |-> 0, insertId |-> 0, status |-> 2])}
          [] data[1] = COM_STMT_EXECUTE /\ conf.handler = "sqlite" -> {AnErr(ER_UNKNOWN)}
          [] data[1] \in {COM_QUERY, COM_STMT_EXECUTE} -> results
          [] data[1] = COM_FIELD_LIST ->
               IF conf.handler = "sqlite" THEN {[kind |-> "fields", fields |-> <<>>]}
               ELSE {[kind |-> "fields", fields |-> f] : f \in Lists}
          [] data[1] = COM_STMT_PREPARE ->
               IF conf.handler = "sqlite"
               THEN {[kind |-> "stmt", params |-> 0, columns |-> 0]}
               ELSE {[kind |-> "stmt"] @@ s : s \in Shapes} \cup {AnErr(80)}
          [] OTHER -> {None}

(* the MySQL server's answer (external) as the proxy's client reads it *)
TypedField(name, tp) ==
    [EmptyField EXCEPT !.name = name, !.type = tp[1], !.flag = tp[2], !.charset = 33]
Typed(t) == [j \in 1..Len(t.names) |-> TypedField(t.names[j], t.types[j])]
Backend(t, binary) ==
    [kind |-> "rows", fields |-> Typed(t),
     rows |-> [i \in 1..Len(t.vals) |-> MySQLRow(Typed(t), t.vals[i], binary)]]
MySQLField(f) == Dump([f EXCEPT !.def = <<>>])
                 \o (IF f.def = <<>> THEN <<NullByte>> ELSE PutLengthEncodedString(f.def[1]))
Relay(found, binary) ==
    LET frames(v) == WritePackets(1, WriteValue(v), TRUE)
        list(fs)  == WritePackets(1, Append([j \in DOMAIN fs |-> MySQLField(fs[j])], EOFPacket),
                                  TRUE)
        prepared(v) == IF v.kind # "stmt" THEN AnErr(ER_UNKNOWN)
                       ELSE [kind |-> "stmt", params |-> v.stmt.params, columns |-> v.stmt.columns]
    IN
    CASE found.kind \in {"ok", "err", "rows"} ->
           readResult(1, frames(IF found.kind = "rows" THEN Backend(found, binary) ELSE found),
                      binary).v
      [] found.kind = "fields" -> readFieldList(1, list(found.fields), TRUE).v
      [] found.kind = "stmt" ->
           prepared(readPrepare(1, frames([kind |-> "stmt", stmt |-> found @@ [id |-> 1]])).v)
      [] OTHER -> found

(* the value a handler returns for what was found *)
Handler(found, binary) ==
    LET result(rs) == IF rs.err THEN AnErr(ER_UNKNOWN) ELSE [kind |-> "rows"] @@ rs
    IN  CASE conf.handler = "proxy" -> Relay(found, binary)
          [] conf.handler # "proxy" /\ found.kind = "rows" ->
               result(IF conf.handler = "sqlite"
                      THEN SqliteResultset(found.names,
                                           [j \in DOMAIN found.types |-> found.types[j][1]],
                                           found.vals)
                      ELSE BuildSimpleResultset(found.names, found.vals, binary))
          [] OTHER -> found

(* the arguments that reach the handler or, behind the proxy, MySQL *)
Heard(args) ==
    IF conf.handler # "proxy" \/ args = <<>> THEN args
    ELSE LET st == [id |-> 1, params |-> Len(args), columns |-> 0,
                    args |-> [i \in 1..Len(args) |-> Nil]]
             to == [srv EXCEPT !.stmts = (1 :> st)]
         IN  handleStmtExecute(to, Tail(writeStmt(1, args)), None).args

(* a default value whose length, written in eight bytes, starts with the   *)
(* byte that announces eight more: the reader finds a length far too long  *)
LongDefault(f) == f.def # <<>> /\ Len(f.def[1]) % Base = EightByte

(* the answers that put a client out of step with the server *)
Odd(data, v) ==
    (IF v.kind = "err" /\ data[1] = COM_STMT_CLOSE THEN {"statement close"} ELSE {})
    \cup (IF v.kind = "fields" /\ Library(conf) /\ v.fields = <<>> THEN {"empty list"} ELSE {})
    \cup (IF v.kind = "fields" /\ \E j \in DOMAIN v.fields : LongDefault(v.fields[j])
          THEN {"long default"} ELSE {})
    \cup (IF v.kind = "rows" /\ \E i \in DOMAIN v.rows : v.rows[i][1] = ERR_HEADER
          THEN {"long cell"} ELSE {})

(* HandleCommand *)
ServerCommand ==
    /\ srv.phase = "ready"
    /\ \E p \in {ReadPacket(0, c2s)} :
         /\ p.status = "ok" /\ c2s' = p.rest
         /\ \E found \in Findings(p.data) :
              LET binary  == p.data[1] = COM_STMT_EXECUTE
                  current == p.tags = {TRUE}
              IN  \E d \in {dispatch(conf, srv, p.data, Handler(found, binary))} :
                    /\ srv' = [d.srv EXCEPT !.phase = IF d.v.kind = "panic" THEN "closed" ELSE @]
                    /\ s2c' = s2c \o WritePackets(p.seq, WriteValue(d.v), current)
                    /\ ex' = IF ~current \/ d.v.kind = "panic" THEN ex
                             ELSE IF d.v = AnErr(ErrMalform) THEN [ex EXCEPT !.given = d.v]
                             ELSE [ex EXCEPT !.given = found,
                                             !.heard = IF binary THEN Heard(d.args)
                                                       ELSE Tail(p.data)]
                    /\ quirk' = quirk \cup Odd(p.data, d.v)
    /\ UNCHANGED <<conf, cli, cache, sessions>>

(* a read of the server fails: the client is gone *)
ServerEOF ==
    /\ srv.phase \in Handshaking \cup {"ready"}
    /\ ReadPacket(srv.seq, c2s).status
         \in {"seq"} \cup (IF cli.phase \in Over THEN {"wait"} ELSE {})
    /\ srv' = [srv EXCEPT !.phase = "closed"]
    /\ UNCHANGED <<conf, cli, c2s, s2c, cache, sessions, ex, quirk>>

(* the client reads the answer it waits for *)
ClientAnswer ==
    /\ cli.phase = "wait"
    /\ \E r \in {ReadAnswer(conf, ex.cmd.op, cli.seq, s2c)} :
         LET ok == r.v.kind = "ok" IN
           /\ r.status = "ok"
           /\ cli' = [cli EXCEPT
                        !.phase = IF r.v.kind = "panic" THEN "panic" ELSE "idle",
                        !.status = IF ok THEN r.v.r.status
                                   ELSE IF r.v.kind = "rows" THEN 0 ELSE @,
                        !.db = IF ok /\ ex.cmd.op = "UseDB" THEN ex.cmd.arg ELSE @,
                        !.charset = IF ok /\ ex.cmd.op = "SetCharset" THEN ex.cmd.arg ELSE @,
                        !.stmt = IF r.v.kind = "stmt" THEN r.v.stmt ELSE @]
           /\ s2c' = r.rest
           /\ ex' = [ex EXCEPT !.got = r.v, !.mixed = r.tags # {TRUE}]
    /\ UNCHANGED <<conf, srv, c2s, cache, sessions, quirk>>

(* a read of the client fails: the connection is broken or closed, or a    *)
(* frame is not the one expected, after which the stream makes no sense    *)
ClientFails ==
    /\ cli.phase \in LoggingIn \cup {"wait"}
    /\ \E status \in {IF cli.phase = "wait"
                      THEN ReadAnswer(conf, ex.cmd.op, cli.seq, s2c).status
                      ELSE ReadPacket(cli.seq, s2c).status} :
         \/ /\ status = "seq"
            /\ cli' = [cli EXCEPT !.phase = "broken"]
         \/ /\ status = "wait" /\ srv.phase = "closed"
            /\ cli' = [cli EXCEPT !.phase = "lost"]
    /\ UNCHANGED <<conf, srv, c2s, s2c, cache, sessions, ex, quirk>>

(* the connection breaks: the server closes its end, and what has not      *)
(* arrived is lost, from any point on                                      *)
Cut ==
    /\ srv.phase # "closed" /\ cli.phase \notin Over
    /\ srv' = [srv EXCEPT !.phase = "closed"]
    /\ c2s' = <<>>
    /\ \E j \in 0..Len(s2c) : s2c' = SubSeq(s2c, 1, j)
    /\ UNCHANGED <<conf, cli, cache, sessions, ex, quirk>>

Next == \/ \E l \in LoginsTo(conf) : Dial(l)
        \/ \E cmd \in Requests : ClientCommand(cmd)
        \/ ServerHandshake \/ ClientHandshake \/ ServerCommand \/ ServerEOF
        \/ ClientAnswer \/ ClientFails \/ Cut

Spec == Init /\ [][Next]_vars
-----------------------------------------------------------------------------
(* The two ends stay in step: a client takes the answer to a command only  *)
(* from packets written for that command, whatever was still under way; it *)
(* never meets a packet with a sequence number it does not expect, nor one *)
(* that it panics at, unless the server has refused it; no                 *)
(* packet is left over once it has its answer; and it never waits for a    *)
(* packet the server has no reason to send. The cases in quirk break this. *)
InStep ==
    quirk = {} =>
        /\ ~ex.mixed
        /\ cli.phase # "broken"
        /\ cli.phase = "panic" => srv.phase = "closed"
        /\ cli.phase = "idle" /\ srv.phase = "ready" => s2c = <<>>
        /\ cli.phase = "wait" /\ srv.phase = "ready" /\ c2s = <<>> =>
             ReadAnswer(conf, ex.cmd.op, cli.seq, s2c).status = "ok"
        /\ cli.phase \in LoggingIn /\ srv.phase \in Handshaking /\ c2s = <<>> =>
             ReadPacket(cli.seq, s2c).status = "ok"

(* the library's sha256 response with a NUL that its length leaves out,    *)
(* where the server takes the NUL for an empty database name               *)
MissesDb == /\ conf.plugin = SHA256 /\ Library(conf) /\ conf.db # <<>>
            /\ conf.tls \/ conf.cpw = <<>>

(* the empty password of another client is a NUL, which the server wants   *)
(* to decrypt                                                              *)
NulRefused == /\ conf.plugin = SHA256 /\ conf.cplugin = SHA256
              /\ conf.pw = <<>> /\ ~conf.tls

Rightful == conf.user = KnownUser /\ conf.cpw = conf.pw

(* Only the right password gets in, by every plugin, over TLS or not, with *)
(* or without the cache; a client that thinks it is logged in is (but for  *)
(* the full authentication whose end the library does not read), and is    *)
(* in the database the server has; and the right password is not refused,  *)
(* nor does it crash the client that asks for a key, but in the two cases  *)
(* named above.                                                            *)
LoginRight ==
    /\ srv.phase = "ready" => Rightful
    /\ cli.phase \in {"idle", "wait"} /\ quirk = {} => Rightful
    /\ cli.phase = "idle" /\ srv.phase = "ready" /\ quirk = {} /\ ~MissesDb =>
         cli.db = srv.db
    /\ cli.phase \in {"denied", "panic"} /\ quirk = {} /\ Rightful =>
         (conf.handler = "proxy" /\ conf.db \notin KnownDb) \/ NulRefused

(* what the code is known to change on its way *)
Altered(found) ==
    LET cells == {found.vals[i][j] : i \in DOMAIN found.vals, j \in DOMAIN found.names} IN
    /\ found.kind = "rows"
    /\ \/ conf.handler = "sqlite" /\ (Null \in cells
            \/ \E v \in cells : Len(GetString(v)) >= NullByte)
       \/ conf.handler = "helper" /\ ex.cmd.op = "Execute"
            /\ (Null \in cells \/ found.vals = <<>>)
       \/ conf.handler = "helper" /\ ex.cmd.op # "Execute" /\ GoStr(<<>>) \in cells
       \/ ex.cmd.op = "Execute" /\ \E j \in DOMAIN found.types : found.types[j][1] = TIME
            /\ \E i \in DOMAIN found.vals : found.vals[i][j].s = <<0, 0, 0, 0>>

(* the getters give a value back, also from its text; but GetInt reads the *)
(* text of a negative number as that of a uint64                           *)
Reads(v) ==
    LET text == StrV(GetString(v)) IN
    CASE v.t = "int" -> GetInt(v).n = v.n /\ (GetInt(text) = GetInt(v) <=> v.n >= 0)
      [] v.t = "uint" -> GetUint(v).n = v.n /\ GetUint(text) = GetUint(v)
      [] v.t = "float" -> GetFloat(v).n = v.n /\ GetFloat(text) = GetFloat(v)
      [] OTHER -> TRUE

(* What is read of a Go string is bytes.                                   *)
AsRead(vals) == [i \in DOMAIN vals |-> [j \in DOMAIN vals[i] |->
                   IF vals[i][j].t = "string" THEN StrV(vals[i][j].s) ELSE vals[i][j]]]

(* What becomes of a field: through the proxy one without a default value  *)
(* gets an empty one. One that is not empty is not kept, as Dump and Parse *)
(* do not agree on how its length is written.                              *)
AsField(f) == IF conf.handler = "proxy" /\ f.def = <<>> THEN [f EXCEPT !.def = <<<<>>>>] ELSE f
SameField(f, g) ==
    IF f.def \in {<<>>, <<<<>>>>} THEN g = AsField(f)
    ELSE [g EXCEPT !.def = <<>>] = [f EXCEPT !.def = <<>>]

Same(found, got) ==
    CASE found.kind = "ok" -> got = found
      [] found.kind = "err" -> got.kind = "err"
      [] found.kind = "rows" ->
           /\ got.kind = "rows" /\ got.vals = AsRead(found.vals)
           /\ \A i \in DOMAIN got.vals, j \in DOMAIN found.names : Reads(got.vals[i][j])
           /\ [j \in DOMAIN got.fields |-> got.fields[j].name] = found.names
      [] found.kind = "fields" ->
           \* the library's client drops a field, the proxy's own drops another
           LET left == IF conf.handler = "proxy" THEN Tail(found.fields) ELSE found.fields
               list == IF Library(conf) THEN Tail(left) ELSE left
           IN  /\ got.kind = "fields" /\ Len(got.fields) = Len(list)
               /\ \A j \in DOMAIN list : SameField(list[j], got.fields[j])
      [] found.kind = "stmt" -> /\ got.kind = "stmt"
                                /\ got.stmt.params = found.params
                                /\ got.stmt.columns = found.columns
      [] found.kind = "nothing" -> TRUE

(* What a client reads is what was found (by the handler or by the MySQL   *)
(* server behind the proxy), and what is executed is what the client sent, *)
(* whatever the lengths of names, values, texts and packets are, though    *)
(* values pass as text or in binary and, through the proxy, are decoded    *)
(* and encoded twice. Altered says which values the code does not keep.    *)
DataArrives ==
    cli.phase = "idle" /\ ex.got # None /\ quirk = {} =>
        /\ ~Altered(ex.given) => Same(ex.given, ex.got)
        /\ ex.cmd.op = "exec" => ex.heard = ex.cmd.arg
        /\ ex.cmd.op = "Execute" => ex.heard = ex.cmd.arg
        /\ ex.cmd.op = "ExecuteLong" => ex.heard = <<>> /\ ex.got.kind = "err"

=============================================================================
