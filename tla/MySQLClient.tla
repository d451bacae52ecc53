---------------------------- MODULE MySQLClient -----------------------------
(***************************************************************************)
(* The client side of the MySQL protocol library, with which the SQL proxy *)
(* talks to the MySQL server behind it: the answers to the handshake, the  *)
(* commands, and the readers of their results. Other clients, which log in *)
(* with a plugin of their own choice (conf.cplugin) and follow the         *)
(* protocol, share what the protocol fixes.                                *)
(*                                                                         *)
(* Operators only, for model checking. cli is a client.Conn.               *)
(***************************************************************************)
EXTENDS MySQLServer

Library(conf) == conf.cplugin = 0   \* the client is this library's

SERVER_STATUS_AUTOCOMMIT == 2
DEFAULT_CHARSET == 33

(* Connect: the connection is open and the first packet not yet read *)
Connect(conf) ==
    [phase |-> "hello", seq |-> 0, plugin |-> 0, salt |-> <<>>, status |-> 0,
     db |-> conf.db, charset |-> DEFAULT_CHARSET, stmt |-> <<>>]
-----------------------------------------------------------------------------
(* Logging in *)

readInitialHandshake(conf, cli, data) ==
    LET p == IndexNul(From(data, 1)) + 2 IN
    [cli EXCEPT !.salt = <<data[p + 2], data[p + 10]>>, !.status = data[p + 6],
                !.plugin = IF Library(conf) THEN data[p + 12] ELSE conf.cplugin,
                !.phase = IF Has(data[p + 4], CLIENT_PROTOCOL_41)
                             /\ (conf.tls => Has(data[p + 4], CLIENT_SSL))
                          THEN "auth" ELSE "denied"]

(* [auth, addNull] *)
genAuthResponse(conf, plugin, authData) ==
    CASE plugin = NATIVE -> [auth |-> CalcPassword(authData, conf.cpw), addNull |-> FALSE]
      [] plugin = CACHING ->
           [auth |-> CalcCachingSha2Password(authData, conf.cpw), addNull |-> FALSE]
      [] plugin = SHA256 ->
           IF conf.cpw = <<>> THEN [auth |-> <<>>, addNull |-> TRUE]
           ELSE IF conf.tls THEN [auth |-> conf.cpw, addNull |-> TRUE]
           ELSE [auth |-> <<1>>, addNull |-> FALSE]

(* The packets of the handshake response. The length of the library's auth *)
(* data leaves out the NUL it adds; other clients count it.                *)
writeAuthHandshake(conf, cli) ==
    LET g    == genAuthResponse(conf, cli.plugin, cli.salt)
        nul  == IF g.addNull THEN <<0>> ELSE <<>>
        auth == IF Library(conf)
                THEN AppendLengthEncodedInteger(<<>>, Len(g.auth)) \o g.auth \o nul
                ELSE PutLengthEncodedString(g.auth \o nul)
        cap  == CLIENT_PROTOCOL_41 + CLIENT_SECURE_CONNECTION + CLIENT_PLUGIN_AUTH
                + (IF conf.tls THEN CLIENT_SSL ELSE 0)
                + (IF conf.db # <<>> THEN CLIENT_CONNECT_WITH_DB ELSE 0)
                + (IF Library(conf) THEN 0 ELSE CLIENT_PLUGIN_AUTH_LENENC_CLIENT_DATA)
        head == <<cap, 0, 33, 0>>
        db   == IF conf.db # <<>> THEN conf.db \o <<0>> ELSE <<>>
    IN  (IF conf.tls THEN <<head>> ELSE <<>>)
        \o << head \o conf.user \o <<0>> \o auth \o db \o <<cli.plugin, 0>> >>

WriteAuthSwitchPacket(g) == << g.auth \o (IF g.addNull THEN <<0>> ELSE <<>>) >>
WriteClearAuthPacket(pw) == << pw \o <<0>> >>
RequestPublicKey == << <<2>> >>

Enter(cli, phase) == [cli |-> [cli EXCEPT !.phase = phase], out |-> <<>>]

(* caching_sha2_password: the hash was right, or the server wants the      *)
(* password. The library does not wait for the last word after that.       *)
CachingResult(conf, cli, mode) ==
    CASE mode = CACHE_SHA2_FAST_AUTH -> Enter(cli, "fast")
      [] mode = CACHE_SHA2_FULL_AUTH /\ ~conf.tls ->
           [cli |-> [cli EXCEPT !.phase = "key"], out |-> RequestPublicKey]
      [] mode = CACHE_SHA2_FULL_AUTH /\ conf.tls ->
           [cli |-> [cli EXCEPT !.phase = IF Library(conf) THEN "idle" ELSE "final"],
            out |-> WriteClearAuthPacket(conf.cpw)]
      [] OTHER -> Enter(cli, "denied")

(* an answer to the first or, once switched, the second response. The      *)
(* library keeps the NUL behind the salt of a switch request.              *)
readAuthResult(conf, cli, data) ==
    LET end   == IndexNul(data)
        raw   == From(data, end + 1)
        salt  == IF Library(conf) THEN raw ELSE StripNul(raw)
        kept  == [i \in 1..Len(cli.salt) |-> raw[i]]
        to    == [cli EXCEPT !.plugin = data[2], !.salt = kept, !.phase = "switched"]
    IN  CASE data[1] = OK_HEADER -> Enter(cli, "idle")
          [] data[1] = EOF_HEADER /\ cli.phase = "auth" ->
               [cli |-> to,
                out |-> WriteAuthSwitchPacket(genAuthResponse(conf, data[2], salt))]
          [] data[1] = MORE_DATE_HEADER /\ cli.plugin = CACHING ->
               CachingResult(conf, cli, data[2])
          [] data[1] = MORE_DATE_HEADER /\ cli.plugin = SHA256 ->
               [cli |-> [cli EXCEPT !.phase = "final"],
                out |-> WriteAuthSwitchPacket([auth |-> EncryptPassword(conf.cpw, cli.salt),
                                               addNull |-> FALSE])]
          [] data[1] = MORE_DATE_HEADER /\ cli.plugin = NATIVE -> Enter(cli, "idle")
          [] OTHER -> Enter(cli, "denied")

(* WritePublicKeyAuthPacket once the key should have come: the library     *)
(* takes any packet for it, and an error, which has no PEM block, panics   *)
WritePublicKeyAuthPacket(conf, cli, data) ==
    IF data[1] # MORE_DATE_HEADER THEN Enter(cli, IF Library(conf) THEN "panic" ELSE "denied")
    ELSE [cli |-> [cli EXCEPT !.phase = IF Library(conf) THEN "idle" ELSE "final"],
          out |-> <<EncryptPassword(conf.cpw, cli.salt)>>]

(* one packet of the handshake: [cli, out] *)
handleAuthResult(conf, cli, data) ==
    LET respond(c) ==
            [cli |-> c, out |-> IF c.phase = "auth" THEN writeAuthHandshake(conf, c) ELSE <<>>]
    IN
    CASE cli.phase = "hello" -> respond(readInitialHandshake(conf, cli, data))
      [] cli.phase \in {"auth", "switched"} -> readAuthResult(conf, cli, data)
      [] cli.phase = "fast" -> Enter(cli, "idle")    \* whatever readOK says
      [] cli.phase = "key" -> WritePublicKeyAuthPacket(conf, cli, data)
      [] cli.phase = "final" -> Enter(cli, IF data[1] = OK_HEADER THEN "idle" ELSE "denied")

LoggingIn == {"hello", "auth", "switched", "fast", "key", "final"}
-----------------------------------------------------------------------------
(* Commands, as the packets they write *)

writeCommand(c)             == <<c>>
writeCommandStr(c, arg)     == <<c>> \o arg
writeCommandUint32(c, n)    == <<c>> \o UintToBytes(n, 4)
writeCommandStrStr(c, a, b) == <<c>> \o a \o <<0>> \o b

(* Stmt.write: a value has the type of its Go type; bytes are a string *)
writeStmt(id, args) ==
    LET nulls == {i - 1 : i \in {k \in 1..Len(args) : args[k].v = Null}}
        bound == IF Cardinality(nulls) = Len(args) THEN 0 ELSE 1
        type(a) == <<a.tp, IF a.v.t = "uint" THEN 128 ELSE 0>>
        value(a) == CASE a.v = Null -> <<>>
                      [] a.v.t = "str" -> PutLengthEncodedString(a.v.s)
                      [] OTHER -> UintToBytes(a.v.n, Width(a.tp))
        each(i) == type(args[i])
    IN  <<COM_STMT_EXECUTE>> \o UintToBytes(id, 4) \o <<0, 1, 0, 0, 0>>
        \o IF args = <<>> THEN <<>>
           ELSE Bitmap(Len(args), nulls) \o <<bound>>
                \o IF bound = 0 THEN <<>>
                   ELSE FlattenSeq([i \in 1..Len(args) |-> each(i)])
                        \o FlattenSeq([i \in 1..Len(args) |-> value(args[i])])

(* the texts of the statements the library sends itself; that of Begin     *)
(* stands for those of Commit and Rollback, which are sent the same way    *)
BEGIN == <<81>>
SET_NAMES(cs) == <<84, cs>>
SET_AUTOCOMMIT(n) == <<85, n>>

IsAutoCommit(cli) == (cli.status \div SERVER_STATUS_AUTOCOMMIT) % 2 = 1

exec(query) == writeCommandStr(COM_QUERY, query)

(* SetAutoCommit(n): what it sends when autocommit is on does not depend   *)
(* on n; <<>> when it sends nothing                                        *)
SetAutoCommit(cli, n) ==
    IF n /\ ~IsAutoCommit(cli) THEN exec(SET_AUTOCOMMIT(1))
    ELSE IF IsAutoCommit(cli) THEN exec(SET_AUTOCOMMIT(0)) ELSE <<>>

SetCharset(cli, cs) == IF cli.charset = cs THEN <<>> ELSE exec(SET_NAMES(cs))

(* UseDB of the client *)
SelectDB(cli, db) == IF cli.db = db THEN <<>> ELSE writeCommandStr(COM_INIT_DB, db)

(* the packet of command [op, arg], or <<>> when nothing is sent *)
CommandPacket(cli, cmd) ==
    CASE cmd.op = "Ping" -> writeCommand(COM_PING)
      [] cmd.op = "UseDB" -> SelectDB(cli, cmd.arg)
      [] cmd.op = "exec" -> exec(cmd.arg)
      [] cmd.op = "SetCharset" -> SetCharset(cli, cmd.arg)
      [] cmd.op = "SetAutoCommit" -> SetAutoCommit(cli, cmd.arg)
      [] cmd.op = "FieldList" -> writeCommandStrStr(COM_FIELD_LIST, cmd.arg, <<37>>)
      [] cmd.op = "Prepare" -> writeCommandStr(COM_STMT_PREPARE, cmd.arg)
      [] cmd.op = "Execute" -> writeStmt(cli.stmt.id, cmd.arg)
      [] cmd.op = "Close" -> writeCommandUint32(COM_STMT_CLOSE, cli.stmt.id)
      \* what only other clients send
      [] cmd.op = "Reset" -> writeCommandUint32(COM_STMT_RESET, cli.stmt.id)
      [] cmd.op = "SendLongData" ->
           writeCommandUint32(COM_STMT_SEND_LONG_DATA, cli.stmt.id)
           \o UintToBytes(0, 2) \o cmd.arg
      [] cmd.op = "Reexecute" ->    \* with the types of the execution before
           <<COM_STMT_EXECUTE>> \o UintToBytes(cli.stmt.id, 4) \o <<0, 1, 0, 0, 0>>
           \o Bitmap(cli.stmt.params, {}) \o <<0>> \o cmd.arg
      [] cmd.op = "ExecuteLong" ->  \* its parameter has been sent as long data
           <<COM_STMT_EXECUTE>> \o UintToBytes(cli.stmt.id, 4) \o <<0, 1, 0, 0, 0>>
           \o Bitmap(cli.stmt.params, {}) \o <<1, BLOB, 0>>
      [] cmd.op = "SetOption" -> writeCommand(COM_SET_OPTION)
      [] cmd.op = "Quit" -> writeCommand(COM_QUIT)

NoResponse == {"Close", "SendLongData", "Quit"}
-----------------------------------------------------------------------------
(* Results. A reader takes packets from frames and gives [status, v, rest, *)
(* tags]: "wait" when it needs more than has come.                         *)

(* Mutant: the first byte alone makes an EOF packet *)
StartsLikeEOF(data) == data[1] = EOF_HEADER

isEOFPacket(data) == data[1] = EOF_HEADER /\ Len(data) <= 5

handleOKPacket(data) ==
    LET result(a, i) == AnOK([affected |-> a.num, insertId |-> i.num,
                              status |-> FixedLengthInt(Slice(data, 1 + a.n + i.n, 2))])
        behind(a) == result(a, LengthEncodedInt(From(data, 1 + a.n)))
    IN  behind(LengthEncodedInt(From(data, 1)))

handleErrorPacket(data) == AnErr(data[2])

(* a reader that has read packet p and answers v *)
Done(p, v) == [status |-> p.status, v |-> v, seq |-> p.seq, rest |-> p.rest,
               tags |-> p.tags]

(* what else than EOF ends a list: of rows an error packet, of fields that *)
(* are parsed the first that does not parse                                *)
Breaks(list, data) == CASE list = "rows" -> data[1] = ERR_HEADER
                        [] list = "fields" -> Parse(data).fault # ""
                        [] list = "skipped" -> FALSE

(* the packets up to EOF, or up to one that breaks the list *)
RECURSIVE readUntilEOF(_, _, _)
readUntilEOF(seq, frames, list) ==
    LET upTo(p) ==
            IF p.status # "ok" \/ isEOFPacket(p.data) THEN Done(p, <<>>)
            ELSE IF Breaks(list, p.data) THEN Done(p, <<p.data>>)
            ELSE [readUntilEOF(p.seq, p.rest, list) EXCEPT !.v = <<p.data>> \o @,
                                                           !.tags = @ \cup p.tags]
    IN  upTo(ReadPacket(seq, frames))

readOK(seq, frames) ==
    LET of(p) == Done(p, CASE p.status # "ok" -> AnErr(0)
                           [] p.status = "ok" ->
                                CASE p.data[1] = OK_HEADER -> handleOKPacket(p.data)
                                  [] p.data[1] = ERR_HEADER -> handleErrorPacket(p.data)
                                  [] OTHER -> AnErr(ErrMalform))
    IN  of(ReadPacket(seq, frames))

(* what a reader makes of the packets of a list of fields *)
Fields(packets) ==
    LET of(parsed) ==
            CASE \E j \in DOMAIN parsed : parsed[j].fault = "panic" -> Answer("panic")
              [] \E j \in DOMAIN parsed : parsed[j].fault = "malformed" -> AnErr(ErrMalform)
              [] OTHER -> [kind |-> "fields", fields |-> [j \in DOMAIN parsed |-> parsed[j].f]]
    IN  of([j \in 1..Len(packets) |-> Parse(packets[j])])

(* readResultColumns: as many definitions as the count says, then EOF; for *)
(* one more there is no place                                              *)
readResultColumns(seq, frames, count) ==
    LET columns(packets, v) ==
            IF Len(packets) > count THEN Answer("panic")
            ELSE IF v.kind = "fields" /\ Len(packets) # count THEN AnErr(ErrMalform) ELSE v
        of(cols) == [cols EXCEPT !.v = IF cols.status # "ok" THEN AnErr(0)
                                       ELSE columns(@, Fields(@))]
    IN  of(readUntilEOF(seq, frames, "fields"))

(* readResultRows: up to EOF or an error packet *)
readResultRows(seq, frames, fields, binary) ==
    LET result(data, parsed) ==
            IF \E i \in DOMAIN parsed : parsed[i].err THEN AnErr(ErrMalform)
            ELSE [kind |-> "rows", fields |-> fields, rows |-> data,
                  vals |-> [i \in DOMAIN parsed |-> parsed[i].vals]]
        of(rows) ==
            [rows EXCEPT !.v =
                IF rows.status # "ok" THEN AnErr(0)
                ELSE IF @ # <<>> /\ Last(@)[1] = ERR_HEADER THEN handleErrorPacket(Last(@))
                ELSE result(@, [i \in 1..Len(@) |-> RowParse(fields, rows.v[i], binary)])]
    IN  of(readUntilEOF(seq, frames, "rows"))

(* readResultset: first is the packet with the count of columns *)
readResultset(first, binary) ==
    LET behind(cols) ==
            IF cols.v.kind # "fields" THEN [cols EXCEPT !.tags = @ \cup first.tags]
            ELSE [readResultRows(cols.seq, cols.rest, cols.v.fields, binary)
                    EXCEPT !.tags = @ \cup first.tags \cup cols.tags]
        columns(count) ==
            IF count.n # Len(first.data) THEN Done(first, AnErr(ErrMalform))
            ELSE behind(readResultColumns(first.seq, first.rest, count.num))
    IN  columns(LengthEncodedInt(first.data))

readResult(seq, frames, binary) ==
    LET of(p) ==
            IF p.status # "ok" THEN Done(p, AnErr(0))
            ELSE CASE p.data[1] = OK_HEADER -> Done(p, handleOKPacket(p.data))
                   [] p.data[1] = ERR_HEADER -> Done(p, handleErrorPacket(p.data))
                   [] p.data[1] = NullByte -> Done(p, AnErr(ErrMalform))
                   [] OTHER -> readResultset(p, binary)
    IN  of(ReadPacket(seq, frames))

(* FieldList: the library does not look at the first packet, and returns   *)
(* at a field that does not parse, with the rest of the list unread        *)
readFieldList(seq, frames, library) ==
    LET list(p, r) == [r EXCEPT !.v = IF r.status # "ok" THEN AnErr(0) ELSE Fields(@),
                                !.tags = @ \cup p.tags]
        of(p) ==
            CASE p.status # "ok" -> Done(p, AnErr(0))
              [] p.status = "ok" ->
                   IF p.data[1] = ERR_HEADER THEN Done(p, handleErrorPacket(p.data))
                   ELSE list(p, readUntilEOF(IF library THEN p.seq ELSE seq,
                                             IF library THEN p.rest ELSE frames, "fields"))
    IN  of(ReadPacket(seq, frames))

(* Prepare *)
readPrepare(seq, frames) ==
    LET stmt(data) == [id |-> FixedLengthInt(Slice(data, 1, 4)),
                       columns |-> FixedLengthInt(Slice(data, 5, 2)),
                       params |-> FixedLengthInt(Slice(data, 7, 2))]
        \* n definitions behind what has been read, skipped
        skip(r, n) == IF n > 0 /\ r.status = "ok"
                      THEN [readUntilEOF(r.seq, r.rest, "skipped") EXCEPT !.tags = @ \cup r.tags]
                      ELSE r
        end(r, st) == [r EXCEPT !.v = IF r.status # "ok" THEN AnErr(0)
                                      ELSE [kind |-> "stmt", stmt |-> st]]
        lists(p, st) == end(skip(skip(Done(p, <<>>), st.params), st.columns), st)
        of(p) ==
            IF p.status # "ok" THEN Done(p, AnErr(0))
            ELSE CASE p.data[1] = ERR_HEADER -> Done(p, handleErrorPacket(p.data))
                   [] p.data[1] = OK_HEADER -> lists(p, stmt(p.data))
                   [] OTHER -> Done(p, AnErr(ErrMalform))
    IN  of(ReadPacket(seq, frames))

(* the reader of command op *)
ReadAnswer(conf, op, seq, frames) ==
    CASE op \in {"Ping", "UseDB", "Reset", "SetOption"} -> readOK(seq, frames)
      [] op \in {"exec", "SetCharset", "SetAutoCommit", "Execute", "Reexecute", "ExecuteLong"} ->
           readResult(seq, frames, op \in {"Execute", "Reexecute", "ExecuteLong"})
      [] op = "FieldList" -> readFieldList(seq, frames, Library(conf))
      [] op = "Prepare" -> readPrepare(seq, frames)

=============================================================================
