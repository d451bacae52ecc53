---------------------------- MODULE MySQLServer -----------------------------
(***************************************************************************)
(* The server side of the MySQL protocol library, which the SQL proxy and  *)
(* the SQLite node put in front of their handlers: the handshake with its  *)
(* three authentication plugins, and one command after the other.          *)
(*                                                                         *)
(* Operators only: srv is a server.Conn, and a step gives the packets it   *)
(* writes. conf is the configuration of both ends:                         *)
(*   handler  "sqlite", "proxy" (over a MySQL server) or "helper" (a       *)
(*            handler that builds its results with the library's helpers)  *)
(*   plugin, provider, pw   the server's plugin, provider and password     *)
(*   tls, cplugin, caps, db, user, cpw   the client's side, MySQLClient    *)
(* Hashes and ciphertexts are elements that differ when their inputs do.   *)
(***************************************************************************)
EXTENDS Resultset

NATIVE  == 201   \* mysql_native_password
CACHING == 202   \* caching_sha2_password
SHA256  == 203   \* sha256_password

(* capability flags *)
CLIENT_SSL == 1
CLIENT_PLUGIN_AUTH_LENENC_CLIENT_DATA == 2
CLIENT_CONNECT_WITH_DB == 4
CLIENT_PLUGIN_AUTH == 8
CLIENT_PROTOCOL_41 == 16
CLIENT_SECURE_CONNECTION == 32
Has(cap, flag) == (cap \div flag) % 2 = 1

CACHE_SHA2_FAST_AUTH == 3
CACHE_SHA2_FULL_AUTH == 4

COM_QUIT         == 1
COM_INIT_DB      == 2
COM_QUERY        == 3
COM_FIELD_LIST   == 4
COM_PING         == 14
COM_STMT_PREPARE == 22
COM_STMT_EXECUTE == 23
COM_STMT_SEND_LONG_DATA == 24
COM_STMT_CLOSE   == 25
COM_STMT_RESET   == 26
COM_SET_OPTION   == 27

KnownUser == <<41>>
KnownDb   == {<<51>>, <<52>>}   \* the databases of the server behind a proxy
PubKey    == <<61>>

CalcPassword(salt, pw) == IF pw = <<>> THEN <<>> ELSE <<10000 + 100 * salt[1] + pw[1]>>
CalcCachingSha2Password(salt, pw) ==
    IF pw = <<>> THEN <<>> ELSE <<20000 + 1000 * Len(salt) + 100 * salt[1] + pw[1]>>
EncryptPassword(pw, seed) ==
    <<90000 + 100 * seed[1] + (IF pw = <<>> THEN 0 ELSE pw[1])>>
IsCiphertext(b) == Len(b) = 1 /\ b[1] >= 90000
-----------------------------------------------------------------------------
(* Packets *)

OKPacket(r) == <<OK_HEADER>> \o PutLengthEncodedInt(r.affected)
               \o PutLengthEncodedInt(r.insertId) \o UintToBytes(r.status, 2) \o <<0, 0>>
NoResult    == [affected |-> 0, insertId |-> 0, status |-> 0]
ErrPacket(code) == <<ERR_HEADER, code, 0>>
(* no code sets the status of a server.Conn: it is 0 *)
EOFPacket   == <<EOF_HEADER, 0, 0, 0, 0>>

ER_ACCESS_DENIED == 70
ER_NO_SUCH_USER  == 71
ER_UNKNOWN       == 72
ER_HANDSHAKE     == 73
ErrMalform       == 74
ER_UNKNOWN_STMT  == 75

writeInitialHandshake(conf, salt) ==
    <<10, 57, 0, 9, salt[1], 0, CLIENT_SSL + CLIENT_PROTOCOL_41, 33, 0, 0, 21, 0,
      salt[2], 0, conf.plugin, 0>>
writeAuthSwitchRequest(plugin, salt) == <<EOF_HEADER, plugin, 0>> \o salt \o <<0>>
MoreDataPubkey   == <<MORE_DATE_HEADER>> \o PubKey
MoreDataFullAuth == <<MORE_DATE_HEADER, CACHE_SHA2_FULL_AUTH>>
MoreDataFastAuth == <<MORE_DATE_HEADER, CACHE_SHA2_FAST_AUTH>>

(* NewClientConn: a connection whose first packet has been written *)
NewConn(conf) ==
    [phase |-> "response", seq |-> 1, salt |-> <<21, 22>>, plugin |-> 0, cap |-> 0,
     fullAuth |-> FALSE, user |-> <<>>, db |-> <<>>, tls |-> FALSE,
     stmts |-> <<>>, stmtID |-> 0]
-----------------------------------------------------------------------------
(* Authentication. A verdict is [v, out]: "ok", an error code, or how the  *)
(* exchange goes on ("more": read a packet, "full": read one of a full     *)
(* authentication, "rsa": read the encrypted password).                    *)

Verdict(v, out) == [v |-> v, code |-> 0, out |-> out]
Deny(code)      == [v |-> "deny", code |-> code, out |-> <<>>]
Accept(b)       == IF b THEN Verdict("ok", <<>>) ELSE Deny(ER_ACCESS_DENIED)
Found(srv)      == srv.user = KnownUser    \* acquirePassword finds the user

StripNul(b) == IF b # <<>> /\ Last(b) = 0 THEN Front(b) ELSE b

compareNativePasswordAuthData(conf, srv, auth) ==
    Accept(CalcPassword(srv.salt, conf.pw) = auth)

(* scrambleValidation: the cached hash is that of a password *)
scrambleValidation(cached, nonce, scramble) ==
    scramble = CalcCachingSha2Password(nonce, cached)

(* Mutant: the NUL behind a password in clear is taken for a part of it *)
ClearWithNul(conf, srv, auth) ==
    IF srv.tls THEN Accept(auth = conf.pw)
    ELSE IF ~IsCiphertext(auth) THEN Deny(ER_UNKNOWN)
    ELSE Accept(auth = EncryptPassword(conf.pw, srv.salt))

(* the password in clear under TLS, encrypted with the salt otherwise *)
ClearOrEncrypted(conf, srv, auth) ==
    IF srv.tls THEN Accept(StripNul(auth) = conf.pw)
    ELSE IF ~IsCiphertext(auth) THEN Deny(ER_UNKNOWN)
    ELSE Accept(auth = EncryptPassword(conf.pw, srv.salt))

compareSha256PasswordAuthData(conf, srv, auth) ==
    IF auth = <<>> THEN Accept(conf.pw = <<>>) ELSE ClearOrEncrypted(conf, srv, auth)

compareCacheSha2PasswordAuthData(conf, cache, srv, auth) ==
    CASE auth = <<>> /\ ~Found(srv) -> Deny(ER_NO_SUCH_USER)
      [] auth = <<>> /\ Found(srv) -> Accept(conf.pw = <<>>)
      [] auth # <<>> /\ conf.provider = "memory" ->
           IF ~Found(srv) THEN Deny(ER_NO_SUCH_USER)
           ELSE IF CalcCachingSha2Password(srv.salt, conf.pw) = auth
           THEN Verdict("ok", <<MoreDataFastAuth>>) ELSE Deny(ER_ACCESS_DENIED)
      [] auth # <<>> /\ conf.provider # "memory" /\ srv.user \in DOMAIN cache ->
           IF scrambleValidation(cache[srv.user], srv.salt, auth)
           THEN Verdict("ok", <<MoreDataFastAuth>>) ELSE Deny(ER_ACCESS_DENIED)
      [] OTHER -> Verdict("full", <<MoreDataFullAuth>>)

handleCachingSha2PasswordFullAuth(conf, srv, auth) ==
    IF ~Found(srv) THEN Deny(ER_NO_SUCH_USER)
    ELSE IF ~srv.tls /\ auth = <<2>> THEN Verdict("rsa", <<MoreDataPubkey>>)
    ELSE ClearOrEncrypted(conf, srv, auth)

(* handlePublicKeyRetrieval; every server of this code has certificates *)
RequestsKey(srv, auth) == srv.plugin = SHA256 /\ auth = <<1>>

compareAuthData(conf, cache, srv, auth) ==
    CASE srv.plugin = NATIVE ->
           IF Found(srv) THEN compareNativePasswordAuthData(conf, srv, auth)
           ELSE Deny(ER_NO_SUCH_USER)
      [] srv.plugin = CACHING -> compareCacheSha2PasswordAuthData(conf, cache, srv, auth)
      [] srv.plugin = SHA256 ->
           IF ~Found(srv) THEN Deny(ER_NO_SUCH_USER)
           ELSE IF RequestsKey(srv, auth) THEN Verdict("more", <<MoreDataPubkey>>)
           ELSE compareSha256PasswordAuthData(conf, srv, auth)

(* readAuthSwitchRequestResponse: a single NUL is no data *)
SwitchResponse(data) == IF data = <<0>> THEN <<>> ELSE data

handleAuthSwitchResponse(conf, cache, srv, data) ==
    LET auth == SwitchResponse(data) IN
    CASE srv.plugin = CACHING /\ srv.fullAuth ->
           handleCachingSha2PasswordFullAuth(conf, srv, auth)
      [] RequestsKey(srv, auth) -> Verdict("more", <<MoreDataPubkey>>)
      [] OTHER -> compareAuthData(conf, cache, srv, auth)

UseDB(conf, db) == conf.handler # "proxy" \/ db \in KnownDb

(* The handshake response is <<caps, max packet, charset, filler>>, which  *)
(* alone asks for TLS, then user NUL, auth data, db NUL, plugin NUL.       *)
SSLRequestLen == 4

readAuthData(cap, data, pos) ==
    LET n == data[pos + 1]
        encoded(e) == [auth |-> e.str, pos |-> pos + e.n, err |-> e.err \/ e.isNull]
    IN  IF Has(cap, CLIENT_PLUGIN_AUTH_LENENC_CLIENT_DATA)
        THEN encoded(LengthEncodedString(From(data, pos)))
        ELSE [auth |-> Slice(data, pos + 1, n), pos |-> pos + 1 + n,
              err |-> Len(data) < pos + 1 + n]

(* readUserName: up to the next NUL, as readDb and readPluginName read theirs *)
UpToNul(data, pos) == Slice(data, pos, IndexNul(From(data, pos)))

(* [db, has, pos]: a database name at pos, if the client sends one *)
readDb(srv, data, pos) ==
    LET name(db) == [db |-> db, has |-> TRUE, pos |-> pos + Len(db) + 1] IN
    IF Has(srv.cap, CLIENT_CONNECT_WITH_DB) /\ Len(data) > pos THEN name(UpToNul(data, pos))
    ELSE [db |-> srv.db, has |-> FALSE, pos |-> pos]

readPluginName(srv, data, pos) ==
    LET plugin(name) == IF name = <<>> THEN 0 ELSE name[1] IN
    IF Has(srv.cap, CLIENT_PLUGIN_AUTH) THEN plugin(UpToNul(data, pos)) ELSE NATIVE

(* handleAuthMatch: a client with another plugin is asked to switch, with  *)
(* a new salt; [srv, verdict]                                              *)
handleAuthMatch(conf, cache, srv, auth) ==
    LET s == [srv EXCEPT !.plugin = conf.plugin, !.salt = <<23, 24>>] IN
    IF srv.plugin = conf.plugin
    THEN [srv |-> srv, verdict |-> compareAuthData(conf, cache, srv, auth)]
    ELSE [srv |-> s, verdict |->
            Verdict("more", <<writeAuthSwitchRequest(conf.plugin, s.salt)>>)]

(* [srv, verdict] of readHandshakeResponse once TLS is settled *)
readHandshakeResponse(conf, cache, srv, data) ==
    LET match(user, a, d) ==
            IF d.has /\ ~UseDB(conf, d.db) THEN [srv |-> srv, verdict |-> Deny(ER_UNKNOWN)]
            ELSE handleAuthMatch(conf, cache,
                                 [srv EXCEPT !.user = user, !.db = d.db,
                                             !.plugin = readPluginName(srv, data, d.pos)],
                                 a.auth)
        checked(user, a) == IF a.err THEN [srv |-> srv, verdict |-> Deny(ER_HANDSHAKE)]
                            ELSE match(user, a, readDb(srv, data, a.pos))
        of(user) == checked(user, readAuthData(srv.cap, data, SSLRequestLen + Len(user) + 1))
    IN  of(UpToNul(data, SSLRequestLen))

(* decodeFirstPart: the checks on the capabilities, and the TLS request *)
decodeFirstPart(conf, cache, srv, data) ==
    LET s == [srv EXCEPT !.cap = data[1]] IN
    CASE ~Has(s.cap, CLIENT_PROTOCOL_41) \/ ~Has(s.cap, CLIENT_SECURE_CONNECTION) ->
           [srv |-> srv, verdict |-> Deny(ER_UNKNOWN)]
      [] OTHER ->
           IF Len(data) = SSLRequestLen
           THEN [srv |-> [s EXCEPT !.tls = TRUE], verdict |-> Verdict("again", <<>>)]
           ELSE readHandshakeResponse(conf, cache, s, data)

(* handshake: what the verdict makes of the connection. An accepted client *)
(* gets OK and the sequence starts anew; a refused one is disconnected.    *)
handshake(srv, verdict) ==
    CASE verdict.v = "ok" ->
           [srv |-> [srv EXCEPT !.phase = "ready"],
            out |-> Append(verdict.out, OKPacket(NoResult))]
      [] verdict.v = "deny" -> [srv |-> [srv EXCEPT !.phase = "closed"],
                                out |-> Append(verdict.out, ErrPacket(verdict.code))]
      [] verdict.v = "again" -> [srv |-> srv, out |-> <<>>]
      [] verdict.v = "more" -> [srv |-> [srv EXCEPT !.phase = "switch"], out |-> verdict.out]
      [] verdict.v = "full" -> [srv |-> [srv EXCEPT !.phase = "switch", !.fullAuth = TRUE],
                                out |-> verdict.out]
      [] verdict.v = "rsa" -> [srv |-> [srv EXCEPT !.phase = "rsa"], out |-> verdict.out]

(* whether the server remembers the password of an accepted client *)
writeCachingSha2Cache(conf, srv, verdict) ==
    srv.fullAuth /\ verdict.v = "ok" /\ conf.pw # <<>>

(* one packet of the handshake: [srv, out, learn] *)
HandshakeStep(conf, cache, srv, data) ==
    LET same(verdict) == [srv |-> srv, verdict |-> verdict]
        end(r) == [learn |-> writeCachingSha2Cache(conf, srv, r.verdict)]
                  @@ handshake(r.srv, r.verdict)
    IN  end(CASE srv.phase = "response" -> decodeFirstPart(conf, cache, srv, data)
              [] srv.phase = "switch" -> same(handleAuthSwitchResponse(conf, cache, srv, data))
              [] srv.phase = "rsa" -> same(ClearOrEncrypted(conf, srv, SwitchResponse(data))))
-----------------------------------------------------------------------------
(* Commands. A handler's answer and the value written back are             *)
(* [kind |-> "ok", r], "rows" (fields, rows), "fields" (fields), "stmt"    *)
(* (stmt), "err" (code), "none" (a command without a response) or "panic", *)
(* which the connection's goroutine recovers from by closing it.           *)

Answer(kind) == [kind |-> kind]
AnOK(r)      == [kind |-> "ok", r |-> r]
AnErr(code)  == [kind |-> "err", code |-> code]

writeFieldList(fields) == Append([j \in 1..Len(fields) |-> Dump(fields[j])], EOFPacket)

writeResultset(r) == <<PutLengthEncodedInt(Len(r.fields))>> \o writeFieldList(r.fields)
                     \o Append(r.rows, EOFPacket)

(* writePrepare: a list of fields for the parameters and one for the       *)
(* columns, each only when there are any                                   *)
writePrepare(st) ==
    LET list(n) == IF n = 0 THEN <<>>
                   ELSE Append([i \in 1..n |-> Dump(EmptyField)], EOFPacket)
    IN  << <<OK_HEADER>> \o UintToBytes(st.id, 4) \o UintToBytes(st.columns, 2)
           \o UintToBytes(st.params, 2) \o <<0, 0, 0>> >>
        \o list(st.params) \o list(st.columns)

WriteValue(v) ==
    CASE v.kind = "ok" -> <<OKPacket(v.r)>>
      [] v.kind = "rows" -> writeResultset(v)
      [] v.kind = "fields" -> writeFieldList(v.fields)
      [] v.kind = "stmt" -> writePrepare(v.stmt)
      [] v.kind = "err" -> <<ErrPacket(v.code)>>
      [] v.kind \in {"none", "panic"} -> <<>>

(* A parameter is [tp, v]: the type byte its Go type stands for, a value.  *)
Nil == [tp |-> NULL, v |-> Null]
ResetParams(st) == [st EXCEPT !.args = [i \in 1..st.params |-> Nil]]

(* one parameter at the start of b: [err, arg, n] *)
bindArg(tp, unsigned, b) ==
    LET number(raw) == CASE tp \in {FLOAT, DOUBLE} -> FloatV(FixedLengthInt(raw))
                         [] unsigned -> UintV(FixedLengthInt(raw))
                         [] OTHER -> IntV(ParseBinaryInt(raw))
        string(e) == [err |-> b = <<>> \/ e.err, n |-> e.n,
                      arg |-> IF e.isNull THEN Nil
                              ELSE [tp |-> STRING_TYPE, v |-> StrV(e.str)]]
    IN  IF tp = NULL THEN [err |-> FALSE, arg |-> Nil, n |-> 0]
        ELSE IF tp \in StrTypes THEN string(LengthEncodedString(b))
        ELSE IF Len(b) < Width(tp) THEN [err |-> TRUE, arg |-> Nil, n |-> 0]
        ELSE [err |-> FALSE, n |-> Width(tp),
              arg |-> [tp |-> tp, v |-> number(Slice(b, 0, Width(tp)))]]

(* bindStmtArgs: [fault, pos, args]. Without the types of this execution a      *)
(* parameter that is not NULL is an index error.                           *)
bindStmtArgs(st, bitmap, types, values) ==
    LET put(acc, i, a) ==
            IF a.err THEN [acc EXCEPT !.fault = "malformed"]
            ELSE [fault |-> "", pos |-> acc.pos + a.n,
                  args |-> [acc.args EXCEPT ![i] = a.arg]]
        bind(acc, i) ==
            IF acc.fault # "" THEN acc
            ELSE IF HasBit(bitmap, i - 1)
            THEN [acc EXCEPT !.args = [acc.args EXCEPT ![i] = Nil]]
            ELSE IF types = <<>> THEN [acc EXCEPT !.fault = "panic"]
            ELSE put(acc, i, bindArg(types[2 * i - 1], types[2 * i] = 128,
                                     From(values, acc.pos)))
    IN  FoldLeft(bind, [fault |-> "", pos |-> 0, args |-> st.args],
                 [i \in 1..st.params |-> i])

StmtId(data) == FixedLengthInt(Slice(data, 0, 4))
HasStmt(srv, id) == id \in DOMAIN srv.stmts

(* [srv, v, args]: ans is what HandleStmtExecute answers, args what it got *)
handleStmtExecute(srv, data, ans) ==
    LET bound(st, pos) ==    \* pos is that of the flag behind the bitmap
            IF st.params = 0 THEN [fault |-> "", args |-> <<>>]
            ELSE IF data[pos + 1] = 1
            THEN bindStmtArgs(st, Slice(data, 9, pos - 9), Slice(data, pos + 1, 2 * st.params),
                              From(data, pos + 1 + 2 * st.params))
            ELSE bindStmtArgs(st, Slice(data, 9, pos - 9), <<>>, <<>>)
        answer(id, b, st) ==
            [srv |-> [srv EXCEPT !.stmts = [@ EXCEPT ![id] =
                        IF b.fault # "" \/ ans.kind = "err" THEN st ELSE ResetParams(st)]],
             v |-> CASE b.fault = "panic" -> Answer("panic")
                     [] b.fault = "malformed" -> AnErr(ErrMalform) [] b.fault = "" -> ans,
             args |-> IF b.fault = "" THEN b.args ELSE <<>>]
        executed(id, st, b) == answer(id, b, [st EXCEPT !.args = b.args])
        of(id, st) == executed(id, st, bound(st, 9 + (st.params + 7) \div 8))
        found(id) == IF HasStmt(srv, id) THEN of(id, srv.stmts[id])
                     ELSE [srv |-> srv, v |-> AnErr(ER_UNKNOWN_STMT), args |-> <<>>]
    IN  found(StmtId(data))

(* appends to a parameter that has bytes, or sets one that has nothing *)
handleStmtSendLongData(srv, data) ==
    LET append(id, p) ==
            IF \/ ~HasStmt(srv, id) \/ p > srv.stmts[id].params
               \/ srv.stmts[id].args[p].v.t \notin {"null", "str"}
            THEN srv
            ELSE [srv EXCEPT !.stmts[id].args[p] =
                    [tp |-> STRING_TYPE, v |-> StrV(@.v.s \o From(data, 6))]]
    IN  append(StmtId(data), FixedLengthInt(Slice(data, 4, 2)) + 1)

To(srv, v) == [srv |-> srv, v |-> v, args |-> <<>>]

handleStmtReset(srv, id) ==
    IF ~HasStmt(srv, id) THEN To(srv, AnErr(ER_UNKNOWN_STMT))
    ELSE To([srv EXCEPT !.stmts = [@ EXCEPT ![id] = ResetParams(@)]], AnOK(NoResult))

(* Closing a statement of the SQLite node fails, as its context is no      *)
(* statement of a client, and so answers a command that has no response.   *)
handleStmtClose(conf, srv, id) ==
    IF ~HasStmt(srv, id) THEN To(srv, Answer("none"))
    ELSE IF conf.handler = "sqlite" THEN To(srv, AnErr(ER_UNKNOWN))
    ELSE To([srv EXCEPT !.stmts = [i \in DOMAIN @ \ {id} |-> @[i]]], Answer("none"))

(* dispatch: [srv, v, args], with ans the answer of the handler's method *)
dispatch(conf, srv, data, ans) ==
    LET arg == Tail(data)
        id  == StmtId(arg)
        st  == [id |-> srv.stmtID + 1, params |-> ans.params, columns |-> ans.columns,
                args |-> [i \in 1..ans.params |-> Nil]]
    IN  CASE data[1] = COM_QUIT -> To([srv EXCEPT !.phase = "closed"], Answer("none"))
          [] data[1] \in {COM_QUERY, COM_FIELD_LIST} -> To(srv, ans)
          [] data[1] = COM_PING -> To(srv, AnOK(NoResult))
          [] data[1] = COM_INIT_DB ->
               IF UseDB(conf, arg) THEN To([srv EXCEPT !.db = arg], AnOK(NoResult))
               ELSE To(srv, AnErr(ER_UNKNOWN))
          [] data[1] = COM_STMT_PREPARE ->
               IF ans.kind = "err" THEN To([srv EXCEPT !.stmtID = @ + 1], ans)
               ELSE To([srv EXCEPT !.stmtID = @ + 1,
                                   !.stmts = [i \in DOMAIN @ \cup {st.id} |->
                                                IF i = st.id THEN st ELSE @[i]]],
                       [kind |-> "stmt", stmt |-> st])
          [] data[1] = COM_STMT_EXECUTE -> handleStmtExecute(srv, arg, ans)
          [] data[1] = COM_STMT_CLOSE -> handleStmtClose(conf, srv, id)
          [] data[1] = COM_STMT_SEND_LONG_DATA ->
               To(handleStmtSendLongData(srv, arg), Answer("none"))
          [] data[1] = COM_STMT_RESET -> handleStmtReset(srv, id)
          [] OTHER -> To(srv, AnErr(ER_UNKNOWN))   \* HandleOtherCommand

=============================================================================
