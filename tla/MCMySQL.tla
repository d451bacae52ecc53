------------------------------ MODULE MCMySQL -------------------------------
(* Values for model checking the MySQL protocol library.                   *)
EXTENDS MySQLLink, Gtid

Str(n) == [i \in 1..n |-> 65 + (i % 3)]     \* n characters

(* both programs use NewDefaultServer; the other servers are for libraries *)
MCServers ==
    [handler : {"sqlite", "proxy"}, plugin : {NATIVE}, provider : {"memory"}, pw : {<<31>>}]
    \cup {x \in [handler : {"helper"}, plugin : {NATIVE, CACHING, SHA256},
                  provider : {"memory", "other"}, pw : {<<>>, <<31>>}] :
             x.provider = "other" => x.plugin = CACHING}

(* a client of sessions, and one of statements *)
SessionOps == {"Ping", "UseDB", "exec", "SetCharset", "SetAutoCommit", "FieldList",
               "SetOption", "Quit"}
StmtOps == {"Ping", "Prepare", "Execute", "Close", "Reset", "SendLongData",
            "ExecuteLong", "Reexecute"}

(* every way to log in, followed by a ping; and clients that work on *)
AnyLogin ==
    [tls : BOOLEAN, cplugin : {0, NATIVE, CACHING, SHA256}, db : {<<>>, <<51>>, <<53>>},
     user : {KnownUser, <<42>>}, cpw : {<<>>, <<31>>, <<32>>}, asks : {{"Ping"}}]
Working ==
    [tls : {FALSE}, cplugin : {0, NATIVE}, db : {<<51>>}, user : {KnownUser},
     cpw : {<<31>>}, asks : {SessionOps, StmtOps}]

MCLoginsTo(c) == IF c.asks \in {SessionOps, StmtOps} THEN {}
                 ELSE AnyLogin \cup (IF c.plugin = NATIVE /\ c.pw # <<>> THEN Working ELSE {})

Arg(tp, v) == [tp |-> tp, v |-> v]
MCArgs == { <<>>, <<Arg(TINY, IntV(-1))>>, <<Arg(LONGLONG, UintV(Base))>>,
            <<Arg(STRING_TYPE, StrV(Str(Base)))>>, <<Nil>>,
            <<Arg(SHORT, IntV(-Base - 1)), Nil>>, <<Nil, Arg(DOUBLE, FloatV(3))>>,
            <<Arg(STRING_TYPE, StrV(<<>>)), Arg(LONG, UintV(5))>> }

MCRequests ==
    [op : {"Ping", "Close", "Reset", "SetOption", "Quit", "ExecuteLong"}, arg : {<<>>}]
    \cup [op : {"UseDB"}, arg : {<<51>>, <<52>>, <<53>>}]
    \cup [op : {"exec"}, arg : {BEGIN, Str(MaxPayloadLen - 1), Str(2 * MaxPayloadLen)}]
    \cup [op : {"SetCharset"}, arg : {DEFAULT_CHARSET, 45}]
    \cup [op : {"SetAutoCommit"}, arg : BOOLEAN]
    \cup [op : {"FieldList", "Prepare"}, arg : {<<91>>}]
    \cup [op : {"Execute"}, arg : MCArgs]
    \cup [op : {"SendLongData"}, arg : {<<71>>}]
    \cup [op : {"Reexecute"}, arg : {<<7>>}]

All == {"sqlite", "proxy", "helper"}
Sql(tp) == <<tp, 0>>
Table(by, names, types, vals) == [by |-> by, names |-> names, types |-> types, vals |-> vals]
MCTables ==
    { Table(All, <<<<71>>>>, <<Sql(INT24)>>, <<>>),
      Table(All, <<<<71>>, Str(Base)>>, <<Sql(INT24), Sql(VARCHAR)>>,
            << <<IntV(-1), StrV(<<>>)>>, <<IntV(7), StrV(Str(2))>> >>),
      \* a column count and cells that need a marker byte, and NULLs
      Table({"proxy", "helper"}, <<<<71>>, <<72>>, <<73>>, <<74>>>>,
            <<Sql(VAR_STRING), Sql(DOUBLE), <<LONGLONG, UNSIGNED_FLAG>>, Sql(VAR_STRING)>>,
            << <<StrV(Str(NullByte)), FloatV(2), UintV(Base + 1), StrV(Str(Base^2))>>,
               <<Null, FloatV(0), Null, StrV(<<>>)>> >>),
      \* Go strings, the empty one among them
      Table({"helper"}, <<<<71>>, <<72>>>>, <<Sql(VAR_STRING), Sql(VAR_STRING)>>,
            << <<GoStr(Str(2)), GoStr(Str(1))>> >>),
      Table({"helper"}, <<<<71>>>>, <<Sql(VAR_STRING)>>, << <<GoStr(<<>>)>> >>),
      \* a row that starts with the byte that also starts an EOF packet
      Table({"proxy", "helper"}, <<<<71>>>>, <<Sql(VAR_STRING)>>, << <<StrV(Str(Base^3))>> >>),
      Table({"proxy"}, <<<<71>>, <<72>>, <<73>>, <<74>>, <<75>>, <<76>>, <<77>>, <<78>>>>,
            <<Sql(TINY), <<SHORT, UNSIGNED_FLAG>>, Sql(LONG), Sql(FLOAT), Sql(DATE), Sql(DATETIME),
              Sql(BLOB), Sql(TIME)>>,
            << <<IntV(-4), UintV(63), IntV(-100), FloatV(9), StrV(<<20, 1, 2>>),
                 StrV(<<20, 1, 2, 3, 4, 5>>), StrV(Str(1)), StrV(<<1, 30, 2, 3>>)>>,
               <<Null, Null, IntV(0), Null, StrV(<<0, 0, 0>>), Null, Null, Null>> >>),
      Table({"proxy"}, <<<<71>>>>, <<Sql(TIME)>>, << <<StrV(<<0, 0, 0, 0>>)>> >>),
      \* what the SQLite node does not keep
      Table({"sqlite"}, <<<<71>>, <<72>>>>, <<Sql(BLOB), Sql(INT24)>>,
            << <<StrV(<<66>>), Null>> >>),
      Table({"sqlite"}, <<<<71>>>>, <<Sql(VAR_STRING)>>, << <<StrV(Str(NullByte))>> >>),
      Table({"sqlite"}, <<<<71>>>>, <<Sql(VAR_STRING)>>,
            << <<StrV(Str(ERR_HEADER))>>, <<StrV(Str(Base))>> >>) }

Named(n, def) == [EmptyField EXCEPT !.name = n, !.table = <<91>>, !.type = LONG, !.def = def]
MCLists == { <<Named(<<71>>, <<>>)>>,
             <<Named(<<71>>, <<>>), Named(Str(Base), <<<<49, 50>>>>), Named(<<73>>, <<>>)>>,
             <<Named(<<71>>, <<>>), Named(<<72>>, <<<<>>>>), Named(<<73>>, <<<<>>>>)>>,
             \* default values with a length that reads as a marker byte
             <<Named(<<71>>, <<>>), Named(<<72>>, <<>>), Named(<<73>>, <<Str(EightByte)>>),
               Named(<<74>>, <<>>)>>,
             <<Named(<<71>>, <<>>), Named(<<72>>, <<>>),
               Named(<<73>>, <<[Str(EightByte) EXCEPT ![1] = Base - 1]>>)>> }

MCShapes == {[params |-> 0, columns |-> 1], [params |-> 1, columns |-> 0],
             [params |-> 2, columns |-> 2]}

-----------------------------------------------------------------------------
(* texts of transaction ids: two servers, two domains *)
Spans == {<<1>>, <<2>>, <<4>>, <<1, 2>>, <<2, 4>>, <<4, 2>>, <<Bad>>, <<1, 2, 3>>}
One(sids, spans) == {[sid |-> s, ins |-> <<p>>] : s \in sids, p \in spans}
Two(sids, spans) == {[sid |-> s, ins |-> <<p, q>>] : s \in sids, p, q \in spans}
MCMysqlTexts == {<<t>> : t \in One({1, 2}, Spans) \cup Two({1}, Spans)}
                \cup {<<t, u>> : t \in One({1, 2}, {<<2, 3>>, <<4, 2>>}),
                                 u \in One({1, 2}, {<<4>>, <<Bad>>})}
MariadbIds == {<<d, s, n>> : d, s \in 0..1, n \in 0..2} \cup {<<>>, <<1, 1>>, <<0, Bad, 1>>}
MCMariadbTexts == {<<t>> : t \in MariadbIds} \cup {<<t, u>> : t, u \in MariadbIds}
MCPositions == {[base |-> 0, ext |-> 0, pos |-> n] : n \in 0..1}
               \cup [base : 1..2, ext : 0..1, pos : 0..1]

(* The transaction ids share nothing with connections: they are explored   *)
(* before the first connection of one server.                              *)
MCInit == Init /\ GInit
MCNext == \/ gset = <<>> /\ flavor = "mysql" /\ Next /\ UNCHANGED gvars
          \/ sessions = 0 /\ conf.handler = "sqlite" /\ GNext /\ UNCHANGED vars
MCSpec == MCInit /\ [][MCNext]_<<vars, gvars>>

=============================================================================
