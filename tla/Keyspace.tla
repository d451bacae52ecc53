------------------------------ MODULE Keyspace ------------------------------
(***************************************************************************)
(* One node of IceFireDB-NoSQL serving the commands of one data type:      *)
(* write commands one at a time, the TTL checker between them, and a       *)
(* client that scans, page by page, while the others write.  The data      *)
(* types have separate entries and batches, so a behaviour is about one of *)
(* them, kind.  Read commands change nothing: they appear in ReadsAgree.   *)
(***************************************************************************)
EXTENDS Collections

CONSTANTS KeysOf,     \* the keys that commands of each kind use
          Value,      \* list elements, field values, scores
          ScanModes,  \* the group, count and direction of the client's scans
          Zero,       \* the member (or key) whose name is "0"
          MaxTime,    \* bound: the node's clock
          MaxSize,    \* bound: stored counts and lengths
          MaxOps,     \* bound: write commands in a behaviour, and a FLUSHALL after
          ScanOps     \* bound: write commands before a scan begins

VARIABLES kind,       \* the data type of this behaviour
          d,          \* the database of Collections
          str,        \* the strings, when kind is "kv"
          now,        \* time.Now()
          ops,
          scan,       \* the iteration of the scanning client, or Nil
          hung,       \* whether a FLUSHALL never returns
          suspect     \* history: keys a command named a member of twice, or
                      \* that met another case of ReadsAgree's exceptions

vars == <<kind, d, str, now, ops, scan, hung, suspect>>

Kinds == {"kv", "list", "hash", "set", "zset"}
Keys == KeysOf[kind]

ASSUME KeyspaceAssumption ==
    /\ IsFiniteSet(Key) /\ IsFiniteSet(Member)
    /\ KeysOf \in [Kinds -> SUBSET Key]
    /\ Value \subseteq Int \cup {Blank} /\ Present \in Value
    /\ ScanModes \subseteq [group : {"redis", "x"}, count : Nat \ {0}, desc : BOOLEAN]
    /\ Zero \in Int
    /\ MaxTime \in Nat \ {0} /\ MaxSize \in Nat /\ MaxOps \in Nat /\ ScanOps \in Nat

Init ==
    /\ kind \in Kinds
    /\ d = EmptyDB
    /\ str = [k \in Key |-> Nil]
    /\ now = 1 /\ ops = 0
    /\ scan = Nil
    /\ hung = FALSE
    /\ suspect = {}

\* What XSCAN of this kind goes through, and what HSCAN, SSCAN, ZSCAN of k do.
Existing(e, s) ==
    CASE kind = "kv"   -> {k \in Key : s[k] # Nil}
      [] kind = "list" -> {k \in Key : e.list[k] # <<>>}
      [] OTHER         -> {k \in Key : e.size[k] # Nil}

Scanned(e, s, what) == IF what = Nil THEN Existing(e, s) ELSE Entries(e, what)

-----------------------------------------------------------------------------
(* A write command leaves database e and strings s.                        *)

\* Elements that are gone, if only for a while, need not be returned.
Tracked(e, s) ==
    IF scan = Nil THEN Nil ELSE [scan EXCEPT !.stable = @ \cap Scanned(e, s, scan.what)]

Bounded(e, s) ==
    \A k \in Key : /\ Count(e.size[k]) <= MaxSize
                   /\ Len(e.list[k]) <= MaxSize /\ Len(Bytes(s[k])) <= MaxSize
                   /\ \A m \in Member : e.val[k][m] \in Value \cup {Nil}

Leaves(e, s, odd) ==
    /\ ops < MaxOps /\ Bounded(e, s) /\ ~hung
    /\ d' = e /\ str' = s /\ ops' = ops + 1
    /\ suspect' = suspect \cup odd
    /\ scan' = Tracked(e, s)
    /\ UNCHANGED <<kind, now, hung>>

Write(e, odd) == Leaves(e, str, odd)

\* The argument lists clients send: one or two members, the same twice too.
Args == {<<m>> : m \in Member} \cup {<<m, n>> : m, n \in Member}
Pairs(V) == {<<<<m, v>>>> : m \in Member, v \in V}
            \cup {<<<<m, v>>, <<n, v>>>> : m, n \in Member, v \in V}
            \cup {<<<<m, v>>, <<m, w>>>> : m \in Member, v, w \in V}
Repeats(k, args) == IF IsInjective(args) THEN {} ELSE {k}
RepeatsPair(k, pairs) == Repeats(k, [i \in DOMAIN pairs |-> pairs[i][1]])
Indexes == -3..2
Numbers == Value \ {Blank}

ListCommand(k) ==
    /\ kind = "list"
    /\ \/ \E e, f \in Numbers : Write(CmdLPUSH(d, k, <<e, f>>), {})
       \/ \E e \in Value : Write(CmdRPUSH(d, k, <<e>>), {})
       \/ Write(CmdLPOP(d, k), {})
       \/ Write(CmdRPOP(d, k), {})
       \/ \E i, j \in Indexes : 
             Write(CmdLTRIM(d, k, i, j), IF TrimsBefore(d, k, i, j) THEN {k} ELSE {})
       \/ \E i \in Indexes, e \in Value :
             Write(CmdLSET(d, k, i, e), IF d.list[k] = <<>> THEN {k} ELSE {})
       \/ Write(CmdLCLEAR(d, k), {})
       \/ \E t \in Keys : Write(CmdLMCLEAR(d, <<k, t>>), {})
       \/ \E i \in Indexes : Write(CmdLEXPIRE(d, k, now, i, now), {})
       \/ \E i \in Indexes : Write(CmdLEXPIREAT(d, k, now + i, now), {})

RPopLPush(k, t) == kind = "list" /\ Write(CmdRPOPLPUSH(d, k, t, now), {})

HashCommand(k) ==
    /\ kind = "hash"
    /\ \/ \E pairs \in Pairs(Value) : Write(CmdHSET(d, k, pairs), {})
       \/ \E pairs \in Pairs(Value) : Write(CmdHMSET(d, k, pairs), RepeatsPair(k, pairs))
       \/ \E f \in Member, v \in Value : Write(CmdHSETNX(d, k, f, v), {})
       \/ \E f \in Member : Write(CmdHINCRBY(d, k, f, 1), {})
       \/ \E args \in Args : Write(CmdHDEL(d, k, args), Repeats(k, args))
       \/ Write(CmdHCLEAR(d, k), {})
       \/ \E t \in Keys : Write(CmdHMCLEAR(d, <<k, t>>), {})
       \/ \E i \in Indexes : Write(CmdHEXPIRE(d, k, now, i, now), {})
       \/ \E i \in Indexes : Write(CmdHEXPIREAT(d, k, now + i, now), {})

SetCommand(k) ==
    /\ kind = "set"
    /\ \/ \E args \in Args : Write(CmdSADD(d, k, args), Repeats(k, args))
       \/ \E args \in Args : Write(CmdSREM(d, k, args), Repeats(k, args))
       \/ \E t \in Keys, op \in {"union", "diff", "inter"} :
             Write(SoptStoreGeneric(d, op, k, <<k, t>>), {})
       \/ Write(CmdSCLEAR(d, k), {})
       \/ \E t \in Keys : Write(CmdSMCLEAR(d, <<k, t>>), {})
       \/ \E i \in Indexes : Write(CmdSEXPIRE(d, k, now, i, now), {})
       \/ \E i \in Indexes : Write(CmdSEXPIREAT(d, k, now + i, now), {})

Persist(k) == kind = "set" /\ Write(CmdSPERSIST(d, k), {})

ZSetCommand(k) ==
    /\ kind = "zset"
    /\ \/ \E pairs \in Pairs(Numbers) : Write(CmdZADD(d, k, pairs), RepeatsPair(k, pairs))
       \/ \E args \in Args : Write(CmdZREM(d, k, args), Repeats(k, args))
       \/ \E m \in Member, i \in Indexes :
             Write(CmdZINCRBY(d, k, m, i), IF i = 0 THEN {k} ELSE {})
       \/ Write(CmdZCLEAR(d, k), {})
       \/ \E i, j \in Indexes : Write(CmdZREMRANGEBYSCORE(d, k, i, j), {})
       \/ \E i, j \in Indexes : Write(CmdZREMRANGEBYRANK(d, k, i, j), {})

SetStr(k, s) == Leaves(d, [str EXCEPT ![k] = s], {})

StringCommand(k) ==
    /\ kind = "kv"
    /\ \/ \E b \in Byte : SetStr(k, <<b>>)
       \/ SetStr(k, Nil)
       \/ \E b \in Byte : SetStr(k, CmdAPPEND(str[k], <<b>>))
       \/ \E b \in Byte, n \in 0..MaxSize : SetStr(k, CmdSETRANGE(str[k], n, <<b>>))
       \/ \E n \in 0..MaxSize, on \in 0..1 : SetStr(k, CmdSETBIT(str[k], n, on))
       \/ \E t \in Keys, op \in {"AND", "OR", "XOR", "NOT"} :
             SetStr(k, CmdBITOP(op, str[k], <<str[t], str[k]>>))

\* Mutant: the expiry time of a flushed key stays.
FlushEntries(e, k) ==
    IF kind = "list" THEN [e EXCEPT !.list[k] = <<>>, !.head[k] = 0]
    ELSE [e EXCEPT !.val[k] = Empty, !.size[k] = Nil, !.index[k] = {}]

\* flushType of a key: lDelete, hDelete, sDelete or zDelete, and rmExpire.
\* zDelete counts down what it removes, the others delete the size entry.
FlushType(e, k) ==
    CASE kind = "list" -> LClear(e, k)
      [] kind = "zset" -> RmExpire(ZRemRange(e, k, e.index[k]), k)
      [] OTHER         -> Clear(e, k)

\* FLUSHALL and FLUSHDB flush a data type again and again until no key of it
\* is left: for ever when a sorted set keeps a count.
FlushAll ==
    LET none == [k \in Key |-> Nil]
        e == EachOf(d, [k \in Existing(d, str) |-> FlushType(d, k)])
    IN  /\ ops <= MaxOps /\ ~hung
        /\ d' = e /\ str' = none /\ ops' = ops + 1
        /\ hung' = (Existing(e, none) # {})
        /\ scan' = Tracked(e, none)
        /\ UNCHANGED <<kind, now, suspect>>

\* The TTL checker at a time key that is due: a missing expiry time reads as 0.
CheckTTL(k, t) ==
    /\ <<k, t>> \in d.time /\ t <= now /\ Count(d.exp[k]) <= now
    /\ LET e == IF kind = "list" THEN LClear(d, k) ELSE Clear(d, k)
           f == [e EXCEPT !.exp[k] = Nil, !.time = @ \ {<<k, t>>}]
       IN  d' = f /\ scan' = Tracked(f, str)
    /\ UNCHANGED <<kind, str, now, ops, hung, suspect>>

ClockTick ==
    /\ now < MaxTime /\ d.time # {}
    /\ now' = now + 1
    /\ UNCHANGED <<kind, d, str, ops, scan, hung, suspect>>

-----------------------------------------------------------------------------
(* SCAN.  A cursor is the last name returned; "" (Nil) starts.  HSCAN,     *)
(* SSCAN and ZSCAN use "0" for both ends of the iteration, the X forms "". *)

LastCursor(group) == IF group = "redis" THEN Zero ELSE Nil

\* Mutant: the cursor "0" is looked up as a name.
ParseAsName(group, cursor) == cursor

ParseScanArgs(group, cursor) ==
    IF group = "redis" /\ cursor = Zero THEN Nil ELSE cursor

\* The order of a scan, and the names of S that come after the cursor.
Before(m, n, desc) == IF desc THEN n < m ELSE m < n
Rest(S, cursor, desc) == {m \in S : cursor = Nil \/ Before(cursor, m, desc)}

\* Mutant: the page starts at the cursor, not after it.
PageFrom(S, cursor, count, desc) ==
    LET rest == {m \in S : cursor = Nil \/ ~Before(m, cursor, desc)}
    IN  {m \in rest : Cardinality({x \in rest : Before(x, m, desc)}) < count}

\* Scan and RevScan of ledis: the first count names of S after the cursor.
Page(S, cursor, count, desc) ==
    LET rest == Rest(S, cursor, desc)
    IN  {m \in rest : Cardinality({x \in rest : Before(x, m, desc)}) < count}

LastOf(page, desc) == CHOOSE m \in page : \A x \in page : ~Before(m, x, desc)

\* A page shorter than count is the last one.
ScanReply(S, group, cursor, count, desc) ==
    LET page == Page(S, ParseScanArgs(group, cursor), count, desc)
    IN  [page |-> page,
         next |-> IF Cardinality(page) < count THEN LastCursor(group) ELSE LastOf(page, desc)]

\* S stands for the names that match the pattern of the command.
CmdXSCAN(S, cursor, count, desc) ==
    ScanReply(S, "x", cursor, count, desc)
CmdXHSCAN(k, group, cursor, count, desc) ==
    ScanReply(Entries(d, k), group, cursor, count, desc)
CmdXSSCAN(k, group, cursor, count, desc) ==
    ScanReply(Entries(d, k), group, cursor, count, desc)
CmdXZSCAN(k, group, cursor, count, desc) ==
    ScanReply(Entries(d, k), group, cursor, count, desc)

Reply(c) ==
    IF c.what = Nil THEN CmdXSCAN(Existing(d, str), c.cursor, c.count, c.desc)
    ELSE CASE kind = "hash" -> CmdXHSCAN(c.what, c.group, c.cursor, c.count, c.desc)
           [] kind = "set"  -> CmdXSSCAN(c.what, c.group, c.cursor, c.count, c.desc)
           [] kind = "zset" -> CmdXZSCAN(c.what, c.group, c.cursor, c.count, c.desc)

ScanBegin ==
    /\ scan = Nil /\ ops <= ScanOps
    /\ \E what \in Keys \cup {Nil}, mode \in ScanModes :
          /\ IF what = Nil THEN mode.group = "x" ELSE kind \in {"hash", "set", "zset"}
          /\ scan' = [what |-> what, group |-> mode.group, count |-> mode.count,
                      desc |-> mode.desc, cursor |-> LastCursor(mode.group), seen |-> {},
                      stable |-> Scanned(d, str, what), cut |-> FALSE, done |-> FALSE]
    /\ UNCHANGED <<kind, d, str, now, ops, hung, suspect>>

\* The client asks for the next page, until the cursor is the last one.
ScanNext ==
    /\ scan # Nil /\ ~scan.done
    /\ LET r == Reply(scan)
       IN  scan' = [scan EXCEPT !.cursor = r.next, !.seen = @ \cup r.page,
                                !.cut = Cardinality(r.page) = scan.count
                                        /\ r.next = LastCursor(scan.group),
                                !.done = r.next = LastCursor(scan.group)]
    /\ UNCHANGED <<kind, d, str, now, ops, hung, suspect>>

-----------------------------------------------------------------------------
Next ==
    \/ \E k \in Keys : \/ ListCommand(k) \/ HashCommand(k) \/ SetCommand(k)
                       \/ ZSetCommand(k) \/ StringCommand(k) \/ Persist(k)
    \/ \E k, t \in Keys : RPopLPush(k, t)
    \/ \E k \in Keys, t \in 0..(MaxTime + 2) : CheckTTL(k, t)
    \/ FlushAll
    \/ ClockTick
    \/ ScanBegin \/ ScanNext

\* A client that began to scan goes on.
Spec == Init /\ [][Next]_vars /\ WF_vars(ScanNext)
-----------------------------------------------------------------------------
\* Every variable has its type; sequence numbers are within their range.
TypeOK ==
    /\ kind \in Kinds /\ now \in 1..MaxTime /\ ops \in 0..(MaxOps + 1)
    /\ suspect \subseteq Key /\ hung \in BOOLEAN
    /\ \A k \in Key :
          /\ str[k] \in Seq(Byte) \cup {Nil}
          /\ d.list[k] \in Seq(Value \cup {Nil}) /\ d.orphan[k] \in Value \cup {Nil}
          /\ d.list[k] # <<>> => /\ d.orphan[k] = Nil
                                 /\ MinSeq < d.head[k] /\ d.head[k] + Len(d.list[k]) - 1 < MaxSeq
          /\ d.val[k] \in [Member -> Value \cup {Nil}]
          /\ d.size[k] \in 0..MaxSize \cup {Nil}
          /\ d.index[k] \subseteq Value \X Member
          /\ d.exp[k] \in 1..(MaxTime + 2) \cup {Nil}
          /\ d.exp[k] # Nil => <<k, d.exp[k]>> \in d.time

ListReads(k) ==
    LET s == CmdLRANGE(d, k, 0, -1)
    IN  /\ CmdLLEN(d, k) = Len(s) /\ CmdLKEYEXISTS(d, k) = (s # <<>>)
        /\ \A i \in Indexes :
              LET v == CmdLRANGE(d, k, i, i)
              IN  CmdLINDEX(d, k, i) = IF v \in {<<>>, <<Blank>>} THEN Nil ELSE v[1]
        /\ CmdLTTL(d, k, now) # -1 => CmdLKEYEXISTS(d, k)

HashReads(k) ==
    LET fs == CmdHKEYS(d, k)
    IN  /\ CmdHLEN(d, k) = Len(fs) /\ CmdHKEYEXISTS(d, k) = (fs # <<>>)
        /\ CmdHMGET(d, k, fs) = CmdHVALS(d, k)
        /\ DOMAIN CmdHGETALL(d, k) = ToSet(fs)
        /\ \A f \in Member :
              LET v == CmdHMGET(d, k, <<f>>)[1]
              IN  /\ CmdHEXISTS(d, k, f) = Contains(fs, f)
                  /\ CmdHEXISTS(d, k, f) = (v # Nil)
                  /\ CmdHGET(d, k, f) = IF v = Blank THEN Nil ELSE v
        /\ CmdHTTL(d, k, now) # -1 => CmdHKEYEXISTS(d, k)

\* A STORE with an empty result leaves a key that exists and has no members.
SetReads(k) ==
    /\ CmdSCARD(d, k) = Len(CmdSMEMBERS(d, k))
    /\ CmdSKEYEXISTS(d, k) = (CmdSMEMBERS(d, k) # <<>> \/ d.size[k] = 0)
    /\ ToSet(CmdSMEMBERS(d, k)) = {m \in Member : CmdSISMEMBER(d, k, m)}
    /\ \A t \in Keys : SoptGeneric(d, "diff", <<k, t>>) \cup SoptGeneric(d, "inter", <<k, t>>)
                           = ToSet(CmdSMEMBERS(d, k))
    /\ CmdSTTL(d, k, now) # -1 => CmdSKEYEXISTS(d, k)

ZSetReads(k) ==
    LET all == CmdZRANGE(d, k, 0, -1)
    IN  /\ CmdZCARD(d, k) = Len(all)
        /\ \A m \in Member :
              LET r == CmdZRANK(d, k, m)
              IN  IF CmdZSCORE(d, k, m) = Nil THEN r = -1
                  ELSE /\ all[r + 1] = <<CmdZSCORE(d, k, m), m>>
                       /\ CmdZREVRANK(d, k, m) = CmdZCARD(d, k) - 1 - r
        /\ \A i, j \in Indexes :
              LET open == ZParseScoreRange(i, TRUE, j, TRUE)
                  byScore == CmdZRANGEBYSCORE(d, k, i, j, 0, -1)
              IN  /\ CmdZREVRANGE(d, k, i, j) = Reverse(CmdZRANGE(d, k, -1 - j, -1 - i))
                  /\ CmdZCOUNT(d, k, i, j) = Len(byScore)
                  /\ CmdZREVRANGEBYSCORE(d, k, i, j, 0, 1) = Limit(Reverse(byScore), 0, 1)
                  /\ CmdZRANGEBYSCORE(d, k, open[1], open[2], 0, -1)
                         = SelectSeq(byScore, LAMBDA x : x[1] # i /\ x[1] # j)

StringReads(k) ==
    LET s == Bytes(str[k])
        One(i) == CmdGETBIT(str[k], i) = 1
        First(S) == IF S = {} THEN -1 ELSE CHOOSE i \in S : \A j \in S : i <= j
    IN  /\ CmdGETRANGE(str[k], 0, -1) = s /\ CmdSTRLEN(str[k]) = Len(s)
        /\ (CmdEXISTS(<<str[k], str[k]>>) = 0) = (CmdTTL(str[k], TTL(d, k, now)) = -2)
        /\ CmdMGET(<<str[k]>>) = <<CmdGET(str[k])>>
        /\ \A i, j \in 0..(Bits(s) - 1) :
              /\ i <= j => CmdBITCOUNT(str[k], i, j, "BIT") = Cardinality({b \in i..j : One(b)})
              /\ i \div ByteBits < j \div ByteBits
                     => CmdBITPOS(str[k], 1, i, j, "BIT") = First({b \in i..j : One(b)})
        /\ s # <<>> => CmdBITCOUNT(str[k], 0, -1, "BYTE")
                           = Cardinality({b \in 0..(Bits(s) - 1) : One(b)})
        /\ CmdBITPOS(str[k], 0, 0, -1, "BYTE") = First({b \in 0..(Bits(s) - 1) : ~One(b)})

\* Whatever write commands came before, the read commands of a key agree: the
\* stored counts, the entries and the score entries, which are kept apart,
\* tell the same.  Not for a key of which one command named a member twice
\* (HMSET, HDEL, SADD, SREM, ZADD, ZREM count it twice), after a ZINCRBY by 0
\* (it deletes the score entry it has just put), after an LSET on a missing
\* list (LINDEX then finds an element no other command knows), or after an
\* LTRIM with both ends before the list (the expiry time of the list stays
\* without the list, or the list without its elements).  LINDEX and HGET
\* answer an empty value as none, unlike LRANGE and HMGET.
ReadsAgree ==
    \A k \in Keys \ suspect :
        CASE kind = "kv"   -> StringReads(k)
          [] kind = "list" -> ListReads(k)
          [] kind = "hash" -> HashReads(k)
          [] kind = "set"  -> SetReads(k)
          [] kind = "zset" -> ZSetReads(k)

Occurs(e, v) == Cardinality({p \in Key \X (1..MaxSize) :
                                 p[2] \in DOMAIN e.list[p[1]] /\ e.list[p[1]][p[2]] = v})

\* RPOPLPUSH, three ledis calls in a row, neither loses nor repeats an
\* element, also when the push is refused and the pop undone.
MoveConserves ==
    [][\A k, t \in Keys : RPopLPush(k, t) =>
          \A e \in Value : Occurs(d, e) = Occurs(d', e)]_vars

\* No step takes the expiry time from a key that keeps elements: not the
\* rotation of a list, which empties it for a moment, and not a removal.
\* SPERSIST does; so does a removal on a key whose count is wrong, a
\* rotation after the time has come and before the checker has, and an
\* RPOPLPUSH of the only element that has to put it back.
ExpiryKept ==
    [][\A k \in Keys : d.exp[k] # Nil /\ d'.exp[k] = Nil =>
          \/ d'.list[k] = <<>> /\ Entries(d', k) = {}
          \/ d.exp[k] <= now \/ k \in suspect' \/ Persist(k)
          \/ \E t \in Keys : RPopLPush(k, t) /\ ~CanLPush(d, t, 1)]_vars

\* FLUSHALL returns and leaves nothing of a key, whatever was written before:
\* neither entries nor a count nor an expiry time.  With a key of which a
\* command named a member twice, or after a ZINCRBY by 0, it may not return,
\* and an LTRIM with both ends before the list leaves an expiry time that it
\* does not find.
FlushEmpties ==
    [][FlushAll => /\ hung' => suspect # {}
                   /\ \A k \in Keys \ suspect :
                         /\ d'.list[k] = <<>> /\ Entries(d', k) = {} /\ d'.index[k] = {}
                         /\ d'.size[k] = Nil /\ d'.exp[k] = Nil]_vars

\* An iteration that has ended returned every name that was there
\* all along, whatever was written meanwhile; but HSCAN, SSCAN and ZSCAN cut
\* it short when a page ends at the name "0", which reads as the end.
ScanComplete ==
    scan # Nil /\ scan.done => scan.stable \subseteq scan.seen \/ (scan.cut /\ scan.group = "redis")

\* Every iteration ends, although elements come and go.
ScanEnds == scan # Nil ~> scan # Nil /\ scan.done
=============================================================================
