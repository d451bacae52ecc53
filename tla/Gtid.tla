-------------------------------- MODULE Gtid --------------------------------
(***************************************************************************)
(* The sets of transaction ids of the MySQL library, in MySQL's flavor     *)
(* (intervals of numbers per server) and MariaDB's (the latest id per      *)
(* domain), and the order of binlog positions.                             *)
(*                                                                         *)
(* A text is modelled by its parts: an interval is the numbers between its *)
(* dashes, Bad for one that is no number; a UUID set is [sid, ins]; an id  *)
(* of MariaDB is its three numbers, <<>> the empty text. An interval in    *)
(* memory is <<start, stop>>, without stop.                                *)
(***************************************************************************)
EXTENDS Integers, Sequences, SequencesExt, FiniteSetsExt, TLC

CONSTANTS MysqlTexts,    \* texts given to Update, as lists of UUID sets
          MariadbTexts,  \* the same in MariaDB's flavor
          MaxGtid,       \* bound: the numbers in these texts
          Positions      \* positions that are compared

VARIABLES flavor,  \* "mysql" or "mariadb"
          gset,    \* a MysqlGTIDSet or a MariadbGTIDSet, as a function
          gone     \* the ids that were taken in, for the properties

gvars == <<flavor, gset, gone>>

Bad == -1

(* [err, in] *)
parseInterval(p) ==
    LET in == IF Len(p) = 1 THEN <<p[1], p[1] + 1>> ELSE <<p[1], p[2] + 1>> IN
    IF Len(p) \notin {1, 2} \/ Contains(p, Bad) THEN [err |-> TRUE, in |-> <<>>]
    ELSE [err |-> in[2] <= in[1], in |-> in]

IntervalString(i) == IF i[2] = i[1] + 1 THEN <<i[1]>> ELSE <<i[1], i[2] - 1>>

Less(a, b) == a[1] < b[1] \/ (a[1] = b[1] /\ a[2] < b[2])

(* Mutant: intervals that touch are not joined *)
NormalizeOverlaps(s) ==
    LET join(n, i) ==
            IF n = <<>> \/ i[1] >= Last(n)[2] THEN Append(n, i)
            ELSE Append(Front(n), <<Last(n)[1], Max({Last(n)[2], i[2]})>>)
    IN  FoldLeft(join, <<>>, SortSeq(s, Less))

(* Normalize: sorted, and those that touch or overlap joined *)
Normalize(s) ==
    LET join(n, i) ==
            IF n = <<>> \/ i[1] > Last(n)[2] THEN Append(n, i)
            ELSE Append(Front(n), <<Last(n)[1], Max({Last(n)[2], i[2]})>>)
    IN  FoldLeft(join, <<>>, SortSeq(s, Less))

(* Contain of interval slices: one pass over both *)
IntervalsContain(s, sub) ==
    LET step(acc, x) ==
            LET j == Min({k \in acc.j..Len(s) : x[1] <= s[k][2]} \cup {Len(s) + 1})
            IN  [j |-> j, ok |-> acc.ok /\ j <= Len(s)
                                 /\ x[1] >= s[j][1] /\ x[2] <= s[j][2]]
    IN  FoldLeft(step, [j |-> 1, ok |-> TRUE], sub).ok

(* 0 for the same, 1 for more, -1 otherwise *)
IntervalsCompare(s, o) == IF s = o THEN 0 ELSE IF IntervalsContain(s, o) THEN 1 ELSE -1
-----------------------------------------------------------------------------
(* UUID sets and MySQL's sets of them: [err, ...] from a text *)

ParseUUIDSet(t) ==
    LET ins == [i \in DOMAIN t.ins |-> parseInterval(t.ins[i])] IN
    [err |-> ins = <<>> \/ \E i \in DOMAIN ins : ins[i].err,
     ins |-> IF \E i \in DOMAIN ins : ins[i].err THEN <<>>
             ELSE Normalize([i \in DOMAIN ins |-> ins[i].in])]

AddInterval(ins, more) == Normalize(ins \o more)

AddSet(s, sid, ins) ==
    (sid :> IF sid \in DOMAIN s THEN AddInterval(s[sid], ins) ELSE ins) @@ s

ParseMysqlGTIDSet(list) ==
    LET add(acc, t) == LET u == ParseUUIDSet(t) IN
            IF acc.err \/ u.err THEN [acc EXCEPT !.err = TRUE]
            ELSE [acc EXCEPT !.set = AddSet(acc.set, t.sid, u.ins)]
    IN  FoldLeft(add, [err |-> FALSE, set |-> <<>>], list)

(* Update: all of the text, or nothing when a part of it is wrong *)
MysqlUpdate(s, list) ==
    LET new == ParseMysqlGTIDSet(list) IN
    IF new.err THEN s
    ELSE FoldSet(LAMBDA sid, acc : AddSet(acc, sid, new.set[sid]), s, DOMAIN new.set)

MysqlContain(s, sub) ==
    \A sid \in DOMAIN sub : sid \in DOMAIN s /\ IntervalsContain(s[sid], sub[sid])

MysqlEqual(s, o) ==
    /\ Cardinality(DOMAIN s) = Cardinality(DOMAIN o)
    /\ \A sid \in DOMAIN o : sid \in DOMAIN s /\ s[sid] = o[sid]

MysqlClone(s) == [sid \in DOMAIN s |-> Normalize(s[sid])]

(* the text of a set, its UUID sets in some order *)
MysqlString(s, order) ==
    [i \in DOMAIN order |-> [sid |-> order[i],
        ins |-> [k \in DOMAIN s[order[i]] |-> IntervalString(s[order[i]][k])]]]

encode(sid, ins) == <<sid, Len(ins)>> \o FlattenSeq(ins)
MysqlEncode(s, order) ==
    <<Len(order)>> \o FlattenSeq([i \in DOMAIN order |-> encode(order[i], s[order[i]])])

(* decode: one UUID set at position pos, without joining its intervals *)
decode(data, pos) ==
    LET n == data[pos + 2] IN
    [sid |-> data[pos + 1], next |-> pos + 2 + 2 * n,
     ins |-> [i \in 1..n |-> <<data[pos + 1 + 2 * i], data[pos + 2 + 2 * i]>>]]

DecodeMysqlGTIDSet(data) ==
    LET add(acc, i) == LET u == decode(data, acc.pos)
                       IN  [pos |-> u.next, set |-> AddSet(acc.set, u.sid, u.ins)]
    IN  FoldLeft(add, [pos |-> 1, set |-> <<>>], [i \in 1..data[1] |-> i]).set
-----------------------------------------------------------------------------
(* MariaDB: [domain, server, seq] *)

Zero == [domain |-> 0, server |-> 0, seq |-> 0]

ParseMariadbGTID(p) ==
    IF p = <<>> THEN [err |-> FALSE, id |-> Zero]
    ELSE IF Len(p) # 3 \/ Contains(p, Bad) THEN [err |-> TRUE, id |-> Zero]
    ELSE [err |-> FALSE, id |-> [domain |-> p[1], server |-> p[2], seq |-> p[3]]]

MariadbString(id) == IF id = Zero THEN <<>> ELSE <<id.domain, id.server, id.seq>>

(* forward takes the newer id, also one with a lower number *)
forward(id, newer) == [id EXCEPT !.server = newer.server, !.seq = newer.seq]

MariadbAddSet(s, id) ==
    (id.domain :> IF id.domain \in DOMAIN s THEN forward(s[id.domain], id) ELSE id) @@ s

(* Update: id by id, up to the first that is wrong: [err, set] *)
MariadbUpdate(s, list) ==
    LET add(acc, p) == LET g == ParseMariadbGTID(p) IN
            IF acc.err \/ g.err THEN [acc EXCEPT !.err = TRUE]
            ELSE [acc EXCEPT !.set = MariadbAddSet(acc.set, g.id)]
    IN  FoldLeft(add, [err |-> FALSE, set |-> s], list)

ParseMariadbGTIDSet(list) ==
    IF list = << <<>> >> THEN [err |-> FALSE, set |-> <<>>]   \* the empty text
    ELSE MariadbUpdate(<<>>, list)

MariadbEncode(s, order) == [i \in DOMAIN order |-> MariadbString(s[order[i]])]

MariadbContain(s, o) ==
    \A d \in DOMAIN o : d \in DOMAIN s /\ s[d].domain = o[d].domain /\ s[d].seq >= o[d].seq

MariadbEqual(s, o) ==
    /\ Cardinality(DOMAIN s) = Cardinality(DOMAIN o)
    /\ \A d \in DOMAIN o : d \in DOMAIN s /\ s[d] = o[d]
-----------------------------------------------------------------------------
(* Positions [base, ext, pos]: the name is base.ext, with ext 0 also for a *)
(* name without one and base 0 for the empty name.                         *)

CompareBinlogFileName(a, b) ==
    CASE a.base = 0 /\ b.base = 0 -> 0
      [] a.base = 0 /\ b.base # 0 -> -1
      [] a.base # 0 /\ b.base = 0 -> 1
      [] OTHER -> IF a.base # b.base THEN (IF a.base > b.base THEN 1 ELSE -1)
                  ELSE IF a.ext = b.ext THEN 0 ELSE IF a.ext > b.ext THEN 1 ELSE -1

PositionCompare(p, o) ==
    LET names == CompareBinlogFileName(p, o) IN
    IF names # 0 THEN names
    ELSE IF p.pos > o.pos THEN 1 ELSE IF p.pos < o.pos THEN -1 ELSE 0
-----------------------------------------------------------------------------
(* A set in use. gone: pairs <<sid, n>>, or the latest id of each domain.  *)

(* ParseGTIDSet of an empty text *)
GInit == flavor \in {"mysql", "mariadb"} /\ gset = <<>> /\ gone = {}

Wrong(p) == Len(p) \notin {1, 2} \/ Contains(p, Bad) \/ (Len(p) = 2 /\ p[2] < p[1])
Numbers(p) == p[1]..Last(p)

UpdateMysql(list) ==
    /\ flavor = "mysql"
    /\ gset' = MysqlUpdate(gset, list)
    /\ gone' = IF \E i \in DOMAIN list : list[i].ins = <<>>
                     \/ \E k \in DOMAIN list[i].ins : Wrong(list[i].ins[k])
               THEN gone
               ELSE gone \cup UNION {UNION {{<<list[i].sid, n>> : n \in Numbers(list[i].ins[k])} :
                                            k \in DOMAIN list[i].ins} : i \in DOMAIN list}
    /\ UNCHANGED flavor

UpdateMariadb(list) ==
    /\ flavor = "mariadb"
    /\ gset' = MariadbUpdate(gset, list).set
    /\ LET wrong == {i \in DOMAIN list : list[i] # <<>> /\ (Len(list[i]) # 3 \/ Contains(list[i], Bad))}
           taken == IF wrong = {} THEN list ELSE SubSeq(list, 1, Min(wrong) - 1)
           ids   == [i \in DOMAIN taken |-> IF taken[i] = <<>> THEN <<0, 0, 0>> ELSE taken[i]]
           last  == {ids[i] : i \in {k \in DOMAIN ids :
                                      ~\E l \in DOMAIN ids : l > k /\ ids[l][1] = ids[k][1]}}
       IN  gone' = {g \in gone : \A l \in last : l[1] # g[1]} \cup last
    /\ UNCHANGED flavor

(* the set goes to the binlog dump command and back, or is cloned *)
Reload(order) ==
    /\ gset' = IF flavor = "mysql" THEN DecodeMysqlGTIDSet(MysqlEncode(gset, order))
               ELSE ParseMariadbGTIDSet(MariadbEncode(gset, order)).set
    /\ gone' = IF flavor = "mariadb" /\ gset = (0 :> Zero) THEN {} ELSE gone
    /\ UNCHANGED flavor

Reparse(order) ==
    /\ flavor = "mysql"
    /\ gset' = ParseMysqlGTIDSet(MysqlString(MysqlClone(gset), order)).set
    /\ UNCHANGED <<flavor, gone>>

Orders == SetToSeqs(DOMAIN gset)   \* a map is walked in any order

GNext == \/ \E list \in MysqlTexts : UpdateMysql(list)
         \/ \E list \in MariadbTexts : UpdateMariadb(list)
         \/ \E order \in Orders : Reload(order) \/ Reparse(order)
-----------------------------------------------------------------------------
(* the one slice of intervals for a set of numbers *)
Canonical(N) ==
    LET starts == SetToSortSeq({n \in N : n - 1 \notin N}, <)
        stop(n) == Min({m \in n..(Max(N) + 1) : m \notin N})
    IN  [i \in DOMAIN starts |-> <<starts[i], stop(starts[i])>>]
Ids(sid) == {p[2] : p \in {q \in gone : q[1] = sid}}

(* However ids were taken in (in what order, in how many intervals that    *)
(* touch, overlap or repeat, in texts that are partly wrong, through the   *)
(* binary format and back, cloned and reparsed), the set holds exactly     *)
(* those ids in its one normal form, so that Equal, Contain and Compare on *)
(* intervals answer as the sets they stand for do. Positions are in one    *)
(* order: no two are each before the other, and before is transitive.      *)
GtidExact ==
    /\ flavor = "mysql" =>
         /\ DOMAIN gset = {p[1] : p \in gone}
         /\ \A sid \in DOMAIN gset :
              /\ gset[sid] = Canonical(Ids(sid))
              /\ \A N \in SUBSET (1..MaxGtid) :
                   /\ IntervalsContain(gset[sid], Canonical(N)) <=> N \subseteq Ids(sid)
                   /\ IntervalsCompare(gset[sid], Canonical(N)) =
                        IF N = Ids(sid) THEN 0 ELSE IF N \subseteq Ids(sid) THEN 1 ELSE -1
                   /\ MysqlEqual(gset, (sid :> Canonical(N)) @@ gset) <=> N = Ids(sid)
                   /\ MysqlContain(gset, sid :> Canonical(N)) <=> N \subseteq Ids(sid)
    /\ flavor = "mariadb" =>
         /\ {MariadbString(gset[d]) : d \in DOMAIN gset} =
              {IF g = <<0, 0, 0>> THEN <<>> ELSE g : g \in gone}
         /\ \A d \in DOMAIN gset : \A n \in 0..MaxGtid :
              LET o == [gset EXCEPT ![d].seq = n] IN
              /\ MariadbContain(gset, o) <=> n <= gset[d].seq
              /\ MariadbEqual(gset, o) <=> MariadbContain(gset, o) /\ MariadbContain(o, gset)
    /\ flavor = "mariadb" /\ gone = {} => \A p, q, r \in Positions :
         /\ PositionCompare(p, q) = -PositionCompare(q, p)
         /\ PositionCompare(p, q) >= 0 /\ PositionCompare(q, r) >= 0 =>
              PositionCompare(p, r) = Max({PositionCompare(p, q), PositionCompare(q, r)})

=============================================================================
