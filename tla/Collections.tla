---------------------------- MODULE Collections ----------------------------
(***************************************************************************)
(* The list, hash, set and sorted-set commands of IceFireDB-NoSQL: what    *)
(* each handler leaves in the database, and what each read handler         *)
(* returns.  For one data type a database d has, for every key k,          *)
(*    list[k], head[k]  the elements and the sequence number of the first; *)
(*                      Nil for one that LTRIM deleted from under the list *)
(*    orphan[k]         the element an LSET wrote for a list without any    *)
(*    val[k]            member -> value: the value of a hash field, the    *)
(*                      score of a member; Present in a set; Nil: no entry *)
(*    size[k]           the stored count, Nil when there is no size entry  *)
(*    index[k]          the score entries of a sorted set, <<score, m>>    *)
(*    exp[k]            the expiry time, or Nil;  time: the time keys      *)
(* Members and keys are integers in the byte order of the names.  A        *)
(* command takes its members as a sequence, for a client may name one      *)
(* twice.  Arity and number-format errors write nothing and are left out.  *)
(***************************************************************************)
EXTENDS Strings

CONSTANTS Key, Member,
          Blank,           \* the empty string, which does not parse as an integer
          MinSeq, MaxSeq   \* listMinSeq and listMaxSeq, around listInitialSeq = 0

ASSUME CollectionsAssumption ==
    /\ Key \subseteq Int /\ Member \subseteq Int
    /\ Nil \notin Int /\ Blank \notin Int /\ Blank # Nil
    /\ MinSeq \in Int /\ MaxSeq \in Int /\ MinSeq < 0 /\ 0 < MaxSeq

Present == 1
Empty == [m \in Member |-> Nil]

EmptyDB ==
    [list |-> [k \in Key |-> <<>>], head |-> [k \in Key |-> 0],
     val |-> [k \in Key |-> Empty], size |-> [k \in Key |-> Nil],
     orphan |-> [k \in Key |-> Nil], index |-> [k \in Key |-> {}],
     exp |-> [k \in Key |-> Nil], time |-> {}]

\* Commands on several keys leave each as one on that key alone would: of
\* the key k in its domain, one has the database that the command on k leaves.
EachOf(d, one) ==
    LET Of(k) == IF k \in DOMAIN one THEN one[k] ELSE d
    IN  [list |-> [k \in Key |-> Of(k).list[k]], head |-> [k \in Key |-> Of(k).head[k]],
         val |-> [k \in Key |-> Of(k).val[k]], size |-> [k \in Key |-> Of(k).size[k]],
         orphan |-> [k \in Key |-> Of(k).orphan[k]], index |-> [k \in Key |-> Of(k).index[k]],
         exp |-> [k \in Key |-> Of(k).exp[k]],
         time |-> {x \in d.time : \A k \in DOMAIN one : x \in one[k].time}]

Count(n) == IF n = Nil THEN 0 ELSE n
Least(a, b) == IF a < b THEN a ELSE b
Most(a, b) == IF a < b THEN b ELSE a

-----------------------------------------------------------------------------
(* Expiry times.                                                           *)

RmExpire(d, k) ==
    [d EXCEPT !.exp[k] = Nil, !.time = @ \ {<<k, d.exp[k]>>}]

SetExpire(d, k, when) == [d EXCEPT !.exp[k] = when, !.time = @ \cup {<<k, when>>}]

TTL(d, k, now) == IF d.exp[k] = Nil \/ d.exp[k] <= now THEN -1 ELSE d.exp[k] - now

CmdLTTL(d, k, now) == TTL(d, k, now)
CmdHTTL(d, k, now) == TTL(d, k, now)
CmdSTTL(d, k, now) == TTL(d, k, now)

-----------------------------------------------------------------------------
(* Lists.                                                                  *)

\* lSetMeta: an empty list has no entry, and no expiry time.
Popped(d, k, s, head) ==
    IF s = <<>> THEN RmExpire([d EXCEPT !.list[k] = s, !.head[k] = 0], k)
    ELSE [d EXCEPT !.list[k] = s, !.head[k] = head]

\* Mutant: the smallest sequence number is used too.
CanLPushMin(d, k, n) == (IF d.list[k] = <<>> THEN 1 ELSE d.head[k]) - n >= MinSeq

\* A push that would leave the range of sequence numbers is not committed.
CanLPush(d, k, n) == (IF d.list[k] = <<>> THEN 1 ELSE d.head[k]) - n > MinSeq

CanRPush(d, k, n) == d.head[k] + Len(d.list[k]) + n - 1 < MaxSeq

CmdLPUSH(d, k, es) ==
    IF ~CanLPush(d, k, Len(es)) THEN d
    ELSE [d EXCEPT !.list[k] = Reverse(es) \o @, !.orphan[k] = Nil,
                   !.head[k] = (IF d.list[k] = <<>> THEN 1 ELSE @) - Len(es)]

CmdRPUSH(d, k, es) ==
    IF CanRPush(d, k, Len(es))
    THEN [d EXCEPT !.list[k] = @ \o es, !.orphan[k] = Nil] ELSE d

CmdLPOP(d, k) ==
    IF d.list[k] = <<>> THEN d ELSE Popped(d, k, Tail(d.list[k]), d.head[k] + 1)

CmdRPOP(d, k) ==
    IF d.list[k] = <<>> THEN d ELSE Popped(d, k, Front(d.list[k]), d.head[k])

LClear(d, k) == [Popped(d, k, <<>>, 0) EXCEPT !.orphan[k] = Nil]
CmdLCLEAR(d, k) == LClear(d, k)
CmdLMCLEAR(d, ks) == EachOf(d, [k \in Range(ks) |-> LClear(d, k)])

\* Both ends before the list, in order: ltrim2 does not take this for a list
\* to be cleared, as start is clamped only after the test and stop only above.
TrimsBefore(d, k, a, b) ==
    LET n == Len(d.list[k]) IN n > 0 /\ n + a <= n + b /\ n + b < 0

\* lSetMeta: of an emptied list the entry goes and the expiry time stays; a
\* size below zero is only logged, and the entry stays without its elements.
CmdLTRIM(d, k, a, b) ==
    LET n == Len(d.list[k])
        start == IF a < 0 THEN n + a ELSE a
        stop == IF b < 0 THEN n + b ELSE b
        first == Most(start, 0)
        last == Least(stop, n - 1)
    IN  IF start >= n \/ start > stop THEN LClear(d, k)
        ELSE IF last >= 0
        THEN [d EXCEPT !.list[k] = SubSeq(@, first + 1, last + 1), !.head[k] = @ + first]
        ELSE IF last = -1 THEN [d EXCEPT !.list[k] = <<>>, !.head[k] = 0]
        ELSE [d EXCEPT !.list[k] = [i \in DOMAIN @ |-> Nil]]

\* The position of an index, counted from the end when negative.
Position(d, k, i) == IF i >= 0 THEN i + 1 ELSE Len(d.list[k]) + i + 1

\* A missing list reads as one whose first and last sequence numbers are
\* both listInitialSeq, so index 0 (and -1) of it is in range.
CmdLSET(d, k, i, e) ==
    IF Position(d, k, i) \in DOMAIN d.list[k]
    THEN [d EXCEPT !.list[k][Position(d, k, i)] = e]
    ELSE IF d.list[k] = <<>> /\ i \in {0, -1} THEN [d EXCEPT !.orphan[k] = e] ELSE d

\* Mutant: a push that fails loses the element.
RotateNoRevert(d, s, t, now) ==
    IF d.list[s] = <<>> THEN d ELSE CmdLPUSH(CmdRPOP(d, s), t, <<Last(d.list[s])>>)

\* Mutant: the TTL of a rotated list is not set again.
RotateNoTTL(d, s, t, now) ==
    LET popped == CmdRPOP(d, s)  e == <<Last(d.list[s])>>
    IN  IF d.list[s] = <<>> THEN d
        ELSE IF CanLPush(popped, t, 1) THEN CmdLPUSH(popped, t, e) ELSE CmdRPUSH(popped, s, e)

\* Remember the TTL when the list is rotated; pop; push, or put it back at the
\* end when that fails; set the TTL again.  A missing element is not pushed.
CmdRPOPLPUSH(d, s, t, now) ==
    LET ttl == IF s = t THEN TTL(d, s, now) ELSE -1
        popped == CmdRPOP(d, s)
        e == <<Last(d.list[s])>>
        pushed == CmdLPUSH(popped, t, e)
    IN  IF d.list[s] = <<>> THEN d
        ELSE IF e = <<Nil>> THEN popped
        ELSE IF ~CanLPush(popped, t, 1) THEN CmdRPUSH(popped, s, e)
        ELSE IF ttl # -1 THEN SetExpire(pushed, s, now + ttl) ELSE pushed

CmdLLEN(d, k) == Len(d.list[k])
CmdLKEYEXISTS(d, k) == d.list[k] # <<>>

\* An empty value is answered as no value.
NonEmpty(v) == IF v = Blank THEN Nil ELSE v

CmdLINDEX(d, k, i) ==
    IF Position(d, k, i) \in DOMAIN d.list[k] THEN NonEmpty(d.list[k][Position(d, k, i)])
    ELSE IF d.list[k] = <<>> /\ i \in {0, -1} THEN NonEmpty(d.orphan[k]) ELSE Nil

\* Of a list that has all its elements; LRANGE goes by their number, and from
\* one without it would read on into the entries of the next key.
CmdLRANGE(d, k, a, b) ==
    LET n == Len(d.list[k])
        start == Most(IF a < 0 THEN n + a ELSE a, 0)
        stop == IF b < 0 THEN n + b ELSE b
    IN  IF start > stop \/ start >= n THEN <<>>
        ELSE SubSeq(d.list[k], start + 1, Least(stop, n - 1) + 1)

-----------------------------------------------------------------------------
(* Hashes, sets and sorted sets: entries, and their stored count.  A       *)
(* handler looks entries up in the database, not in its own batch.         *)

Entries(d, k) == {m \in Member : d.val[k][m] # Nil}

\* A count that reaches zero is removed, and the expiry time with it.
IncrSize(d, k, n) ==
    IF Count(d.size[k]) + n <= 0 THEN RmExpire([d EXCEPT !.size[k] = Nil], k)
    ELSE [d EXCEPT !.size[k] = Count(@) + n]

\* pairs are <<member, value>>; each is counted on its own.
Fresh(d, k, pairs) == Cardinality({i \in DOMAIN pairs : d.val[k][pairs[i][1]] = Nil})

\* The last pair that names a member gives it its value.
PutPairs(v, pairs) ==
    LET At(m) == {i \in DOMAIN pairs : pairs[i][1] = m}
    IN  [m \in Member |-> IF At(m) = {} THEN v[m]
                          ELSE pairs[CHOOSE i \in At(m) : \A j \in At(m) : j <= i][2]]

Put(d, k, pairs) ==
    IncrSize([d EXCEPT !.val[k] = PutPairs(@, pairs)], k, Fresh(d, k, pairs))

RemoveEntries(d, k, ms) ==
    IncrSize([d EXCEPT !.val[k] = [m \in Member |-> IF Contains(ms, m) THEN Nil ELSE @[m]]],
             k, 0 - Cardinality({i \in DOMAIN ms : d.val[k][ms[i]] # Nil}))

Clear(d, k) == RmExpire([d EXCEPT !.val[k] = Empty, !.size[k] = Nil], k)

HSet(d, k, f, v) ==
    LET e == [d EXCEPT !.val[k][f] = v]
    IN  IF d.val[k][f] = Nil THEN IncrSize(e, k, 1) ELSE e

\* An HSet, and a batch, for each pair: a new field counts once.
CmdHSET(d, k, pairs) ==
    LET e == [d EXCEPT !.val[k] = PutPairs(@, pairs)]
        new == {pairs[i][1] : i \in {j \in DOMAIN pairs : d.val[k][pairs[j][1]] = Nil}}
    IN  IF new = {} THEN e ELSE IncrSize(e, k, Cardinality(new))

\* One batch for all pairs.
CmdHMSET(d, k, pairs) == Put(d, k, pairs)

CmdHSETNX(d, k, f, v) == IF d.val[k][f] # Nil THEN d ELSE HSet(d, k, f, v)

CmdHINCRBY(d, k, f, n) ==
    IF d.val[k][f] = Blank THEN d ELSE HSet(d, k, f, Count(d.val[k][f]) + n)

CmdHDEL(d, k, fs) == RemoveEntries(d, k, fs)
CmdHCLEAR(d, k) == Clear(d, k)
CmdHMCLEAR(d, ks) == EachOf(d, [k \in Range(ks) |-> Clear(d, k)])

CmdHGET(d, k, f) == NonEmpty(d.val[k][f])
CmdHMGET(d, k, fs) == [i \in DOMAIN fs |-> d.val[k][fs[i]]]
CmdHEXISTS(d, k, f) == d.val[k][f] # Nil
CmdHKEYS(d, k) == SetToSortSeq(Entries(d, k), <)
CmdHVALS(d, k) == [i \in DOMAIN CmdHKEYS(d, k) |-> d.val[k][CmdHKEYS(d, k)[i]]]
CmdHGETALL(d, k) == [f \in Entries(d, k) |-> d.val[k][f]]
CmdHLEN(d, k) == Count(d.size[k])
CmdHKEYEXISTS(d, k) == d.size[k] # Nil

-----------------------------------------------------------------------------
CmdSADD(d, k, ms) == Put(d, k, [i \in DOMAIN ms |-> <<ms[i], Present>>])
CmdSREM(d, k, ms) == RemoveEntries(d, k, ms)
CmdSCLEAR(d, k) == Clear(d, k)
CmdSMCLEAR(d, ks) == EachOf(d, [k \in Range(ks) |-> Clear(d, k)])
CmdSPERSIST(d, k) == RmExpire(d, k)

SoptGeneric(d, op, ks) ==
    CASE op = "union" -> UNION {Entries(d, ks[i]) : i \in DOMAIN ks}
      [] op = "diff"  -> Entries(d, ks[1]) \ UNION {Entries(d, ks[i]) : i \in 2..Len(ks)}
      [] op = "inter" -> {m \in Entries(d, ks[1]) :
                              \A i \in DOMAIN ks : m \in Entries(d, ks[i])}

\* The result replaces the members of dst; its count is stored even when it
\* is zero, and an expiry time of dst stays.
SoptStoreGeneric(d, op, dst, ks) ==
    LET v == SoptGeneric(d, op, ks)
    IN  [d EXCEPT !.val[dst] = [m \in Member |-> IF m \in v THEN Present ELSE Nil],
                  !.size[dst] = Cardinality(v)]

CmdSCARD(d, k) == Count(d.size[k])
CmdSISMEMBER(d, k, m) == d.val[k][m] # Nil
CmdSMEMBERS(d, k) == SetToSortSeq(Entries(d, k), <)
CmdSKEYEXISTS(d, k) == d.size[k] # Nil

-----------------------------------------------------------------------------
(* Sorted sets: pairs are <<member, score>>.  Score entries are deleted by *)
(* the score the database has, and deletions and insertions of one batch   *)
(* act in their order.                                                     *)

CmdZADD(d, k, pairs) ==
    LET Drops(i, x) == pairs[i][1] = x[2] /\ d.val[k][x[2]] = x[1]
        Entry(i) == <<pairs[i][2], pairs[i][1]>>
    IN  [Put(d, k, pairs) EXCEPT !.index[k] =
            {x \in @ : \A i \in DOMAIN pairs : ~Drops(i, x)}
            \cup {Entry(i) : i \in {j \in DOMAIN pairs :
                                    \A l \in DOMAIN pairs : l > j => ~Drops(l, Entry(j))}}]

CmdZREM(d, k, ms) ==
    [RemoveEntries(d, k, ms) EXCEPT !.index[k] = {x \in @ :
        ~(Contains(ms, x[2]) /\ x[1] = d.val[k][x[2]])}]

\* The new score entry is put first, the old one deleted after it.
CmdZINCRBY(d, k, m, n) ==
    LET new == Count(d.val[k][m]) + n
    IN  [HSet(d, k, m, new) EXCEPT
            !.index[k] = (@ \cup {<<new, m>>}) \ {<<d.val[k][m], m>>}]

\* Mutant: the members go, their score entries stay.
ZRemMembers(d, k, X) ==
    LET gone == {x[2] : x \in X}
    IN  IncrSize([d EXCEPT !.val[k] = [m \in Member |-> IF m \in gone THEN Nil ELSE @[m]]],
                 k, 0 - Cardinality({x \in X : d.val[k][x[2]] # Nil}))

\* zRemRange: the members of the score entries in X, and those entries.
ZRemRange(d, k, X) ==
    LET gone == {x[2] : x \in X}
    IN  IncrSize([d EXCEPT !.val[k] = [m \in Member |-> IF m \in gone THEN Nil ELSE @[m]],
                           !.index[k] = @ \ X],
                 k, 0 - Cardinality({x \in X : d.val[k][x[2]] # Nil}))

CmdZCLEAR(d, k) == ZRemRange(d, k, d.index[k])

\* The score entries in key order.
Below(x, y) == x[1] < y[1] \/ (x[1] = y[1] /\ x[2] < y[2])
Ranked(X) == SetToSortSeq(X, Below)
Rank(X, x) == Cardinality({y \in X : Below(y, x)})

InScores(d, k, min, max) == {x \in d.index[k] : min <= x[1] /\ x[1] <= max}

\* zparseScoreRange: an open end moves the bound by one.
ZParseScoreRange(min, lopen, max, ropen) ==
    <<IF lopen THEN min + 1 ELSE min, IF ropen THEN max - 1 ELSE max>>

\* zParseLimit: offset and count; ends are relative to the stored count.
ZParseRange(d, k, a, b) ==
    LET n == Count(d.size[k])
        start == IF a < 0 THEN Most(n + a, 0) ELSE a
        stop == IF b < 0 THEN n + b ELSE b
    IN  IF ((a < 0 \/ b < 0) /\ start >= n) \/ start > stop THEN <<-1, 0>>
        ELSE <<start, stop - start + 1>>

\* RangeLimitIterator: nothing for a negative offset, all for a negative count.
Limit(s, offset, count) ==
    IF offset < 0 THEN <<>>
    ELSE SubSeq(s, offset + 1, IF count < 0 THEN Len(s) ELSE Least(Len(s), offset + count))

CmdZREMRANGEBYSCORE(d, k, min, max) == ZRemRange(d, k, InScores(d, k, min, max))

CmdZREMRANGEBYRANK(d, k, a, b) ==
    LET r == ZParseRange(d, k, a, b)
        In(n) == 0 <= r[1] /\ r[1] <= n /\ (r[2] < 0 \/ n < r[1] + r[2])
    IN  ZRemRange(d, k, {x \in d.index[k] : In(Rank(d.index[k], x))})

CmdZRANGE(d, k, a, b) ==
    LET r == ZParseRange(d, k, a, b) IN Limit(Ranked(d.index[k]), r[1], r[2])

CmdZREVRANGE(d, k, a, b) ==
    LET r == ZParseRange(d, k, a, b) IN Limit(Reverse(Ranked(d.index[k])), r[1], r[2])

CmdZRANGEBYSCORE(d, k, min, max, offset, count) ==
    Limit(Ranked(InScores(d, k, min, max)), offset, count)

CmdZREVRANGEBYSCORE(d, k, min, max, offset, count) ==
    Limit(Reverse(Ranked(InScores(d, k, min, max))), offset, count)

\* zrank counts the score entries up to the member's own, which must be there.
CmdZRANK(d, k, m) ==
    LET x == <<d.val[k][m], m>>
    IN  IF x \in d.index[k] THEN Rank(d.index[k], x) ELSE -1

CmdZREVRANK(d, k, m) ==
    LET x == <<d.val[k][m], m>>
    IN  IF x \in d.index[k] THEN Cardinality({y \in d.index[k] : Below(x, y)}) ELSE -1

CmdZSCORE(d, k, m) == d.val[k][m]
CmdZCARD(d, k) == Count(d.size[k])
CmdZCOUNT(d, k, min, max) == Cardinality(InScores(d, k, min, max))

-----------------------------------------------------------------------------
(* LEXPIRE, HEXPIRE, SEXPIRE (ts + duration) and their AT forms: a time in *)
(* the past clears the key; a time that is not in the future is refused.   *)

LExpireAt(d, k, when, now) ==
    IF when < now THEN LClear(d, k)
    ELSE IF when > now /\ d.list[k] # <<>> THEN SetExpire(d, k, when) ELSE d

EntriesExpireAt(d, k, when, now) ==
    IF when < now THEN Clear(d, k)
    ELSE IF when > now /\ Count(d.size[k]) > 0 THEN SetExpire(d, k, when) ELSE d

CmdLEXPIRE(d, k, ts, duration, now) == LExpireAt(d, k, ts + duration, now)
CmdLEXPIREAT(d, k, when, now) == LExpireAt(d, k, when, now)
CmdHEXPIRE(d, k, ts, duration, now) == EntriesExpireAt(d, k, ts + duration, now)
CmdHEXPIREAT(d, k, when, now) == EntriesExpireAt(d, k, when, now)
CmdSEXPIRE(d, k, ts, duration, now) == EntriesExpireAt(d, k, ts + duration, now)
CmdSEXPIREAT(d, k, when, now) == EntriesExpireAt(d, k, when, now)
=============================================================================
