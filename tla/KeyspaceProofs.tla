--------------------------- MODULE KeyspaceProofs ---------------------------
(***************************************************************************)
(* Theorems about Keyspace for every finite set of keys and members, every *)
(* page size and every bound.                                              *)
(***************************************************************************)
EXTENDS Keyspace, FiniteSetTheorems, WellFoundedInduction, TLAPS

(* A set of naturals that is not empty has a least element. *)
LEMMA LeastNat ==
    ASSUME NEW N, N \subseteq Nat, N # {}
    PROVE  \E n \in N : \A m \in N : n <= m
<1>1. PICK n \in N : \A m \in N : ~(<<m, n>> \in OpToRel(<, Nat))
  <2>1. IsWellFoundedOn(OpToRel(<, Nat), Nat)
    BY NatLessThanWellFounded
  <2> QED BY <2>1, WFMin
<1>2. ASSUME NEW m \in N PROVE n <= m
  <2>1. m \in Nat /\ n \in Nat
    OBVIOUS
  <2>2. ~(m < n)
    BY <1>1, <2>1, Zenon DEF OpToRel
  <2> QED BY <2>1, <2>2
<1> QED BY <1>2

-----------------------------------------------------------------------------
(* The pages of a scan.                                                    *)

(* The names of R that come before m. *)
Earlier(R, m, desc) == {x \in R : Before(x, m, desc)}

(* The order of a scan is a total order of the integers. *)
LEMMA BeforeOrder ==
    ASSUME NEW m \in Int, NEW n \in Int, NEW o \in Int, NEW desc
    PROVE  /\ ~Before(m, m, desc)
           /\ Before(m, n, desc) => ~Before(n, m, desc)
           /\ m # n => Before(m, n, desc) \/ Before(n, m, desc)
           /\ Before(m, n, desc) /\ Before(n, o, desc) => Before(m, o, desc)
BY DEF Before

(* A name has fewer names before it than any name after it. *)
LEMMA EarlierGrows ==
    ASSUME NEW R, R \subseteq Int, IsFiniteSet(R), NEW desc,
           NEW m \in R, NEW n \in R, Before(m, n, desc)
    PROVE  /\ Cardinality(Earlier(R, m, desc)) \in Nat
           /\ Cardinality(Earlier(R, n, desc)) \in Nat
           /\ Cardinality(Earlier(R, m, desc)) < Cardinality(Earlier(R, n, desc))
<1>1. Earlier(R, m, desc) \in SUBSET Earlier(R, n, desc)
  BY BeforeOrder DEF Earlier
<1>2. m \in Earlier(R, n, desc) /\ m \notin Earlier(R, m, desc)
  BY BeforeOrder DEF Earlier
<1>3. IsFiniteSet(Earlier(R, n, desc))
  BY FS_Subset DEF Earlier
<1>4. /\ IsFiniteSet(Earlier(R, m, desc))
      /\ Cardinality(Earlier(R, m, desc)) <= Cardinality(Earlier(R, n, desc))
      /\ Cardinality(Earlier(R, m, desc)) # Cardinality(Earlier(R, n, desc))
  BY <1>1, <1>2, <1>3, FS_Subset, Zenon
<1>5. Cardinality(Earlier(R, m, desc)) \in Nat /\ Cardinality(Earlier(R, n, desc)) \in Nat
  BY <1>3, <1>4, FS_CardinalityType
<1> QED BY <1>4, <1>5

(* The page of what rests, and what is known of it. *)
FirstOf(R, count, desc) == {m \in R : Cardinality(Earlier(R, m, desc)) < count}

PageFacts(R, P, count, desc) ==
    /\ P \subseteq R /\ IsFiniteSet(P) /\ Cardinality(P) \in Nat
    /\ Cardinality(P) < count => P = R
    /\ ~(Cardinality(P) < count) =>
          /\ Cardinality(P) = count
          /\ LastOf(P, desc) \in P
          /\ \A m \in R \ P : Before(LastOf(P, desc), m, desc)

(* A page that is not full holds all that rests. *)
LEMMA ShortPage ==
    ASSUME NEW R, R \subseteq Int, IsFiniteSet(R), NEW desc, NEW count \in Nat,
           Cardinality(FirstOf(R, count, desc)) < count
    PROVE  FirstOf(R, count, desc) = R
<1> DEFINE P == FirstOf(R, count, desc)
           C(m) == Cardinality(Earlier(R, m, desc))
<1>0. /\ P \in SUBSET R /\ IsFiniteSet(P) /\ Cardinality(P) \in Nat
      /\ \A m \in R : m \in P <=> C(m) < count
  BY FS_Subset, FS_CardinalityType DEF FirstOf
<1>1. \A m \in R : IsFiniteSet(Earlier(R, m, desc)) /\ C(m) \in Nat
  BY FS_Subset, FS_CardinalityType DEF Earlier
<1>2. SUFFICES ASSUME R \ P # {} PROVE FALSE
  BY <1>0
<1>3. PICK m \in R \ P : \A x \in R \ P : C(m) <= C(x)
  <2> DEFINE N == {C(x) : x \in R \ P}
  <2>1. N \subseteq Nat /\ N # {}
    BY <1>1, <1>2
  <2>2. PICK n \in N : \A o \in N : n <= o
    <3> HIDE DEF N
    <3> QED BY <2>1, LeastNat
  <2> QED BY <2>2
<1>4. Earlier(R, m, desc) \in SUBSET P
  <2> SUFFICES ASSUME NEW x \in Earlier(R, m, desc), x \notin P PROVE FALSE
    OBVIOUS
  <2>1. x \in R /\ Before(x, m, desc)
    BY DEF Earlier
  <2>2. C(x) < C(m)
    BY <2>1, EarlierGrows
  <2> QED BY <1>1, <1>3, <2>1, <2>2
<1>5. C(m) <= Cardinality(P)
  BY <1>0, <1>4, FS_Subset
<1>6. ~(C(m) < count)
  BY <1>0
<1> HIDE DEF P, C
<1>7. C(m) \in Nat /\ Cardinality(P) \in Nat /\ Cardinality(P) < count
  BY <1>0, <1>1 DEF P
<1> QED BY <1>5, <1>6, <1>7

(* A full page ends with its last name, and what it leaves out comes later. *)
LEMMA FullPage ==
    ASSUME NEW R, R \subseteq Int, IsFiniteSet(R), NEW desc, NEW count \in Nat \ {0},
           ~(Cardinality(FirstOf(R, count, desc)) < count)
    PROVE  LET P == FirstOf(R, count, desc)
           IN  /\ Cardinality(P) = count
               /\ LastOf(P, desc) \in P
               /\ \A m \in R \ P : Before(LastOf(P, desc), m, desc)
<1> DEFINE P == FirstOf(R, count, desc)
           C(m) == Cardinality(Earlier(R, m, desc))
<1>0. /\ P \in SUBSET R /\ IsFiniteSet(P) /\ Cardinality(P) \in Nat
      /\ \A m \in R : m \in P <=> C(m) < count
  BY FS_Subset, FS_CardinalityType DEF FirstOf
<1>1. \A m \in R : IsFiniteSet(Earlier(R, m, desc)) /\ C(m) \in Nat
  BY FS_Subset, FS_CardinalityType DEF Earlier
<1>2. P # {}
  <2>1. Cardinality(P) # 0
    BY <1>0
  <2> QED BY <2>1, FS_EmptySet
<1>3. PICK l \in P : \A x \in P : C(x) <= C(l)
  <2> DEFINE N == {count - C(x) : x \in P}
  <2>0. \A x \in P : count - C(x) \in Nat
    <3> HIDE DEF P, C
    <3>1. \A x \in P : C(x) \in Nat /\ C(x) < count
      BY <1>0, <1>1
    <3> QED BY <3>1
  <2>1. N \subseteq Nat /\ N # {}
    BY <2>0, <1>2, Zenon
  <2>2. PICK n \in N : \A o \in N : n <= o
    <3> HIDE DEF N
    <3> QED BY <2>1, LeastNat
  <2>3. PICK l \in P : n = count - C(l)
    BY <2>2
  <2>4. ASSUME NEW x \in P PROVE C(x) <= C(l)
    <3> DEFINE o == count - C(x)
    <3>1. count - C(l) <= count - C(x)
      BY <2>2, <2>3
    <3>2. C(l) \in Nat /\ C(x) \in Nat
      BY <1>0, <1>1
    <3> HIDE DEF C
    <3> QED BY <3>1, <3>2
  <2> QED BY <2>4
<1>4. \A x \in P : ~Before(l, x, desc)
  <2> SUFFICES ASSUME NEW x \in P, Before(l, x, desc) PROVE FALSE
    OBVIOUS
  <2>1. C(l) < C(x)
    BY <1>0, EarlierGrows
  <2>2. C(l) \in Nat /\ C(x) \in Nat /\ C(x) <= C(l)
    BY <1>0, <1>1, <1>3
  <2> HIDE DEF P, C
  <2> QED BY <2>1, <2>2
<1>5. LastOf(P, desc) \in P /\ \A x \in P : ~Before(LastOf(P, desc), x, desc)
  <2> HIDE DEF P
  <2> QED BY <1>4, Zenon DEF LastOf
<1> DEFINE last == LastOf(P, desc)
<1>6. last \in P /\ last \in R /\ last \in Int /\ \A x \in P : ~Before(last, x, desc)
  BY <1>0, <1>5
<1> HIDE DEF last
<1>7. P \ {last} \in SUBSET Earlier(R, last, desc)
  BY <1>0, <1>6, BeforeOrder DEF Earlier
<1>8. Cardinality(P) = count
  <2>1. Cardinality(P \ {last}) = Cardinality(P) - 1
    BY <1>0, <1>6, FS_RemoveElement
  <2>2. Cardinality(P \ {last}) <= C(last)
    BY <1>1, <1>6, <1>7, FS_Subset
  <2>3. C(last) < count /\ C(last) \in Nat
    BY <1>0, <1>1, <1>6
  <2>4. ~(Cardinality(P) < count)
    OBVIOUS
  <2> HIDE DEF P, C
  <2> QED BY <1>0, <2>1, <2>2, <2>3, <2>4
<1>9. ASSUME NEW m \in R \ P PROVE Before(last, m, desc)
  <2>1. CASE Before(m, last, desc)
    <3>1. C(m) < C(last)
      BY <1>6, <2>1, EarlierGrows
    <3> QED BY <1>0, <1>1, <1>6, <3>1
  <2>2. m # last /\ m \in Int
    BY <1>6
  <2> QED BY <1>6, <2>1, <2>2, BeforeOrder
<1> QED BY <1>5, <1>8, <1>9 DEF last

(* What Page returns of S after the cursor. *)
LEMMA PageCorrect ==
    ASSUME NEW S, S \subseteq Int, IsFiniteSet(S), NEW cursor, NEW desc,
           NEW count \in Nat \ {0}
    PROVE  PageFacts(Rest(S, cursor, desc), Page(S, cursor, count, desc), count, desc)
<1> DEFINE R == Rest(S, cursor, desc)
<1>1. R \subseteq Int /\ IsFiniteSet(R)
  BY FS_Subset DEF Rest
<1>2. Page(S, cursor, count, desc) = FirstOf(R, count, desc)
  BY DEF Page, FirstOf, Earlier
<1>3. FirstOf(R, count, desc) \in SUBSET R
  BY DEF FirstOf
<1> HIDE DEF R
<1>4. IsFiniteSet(FirstOf(R, count, desc)) /\ Cardinality(FirstOf(R, count, desc)) \in Nat
  BY <1>1, <1>3, FS_Subset, FS_CardinalityType
<1> QED BY <1>1, <1>2, <1>3, <1>4, ShortPage, FullPage DEF PageFacts, R

-----------------------------------------------------------------------------
(* The iteration of a client.                                              *)

ScanRecord ==
    [what : Key \cup {Nil}, group : {"redis", "x"}, count : Nat \ {0}, desc : BOOLEAN,
     cursor : Int \cup {Nil}, seen : SUBSET Int, stable : SUBSET Int,
     cut : BOOLEAN, done : BOOLEAN]

\* What has been there all along is there, and what of it the client has not
\* seen comes after the cursor.
OnCourse(c, S) ==
    /\ c.stable \subseteq S
    /\ ~c.done => c.stable \subseteq c.seen
                      \cup Rest(c.stable, ParseScanArgs(c.group, c.cursor), c.desc)
    /\ c.done => c.stable \subseteq c.seen \/ (c.cut /\ c.group = "redis")

ScanInv ==
    scan # Nil => /\ scan \in ScanRecord
                  /\ scan.what = Nil => scan.group = "x"
                  /\ scan.what # Nil => kind \in {"hash", "set", "zset"}
                  /\ OnCourse(scan, Scanned(d, str, scan.what))

(* A scan goes through names, finitely many. *)
LEMMA ScannedFinite ==
    ASSUME NEW e, NEW s, NEW what
    PROVE  Scanned(e, s, what) \subseteq Int /\ IsFiniteSet(Scanned(e, s, what))
<1>1. Existing(e, s) \in SUBSET Key
  <2>1. CASE kind = "kv"
    BY <2>1 DEF Existing
  <2>2. CASE kind = "list"
    BY <2>2 DEF Existing
  <2>3. CASE kind # "kv" /\ kind # "list"
    BY <2>3 DEF Existing
  <2> QED BY <2>1, <2>2, <2>3
<1>2. Entries(e, what) \in SUBSET Member
  BY DEF Entries
<1> QED BY <1>1, <1>2, FS_Subset, CollectionsAssumption, KeyspaceAssumption DEF Scanned

(* What a write leaves of an iteration. *)
LEMMA TrackedFields ==
    ASSUME NEW e, NEW s, scan # Nil, scan \in ScanRecord
    PROVE  /\ Tracked(e, s) \in ScanRecord
           /\ Tracked(e, s).what = scan.what /\ Tracked(e, s).group = scan.group
           /\ Tracked(e, s).desc = scan.desc /\ Tracked(e, s).cursor = scan.cursor
           /\ Tracked(e, s).seen = scan.seen /\ Tracked(e, s).cut = scan.cut
           /\ Tracked(e, s).done = scan.done
           /\ Tracked(e, s).stable = scan.stable \cap Scanned(e, s, scan.what)
<1> DEFINE S == scan.stable \cap Scanned(e, s, scan.what)
<1>1. S \in SUBSET Int
  BY DEF ScanRecord
<1>2. Tracked(e, s) = [scan EXCEPT !.stable = S]
  BY Zenon DEF Tracked
<1> HIDE DEF S
<1> DEFINE n == [scan EXCEPT !.stable = S]
<1>3. n \in ScanRecord
  BY <1>1, Zenon DEF ScanRecord
<1>4. /\ n.what = scan.what /\ n.group = scan.group /\ n.desc = scan.desc
      /\ n.cursor = scan.cursor /\ n.seen = scan.seen /\ n.cut = scan.cut
      /\ n.done = scan.done /\ n.stable = S
  BY Zenon DEF ScanRecord
<1> HIDE DEF n
<1>5. Tracked(e, s) = n
  BY <1>2 DEF n
<1> QED BY <1>3, <1>4, <1>5, Zenon DEF S

(* A write, whatever it leaves, keeps an iteration on course. *)
LEMMA TrackedKeeps ==
    ASSUME ScanInv, kind' = kind, scan' = Tracked(d', str')
    PROVE  ScanInv'
<1> SUFFICES ASSUME scan' # Nil PROVE ScanInv'
  BY DEF ScanInv
<1>1. scan # Nil
  BY DEF Tracked
<1> DEFINE S == Scanned(d', str', scan.what)
           c == Tracked(d', str')
<1>2. /\ c \in ScanRecord
      /\ c.what = scan.what /\ c.group = scan.group /\ c.desc = scan.desc
      /\ c.cursor = scan.cursor /\ c.seen = scan.seen /\ c.cut = scan.cut
      /\ c.done = scan.done /\ c.stable = scan.stable \cap S
  BY <1>1, TrackedFields DEF ScanInv
<1>3. S = Scanned(d', str', c.what)
  BY <1>2
<1>4. Scanned(d, str, scan.what)' = S
  <2> HIDE DEF c
  <2>1. scan' = c
    BY DEF c
  <2> QED BY <1>2, <2>1 DEF Scanned, Existing
<1> HIDE DEF S, c
<1>5. OnCourse(c, S)
  BY <1>1, <1>2 DEF ScanInv, OnCourse, Rest
<1>6. scan' = c
  BY DEF c
<1> QED BY <1>1, <1>2, <1>4, <1>5, <1>6 DEF ScanInv

(* The page the client gets, and the cursor. *)
LEMMA ReplyIs ==
    ASSUME scan # Nil, ScanInv
    PROVE  Reply(scan) = ScanReply(Scanned(d, str, scan.what), scan.group, scan.cursor,
                                   scan.count, scan.desc)
<1>1. CASE scan.what = Nil
  BY <1>1 DEF ScanInv, Reply, CmdXSCAN, Scanned
<1>2. CASE scan.what # Nil
  BY <1>2 DEF ScanInv, Reply, CmdXHSCAN, CmdXSSCAN, CmdXZSCAN, Scanned
<1> QED BY <1>1, <1>2

\* c is scan after a page.
Paged(c, next, page, cut, done) ==
    c = [scan EXCEPT !.cursor = next, !.seen = @ \cup page, !.cut = cut, !.done = done]

PagedFields(c, next, page, cut, done) ==
    /\ c \in ScanRecord
    /\ c.what = scan.what /\ c.group = scan.group /\ c.desc = scan.desc
    /\ c.cursor = next /\ c.seen = scan.seen \cup page /\ c.cut = cut
    /\ c.done = done /\ c.stable = scan.stable

(* What a page does to an iteration. *)
LEMMA NextFields ==
    ASSUME scan \in ScanRecord, NEW next \in Int \cup {Nil}, NEW page \in SUBSET Int,
           NEW cut \in BOOLEAN, NEW done \in BOOLEAN,
           NEW c, Paged(c, next, page, cut, done)
    PROVE  PagedFields(c, next, page, cut, done)
<1> DEFINE s == scan.seen \cup page
<1>1. s \in SUBSET Int
  BY Zenon DEF ScanRecord
<1>2. c = [scan EXCEPT !.cursor = next, !.seen = s, !.cut = cut, !.done = done]
  BY Zenon DEF Paged
<1> HIDE DEF s
<1>3. c \in ScanRecord
  BY <1>1, <1>2, Zenon DEF ScanRecord
<1>4. /\ c.what = scan.what /\ c.group = scan.group /\ c.desc = scan.desc
      /\ c.cursor = next /\ c.seen = s /\ c.cut = cut
      /\ c.done = done /\ c.stable = scan.stable
  BY <1>2, Zenon DEF ScanRecord
<1> QED BY <1>3, <1>4, Zenon DEF s, PagedFields

(* A page keeps an iteration on course. *)
LEMMA ScanNextKeeps ==
    ASSUME ScanInv, ScanNext
    PROVE  ScanInv'
<1>0. scan # Nil /\ scan.done = FALSE /\ scan \in ScanRecord
  BY Zenon DEF ScanNext, ScanInv, ScanRecord
<1> DEFINE S == Scanned(d, str, scan.what)
           cursor == ParseScanArgs(scan.group, scan.cursor)
           page == Page(S, cursor, scan.count, scan.desc)
           next == IF Cardinality(page) < scan.count THEN LastCursor(scan.group)
                   ELSE LastOf(page, scan.desc)
           cut == Cardinality(page) = scan.count /\ next = LastCursor(scan.group)
           done == next = LastCursor(scan.group)
<1>1. Reply(scan).page = page /\ Reply(scan).next = next
  BY <1>0, ReplyIs DEF ScanReply
<1>2. Paged(scan', next, page, cut, done)
  <2>1. scan' = [scan EXCEPT !.cursor = Reply(scan).next, !.seen = @ \cup Reply(scan).page,
                    !.cut = Cardinality(Reply(scan).page) = scan.count
                            /\ Reply(scan).next = LastCursor(scan.group),
                    !.done = Reply(scan).next = LastCursor(scan.group)]
    BY Zenon DEF ScanNext
  <2> DEFINE r == Reply(scan)
  <2> HIDE DEF page, next, r
  <2>2. r.page = page /\ r.next = next
    BY <1>1 DEF r
  <2> QED BY <2>1, <2>2, Zenon DEF r, Paged
<1>3. PageFacts(Rest(S, cursor, scan.desc), page, scan.count, scan.desc)
  <2>1. S \subseteq Int /\ IsFiniteSet(S)
    BY ScannedFinite
  <2>2. scan.count \in Nat \ {0}
    BY <1>0 DEF ScanRecord
  <2> HIDE DEF S, cursor
  <2> QED BY <2>1, <2>2, PageCorrect
<1>4. /\ scan.stable \subseteq S /\ S \subseteq Int
      /\ scan.stable \subseteq scan.seen \cup Rest(scan.stable, cursor, scan.desc)
  BY <1>0, ScannedFinite, Zenon DEF ScanInv, OnCourse
<1>5. LastCursor(scan.group) \in Int \cup {Nil} /\ Nil \notin Int
  BY KeyspaceAssumption, CollectionsAssumption DEF LastCursor
<1> HIDE DEF S, cursor, page
<1>6. page \in SUBSET Int /\ page \subseteq Rest(S, cursor, scan.desc)
  BY <1>3, <1>4 DEF PageFacts, Rest
<1>7. next \in Int \cup {Nil}
  BY <1>3, <1>5, <1>6 DEF PageFacts
<1>8. cut \in BOOLEAN /\ done \in BOOLEAN
  OBVIOUS
<1>9. scan.stable \subseteq scan.seen \cup page \/ ~(Cardinality(page) < scan.count)
  BY <1>3, <1>4 DEF PageFacts, Rest
<1>10. CASE Cardinality(page) < scan.count
  <2> HIDE DEF cut
  <2>1. done = TRUE
    BY <1>10
  <2> HIDE DEF next, done
  <2>2. /\ scan' \in ScanRecord /\ scan'.what = scan.what /\ scan'.group = scan.group
        /\ scan'.done = done /\ scan'.seen = scan.seen \cup page /\ scan'.stable = scan.stable
    <3>1. PagedFields(scan', next, page, cut, done)
      BY <1>0, <1>2, <1>6, <1>7, <1>8, NextFields, Zenon
    <3> QED BY <3>1, Zenon DEF PagedFields
  <2>3. Scanned(d, str, scan.what)' = S
    BY <2>2 DEF ScanNext, Scanned, Existing, S
  <2> QED BY <1>0, <1>4, <1>9, <1>10, <2>1, <2>2, <2>3 DEF ScanInv, OnCourse, ScanNext
<1>11. CASE ~(Cardinality(page) < scan.count)
  <2>1. /\ next = LastOf(page, scan.desc) /\ next \in page /\ next \in Int
        /\ Cardinality(page) = scan.count
        /\ \A m \in Rest(S, cursor, scan.desc) \ page : Before(next, m, scan.desc)
    BY <1>3, <1>6, <1>11 DEF PageFacts
  <2>2. scan.group \in {"redis", "x"}
    BY <1>0 DEF ScanRecord
  <2>3. done => cut /\ scan.group = "redis"
    BY <1>5, <2>1, <2>2 DEF LastCursor
  <2>4. ~done => ParseScanArgs(scan.group, next) = next
    BY <2>1, <2>2 DEF LastCursor, ParseScanArgs
  <2> HIDE DEF next, cut, done
  <2>5. /\ scan' \in ScanRecord /\ scan'.what = scan.what /\ scan'.group = scan.group
        /\ scan'.desc = scan.desc /\ scan'.cursor = next /\ scan'.cut = cut
        /\ scan'.done = done /\ scan'.seen = scan.seen \cup page /\ scan'.stable = scan.stable
    <3>1. PagedFields(scan', next, page, cut, done)
      BY <1>0, <1>2, <1>6, <1>7, <1>8, NextFields, Zenon
    <3> QED BY <3>1, Zenon DEF PagedFields
  <2>6. Scanned(d, str, scan.what)' = S
    BY <2>5 DEF ScanNext, Scanned, Existing, S
  <2>7. scan.stable \subseteq (scan.seen \cup page) \cup Rest(scan.stable, next, scan.desc)
    BY <1>4, <2>1 DEF Rest
  <2>8. OnCourse(scan', S)
    BY <1>4, <2>3, <2>4, <2>5, <2>7 DEF OnCourse
  <2> QED BY <1>0, <2>5, <2>6, <2>8 DEF ScanInv, ScanNext
<1> QED BY <1>10, <1>11

(* A scan that begins is on course. *)
LEMMA ScanBeginKeeps ==
    ASSUME ScanBegin, kind \in Kinds
    PROVE  ScanInv'
<1>1. PICK what \in Keys \cup {Nil}, mode \in ScanModes :
          /\ IF what = Nil THEN mode.group = "x" ELSE kind \in {"hash", "set", "zset"}
          /\ scan' = [what |-> what, group |-> mode.group, count |-> mode.count,
                      desc |-> mode.desc, cursor |-> LastCursor(mode.group), seen |-> {},
                      stable |-> Scanned(d, str, what), cut |-> FALSE, done |-> FALSE]
  BY DEF ScanBegin
<1>2. /\ what \in Key \cup {Nil} /\ mode.group \in {"redis", "x"}
      /\ mode.count \in Nat \ {0} /\ mode.desc \in BOOLEAN
  BY KeyspaceAssumption DEF Keys
<1>3. LastCursor(mode.group) \in Int \cup {Nil} /\ ParseScanArgs(mode.group, LastCursor(mode.group)) = Nil
  BY <1>2, KeyspaceAssumption DEF LastCursor, ParseScanArgs
<1> DEFINE S == Scanned(d, str, what)
<1>4. S \subseteq Int
  BY ScannedFinite
<1>5. UNCHANGED <<kind, d, str>>
  BY DEF ScanBegin
<1>6. Scanned(d, str, scan.what)' = S
  BY <1>1, <1>5 DEF Scanned, Existing
<1> HIDE DEF S
<1>7. scan' = [what |-> what, group |-> mode.group, count |-> mode.count,
               desc |-> mode.desc, cursor |-> LastCursor(mode.group), seen |-> {},
               stable |-> S, cut |-> FALSE, done |-> FALSE]
  BY <1>1, Zenon DEF S
<1>8. scan' \in ScanRecord
  BY <1>2, <1>3, <1>4, <1>7 DEF ScanRecord
<1>9. OnCourse(scan', S)
  BY <1>3, <1>7 DEF OnCourse, Rest
<1>10. scan'.what = what /\ scan'.group = mode.group
  BY <1>7
<1> QED BY <1>1, <1>5, <1>6, <1>8, <1>9, <1>10 DEF ScanInv

\* A step that writes: of strings or of the database.
Writes == kind' = kind /\ scan' = Tracked(d', str')

(* A command writes. *)
LEMMA LeavesWrites ==
    ASSUME NEW e, NEW s, NEW odd, Leaves(e, s, odd)
    PROVE  Writes
BY Zenon DEF Leaves, Writes

LEMMA CommandWrites ==
    ASSUME NEW k \in Keys,
           \/ ListCommand(k) \/ HashCommand(k) \/ SetCommand(k)
           \/ ZSetCommand(k) \/ StringCommand(k) \/ Persist(k)
           \/ \E t \in Keys : RPopLPush(k, t)
    PROVE  Writes
<1>1. CASE ListCommand(k)
  BY <1>1, LeavesWrites, Zenon DEF ListCommand, Write
<1>2. CASE HashCommand(k)
  BY <1>2, LeavesWrites, Zenon DEF HashCommand, Write
<1>3. CASE SetCommand(k)
  BY <1>3, LeavesWrites, Zenon DEF SetCommand, Write
<1>4. CASE ZSetCommand(k)
  BY <1>4, LeavesWrites, Zenon DEF ZSetCommand, Write
<1>5. CASE StringCommand(k)
  BY <1>5, LeavesWrites, Zenon DEF StringCommand, SetStr
<1>6. CASE Persist(k)
  BY <1>6, LeavesWrites, Zenon DEF Persist, Write
<1>7. CASE \E t \in Keys : RPopLPush(k, t)
  BY <1>7, LeavesWrites, Zenon DEF RPopLPush, Write
<1> QED BY <1>1, <1>2, <1>3, <1>4, <1>5, <1>6, <1>7

(* FLUSHALL and the TTL checker write. *)
LEMMA FlushAllWrites ==
    ASSUME FlushAll
    PROVE  Writes
BY Zenon DEF FlushAll, Writes

LEMMA CheckTTLWrites ==
    ASSUME NEW k, NEW t, CheckTTL(k, t)
    PROVE  Writes
<1> DEFINE e == IF kind = "list" THEN LClear(d, k) ELSE Clear(d, k)
           f == [e EXCEPT !.exp[k] = Nil, !.time = @ \ {<<k, t>>}]
<1>1. d' = f /\ scan' = Tracked(f, str) /\ str' = str /\ kind' = kind
  BY Zenon DEF CheckTTL
<1> HIDE DEF f
<1> QED BY <1>1, Zenon DEF Writes

(* The inductive invariant of iterations. *)
ScanKept == kind \in Kinds /\ ScanInv

LEMMA ScanKeptInit == Init => ScanKept
BY DEF Init, ScanKept, ScanInv

LEMMA ScanKeptNext ==
    ASSUME ScanKept, [Next]_vars
    PROVE  ScanKept'
<1>0. kind \in Kinds /\ ScanInv
  BY DEF ScanKept
<1>1. ASSUME Writes PROVE ScanKept'
  BY <1>0, <1>1, TrackedKeeps DEF Writes, ScanKept
<1>2. ASSUME NEW k \in Keys,
             \/ ListCommand(k) \/ HashCommand(k) \/ SetCommand(k)
             \/ ZSetCommand(k) \/ StringCommand(k) \/ Persist(k)
             \/ \E t \in Keys : RPopLPush(k, t)
      PROVE  ScanKept'
  BY <1>1, <1>2, CommandWrites
<1>3. ASSUME NEW k \in Keys, NEW t \in 0..(MaxTime + 2), CheckTTL(k, t)
      PROVE  ScanKept'
  BY <1>1, <1>3, CheckTTLWrites
<1>4. CASE FlushAll
  BY <1>1, <1>4, FlushAllWrites
<1>5. CASE ClockTick
  BY <1>0, <1>5 DEF ClockTick, ScanKept, ScanInv, Scanned, Existing
<1>6. CASE ScanBegin
  BY <1>0, <1>6, ScanBeginKeeps DEF ScanBegin, ScanKept
<1>7. CASE ScanNext
  BY <1>0, <1>7, ScanNextKeeps DEF ScanNext, ScanKept
<1>8. CASE UNCHANGED vars
  BY <1>0, <1>8 DEF vars, ScanKept, ScanInv, Scanned, Existing
<1> QED BY <1>2, <1>3, <1>4, <1>5, <1>6, <1>7, <1>8, Zenon DEF Next

(* However the keys and members change between two pages, an iteration     *)
(* that ended has returned every name that was there all along, for every  *)
(* count and direction of SCAN, HSCAN, SSCAN and ZSCAN; the exception is   *)
(* a full page of the Redis forms that ends at the name "0".               *)
THEOREM ScansComplete == Spec => []ScanComplete
<1>1. ScanKept => ScanComplete
  BY DEF ScanKept, ScanInv, OnCourse, ScanComplete
<1> QED BY <1>1, ScanKeptInit, ScanKeptNext, PTL DEF Spec

-----------------------------------------------------------------------------
(* The database of a data type.                                            *)

Datum == Int \cup {Blank, Nil}

LEMMA NilDatum == Nil \in Datum
BY DEF Datum

DB == [list : [Key -> Seq(Datum)], head : [Key -> Int], val : [Key -> [Member -> Datum]],
       size : [Key -> Int \cup {Nil}], orphan : [Key -> Datum],
       index : [Key -> SUBSET (Int \X Member)], exp : [Key -> Int \cup {Nil}],
       time : SUBSET (Key \X Int)]

\* What holds of a key whatever a client sent: a data type uses its own
\* fields only, the numbers of a list are in range, an expiry time has its
\* time key.
Basic(e, x) ==
    /\ kind # "list" => e.list[x] = <<>>
    /\ kind \in {"list", "kv"} => e.size[x] = Nil /\ e.val[x] = Empty
    /\ kind # "zset" => e.index[x] = {}
    /\ kind = "zset" => IsFiniteSet(e.index[x]) /\ \A m \in Member : e.val[x][m] # Blank
    /\ kind \in {"kv", "zset"} => e.exp[x] = Nil
    /\ e.exp[x] # Nil => <<x, e.exp[x]>> \in e.time
    /\ e.list[x] = <<>> => e.head[x] = 0
    /\ e.list[x] # <<>> => /\ MinSeq < e.head[x] /\ e.head[x] + Len(e.list[x]) - 1 < MaxSeq
                           /\ e.orphan[x] = Nil

\* The stored count is the number of entries.
CountRight(e, x) ==
    IF e.size[x] = Nil THEN Entries(e, x) = {} ELSE e.size[x] = Cardinality(Entries(e, x))

\* The score entries are those of the members.
IndexRight(e, x) ==
    kind = "zset" => e.index[x] = {<<e.val[x][m], m>> : m \in Entries(e, x)}

\* What holds of a key that is not suspect.
Sound(e, x) ==
    /\ CountRight(e, x)
    /\ IndexRight(e, x)
    /\ e.exp[x] # Nil => e.list[x] # <<>> \/ e.size[x] # Nil

\* An expiry time that e has and f has not is one of a key f has nothing of.
Kept(e, f, x) == e.exp[x] # Nil /\ f.exp[x] = Nil => f.list[x] = <<>> /\ Entries(f, x) = {}

KeysInv ==
    /\ kind \in Kinds /\ d \in DB /\ now \in Int
    /\ kind = "zset" => d.time = {}
    /\ \A x \in Key : /\ Basic(d, x) /\ Len(d.list[x]) <= MaxSize
                      /\ x \notin suspect => Sound(d, x)

\* e and f have the same of x.
SameFields(e, f, x) ==
    /\ f.list[x] = e.list[x] /\ f.head[x] = e.head[x] /\ f.orphan[x] = e.orphan[x]
    /\ f.val[x] = e.val[x] /\ f.size[x] = e.size[x] /\ f.index[x] = e.index[x]
    /\ f.exp[x] = e.exp[x]

TimeKept(e, f, x) == \A w : <<x, w>> \in e.time => <<x, w>> \in f.time

\* f is e but for the key k.
Frame(e, f, k) == \A x \in Key : x # k => SameFields(e, f, x) /\ TimeKept(e, f, x)

(* A key that a step leaves alone is as it was. *)
LEMMA SameKey ==
    ASSUME NEW e, NEW f, NEW x, SameFields(e, f, x), TimeKept(e, f, x) \/ e.exp[x] = Nil
    PROVE  /\ Basic(e, x) => Basic(f, x)
           /\ Sound(e, x) => Sound(f, x)
           /\ Kept(e, f, x)
<1>1. Basic(e, x) => Basic(f, x)
  BY DEF Basic, SameFields, TimeKept
<1>2. Entries(f, x) = Entries(e, x)
  BY DEF Entries, SameFields
<1>3. CountRight(e, x) => CountRight(f, x)
  BY <1>2 DEF CountRight, SameFields
<1>4. IndexRight(e, x) => IndexRight(f, x)
  BY <1>2 DEF IndexRight, SameFields
<1> QED BY <1>1, <1>3, <1>4 DEF Sound, Kept, SameFields

LEMMA FrameTrans ==
    ASSUME NEW e, NEW f, NEW g, NEW k, Frame(e, f, k), Frame(f, g, k)
    PROVE  Frame(e, g, k)
BY DEF Frame, SameFields, TimeKept

(* What the steps of the handlers leave in each field. *)
LEMMA RmExpireFields ==
    ASSUME NEW e \in DB, NEW k \in Key
    PROVE  LET f == RmExpire(e, k)
           IN  /\ f \in DB
               /\ f.list = e.list /\ f.head = e.head /\ f.orphan = e.orphan
               /\ f.val = e.val /\ f.size = e.size /\ f.index = e.index
               /\ f.exp = [e.exp EXCEPT ![k] = Nil]
               /\ f.time = e.time \ {<<k, e.exp[k]>>}
BY Zenon DEF DB, RmExpire

LEMMA RmExpireAt ==
    ASSUME NEW e \in DB, NEW k \in Key
    PROVE  LET f == RmExpire(e, k)
           IN  /\ f \in DB /\ Frame(e, f, k)
               /\ f.list[k] = e.list[k] /\ f.head[k] = e.head[k] /\ f.orphan[k] = e.orphan[k]
               /\ f.val[k] = e.val[k] /\ f.size[k] = e.size[k] /\ f.index[k] = e.index[k]
               /\ f.exp[k] = Nil /\ f.time \subseteq e.time
<1> DEFINE f == RmExpire(e, k)
<1>1. /\ f \in DB
      /\ f.list = e.list /\ f.head = e.head /\ f.orphan = e.orphan
      /\ f.val = e.val /\ f.size = e.size /\ f.index = e.index
      /\ f.exp = [e.exp EXCEPT ![k] = Nil]
      /\ f.time = e.time \ {<<k, e.exp[k]>>}
  BY RmExpireFields
<1>2. e.exp \in [Key -> Int \cup {Nil}]
  BY DEF DB
<1> HIDE DEF f
<1>3. f.exp[k] = Nil /\ \A x \in Key : x # k => f.exp[x] = e.exp[x]
  BY <1>1, <1>2
<1>4. ASSUME NEW x, NEW w, x # k, <<x, w>> \in e.time
      PROVE  <<x, w>> \in f.time
  BY <1>1, <1>4, Zenon
<1>5. Frame(e, f, k)
  BY <1>1, <1>3, <1>4, Zenon DEF Frame, SameFields, TimeKept
<1>6. f.time \subseteq e.time
  BY <1>1
<1> QED BY <1>1, <1>3, <1>5, <1>6 DEF f

LEMMA SetExpireAt ==
    ASSUME NEW e \in DB, NEW k \in Key, NEW w \in Int
    PROVE  LET f == SetExpire(e, k, w)
           IN  /\ f \in DB /\ Frame(e, f, k)
               /\ f.list[k] = e.list[k] /\ f.head[k] = e.head[k] /\ f.orphan[k] = e.orphan[k]
               /\ f.val[k] = e.val[k] /\ f.size[k] = e.size[k] /\ f.index[k] = e.index[k]
               /\ f.exp[k] = w /\ <<k, w>> \in f.time
<1> DEFINE f == SetExpire(e, k, w)
<1>1. /\ f \in DB
      /\ f.list = e.list /\ f.head = e.head /\ f.orphan = e.orphan
      /\ f.val = e.val /\ f.size = e.size /\ f.index = e.index
      /\ f.exp = [e.exp EXCEPT ![k] = w]
      /\ f.time = e.time \cup {<<k, w>>}
  <2> DEFINE T == e.time \cup {<<k, w>>}
             X == [e.exp EXCEPT ![k] = w]
  <2>1. T \in SUBSET (Key \X Int) /\ X \in [Key -> Int \cup {Nil}]
    BY SMT DEF DB
  <2>2. f = [e EXCEPT !.exp = X, !.time = T]
    BY Zenon DEF SetExpire
  <2> HIDE DEF T, X
  <2>3. /\ [e EXCEPT !.exp = X, !.time = T] \in DB
        /\ f.list = e.list /\ f.head = e.head /\ f.orphan = e.orphan
        /\ f.val = e.val /\ f.size = e.size /\ f.index = e.index
        /\ f.exp = X /\ f.time = T
    BY <2>1, <2>2, Zenon DEF DB
  <2> QED BY <2>2, <2>3, Zenon DEF X, T
<1>2. e.exp \in [Key -> Int \cup {Nil}]
  BY DEF DB
<1> HIDE DEF f
<1>3. f.exp[k] = w /\ \A x \in Key : x # k => f.exp[x] = e.exp[x]
  BY <1>1, <1>2
<1>5. Frame(e, f, k)
  BY <1>1, <1>3, Zenon DEF Frame, SameFields, TimeKept
<1> QED BY <1>1, <1>3, <1>5 DEF f

\* f is e but for the list of k, its number and its orphan.
ListSet(e, f, k, s, h, o) ==
    /\ f \in DB /\ Frame(e, f, k)
    /\ f.list[k] = s /\ f.head[k] = h /\ f.orphan[k] = o
    /\ f.val[k] = e.val[k] /\ f.size[k] = e.size[k] /\ f.index[k] = e.index[k]
    /\ f.exp[k] = e.exp[k] /\ TimeKept(e, f, k)

ListAssigned(e, f, k, s, h, o) ==
    /\ f \in DB
    /\ f.list = [e.list EXCEPT ![k] = s] \/ (f.list = e.list /\ s = e.list[k])
    /\ f.head = [e.head EXCEPT ![k] = h] \/ (f.head = e.head /\ h = e.head[k])
    /\ f.orphan = [e.orphan EXCEPT ![k] = o] \/ (f.orphan = e.orphan /\ o = e.orphan[k])
    /\ f.val = e.val /\ f.size = e.size /\ f.index = e.index /\ f.exp = e.exp /\ f.time = e.time

(* Replacing a list. *)
LEMMA ListSetIs ==
    ASSUME NEW e \in DB, NEW k \in Key, NEW s \in Seq(Datum), NEW h \in Int,
           NEW o \in Datum, NEW f, ListAssigned(e, f, k, s, h, o)
    PROVE  ListSet(e, f, k, s, h, o)
<1>1. e.list \in [Key -> Seq(Datum)] /\ e.head \in [Key -> Int] /\ e.orphan \in [Key -> Datum]
  BY DEF DB
<1>2. f.list[k] = s /\ f.head[k] = h /\ f.orphan[k] = o
  BY <1>1 DEF ListAssigned
<1>3. \A x \in Key : x # k => /\ f.list[x] = e.list[x] /\ f.head[x] = e.head[x]
                              /\ f.orphan[x] = e.orphan[x]
  BY <1>1 DEF ListAssigned
<1> QED BY <1>2, <1>3, Zenon DEF ListSet, Frame, SameFields, TimeKept, ListAssigned

\* f is a database that a command on k may leave of e.
Good(e, f, k) ==
    /\ f \in DB /\ Frame(e, f, k) /\ Basic(f, k) /\ Kept(e, f, k)
    /\ Sound(e, k) => Sound(f, k)

-----------------------------------------------------------------------------
(* Lists.                                                                  *)

LEMMA ListSound ==
    ASSUME NEW e, NEW k, kind = "list", Basic(e, k)
    PROVE  /\ Entries(e, k) = {}
           /\ Sound(e, k) <=> (e.exp[k] # Nil => e.list[k] # <<>>)
<1>1. Entries(e, k) = {}
  BY DEF Basic, Entries, Empty
<1> QED BY <1>1 DEF Basic, Sound, CountRight, IndexRight

LEMMA SameGood ==
    ASSUME NEW e \in DB, NEW k, Basic(e, k)
    PROVE  Good(e, e, k)
BY DEF Good, Frame, SameFields, TimeKept, Kept

(* A list that has elements, within the range of numbers. *)
LEMMA ListSetGood ==
    ASSUME kind = "list", NEW e \in DB, NEW k \in Key, Basic(e, k), NEW s \in Seq(Datum), s # <<>>,
           NEW h \in Int, MinSeq < h, h + Len(s) - 1 < MaxSeq, NEW f, ListSet(e, f, k, s, h, Nil)
    PROVE  Good(e, f, k)
<1>1. Basic(f, k)
  BY DEF Basic, ListSet, TimeKept
<1>2. Sound(f, k)
  BY <1>1, ListSound DEF ListSet
<1> QED BY <1>1, <1>2 DEF Good, ListSet, Kept

\* f has what is left of the list of k.
PoppedIs(e, f, k, s, h) ==
    /\ Good(e, f, k) /\ f.list[k] = s /\ f.orphan[k] = e.orphan[k]
    /\ f.head[k] = IF s = <<>> THEN 0 ELSE h
    /\ f.exp[k] = IF s = <<>> THEN Nil ELSE e.exp[k]

InRange(e, k, s, h) ==
    s # <<>> => MinSeq < h /\ h + Len(s) - 1 < MaxSeq /\ e.orphan[k] = Nil

(* lSetMeta: what is left of a list. *)
LEMMA PoppedGood ==
    ASSUME kind = "list", NEW e \in DB, NEW k \in Key, Basic(e, k), NEW s \in Seq(Datum),
           NEW h \in Int, InRange(e, k, s, h)
    PROVE  PoppedIs(e, Popped(e, k, s, h), k, s, h)
<1> DEFINE f == Popped(e, k, s, h)
<1>1. CASE s # <<>>
  <2> DEFINE g == [e EXCEPT !.list[k] = s, !.head[k] = h]
  <2>1. /\ g \in DB /\ g.list = [e.list EXCEPT ![k] = s] /\ g.head = [e.head EXCEPT ![k] = h]
        /\ g.orphan = e.orphan
        /\ g.val = e.val /\ g.size = e.size /\ g.index = e.index /\ g.exp = e.exp /\ g.time = e.time
    BY Zenon DEF DB
  <2>2. f = g
    BY <1>1, Zenon DEF Popped
  <2> HIDE DEF g, f
  <2>3. /\ e.orphan[k] = Nil /\ Nil \in Datum
        /\ MinSeq < h /\ h + Len(s) - 1 < MaxSeq
    BY <1>1, NilDatum DEF InRange
  <2>4. ListSet(e, g, k, s, h, Nil)
    <3>1. ListAssigned(e, g, k, s, h, Nil)
      BY <2>1, <2>3, Zenon DEF ListAssigned
    <3> QED BY <2>3, <3>1, ListSetIs
  <2>5. Good(e, g, k)
    BY <1>1, <2>3, <2>4, ListSetGood
  <2> QED BY <1>1, <2>2, <2>3, <2>4, <2>5 DEF ListSet, f, PoppedIs
<1>2. CASE s = <<>>
  <2> DEFINE g == [e EXCEPT !.list[k] = s, !.head[k] = 0]
  <2>1. /\ g \in DB /\ g.list = [e.list EXCEPT ![k] = s] /\ g.head = [e.head EXCEPT ![k] = 0]
        /\ g.orphan = e.orphan
        /\ g.val = e.val /\ g.size = e.size /\ g.index = e.index /\ g.exp = e.exp /\ g.time = e.time
    <3>1. 0 \in Int
      OBVIOUS
    <3> QED BY <3>1, Zenon DEF DB
  <2>2. f = RmExpire(g, k)
    BY <1>2, Zenon DEF Popped
  <2> HIDE DEF g, f
  <2>3. e.orphan[k] \in Datum
    BY DEF DB
  <2>4. ListSet(e, g, k, s, 0, e.orphan[k])
    <3> DEFINE o == e.orphan[k]
    <3>0. 0 \in Int
      OBVIOUS
    <3>1. o \in Datum /\ ListAssigned(e, g, k, s, 0, o)
      BY <2>1, <2>3, Zenon DEF ListAssigned
    <3> HIDE DEF o
    <3>2. ListSet(e, g, k, s, 0, o)
      BY <3>0, <3>1, ListSetIs
    <3> QED BY <3>2 DEF o
  <2>5. /\ f \in DB /\ Frame(g, f, k)
        /\ f.list[k] = g.list[k] /\ f.head[k] = g.head[k] /\ f.orphan[k] = g.orphan[k]
        /\ f.val[k] = g.val[k] /\ f.size[k] = g.size[k] /\ f.index[k] = g.index[k]
        /\ f.exp[k] = Nil
    BY <2>1, <2>2, RmExpireAt
  <2>6. Frame(e, f, k)
    BY <2>4, <2>5, FrameTrans DEF ListSet
  <2>7. Basic(f, k)
    BY <1>2, <2>4, <2>5 DEF Basic, ListSet
  <2>8. Sound(f, k) /\ Entries(f, k) = {}
    BY <2>5, <2>7, ListSound
  <2>9. f.list[k] = <<>> /\ f.head[k] = 0 /\ f.orphan[k] = e.orphan[k]
    BY <1>2, <2>4, <2>5 DEF ListSet
  <2> QED BY <1>2, <2>5, <2>6, <2>7, <2>8, <2>9 DEF Good, Kept, f, PoppedIs
<1> QED BY <1>1, <1>2

LEMMA LClearGood ==
    ASSUME kind = "list", NEW e \in DB, NEW k \in Key, Basic(e, k)
    PROVE  /\ Good(e, LClear(e, k), k) /\ LClear(e, k).exp[k] = Nil
           /\ LClear(e, k).list[k] = <<>>
<1> DEFINE p == Popped(e, k, <<>>, 0)
           f == [p EXCEPT !.orphan[k] = Nil]
<1>1. /\ Good(e, p, k) /\ p.list[k] = <<>> /\ p.head[k] = 0 /\ p.exp[k] = Nil
  <2>1. <<>> \in Seq(Datum) /\ 0 \in Int
    OBVIOUS
  <2> DEFINE s == <<>>
  <2>2. s \in Seq(Datum) /\ InRange(e, k, s, 0)
    BY <2>1 DEF InRange
  <2> HIDE DEF s
  <2>3. PoppedIs(e, Popped(e, k, s, 0), k, s, 0)
    BY <2>1, <2>2, PoppedGood
  <2> QED BY <2>3 DEF PoppedIs, s
<1>2. p \in DB /\ Frame(e, p, k) /\ Basic(p, k)
  BY <1>1 DEF Good
<1> HIDE DEF p
<1>3. /\ f \in DB /\ f.orphan = [p.orphan EXCEPT ![k] = Nil]
      /\ f.list = p.list /\ f.head = p.head
      /\ f.val = p.val /\ f.size = p.size /\ f.index = p.index /\ f.exp = p.exp /\ f.time = p.time
  BY <1>2, NilDatum, Zenon DEF DB
<1>4. LClear(e, k) = f
  BY Zenon DEF LClear, p
<1> HIDE DEF f
<1>5. ListSet(p, f, k, <<>>, 0, Nil)
  <2> DEFINE s == <<>>
  <2>1. s \in Seq(Datum) /\ 0 \in Int /\ Nil \in Datum /\ s = p.list[k]
    BY <1>1, NilDatum
  <2> HIDE DEF s
  <2>2. ListAssigned(p, f, k, s, 0, Nil)
    BY <1>1, <1>2, <1>3, <2>1, Zenon DEF ListAssigned
  <2>3. ListSet(p, f, k, s, 0, Nil)
    BY <1>2, <2>1, <2>2, ListSetIs
  <2> QED BY <2>3 DEF s
<1>6. Frame(e, f, k)
  BY <1>2, <1>5, FrameTrans DEF ListSet
<1>7. Basic(f, k)
  BY <1>1, <1>2, <1>5 DEF Basic, ListSet
<1>8. Sound(f, k) /\ Entries(f, k) = {}
  BY <1>1, <1>3, <1>7, ListSound
<1> QED BY <1>1, <1>3, <1>4, <1>5, <1>6, <1>7, <1>8 DEF Good, Kept, ListSet

\* What Basic says of the list L with first number H.
ListNumbers(e, k, L, H, n) ==
    /\ L = e.list[k] /\ H = e.head[k] /\ n = Len(L)
    /\ L \in Seq(Datum) /\ H \in Int /\ n \in Nat
    /\ L = <<>> => H = 0 /\ n = 0
    /\ L # <<>> => n > 0 /\ MinSeq < H /\ H + n - 1 < MaxSeq /\ e.orphan[k] = Nil
    /\ MinSeq \in Int /\ MaxSeq \in Int /\ MinSeq < 0 /\ 0 < MaxSeq
    /\ Nil \in Datum

LEMMA ListFacts ==
    ASSUME NEW e \in DB, NEW k \in Key, Basic(e, k)
    PROVE  ListNumbers(e, k, e.list[k], e.head[k], Len(e.list[k]))
<1>1. e.list[k] \in Seq(Datum) /\ e.head[k] \in Int
  BY DEF DB
<1> DEFINE L == e.list[k]
<1>2. L \in Seq(Datum)
  BY <1>1
<1> HIDE DEF L
<1>3. Len(L) \in Nat /\ (L = <<>> => Len(L) = 0) /\ (L # <<>> => Len(L) > 0)
  BY <1>2
<1> QED BY <1>1, <1>3, NilDatum, CollectionsAssumption DEF ListNumbers, Basic, L

LEMMA ConcatFacts ==
    ASSUME NEW r \in Seq(Datum), NEW s \in Seq(Datum)
    PROVE  /\ r \o s \in Seq(Datum) /\ Len(r \o s) = Len(r) + Len(s)
           /\ Len(r) \in Nat /\ Len(s) \in Nat
           /\ r # <<>> => Len(r) > 0
           /\ s # <<>> => Len(s) > 0
OBVIOUS

LEMMA LPushGood ==
    ASSUME kind = "list", NEW e \in DB, NEW k \in Key, Basic(e, k),
           NEW es \in Seq(Datum), es # <<>>
    PROVE  /\ Good(e, CmdLPUSH(e, k, es), k)
           /\ CmdLPUSH(e, k, es).exp[k] = e.exp[k]
           /\ CanLPush(e, k, Len(es)) =>
                 CmdLPUSH(e, k, es).list[k] = Reverse(es) \o e.list[k]
<1> DEFINE f == CmdLPUSH(e, k, es)
<1>1. CASE ~CanLPush(e, k, Len(es))
  <2>1. f = e
    BY <1>1, Zenon DEF CmdLPUSH
  <2> QED BY <1>1, <2>1, SameGood
<1>2. CASE CanLPush(e, k, Len(es))
  <2> DEFINE L == e.list[k]
             H == e.head[k]
             n == Len(L)
             s == Reverse(es) \o L
             h == (IF L = <<>> THEN 1 ELSE H) - Len(es)
             g == [e EXCEPT !.list[k] = s, !.orphan[k] = Nil, !.head[k] = h]
  <2>1. f = g
    BY <1>2, Zenon DEF CmdLPUSH
  <2>2. Reverse(es) \in Seq(Datum) /\ Len(Reverse(es)) = Len(es)
    BY DEF Reverse
  <2>a. ListNumbers(e, k, L, H, n) /\ h > MinSeq
    BY <1>2, ListFacts DEF CanLPush
  <2> HIDE DEF L, H, n
  <2>b. Reverse(es) # <<>>
    BY <2>2
  <2> DEFINE r == Reverse(es)
  <2> HIDE DEF r
  <2>c. r \in Seq(Datum) /\ r # <<>> /\ Len(r) = Len(es) /\ L \in Seq(Datum) /\ s = r \o L
    BY <2>2, <2>a, <2>b DEF r, ListNumbers
  <2>3. /\ s \in Seq(Datum) /\ s # <<>> /\ Len(s) = Len(es) + n
    <3>1. /\ r \o L \in Seq(Datum) /\ Len(r \o L) = Len(r) + Len(L) /\ Len(L) \in Nat /\ Len(r) > 0
      BY <2>c, ConcatFacts
    <3>2. Len(r \o L) > 0
      BY <2>c, <3>1
    <3>3. r \o L # <<>>
      BY <3>1, <3>2
    <3> QED BY <2>a, <2>c, <3>1, <3>3 DEF n
  <2>4. h \in Int /\ MinSeq < h
    BY <2>a DEF ListNumbers
  <2>5. h + Len(s) - 1 < MaxSeq
    <3> DEFINE ls == Len(s)
               m == Len(es)
    <3>1. ls = m + n /\ m \in Nat
      BY <2>3
    <3>2. h = (IF L = <<>> THEN 1 ELSE H) - m
      OBVIOUS
    <3> HIDE DEF s, m, ls, h
    <3>3. CASE L = <<>>
      <4>1. n = 0 /\ h = 1 - m /\ 0 < MaxSeq /\ MaxSeq \in Int
        BY <2>a, <3>2, <3>3 DEF ListNumbers
      <4>2. h + ls - 1 < MaxSeq
        BY <3>1, <4>1
      <4> QED BY <4>2 DEF ls
    <3>4. CASE L # <<>>
      <4>1. n \in Nat /\ h = H - m /\ H \in Int /\ H + n - 1 < MaxSeq /\ MaxSeq \in Int
        BY <2>a, <3>2, <3>4 DEF ListNumbers
      <4>2. h + ls - 1 < MaxSeq
        BY <3>1, <4>1
      <4> QED BY <4>2 DEF ls
    <3> QED BY <3>3, <3>4
  <2> HIDE DEF s, h
  <2>6. ListAssigned(e, g, k, s, h, Nil)
    BY <2>3, <2>4, NilDatum, Zenon DEF DB, ListAssigned
  <2>d. s = Reverse(es) \o e.list[k]
    BY DEF s, L
  <2> HIDE DEF g
  <2>7. Nil \in Datum
    BY NilDatum
  <2>8. ListSet(e, g, k, s, h, Nil)
    BY <2>3, <2>4, <2>6, <2>7, ListSetIs
  <2>9. Good(e, g, k)
    BY <2>3, <2>4, <2>5, <2>8, ListSetGood
  <2> QED BY <1>2, <2>1, <2>d, <2>8, <2>9 DEF ListSet
<1> QED BY <1>1, <1>2

LEMMA RPushGood ==
    ASSUME kind = "list", NEW e \in DB, NEW k \in Key, Basic(e, k),
           NEW es \in Seq(Datum), es # <<>>
    PROVE  /\ Good(e, CmdRPUSH(e, k, es), k)
           /\ CmdRPUSH(e, k, es).exp[k] = e.exp[k]
           /\ CanRPush(e, k, Len(es)) => CmdRPUSH(e, k, es).list[k] = e.list[k] \o es
<1> DEFINE f == CmdRPUSH(e, k, es)
<1>1. CASE ~CanRPush(e, k, Len(es))
  <2>1. f = e
    BY <1>1, Zenon DEF CmdRPUSH
  <2> QED BY <1>1, <2>1, SameGood
<1>2. CASE CanRPush(e, k, Len(es))
  <2> DEFINE s == e.list[k] \o es
             h == e.head[k]
             g == [e EXCEPT !.list[k] = s, !.orphan[k] = Nil]
  <2>1. f = g
    BY <1>2, Zenon DEF CmdRPUSH
  <2> DEFINE L == e.list[k]
             n == Len(L)
  <2>a. ListNumbers(e, k, L, h, n) /\ h + n + Len(es) - 1 < MaxSeq
    BY <1>2, ListFacts DEF CanRPush
  <2>b. s = L \o es /\ h = e.head[k]
    OBVIOUS
  <2> HIDE DEF L, h, n, s
  <2>2. /\ s \in Seq(Datum) /\ s # <<>> /\ Len(s) = Len(es) + n
    <3>1. L \in Seq(Datum)
      BY <2>a DEF ListNumbers
    <3>2. /\ L \o es \in Seq(Datum) /\ L \o es # <<>> /\ Len(L \o es) = Len(L) + Len(es)
      BY <3>1
    <3> QED BY <2>a, <2>b, <3>1, <3>2 DEF n
  <2>3. h \in Int /\ MinSeq < h
    BY <2>a DEF ListNumbers
  <2>4. h + Len(s) - 1 < MaxSeq
    <3> DEFINE ls == Len(s)
               m == Len(es)
    <3>1. ls = m + n /\ m \in Nat
      BY <2>2
    <3>2. h + n + m - 1 < MaxSeq
      BY <2>a
    <3> HIDE DEF m, ls
    <3>a. h \in Int /\ n \in Nat /\ MaxSeq \in Int
      BY <2>a DEF ListNumbers
    <3>3. h + ls - 1 < MaxSeq
      BY <3>1, <3>2, <3>a
    <3> QED BY <3>3 DEF ls
  <2>5. ListAssigned(e, g, k, s, h, Nil)
    BY <2>2, <2>3, <2>b, NilDatum, Zenon DEF DB, ListAssigned
  <2> HIDE DEF g
  <2>6. Nil \in Datum
    BY NilDatum
  <2>7. ListSet(e, g, k, s, h, Nil)
    BY <2>2, <2>3, <2>5, <2>6, ListSetIs
  <2>8. Good(e, g, k)
    BY <2>2, <2>3, <2>4, <2>7, ListSetGood
  <2> QED BY <1>2, <2>1, <2>7, <2>8 DEF ListSet, s
<1> QED BY <1>1, <1>2

LEMMA LPopGood ==
    ASSUME kind = "list", NEW e \in DB, NEW k \in Key, Basic(e, k)
    PROVE  Good(e, CmdLPOP(e, k), k)
<1>1. CASE e.list[k] = <<>>
  BY <1>1, SameGood DEF CmdLPOP
<1>2. CASE e.list[k] # <<>>
  <2> DEFINE s == Tail(e.list[k])
             h == e.head[k] + 1
  <2> DEFINE n == Len(e.list[k])
  <2>a. ListNumbers(e, k, e.list[k], e.head[k], n)
    BY ListFacts
  <2>1. s \in Seq(Datum) /\ h \in Int /\ Len(s) = n - 1
    BY <1>2, <2>a DEF ListNumbers
  <2>2. InRange(e, k, s, h)
    <3> DEFINE ls == Len(s)
    <3>2. ls = n - 1
      BY <2>1
    <3> HIDE DEF s, n, ls
    <3>3. MinSeq < h /\ h + ls - 1 < MaxSeq /\ e.orphan[k] = Nil
      BY SMTT(60), <1>2, <2>a, <3>2 DEF ListNumbers
    <3> QED BY <3>3 DEF InRange, ls
  <2>3. CmdLPOP(e, k) = Popped(e, k, s, h)
    BY <1>2 DEF CmdLPOP
  <2> HIDE DEF s, h
  <2> QED BY <2>1, <2>2, <2>3, PoppedGood DEF PoppedIs
<1> QED BY <1>1, <1>2

LEMMA RPopGood ==
    ASSUME kind = "list", NEW e \in DB, NEW k \in Key, Basic(e, k)
    PROVE  /\ e.list[k] = <<>> => Good(e, CmdRPOP(e, k), k)
           /\ e.list[k] # <<>> => PoppedIs(e, CmdRPOP(e, k), k, Front(e.list[k]), e.head[k])
<1>1. CASE e.list[k] = <<>>
  BY <1>1, SameGood DEF CmdRPOP
<1>2. CASE e.list[k] # <<>>
  <2> DEFINE s == Front(e.list[k])
             h == e.head[k]
  <2> DEFINE n == Len(e.list[k])
  <2>a. ListNumbers(e, k, e.list[k], h, n)
    BY ListFacts
  <2>1. s \in Seq(Datum) /\ h \in Int /\ Len(s) = n - 1
    BY <1>2, <2>a DEF ListNumbers, Front
  <2>2. InRange(e, k, s, h)
    <3> DEFINE ls == Len(s)
    <3>2. ls = n - 1
      BY <2>1
    <3> HIDE DEF s, n, ls
    <3>3. MinSeq < h /\ h + ls - 1 < MaxSeq /\ e.orphan[k] = Nil
      BY <1>2, <2>a, <3>2 DEF ListNumbers
    <3> QED BY <3>3 DEF InRange, ls
  <2>3. CmdRPOP(e, k) = Popped(e, k, s, h)
    BY <1>2 DEF CmdRPOP
  <2> HIDE DEF s, h
  <2>4. PoppedIs(e, CmdRPOP(e, k), k, s, h)
    BY <2>1, <2>2, <2>3, PoppedGood
  <2> QED BY <1>2, <2>4 DEF s, h
<1> QED BY <1>1, <1>2

LEMMA LSetGood ==
    ASSUME kind = "list", NEW e \in DB, NEW k \in Key, Basic(e, k), NEW i \in Int, NEW v \in Datum
    PROVE  Good(e, CmdLSET(e, k, i, v), k)
<1> DEFINE L == e.list[k]
           h == e.head[k]
           n == Len(L)
           p == Position(e, k, i)
<1>0. ListNumbers(e, k, L, h, n)
  BY ListFacts
<1>1. CASE p \in DOMAIN L
  <2> DEFINE s == [L EXCEPT ![p] = v]
             g == [e EXCEPT !.list[k] = s]
  <2>1. CmdLSET(e, k, i, v) = g
    BY <1>1, Zenon DEF CmdLSET
  <2>2. L \in Seq(Datum)
    BY <1>0 DEF ListNumbers
  <2> HIDE DEF p, L, h, n
  <2>3. s \in Seq(Datum) /\ Len(s) = Len(L) /\ L # <<>> /\ s # <<>>
    BY <1>1, <2>2
  <2>4. /\ h \in Int /\ MinSeq < h /\ h + n - 1 < MaxSeq /\ e.orphan[k] = Nil
        /\ n = Len(L) /\ h = e.head[k]
    BY <1>0, <2>3 DEF ListNumbers
  <2> HIDE DEF s
  <2>5. ListAssigned(e, g, k, s, h, Nil)
    BY <2>3, <2>4, Zenon DEF DB, ListAssigned
  <2> HIDE DEF g
  <2>6. Nil \in Datum /\ h + Len(s) - 1 < MaxSeq
    BY <2>3, <2>4, NilDatum
  <2>7. ListSet(e, g, k, s, h, Nil)
    BY <2>3, <2>4, <2>5, <2>6, ListSetIs
  <2> QED BY <2>1, <2>3, <2>4, <2>6, <2>7, ListSetGood
<1>2. CASE p \notin DOMAIN L /\ L = <<>> /\ i \in {0, -1}
  <2> DEFINE g == [e EXCEPT !.orphan[k] = v]
  <2>1. CmdLSET(e, k, i, v) = g
    BY <1>2, Zenon DEF CmdLSET
  <2>2. /\ L \in Seq(Datum) /\ h \in Int /\ L = e.list[k] /\ h = e.head[k]
    BY <1>0 DEF ListNumbers
  <2> HIDE DEF p, L, h, n
  <2>3. ListAssigned(e, g, k, L, h, v)
    BY <2>2, Zenon DEF DB, ListAssigned
  <2> HIDE DEF g
  <2>4. ListSet(e, g, k, L, h, v)
    BY <2>2, <2>3, ListSetIs
  <2>5. Basic(g, k)
    BY <1>2, <2>2, <2>4 DEF Basic, ListSet, TimeKept
  <2>6. Sound(e, k) => Sound(g, k)
    BY <2>2, <2>4, <2>5, ListSound DEF ListSet
  <2> QED BY <2>1, <2>4, <2>5, <2>6 DEF Good, ListSet, Kept
<1>3. CASE p \notin DOMAIN L /\ ~(L = <<>> /\ i \in {0, -1})
  <2>1. CmdLSET(e, k, i, v) = e
    BY <1>3, Zenon DEF CmdLSET
  <2> QED BY <2>1, SameGood
<1> QED BY <1>1, <1>2, <1>3

(* An expiry time for a key that exists. *)
LEMMA SetExpireGood ==
    ASSUME NEW e \in DB, NEW k \in Key, NEW w \in Int, Basic(e, k), kind \notin {"kv", "zset"},
           e.list[k] # <<>> \/ (kind # "list" /\ e.size[k] # Nil)
    PROVE  Good(e, SetExpire(e, k, w), k) /\ SetExpire(e, k, w).exp[k] = w
<1> DEFINE f == SetExpire(e, k, w)
<1>1. /\ f \in DB /\ Frame(e, f, k)
      /\ f.list[k] = e.list[k] /\ f.head[k] = e.head[k] /\ f.orphan[k] = e.orphan[k]
      /\ f.val[k] = e.val[k] /\ f.size[k] = e.size[k] /\ f.index[k] = e.index[k]
      /\ f.exp[k] = w /\ <<k, w>> \in f.time
  BY SetExpireAt
<1> HIDE DEF f
<1>2. Basic(f, k)
  BY <1>1 DEF Basic
<1>3. Entries(f, k) = Entries(e, k)
  BY <1>1 DEF Entries
<1>4. Sound(e, k) => Sound(f, k)
  BY <1>1, <1>3 DEF Sound, CountRight, IndexRight
<1>5. w # Nil
  BY CollectionsAssumption
<1> QED BY <1>1, <1>2, <1>4, <1>5 DEF Good, Kept, f

LEMMA LExpireGood ==
    ASSUME kind = "list", NEW e \in DB, NEW k \in Key, Basic(e, k), NEW w \in Int, NEW t \in Int
    PROVE  Good(e, LExpireAt(e, k, w, t), k)
<1>1. CASE w < t
  BY <1>1, LClearGood DEF LExpireAt
<1>2. CASE ~(w < t) /\ w > t /\ e.list[k] # <<>>
  BY <1>2, SetExpireGood DEF LExpireAt
<1>3. CASE ~(w < t) /\ ~(w > t /\ e.list[k] # <<>>)
  BY <1>3, SameGood DEF LExpireAt
<1> QED BY <1>1, <1>2, <1>3

AllBasic(e) == \A x \in Key : Basic(e, x)

(* A command on one key leaves the others well formed. *)
LEMMA GoodAll ==
    ASSUME NEW e, NEW f, NEW k \in Key, AllBasic(e), Good(e, f, k)
    PROVE  /\ f \in DB /\ AllBasic(f)
           /\ \A x \in Key : (Sound(e, x) => Sound(f, x)) /\ Kept(e, f, x)
<1>1. ASSUME NEW x \in Key, x # k
      PROVE  Basic(f, x) /\ (Sound(e, x) => Sound(f, x)) /\ Kept(e, f, x)
  <2>1. SameFields(e, f, x) /\ TimeKept(e, f, x)
    BY <1>1 DEF Good, Frame
  <2> QED BY <2>1, SameKey DEF AllBasic
<1> QED BY <1>1 DEF Good, AllBasic

\* The lists after an RPOPLPUSH from s to t that found an element.
Moved(e, f, s, t) ==
    /\ f.list[t] = <<Last(e.list[s])>> \o (IF s = t THEN Front(e.list[s]) ELSE e.list[t])
    /\ \A x \in Key : x # t => f.list[x] = IF x = s THEN Front(e.list[s]) ELSE e.list[x]

\* The lists after an RPOPLPUSH from s that found a place without an element.
Dropped(e, f, s) ==
    /\ e.list[s] # <<>> /\ Last(e.list[s]) = Nil /\ f.list[s] = Front(e.list[s])
    /\ \A x \in Key : x # s => f.list[x] = e.list[x]

\* What an RPOPLPUSH from s to t may leave of e.
Rotation(e, f, s, t, n) ==
    /\ f \in DB /\ AllBasic(f)
    /\ \A x \in Key : \/ Kept(e, f, x) \/ (e.exp[x] # Nil /\ e.exp[x] <= n)
                      \/ (x = s /\ ~CanLPush(e, t, 1))
    /\ \A x \in Key : Sound(e, x) => Sound(f, x)
    /\ Moved(e, f, s, t) \/ (\A x \in Key : f.list[x] = e.list[x]) \/ Dropped(e, f, s)

LEMMA FrontLast ==
    ASSUME NEW L \in Seq(Datum), L # <<>>
    PROVE  /\ Len(L) \in Nat /\ Len(L) > 0 /\ Front(L) \in Seq(Datum)
           /\ Len(Front(L)) = Len(L) - 1
           /\ Front(L) \o <<Last(L)>> = L /\ <<Last(L)>> \in Seq(Datum) /\ Last(L) \in Datum
<1>1. Len(L) \in Nat /\ Len(L) > 0 /\ Last(L) \in Datum
  BY DEF Last
<1>2. Front(L) \in Seq(Datum)
  BY <1>1 DEF Front
<1>3. Len(Front(L)) = Len(L) - 1
  <2>1. CASE Len(L) = 1
    <3>1. Len(SubSeq(L, 1, 0)) = 0
      BY <1>1
    <3>2. Front(L) = SubSeq(L, 1, 0)
      BY <2>1 DEF Front
    <3>3. Len(L) - 1 = 0
      BY <2>1
    <3> QED BY <3>1, <3>2, <3>3, Zenon
  <2>2. CASE Len(L) > 1
    BY <1>1, <2>2 DEF Front
  <2>3. Len(L) = 1 \/ Len(L) > 1
    <3> DEFINE n == Len(L)
    <3>1. n \in Nat /\ n > 0
      BY <1>1
    <3> HIDE DEF n
    <3>2. n = 1 \/ n > 1
      BY <3>1
    <3> QED BY <3>2 DEF n
  <2> QED BY <2>1, <2>2, <2>3, Zenon
<1>4. Front(L) \o <<Last(L)>> = L
  BY DEF Front, Last
<1>5. <<Last(L)>> \in Seq(Datum)
  BY <1>1
<1> QED BY <1>1, <1>2, <1>3, <1>4, <1>5, Zenon

(* The pop of an RPOPLPUSH. *)
LEMMA RotatePop ==
    ASSUME kind = "list", NEW e \in DB, AllBasic(e), NEW s \in Key, e.list[s] # <<>>
    PROVE  LET p == CmdRPOP(e, s)
           IN  /\ p \in DB /\ AllBasic(p) /\ Frame(e, p, s)
               /\ \A x \in Key : Kept(e, p, x) /\ (Sound(e, x) => Sound(p, x))
               /\ p.list[s] = Front(e.list[s])
               /\ p.list[s] # <<>> => p.head[s] = e.head[s] /\ p.exp[s] = e.exp[s]
               /\ p.list[s] = <<>> => p.head[s] = 0
               /\ \A x \in Key : x # s => /\ p.list[x] = e.list[x] /\ p.head[x] = e.head[x]
                                          /\ p.exp[x] = e.exp[x]
<1> DEFINE p == CmdRPOP(e, s)
<1>1. PoppedIs(e, p, s, Front(e.list[s]), e.head[s])
  BY RPopGood DEF AllBasic
<1> HIDE DEF p
<1>2. Good(e, p, s)
  BY <1>1 DEF PoppedIs
<1>3. p \in DB /\ AllBasic(p) /\ \A x \in Key : Kept(e, p, x) /\ (Sound(e, x) => Sound(p, x))
  BY <1>2, GoodAll
<1>4. Frame(e, p, s)
  BY <1>2 DEF Good
<1> QED BY <1>1, <1>3, <1>4 DEF PoppedIs, Frame, SameFields, p

(* A push that is refused is undone: every list is as it was. *)
LEMMA RotateReverts ==
    ASSUME kind = "list", NEW e \in DB, AllBasic(e), NEW s \in Key, NEW t \in Key,
           e.list[s] # <<>>, NEW n \in Int, ~CanLPush(CmdRPOP(e, s), t, 1)
    PROVE  Rotation(e, CmdRPUSH(CmdRPOP(e, s), s, <<Last(e.list[s])>>), s, t, n)
<1> DEFINE p == CmdRPOP(e, s)
           es == <<Last(e.list[s])>>
           f == CmdRPUSH(p, s, es)
<1>1. /\ p \in DB /\ AllBasic(p) /\ Frame(e, p, s)
      /\ \A x \in Key : Kept(e, p, x) /\ (Sound(e, x) => Sound(p, x))
      /\ p.list[s] = Front(e.list[s])
      /\ p.list[s] # <<>> => p.head[s] = e.head[s] /\ p.exp[s] = e.exp[s]
      /\ p.list[s] = <<>> => p.head[s] = 0
      /\ \A x \in Key : x # s => /\ p.list[x] = e.list[x] /\ p.head[x] = e.head[x]
                                 /\ p.exp[x] = e.exp[x]
  BY RotatePop
<1>2. ~CanLPush(p, t, 1)
  OBVIOUS
<1> DEFINE L == e.list[s]
<1>3. L \in Seq(Datum) /\ L # <<>> /\ e.head[s] \in Int /\ e.head[s] + Len(L) - 1 < MaxSeq
  BY ListFacts DEF ListNumbers, AllBasic
<1>4. /\ Len(L) \in Nat /\ Len(L) > 0 /\ Front(L) \in Seq(Datum) /\ Len(Front(L)) = Len(L) - 1
      /\ Front(L) \o <<Last(L)>> = L /\ <<Last(L)>> \in Seq(Datum)
  <2> HIDE DEF L
  <2> QED BY <1>3, FrontLast
<1>5. es \in Seq(Datum) /\ es # <<>> /\ Len(es) = 1 /\ es = <<Last(L)>> /\ p.list[s] = Front(L)
  BY <1>1, <1>4
<1> HIDE DEF p, L, es
<1>6. CanRPush(p, s, Len(es))
  <2>1. CASE p.list[s] = <<>>
    BY <1>1, <1>4, <1>5, <2>1, CollectionsAssumption DEF CanRPush
  <2>2. CASE p.list[s] # <<>>
    <3> DEFINE H == e.head[s]
               m == Len(L)
    <3>1. H \in Int /\ m \in Nat /\ H + m - 1 < MaxSeq
      BY <1>3, <1>4 DEF L
    <3>2. p.head[s] = H /\ Len(p.list[s]) = m - 1 /\ Len(es) = 1
      BY <1>1, <1>4, <1>5, <2>2
    <3> HIDE DEF H, m
    <3>3. H + (m - 1) + 1 - 1 < MaxSeq
      BY <3>1
    <3> QED BY <3>2, <3>3 DEF CanRPush
  <2> QED BY <2>1, <2>2
<1>7. /\ Good(p, f, s) /\ f.exp[s] = p.exp[s] /\ f.list[s] = p.list[s] \o es
  BY <1>1, <1>5, <1>6, RPushGood DEF AllBasic
<1>8. f.list[s] = e.list[s]
  BY <1>4, <1>5, <1>7 DEF L
<1>9. f \in DB /\ AllBasic(f) /\ \A x \in Key : Sound(e, x) => Sound(f, x)
  BY <1>1, <1>7, GoodAll
<1>10. Frame(p, f, s)
  BY <1>7 DEF Good
<1>11. \A x \in Key : f.list[x] = e.list[x]
  BY <1>1, <1>8, <1>10 DEF Frame, SameFields
<1>12. ASSUME NEW x \in Key PROVE Kept(e, f, x) \/ (x = s /\ ~CanLPush(e, t, 1))
  <2>1. CASE x # s
    BY <1>1, <1>10, <2>1 DEF Frame, SameFields, Kept
  <2>2. CASE x = s /\ p.list[s] # <<>>
    BY <1>1, <1>7, <2>2 DEF Kept
  <2>3. CASE x = s /\ p.list[s] = <<>> /\ t = s
    <3>1. CanLPush(p, t, 1)
      BY <2>3, CollectionsAssumption DEF CanLPush
    <3> QED BY <1>2, <3>1
  <2>4. CASE x = s /\ p.list[s] = <<>> /\ t # s
    <3>1. ~CanLPush(e, t, 1)
      BY <1>1, <1>2, <2>4 DEF CanLPush
    <3> QED BY <2>4, <3>1
  <2> QED BY <2>1, <2>2, <2>3, <2>4
<1> QED BY <1>9, <1>11, <1>12 DEF Rotation, p, es

(* The push of an RPOPLPUSH, and the TTL of a rotated list. *)
LEMMA RotatePushes ==
    ASSUME kind = "list", NEW e \in DB, AllBasic(e), NEW s \in Key, NEW t \in Key,
           e.list[s] # <<>>, NEW n \in Int, CanLPush(CmdRPOP(e, s), t, 1)
    PROVE  LET ttl == IF s = t THEN TTL(e, s, n) ELSE -1
               q == CmdLPUSH(CmdRPOP(e, s), t, <<Last(e.list[s])>>)
           IN  Rotation(e, IF ttl # -1 THEN SetExpire(q, s, n + ttl) ELSE q, s, t, n)
<1> DEFINE p == CmdRPOP(e, s)
           es == <<Last(e.list[s])>>
           q == CmdLPUSH(p, t, es)
           ttl == IF s = t THEN TTL(e, s, n) ELSE -1
           f == IF ttl # -1 THEN SetExpire(q, s, n + ttl) ELSE q
<1>1. /\ p \in DB /\ AllBasic(p) /\ Frame(e, p, s)
      /\ \A x \in Key : Kept(e, p, x) /\ (Sound(e, x) => Sound(p, x))
      /\ p.list[s] = Front(e.list[s])
      /\ p.list[s] # <<>> => p.head[s] = e.head[s] /\ p.exp[s] = e.exp[s]
      /\ p.list[s] = <<>> => p.head[s] = 0
      /\ \A x \in Key : x # s => /\ p.list[x] = e.list[x] /\ p.head[x] = e.head[x]
                                 /\ p.exp[x] = e.exp[x]
  BY RotatePop
<1>2. CanLPush(p, t, 1)
  OBVIOUS
<1> DEFINE v == Last(e.list[s])
<1>3. v \in Datum
  <2>1. e.list[s] \in Seq(Datum)
    BY DEF DB
  <2> QED BY <2>1, FrontLast
<1> HIDE DEF v
<1>4. es = <<v>> /\ es \in Seq(Datum) /\ es # <<>> /\ Len(es) = 1 /\ Reverse(es) = es
  <2>1. es = <<v>>
    BY DEF v
  <2>2. <<v>> \in Seq(Datum) /\ <<v>> # <<>> /\ Len(<<v>>) = 1
    BY <1>3
  <2>3. Reverse(<<v>>) = <<v>>
    BY <1>3 DEF Reverse
  <2> QED BY <2>1, <2>2, <2>3
<1> HIDE DEF p, es
<1>5. /\ Good(p, q, t) /\ q.exp[t] = p.exp[t] /\ q.list[t] = es \o p.list[t]
  <2>1. CanLPush(p, t, Len(es))
    BY <1>2, <1>4
  <2> QED BY ZenonT(60), <1>1, <1>4, <2>1, LPushGood DEF AllBasic
<1> HIDE DEF q
<1>6. q \in DB /\ AllBasic(q) /\ Frame(p, q, t) /\ \A x \in Key : Sound(e, x) => Sound(q, x)
  <2>1. q \in DB /\ AllBasic(q) /\ \A x \in Key : Sound(e, x) => Sound(q, x)
    BY <1>1, <1>5, GoodAll
  <2> QED BY <1>5, <2>1 DEF Good
<1>7. Moved(e, q, s, t)
  <2>1. \A x \in Key : x # t => q.list[x] = p.list[x]
    BY <1>6 DEF Frame, SameFields
  <2>2. \A x \in Key : p.list[x] = IF x = s THEN Front(e.list[s]) ELSE e.list[x]
    BY <1>1
  <2>3. q.list[t] = <<Last(e.list[s])>> \o p.list[t]
    BY <1>5 DEF es
  <2>4. p.list[t] = IF s = t THEN Front(e.list[s]) ELSE e.list[t]
    BY <2>2
  <2> QED BY <2>1, <2>2, <2>3, <2>4 DEF Moved
<1>8. q.list[t] # <<>>
  <2>1. p.list[t] \in Seq(Datum)
    BY <1>1 DEF DB
  <2>2. Len(es \o p.list[t]) = Len(es) + Len(p.list[t]) /\ Len(p.list[t]) \in Nat
    <3> DEFINE P == p.list[t]
    <3> HIDE DEF P
    <3>1. Len(es \o P) = Len(es) + Len(P) /\ Len(P) \in Nat
      BY <1>4, <2>1, ConcatFacts DEF P
    <3> QED BY <3>1 DEF P
  <2>3. Len(q.list[t]) > 0
    BY <1>4, <1>5, <2>2
  <2> QED BY <2>3
<1>9. \A x \in Key : x # t => q.exp[x] = p.exp[x]
  BY <1>6 DEF Frame, SameFields
<1>10. CASE s # t
  <2>1. f = q
    BY <1>10
  <2>2. ASSUME NEW x \in Key PROVE Kept(e, q, x)
    <3>1. Entries(q, x) = {}
      BY <1>6, ListSound DEF AllBasic
    <3>2. CASE x # s
      BY <1>1, <1>5, <1>9, <3>2 DEF Kept
    <3>3. CASE x = s
      BY <1>1, <1>6, <1>9, <1>10, <3>1, <3>3 DEF Kept, Frame, SameFields
    <3> QED BY <3>2, <3>3
  <2> QED BY <1>6, <1>7, <2>1, <2>2 DEF Rotation, p, es, q
<1>11. CASE s = t /\ ttl = -1
  <2>1. f = q
    BY <1>11
  <2>2. ASSUME NEW x \in Key PROVE Kept(e, q, x) \/ (e.exp[x] # Nil /\ e.exp[x] <= n)
    <3>1. CASE x # s
      BY <1>1, <1>9, <1>11, <3>1 DEF Kept
    <3>2. CASE x = s
      <4>1. e.exp[s] \in Int \cup {Nil}
        BY DEF DB
      <4>2. e.exp[s] = Nil \/ e.exp[s] <= n
        BY <1>11, <4>1 DEF TTL
      <4> QED BY <3>2, <4>2 DEF Kept
    <3> QED BY <3>1, <3>2
  <2> QED BY <1>6, <1>7, <2>1, <2>2 DEF Rotation, p, es, q
<1>12. CASE s = t /\ ttl # -1
  <2>1. f = SetExpire(q, s, n + ttl)
    BY <1>12
  <2>2. n + ttl \in Int
    <3>1. e.exp[s] \in Int \cup {Nil}
      BY DEF DB
    <3> QED BY <1>12, <3>1 DEF TTL
  <2> DEFINE w == n + ttl
             g == SetExpire(q, s, w)
  <2> HIDE DEF w
  <2>3. Good(q, g, s) /\ g.exp[s] = w
    BY <1>6, <1>8, <1>12, <2>2, SetExpireGood DEF AllBasic, w
  <2>4. /\ g.list[s] = q.list[s]
    BY <1>6, <2>2, SetExpireAt DEF w
  <2>5. f = g
    BY <2>1 DEF w
  <2> HIDE DEF g, f
  <2>6. g \in DB /\ AllBasic(g) /\ \A x \in Key : Sound(e, x) => Sound(g, x)
    BY <1>6, <2>3, GoodAll
  <2>7. \A x \in Key : g.list[x] = q.list[x]
    BY <2>3, <2>4 DEF Good, Frame, SameFields
  <2>8. Moved(e, g, s, t)
    BY <1>7, <2>7 DEF Moved
  <2>9. ASSUME NEW x \in Key PROVE Kept(e, g, x)
    <3>1. CASE x = s
      BY <2>2, <2>3, <3>1, CollectionsAssumption DEF Kept, w
    <3>2. CASE x # s
      <4>1. g.exp[x] = e.exp[x]
        BY <1>1, <1>9, <1>12, <2>3, <3>2 DEF Good, Frame, SameFields
      <4> QED BY <4>1 DEF Kept
    <3> QED BY <3>1, <3>2
  <2> QED BY <2>5, <2>6, <2>8, <2>9 DEF Rotation, f, p, es, q
<1> QED BY <1>10, <1>11, <1>12

LEMMA RotateOK ==
    ASSUME kind = "list", NEW e \in DB, AllBasic(e), NEW s \in Key, NEW t \in Key, NEW n \in Int
    PROVE  Rotation(e, CmdRPOPLPUSH(e, s, t, n), s, t, n)
<1>1. CASE e.list[s] = <<>>
  <2>1. CmdRPOPLPUSH(e, s, t, n) = e
    BY <1>1, Zenon DEF CmdRPOPLPUSH
  <2> QED BY <2>1 DEF Rotation, Kept
<1>4. CASE e.list[s] # <<>> /\ <<Last(e.list[s])>> = <<Nil>>
  <2>1. CmdRPOPLPUSH(e, s, t, n) = CmdRPOP(e, s)
    BY <1>4, Zenon DEF CmdRPOPLPUSH
  <2> DEFINE p == CmdRPOP(e, s)
  <2>2. /\ p \in DB /\ AllBasic(p)
        /\ \A x \in Key : Kept(e, p, x) /\ (Sound(e, x) => Sound(p, x))
        /\ p.list[s] = Front(e.list[s]) /\ \A x \in Key : x # s => p.list[x] = e.list[x]
    BY <1>4, RotatePop
  <2> HIDE DEF p
  <2>3. Last(e.list[s]) = Nil
    BY <1>4
  <2>4. Dropped(e, p, s)
    BY <1>4, <2>2, <2>3 DEF Dropped
  <2>5. Rotation(e, p, s, t, n)
    BY <2>2, <2>4 DEF Rotation
  <2> QED BY <2>1, <2>5 DEF p
<1>2. CASE e.list[s] # <<>> /\ <<Last(e.list[s])>> # <<Nil>> /\ ~CanLPush(CmdRPOP(e, s), t, 1)
  <2>1. CmdRPOPLPUSH(e, s, t, n) = CmdRPUSH(CmdRPOP(e, s), s, <<Last(e.list[s])>>)
    BY <1>2, Zenon DEF CmdRPOPLPUSH
  <2> QED BY <1>2, <2>1, RotateReverts
<1>3. CASE e.list[s] # <<>> /\ <<Last(e.list[s])>> # <<Nil>> /\ CanLPush(CmdRPOP(e, s), t, 1)
  <2> DEFINE ttl == IF s = t THEN TTL(e, s, n) ELSE -1
             q == CmdLPUSH(CmdRPOP(e, s), t, <<Last(e.list[s])>>)
             f == IF ttl # -1 THEN SetExpire(q, s, n + ttl) ELSE q
  <2>1. CmdRPOPLPUSH(e, s, t, n) = f
    BY <1>3, Zenon DEF CmdRPOPLPUSH
  <2>2. Rotation(e, f, s, t, n)
    BY <1>3, RotatePushes
  <2> HIDE DEF f
  <2> QED BY <2>1, <2>2
<1> QED BY <1>1, <1>2, <1>3, <1>4

(* A bijection given by its values. *)
LEMMA BijectionCard ==
    ASSUME NEW S, NEW T, IsFiniteSet(S), NEW g \in [S -> T],
           \A x, y \in S : g[x] = g[y] => x = y, \A z \in T : \E x \in S : g[x] = z
    PROVE  IsFiniteSet(T) /\ Cardinality(T) = Cardinality(S)
<1>1. g \in Bijection(S, T)
  BY DEF Bijection, Injection, Surjection, IsInjective
<1>2. ExistsBijection(S, T)
  BY <1>1 DEF ExistsBijection
<1> QED BY <1>2, FS_Bijection

\* The places of v in the lists of e.
Places(e, v) == {p \in Key \X (1..MaxSize) : p[2] \in DOMAIN e.list[p[1]] /\ e.list[p[1]][p[2]] = v}

\* v is the i-th element of the list of x.
Has(e, v, x, i) == x \in Key /\ i \in 1..Len(e.list[x]) /\ e.list[x][i] = v

LEMMA PlacesAre ==
    ASSUME NEW e \in DB, \A x \in Key : Len(e.list[x]) <= MaxSize, NEW v
    PROVE  /\ \A x, i : <<x, i>> \in Places(e, v) <=> Has(e, v, x, i)
           /\ \A p \in Places(e, v) : p = <<p[1], p[2]>> /\ Has(e, v, p[1], p[2])
           /\ IsFiniteSet(Places(e, v)) /\ Occurs(e, v) = Cardinality(Places(e, v))
<1>1. \A x \in Key : e.list[x] \in Seq(Datum)
  BY DEF DB
<1>2. \A x \in Key : DOMAIN e.list[x] = 1..Len(e.list[x]) /\ Len(e.list[x]) \in Nat
  BY <1>1
<1>3. ASSUME NEW x, NEW i PROVE <<x, i>> \in Places(e, v) <=> Has(e, v, x, i)
  <2>1. <<x, i>> \in Places(e, v) <=>
            x \in Key /\ i \in 1..MaxSize /\ i \in DOMAIN e.list[x] /\ e.list[x][i] = v
    BY DEF Places
  <2>2. x \in Key => ((i \in 1..MaxSize /\ i \in DOMAIN e.list[x]) <=> i \in 1..Len(e.list[x]))
    <3> SUFFICES ASSUME x \in Key
                 PROVE  (i \in 1..MaxSize /\ i \in DOMAIN e.list[x]) <=> i \in 1..Len(e.list[x])
      OBVIOUS
    <3> DEFINE n == Len(e.list[x])
    <3>1. DOMAIN e.list[x] = 1..n /\ n \in Nat /\ n <= MaxSize
      BY <1>2
    <3> HIDE DEF n
    <3>2. (i \in 1..MaxSize /\ i \in 1..n) <=> i \in 1..n
      BY <3>1, KeyspaceAssumption
    <3> QED BY <3>1, <3>2 DEF n
  <2> QED BY <2>1, <2>2, Zenon DEF Has
<1>4. ASSUME NEW p \in Places(e, v) PROVE p = <<p[1], p[2]>>
  BY DEF Places
<1>5. IsFiniteSet(Places(e, v))
  <2>1. IsFiniteSet(1..MaxSize)
    BY FS_Interval, KeyspaceAssumption
  <2>2. IsFiniteSet(Key \X (1..MaxSize))
    BY <2>1, FS_Product, KeyspaceAssumption
  <2>3. Places(e, v) \in SUBSET (Key \X (1..MaxSize))
    BY DEF Places
  <2> QED BY <2>2, <2>3, FS_Subset
<1>6. Occurs(e, v) = Cardinality(Places(e, v))
  BY DEF Occurs, Places
<1>7. \A p \in Places(e, v) : p = <<p[1], p[2]>> /\ Has(e, v, p[1], p[2])
  BY <1>3, <1>4
<1> QED BY <1>3, <1>5, <1>6, <1>7

\* n elements in s, m that stay in t: what f has after the move.
MovedAt(e, f, s, t, n, m) ==
    /\ n \in Nat /\ m \in Nat /\ n = Len(e.list[s]) /\ n > 0 /\ Len(f.list[t]) = m + 1
    /\ m = IF s = t THEN n - 1 ELSE Len(e.list[t])
    /\ f.list[t][1] = e.list[s][n]
    /\ \A i \in 1..m : f.list[t][i + 1] = e.list[t][i]
    /\ s # t => /\ Len(f.list[s]) = n - 1
                /\ \A i \in 1..(n - 1) : f.list[s][i] = e.list[s][i]
    /\ \A x \in Key : x # s /\ x # t => f.list[x] = e.list[x]

LEMMA MovedElements ==
    ASSUME NEW e \in DB, NEW f \in DB, NEW s \in Key, NEW t \in Key, e.list[s] # <<>>,
           Moved(e, f, s, t)
    PROVE  MovedAt(e, f, s, t, Len(e.list[s]), IF s = t THEN Len(e.list[s]) - 1 ELSE Len(e.list[t]))
<1> DEFINE L == e.list[s]
           n == Len(L)
           P == IF s = t THEN Front(L) ELSE e.list[t]
           m == IF s = t THEN n - 1 ELSE Len(e.list[t])
<1>1. L \in Seq(Datum) /\ e.list[t] \in Seq(Datum)
  BY DEF DB
<1>2. /\ n \in Nat /\ n > 0 /\ Front(L) \in Seq(Datum) /\ Len(Front(L)) = n - 1 /\ Last(L) \in Datum
      /\ Last(L) = L[n] /\ \A i \in 1..(n - 1) : Front(L)[i] = L[i]
  <2>1. L # <<>>
    OBVIOUS
  <2> HIDE DEF L
  <2>2. n \in Nat /\ n > 0 /\ Front(L) \in Seq(Datum) /\ Len(Front(L)) = n - 1 /\ Last(L) \in Datum
    BY <1>1, <2>1, FrontLast
  <2>3. Last(L) = L[n]
    BY DEF Last
  <2>4. \A i \in 1..(n - 1) : Front(L)[i] = L[i]
    BY <1>1, <2>2 DEF Front
  <2> QED BY <2>2, <2>3, <2>4
<1>3. P \in Seq(Datum) /\ Len(P) = m /\ m \in Nat /\ \A i \in 1..m : P[i] = e.list[t][i]
  <2>1. CASE s = t
    BY <1>2, <2>1
  <2>2. CASE s # t
    BY <1>1, <2>2
  <2> QED BY <2>1, <2>2
<1>4. f.list[t] = <<Last(L)>> \o P
  BY DEF Moved
<1> DEFINE v == Last(L)
<1>5. v \in Datum /\ v = L[n]
  BY <1>2
<1> HIDE DEF P, m, v
<1>6. /\ Len(<<v>> \o P) = m + 1 /\ (<<v>> \o P)[1] = v
      /\ \A i \in 1..m : (<<v>> \o P)[i + 1] = P[i]
  BY <1>3, <1>5
<1>7. /\ Len(f.list[t]) = m + 1 /\ f.list[t][1] = L[n]
      /\ \A i \in 1..m : f.list[t][i + 1] = e.list[t][i]
  BY <1>3, <1>4, <1>5, <1>6 DEF v
<1>8. s # t => Len(f.list[s]) = n - 1 /\ \A i \in 1..(n - 1) : f.list[s][i] = e.list[s][i]
  BY <1>2 DEF Moved
<1>9. \A x \in Key : x # s /\ x # t => f.list[x] = e.list[x]
  BY DEF Moved
<1> QED BY <1>2, <1>3, <1>7, <1>8, <1>9 DEF MovedAt, m

\* Where the i-th element of x is after the move: the last one of s goes
\* first, the others of t one further.
To(s, t, n, x, i) ==
    IF x = s /\ i = n THEN <<t, 1>> ELSE IF x = t THEN <<t, i + 1>> ELSE <<x, i>>

LEMMA ToPlaces ==
    ASSUME NEW e \in DB, NEW f \in DB, NEW s \in Key, NEW t \in Key, NEW n, NEW m,
           MovedAt(e, f, s, t, n, m), NEW v, NEW x, NEW i, Has(e, v, x, i)
    PROVE  Has(f, v, To(s, t, n, x, i)[1], To(s, t, n, x, i)[2])
<1>0. \A y \in Key : Len(e.list[y]) \in Nat /\ Len(f.list[y]) \in Nat
  <2>1. \A y \in Key : e.list[y] \in Seq(Datum) /\ f.list[y] \in Seq(Datum)
    BY DEF DB
  <2> QED BY <2>1
<1>1. CASE x = s /\ i = n
  <2>1. To(s, t, n, x, i)[1] = t /\ To(s, t, n, x, i)[2] = 1
    BY <1>1 DEF To
  <2>2. Has(f, v, t, 1)
    BY <1>1 DEF MovedAt, Has
  <2> QED BY <2>1, <2>2
<1>2. CASE ~(x = s /\ i = n) /\ x = t
  <2>1. To(s, t, n, x, i)[1] = t /\ To(s, t, n, x, i)[2] = i + 1
    BY <1>2 DEF To
  <2>2. i \in 1..m
    BY <1>0, <1>2 DEF MovedAt, Has
  <2>3. Has(f, v, t, i + 1)
    BY <1>2, <2>2 DEF MovedAt, Has
  <2> QED BY <2>1, <2>3
<1>3. CASE ~(x = s /\ i = n) /\ x # t
  <2>1. To(s, t, n, x, i)[1] = x /\ To(s, t, n, x, i)[2] = i
    BY <1>3 DEF To
  <2>2. CASE x = s
    <3>1. i \in 1..(n - 1) /\ s # t
      BY <1>0, <1>3, <2>2 DEF MovedAt, Has
    <3>2. Has(f, v, x, i)
      BY <1>0, <2>2, <3>1 DEF MovedAt, Has
    <3> QED BY <2>1, <3>2
  <2>3. CASE x # s
    <3>1. Has(f, v, x, i)
      BY <1>3, <2>3 DEF MovedAt, Has
    <3> QED BY <2>1, <3>1
  <2> QED BY <2>2, <2>3
<1> QED BY <1>1, <1>2, <1>3

LEMMA ToInjective ==
    ASSUME NEW e, NEW f, NEW s \in Key, NEW t \in Key, NEW n, NEW m,
           MovedAt(e, f, s, t, n, m), NEW v, NEW x, NEW i, Has(e, v, x, i),
           NEW y, NEW j, Has(e, v, y, j), To(s, t, n, x, i) = To(s, t, n, y, j)
    PROVE  x = y /\ i = j
<1>1. i \in Nat /\ j \in Nat /\ i > 0 /\ j > 0
  BY DEF Has
<1>2. /\ To(s, t, n, x, i)[1] = To(s, t, n, y, j)[1]
      /\ To(s, t, n, x, i)[2] = To(s, t, n, y, j)[2]
  OBVIOUS
<1> QED BY <1>1, <1>2 DEF To

LEMMA ToOnto ==
    ASSUME NEW e \in DB, NEW f \in DB, NEW s \in Key, NEW t \in Key, NEW n, NEW m,
           MovedAt(e, f, s, t, n, m), NEW v, NEW y, NEW j, Has(f, v, y, j)
    PROVE  \E x, i : Has(e, v, x, i) /\ To(s, t, n, x, i) = <<y, j>>
<1>0. \A z \in Key : Len(e.list[z]) \in Nat /\ Len(f.list[z]) \in Nat
  <2>1. \A z \in Key : e.list[z] \in Seq(Datum) /\ f.list[z] \in Seq(Datum)
    BY DEF DB
  <2> QED BY <2>1
<1>1. CASE y = t /\ j = 1
  <2>1. Has(e, v, s, n)
    BY <1>1 DEF MovedAt, Has
  <2>2. To(s, t, n, s, n) = <<y, j>>
    BY <1>1 DEF To
  <2> QED BY <2>1, <2>2
<1>2. CASE y = t /\ j # 1
  <2>1. j - 1 \in 1..m /\ (j - 1) + 1 = j
    BY <1>0, <1>2 DEF MovedAt, Has
  <2> DEFINE i == j - 1
  <2>a. i \in 1..m /\ i + 1 = j
    BY <2>1
  <2> HIDE DEF i
  <2>2. f.list[t][i + 1] = e.list[t][i] /\ f.list[t][j] = v
    BY <1>2, <2>a DEF MovedAt, Has
  <2>3. i \in 1..Len(e.list[t]) /\ ~(t = s /\ i = n)
    BY <1>0, <2>a DEF MovedAt
  <2>4. Has(e, v, t, i)
    BY <2>a, <2>2, <2>3 DEF Has
  <2>5. To(s, t, n, t, i) = <<y, j>>
    BY <1>2, <2>a, <2>3 DEF To
  <2> QED BY <2>4, <2>5
<1>3. CASE y # t /\ y = s
  <2>1. j \in 1..(n - 1) /\ j \in 1..Len(e.list[s]) /\ j # n
    BY <1>0, <1>3 DEF MovedAt, Has
  <2>2. Has(e, v, y, j)
    BY <1>3, <2>1 DEF MovedAt, Has
  <2>3. To(s, t, n, y, j) = <<y, j>>
    BY <1>3, <2>1 DEF To
  <2> QED BY <2>2, <2>3
<1>4. CASE y # t /\ y # s
  <2>1. Has(e, v, y, j)
    BY <1>4 DEF MovedAt, Has
  <2>2. To(s, t, n, y, j) = <<y, j>>
    BY <1>4 DEF To
  <2> QED BY <2>1, <2>2
<1> QED BY <1>1, <1>2, <1>3, <1>4

(* An element that moves is counted before and after. *)
LEMMA MovedConserves ==
    ASSUME NEW e \in DB, NEW f \in DB, NEW s \in Key, NEW t \in Key, e.list[s] # <<>>,
           Moved(e, f, s, t), NEW v,
           \A x \in Key : Len(e.list[x]) <= MaxSize, \A x \in Key : Len(f.list[x]) <= MaxSize
    PROVE  Occurs(e, v) = Occurs(f, v)
<1> DEFINE n == Len(e.list[s])
           m == IF s = t THEN n - 1 ELSE Len(e.list[t])
<1>1. MovedAt(e, f, s, t, n, m)
  BY MovedElements
<1> HIDE DEF n, m
<1> DEFINE A == Places(e, v)
           B == Places(f, v)
           g == [p \in A |-> To(s, t, n, p[1], p[2])]
<1>2. /\ \A x, i : <<x, i>> \in A <=> Has(e, v, x, i)
      /\ \A p \in A : p = <<p[1], p[2]>> /\ Has(e, v, p[1], p[2])
      /\ IsFiniteSet(A) /\ Occurs(e, v) = Cardinality(A)
  BY PlacesAre
<1>3. /\ \A x, i : <<x, i>> \in B <=> Has(f, v, x, i)
      /\ \A p \in B : p = <<p[1], p[2]>> /\ Has(f, v, p[1], p[2])
      /\ IsFiniteSet(B) /\ Occurs(f, v) = Cardinality(B)
  BY PlacesAre
<1> HIDE DEF A, B
<1>4. ASSUME NEW p \in A PROVE To(s, t, n, p[1], p[2]) \in B
  <2> DEFINE q == To(s, t, n, p[1], p[2])
  <2>1. Has(f, v, q[1], q[2])
    BY <1>1, <1>2, ToPlaces
  <2>2. q = <<q[1], q[2]>>
    BY DEF To
  <2> HIDE DEF q
  <2>3. q \in B
    BY <1>3, <2>1, <2>2
  <2> QED BY <2>3 DEF q
<1>5. g \in [A -> B]
  BY <1>4
<1>6. ASSUME NEW p \in A, NEW q \in A, g[p] = g[q] PROVE p = q
  <2>1. To(s, t, n, p[1], p[2]) = To(s, t, n, q[1], q[2])
    BY <1>6
  <2>2. Has(e, v, p[1], p[2]) /\ Has(e, v, q[1], q[2])
    BY <1>2
  <2>3. p[1] = q[1] /\ p[2] = q[2]
    BY <1>1, <2>1, <2>2, ToInjective
  <2> QED BY <1>2, <2>3
<1>7. ASSUME NEW q \in B PROVE \E p \in A : g[p] = q
  <2>1. Has(f, v, q[1], q[2]) /\ q = <<q[1], q[2]>>
    BY <1>3
  <2>2. PICK x, i : Has(e, v, x, i) /\ To(s, t, n, x, i) = <<q[1], q[2]>>
    BY <1>1, <2>1, ToOnto
  <2>3. <<x, i>> \in A
    BY <1>2, <2>2
  <2>4. g[<<x, i>>] = q
    BY <2>1, <2>2, <2>3
  <2> QED BY <2>3, <2>4
<1> HIDE DEF g
<1>8. Cardinality(B) = Cardinality(A)
  BY <1>2, <1>5, <1>6, <1>7, BijectionCard
<1> QED BY <1>2, <1>3, <1>8

(* A place without an element holds no value. *)
LEMMA DroppedConserves ==
    ASSUME NEW e \in DB, NEW f \in DB, NEW s \in Key, Dropped(e, f, s), NEW v, v # Nil,
           \A x \in Key : Len(e.list[x]) <= MaxSize, \A x \in Key : Len(f.list[x]) <= MaxSize
    PROVE  Occurs(e, v) = Occurs(f, v)
<1> DEFINE L == e.list[s]
           n == Len(L)
<1>1. L \in Seq(Datum) /\ L # <<>> /\ f.list[s] = Front(L) /\ L[n] = Nil
  BY DEF DB, Dropped, Last
<1> HIDE DEF L
<1>2. n \in Nat /\ n > 0 /\ Len(Front(L)) = n - 1 /\ \A i \in 1..(n - 1) : Front(L)[i] = L[i]
  <2>1. n \in Nat /\ n > 0 /\ Front(L) \in Seq(Datum) /\ Len(Front(L)) = n - 1
    BY <1>1, FrontLast
  <2>2. \A i \in 1..(n - 1) : Front(L)[i] = L[i]
    BY <1>1, <2>1 DEF Front
  <2> QED BY <2>1, <2>2
<1>3. ASSUME NEW x, NEW i PROVE Has(e, v, x, i) <=> Has(f, v, x, i)
  <2>1. CASE x = s
    <3>1. Has(e, v, x, i) <=> i \in 1..n /\ L[i] = v
      BY <2>1 DEF Has, L
    <3>2. Has(f, v, x, i) <=> i \in 1..(n - 1) /\ Front(L)[i] = v
      BY <1>1, <1>2, <2>1 DEF Has
    <3> HIDE DEF n
    <3>3. i \in 1..n <=> i \in 1..(n - 1) \/ i = n
      BY <1>2
    <3> QED BY <1>1, <1>2, <3>1, <3>2, <3>3
  <2>2. CASE x # s
    BY <2>2 DEF Dropped, Has
  <2> QED BY <2>1, <2>2
<1>4. /\ \A x, i : <<x, i>> \in Places(e, v) <=> Has(e, v, x, i)
      /\ \A p \in Places(e, v) : p = <<p[1], p[2]>> /\ Has(e, v, p[1], p[2])
      /\ Occurs(e, v) = Cardinality(Places(e, v))
  BY PlacesAre
<1>5. /\ \A x, i : <<x, i>> \in Places(f, v) <=> Has(f, v, x, i)
      /\ \A p \in Places(f, v) : p = <<p[1], p[2]>> /\ Has(f, v, p[1], p[2])
      /\ Occurs(f, v) = Cardinality(Places(f, v))
  BY PlacesAre
<1>6. ASSUME NEW p \in Places(e, v) PROVE p \in Places(f, v)
  BY <1>3, <1>4, <1>5, <1>6
<1>7. ASSUME NEW p \in Places(f, v) PROVE p \in Places(e, v)
  BY <1>3, <1>4, <1>5, <1>7
<1>8. Places(e, v) = Places(f, v)
  BY <1>6, <1>7
<1> QED BY <1>4, <1>5, <1>8

-----------------------------------------------------------------------------
(* Hashes, sets and sorted sets.                                           *)

\* f is e but for what k has: entries v, count c and score entries X.  An
\* expiry time goes with the count only.
EntriesSet(e, f, k, v, c, X) ==
    /\ f \in DB /\ Frame(e, f, k) /\ f.time \subseteq e.time
    /\ f.list[k] = e.list[k] /\ f.head[k] = e.head[k] /\ f.orphan[k] = e.orphan[k]
    /\ f.val[k] = v /\ f.size[k] = c /\ f.index[k] = X
    /\ \/ f.exp[k] = e.exp[k] /\ TimeKept(e, f, k) /\ (c # Nil \/ c = e.size[k])
       \/ f.exp[k] = Nil /\ c = Nil

Named(v) == {m \in Member : v[m] # Nil}

\* Entries, a count and score entries that belong together.
Agree(v, c, X) ==
    /\ IF c = Nil THEN Named(v) = {} ELSE c = Cardinality(Named(v))
    /\ kind = "zset" => X = {<<v[m], m>> : m \in Named(v)}

\* The score entries and the scores are those of the data type.
Shaped(v, X) ==
    /\ kind # "zset" => X = {}
    /\ kind = "zset" => IsFiniteSet(X) /\ \A m \in Member : v[m] # Blank

\* f is a database that a command on k may leave of e; right: it named
\* no member twice.
Done(e, f, k, right) ==
    /\ f \in DB /\ Frame(e, f, k) /\ Basic(f, k)
    /\ kind = "zset" => f.time \subseteq e.time
    /\ Sound(e, k) /\ right => Sound(f, k) /\ Kept(e, f, k)

EntryKinds == {"hash", "set", "zset"}

LEMMA EntriesDone ==
    ASSUME kind \in EntryKinds, NEW e \in DB, NEW k \in Key, Basic(e, k), NEW f, NEW v, NEW c, NEW X,
           EntriesSet(e, f, k, v, c, X), Shaped(v, X),
           NEW right, Sound(e, k) /\ right => Agree(v, c, X)
    PROVE  Done(e, f, k, right)
<1>1. Basic(f, k)
  BY DEF Basic, EntriesSet, Shaped, EntryKinds, TimeKept
<1>2. Entries(f, k) = Named(v)
  BY DEF Entries, Named, EntriesSet
<1>3. Basic(e, k) => e.list[k] = <<>>
  BY DEF Basic, EntryKinds
<1>4. ASSUME Sound(e, k), right PROVE Sound(f, k) /\ Kept(e, f, k)
  <2>1. Agree(v, c, X)
    BY <1>4
  <2>2. CountRight(f, k)
    BY <1>2, <2>1 DEF CountRight, Agree, EntriesSet
  <2>3. IndexRight(f, k)
    BY <1>2, <2>1 DEF IndexRight, Agree, EntriesSet
  <2>4. f.exp[k] # Nil => f.size[k] # Nil
    BY <1>3, <1>4 DEF EntriesSet, Sound
  <2>5. Kept(e, f, k)
    BY <1>2, <1>3, <2>1 DEF Kept, Agree, EntriesSet
  <2> QED BY <2>2, <2>3, <2>4, <2>5 DEF Sound
<1> QED BY <1>1, <1>4 DEF Done, EntriesSet

(* A command that leaves the database alone. *)
LEMMA SameDone ==
    ASSUME NEW e \in DB, NEW k, Basic(e, k), NEW right
    PROVE  Done(e, e, k, right)
BY DEF Done, Frame, SameFields, TimeKept, Kept

LEMMA GoodDone ==
    ASSUME kind # "zset", NEW e, NEW f, NEW k, Good(e, f, k), NEW right
    PROVE  Done(e, f, k, right)
BY DEF Good, Done

(* LTRIM: with both ends before the list it leaves an expiry time without *)
(* the list, or a list without its elements.                              *)
LEMMA LTrimDone ==
    ASSUME kind = "list", NEW e \in DB, NEW k \in Key, Basic(e, k), NEW a \in Int, NEW b \in Int
    PROVE  Done(e, CmdLTRIM(e, k, a, b), k, ~TrimsBefore(e, k, a, b))
<1> DEFINE L == e.list[k]
           n == Len(L)
           H == e.head[k]
           start == IF a < 0 THEN n + a ELSE a
           stop == IF b < 0 THEN n + b ELSE b
           first == Most(start, 0)
           last == Least(stop, n - 1)
           f == CmdLTRIM(e, k, a, b)
           right == ~TrimsBefore(e, k, a, b)
<1>1. CASE start >= n \/ start > stop
  <2>1. f = LClear(e, k)
    BY <1>1 DEF CmdLTRIM
  <2>2. Good(e, LClear(e, k), k)
    BY LClearGood
  <2> HIDE DEF right
  <2> QED BY <2>1, <2>2, GoodDone DEF right
<1>0. ListNumbers(e, k, L, H, n)
  BY ListFacts
<1>2. CASE ~(start >= n \/ start > stop)
  <2>0. n \in Nat
    BY <1>0 DEF ListNumbers
  <2> HIDE DEF n, L
  <2>1. start \in Int /\ stop \in Int /\ start < n /\ start <= stop
    BY <1>2, <2>0
  <2>2. first \in Nat /\ last \in Int /\ last <= n - 1 /\ (last >= 0 => first <= last)
    <3> HIDE DEF start, stop
    <3> QED BY <2>0, <2>1 DEF Most, Least
  <2>3. last < 0 /\ n > 0 => n + a <= n + b /\ n + b < 0
    BY <2>0, <2>1 DEF Least
  <2>4. last < 0 /\ n > 0 => ~right
    BY <2>3 DEF TrimsBefore, n, L
  <2>a. ~(start >= n \/ start > stop) /\ (last = -1 => ~(last >= 0))
    <3> HIDE DEF last
    <3> QED BY <1>2
  <2>5. /\ last >= 0 => f = [e EXCEPT !.list[k] = SubSeq(L, first + 1, last + 1),
                                      !.head[k] = H + first]
        /\ last = -1 => f = [e EXCEPT !.list[k] = <<>>, !.head[k] = 0]
        /\ ~(last >= 0) /\ last # -1 => f = [e EXCEPT !.list[k] = [i \in DOMAIN L |-> Nil]]
    <3> HIDE DEF right, TrimsBefore
    <3>1. CASE last >= 0
      BY <2>a, <3>1, Zenon DEF CmdLTRIM, n, L
    <3>2. CASE last = -1
      BY <2>a, <3>2, Zenon DEF CmdLTRIM, n, L
    <3>3. CASE ~(last >= 0) /\ last # -1
      BY <2>a, <3>3, Zenon DEF CmdLTRIM, n, L
    <3> HIDE DEF last, f, first
    <3> QED BY <2>a, <3>1, <3>2, <3>3, Zenon
  <2>6. n > 0 <=> L # <<>>
    BY <1>0 DEF ListNumbers
  <2> HIDE DEF first, last, start, stop, f, right
  <2>7. CASE last >= 0
    <3> DEFINE s == SubSeq(L, first + 1, last + 1)
               h == H + first
               ls == Len(s)
    <3>1. L \in Seq(Datum) /\ Len(L) = n /\ H \in Int /\ L # <<>>
      BY <1>0, <2>0, <2>2, <2>6, <2>7 DEF ListNumbers, n
    <3> HIDE DEF H, n
    <3>2. s \in Seq(Datum) /\ ls = last + 1 - first
      BY <2>0, <2>2, <2>7, <3>1
    <3> HIDE DEF ls
    <3>3. h \in Int /\ ls \in Nat /\ ls > 0
      BY <2>2, <2>7, <3>1, <3>2
    <3>4. s # <<>>
      <4> HIDE DEF s
      <4> QED BY <3>2, <3>3 DEF ls
    <3>5. /\ MinSeq < H /\ H + n - 1 < MaxSeq /\ MinSeq \in Int /\ MaxSeq \in Int /\ e.orphan[k] = Nil
      BY <1>0, <3>1 DEF ListNumbers
    <3>6. MinSeq < h /\ h + ls - 1 < MaxSeq
      BY <2>0, <2>2, <3>1, <3>2, <3>5
    <3>7. f = [e EXCEPT !.list[k] = s, !.head[k] = h]
      BY <2>5, <2>7
    <3> HIDE DEF s, h
    <3>8. ListAssigned(e, f, k, s, h, Nil)
      BY <3>2, <3>3, <3>5, <3>7, Zenon DEF DB, ListAssigned
    <3>9. ListSet(e, f, k, s, h, Nil)
      BY <3>2, <3>3, <3>8, NilDatum, ListSetIs
    <3>10. Good(e, f, k)
      BY <3>2, <3>3, <3>4, <3>6, <3>9, ListSetGood DEF ls
    <3> QED BY <3>10, GoodDone DEF f, right
  <2>8. CASE last = -1
    <3> DEFINE s == <<>>
               o == e.orphan[k]
    <3>1. s \in Seq(Datum) /\ 0 \in Int /\ o \in Datum
      BY DEF DB
    <3>2. f = [e EXCEPT !.list[k] = s, !.head[k] = 0]
      BY <2>5, <2>8
    <3> HIDE DEF s
    <3>3. ListAssigned(e, f, k, s, 0, o)
      BY <3>1, <3>2, Zenon DEF DB, ListAssigned
    <3> HIDE DEF o
    <3>4. ListSet(e, f, k, s, 0, o)
      BY <3>1, <3>3, ListSetIs
    <3>5. Basic(f, k)
      BY <3>4 DEF Basic, ListSet, TimeKept, s
    <3>6. ASSUME Sound(e, k), right PROVE Sound(f, k) /\ Kept(e, f, k)
      <4>1. e.list[k] = <<>>
        BY <2>0, <2>4, <2>6, <2>8, <3>6 DEF L
      <4>2. e.exp[k] = Nil
        BY <3>6, <4>1, ListSound
      <4>3. f.exp[k] = Nil
        BY <3>4, <4>2 DEF ListSet
      <4> QED BY <3>5, <4>2, <4>3, ListSound DEF Kept
    <3> QED BY <3>4, <3>5, <3>6 DEF Done, ListSet, f, right
  <2>9. CASE ~(last >= 0) /\ last # -1
    <3> DEFINE s == [i \in DOMAIN L |-> Nil]
    <3>1. L \in Seq(Datum) /\ H \in Int /\ n = Len(L) /\ H = e.head[k] /\ L = e.list[k]
      BY <1>0 DEF ListNumbers
    <3>2. s \in Seq(Datum) /\ Len(s) = n /\ (n = 0 => s = L)
      BY <2>6, <3>1, NilDatum
    <3>3. f = [e EXCEPT !.list[k] = s]
      BY <2>5, <2>9
    <3> HIDE DEF s, H
    <3>4. CASE n = 0
      <4>1. f = e
        <5>1. s = e.list[k] /\ e.list \in [Key -> Seq(Datum)]
          BY <3>1, <3>2, <3>4 DEF DB
        <5>2. [e.list EXCEPT ![k] = s] = e.list
          BY <5>1
        <5>3. f = [e EXCEPT !.list = [e.list EXCEPT ![k] = s]]
          BY <3>3, Zenon
        <5>4. f = [e EXCEPT !.list = e.list]
          BY <5>2, <5>3, Zenon
        <5> QED BY <5>4, Zenon DEF DB
      <4> QED BY <4>1, SameDone DEF f, right
    <3>5. CASE n > 0
      <4>1. /\ MinSeq < H /\ H + n - 1 < MaxSeq /\ e.orphan[k] = Nil
        BY <1>0, <2>6, <3>5 DEF ListNumbers
      <4>2. s # <<>>
        BY <3>2, <3>5
      <4>3. ListAssigned(e, f, k, s, H, Nil)
        BY <3>1, <3>2, <3>3, <4>1, Zenon DEF DB, ListAssigned
      <4>4. ListSet(e, f, k, s, H, Nil)
        BY <3>1, <3>2, <4>3, NilDatum, ListSetIs
      <4>5. Good(e, f, k)
        BY <3>1, <3>2, <4>1, <4>2, <4>4, ListSetGood
      <4> QED BY <4>5, GoodDone DEF f, right
    <3> QED BY <2>0, <3>4, <3>5
  <2> QED BY <2>2, <2>7, <2>8, <2>9
<1> QED BY <1>1, <1>2

EntriesAssigned(e, f, k, v, X) ==
    /\ f \in DB
    /\ f.val = [e.val EXCEPT ![k] = v] \/ (f.val = e.val /\ v = e.val[k])
    /\ f.index = [e.index EXCEPT ![k] = X] \/ (f.index = e.index /\ X = e.index[k])
    /\ f.list = e.list /\ f.head = e.head /\ f.orphan = e.orphan
    /\ f.size = e.size /\ f.exp = e.exp /\ f.time = e.time

\* Entries are written, and not yet counted.
EntriesPut(e, f, k, v, X) ==
    EntriesSet(e, f, k, v, e.size[k], X) /\ f.exp[k] = e.exp[k] /\ TimeKept(e, f, k)

LEMMA EntriesPutIs ==
    ASSUME NEW e \in DB, NEW k \in Key, NEW v, NEW X, NEW f, EntriesAssigned(e, f, k, v, X)
    PROVE  EntriesPut(e, f, k, v, X)
<1>1. e.val \in [Key -> [Member -> Datum]] /\ e.index \in [Key -> SUBSET (Int \X Member)]
  BY DEF DB
<1>2. f.val[k] = v /\ f.index[k] = X
  BY <1>1 DEF EntriesAssigned
<1>3. \A x \in Key : x # k => f.val[x] = e.val[x] /\ f.index[x] = e.index[x]
  BY <1>1 DEF EntriesAssigned
<1> QED BY <1>2, <1>3, Zenon DEF EntriesPut, EntriesSet, Frame, SameFields, TimeKept, EntriesAssigned

(* Entries written before they are counted. *)
LEMMA ValSet ==
    ASSUME NEW e \in DB, NEW k \in Key, NEW v \in [Member -> Datum]
    PROVE  EntriesPut(e, [e EXCEPT !.val[k] = v], k, v, e.index[k])
<1> DEFINE g == [e EXCEPT !.val[k] = v]
           X == e.index[k]
<1>1. EntriesAssigned(e, g, k, v, X)
  BY Zenon DEF DB, EntriesAssigned
<1> HIDE DEF g, X
<1>2. EntriesPut(e, g, k, v, X)
  BY <1>1, EntriesPutIs
<1> QED BY <1>2 DEF g, X

LEMMA ValIndexSet ==
    ASSUME NEW e \in DB, NEW k \in Key, NEW v \in [Member -> Datum], NEW X \in SUBSET (Int \X Member)
    PROVE  EntriesPut(e, [e EXCEPT !.val[k] = v, !.index[k] = X], k, v, X)
<1> DEFINE g == [e EXCEPT !.val[k] = v, !.index[k] = X]
<1>1. EntriesAssigned(e, g, k, v, X)
  BY Zenon DEF DB, EntriesAssigned
<1> HIDE DEF g
<1>2. EntriesPut(e, g, k, v, X)
  BY <1>1, EntriesPutIs
<1> QED BY <1>2 DEF g

(* Score entries written after their members. *)
LEMMA IndexSet ==
    ASSUME NEW e \in DB, NEW k \in Key, NEW f, NEW v, NEW c, NEW Y, EntriesSet(e, f, k, v, c, Y),
           NEW X \in SUBSET (Int \X Member)
    PROVE  EntriesSet(e, [f EXCEPT !.index[k] = X], k, v, c, X)
<1> DEFINE g == [f EXCEPT !.index[k] = X]
<1>0. f \in DB /\ f.val[k] = v /\ f.size[k] = c
  BY DEF EntriesSet
<1>1. EntriesAssigned(f, g, k, v, X)
  BY <1>0, Zenon DEF DB, EntriesAssigned
<1>2. g.size = f.size /\ g.exp = f.exp /\ g.time = f.time
  BY <1>0, Zenon DEF DB
<1> HIDE DEF g
<1>3. EntriesSet(f, g, k, v, c, X)
  BY <1>0, <1>1, EntriesPutIs DEF EntriesPut
<1>4. Frame(e, g, k)
  BY <1>3, FrameTrans DEF EntriesSet
<1>5. EntriesSet(e, g, k, v, c, X)
  BY <1>2, <1>3, <1>4 DEF EntriesSet, TimeKept
<1> QED BY <1>5 DEF g

\* The count after n more entries.
Counted(c, n) == IF Count(c) + n <= 0 THEN Nil ELSE Count(c) + n

(* The count of entries, and an expiry time that goes with it. *)
LEMMA SizeSet ==
    ASSUME NEW e \in DB, NEW k \in Key, NEW f, NEW v, NEW X, EntriesPut(e, f, k, v, X),
           NEW n \in Int
    PROVE  EntriesSet(e, IncrSize(f, k, n), k, v, Counted(e.size[k], n), X)
<1> DEFINE g == IncrSize(f, k, n)
           s == Counted(e.size[k], n)
<1>0. f \in DB /\ Frame(e, f, k) /\ f.size[k] = e.size[k] /\ e.size[k] \in Int \cup {Nil}
  BY DEF EntriesPut, EntriesSet, DB
<1>1. s \in Int \cup {Nil} /\ Count(e.size[k]) \in Int
  BY <1>0 DEF Counted, Count
<1> DEFINE h == [f EXCEPT !.size[k] = s]
<1>2. /\ h \in DB /\ h.size = [f.size EXCEPT ![k] = s]
      /\ h.list = f.list /\ h.head = f.head /\ h.orphan = f.orphan
      /\ h.val = f.val /\ h.index = f.index /\ h.exp = f.exp /\ h.time = f.time
  <2> HIDE DEF s
  <2> QED BY <1>0, <1>1, Zenon DEF DB
<1>3. f.size \in [Key -> Int \cup {Nil}]
  BY <1>0 DEF DB
<1>4. CASE Count(e.size[k]) + n <= 0
  <2>1. s = Nil
    BY <1>4 DEF Counted
  <2>2. g = RmExpire(h, k)
    BY <1>0, <1>4, <2>1, Zenon DEF IncrSize
  <2> HIDE DEF h, g, s
  <2>3. Frame(f, h, k) /\ h.size[k] = s
    BY <1>2, <1>3, Zenon DEF Frame, SameFields, TimeKept
  <2>4. /\ g \in DB /\ Frame(h, g, k)
        /\ g.list[k] = h.list[k] /\ g.head[k] = h.head[k] /\ g.orphan[k] = h.orphan[k]
        /\ g.val[k] = h.val[k] /\ g.size[k] = h.size[k] /\ g.index[k] = h.index[k]
        /\ g.exp[k] = Nil /\ g.time \subseteq h.time
    BY <1>2, <2>2, RmExpireAt
  <2>5. Frame(e, g, k)
    <3>1. Frame(e, h, k)
      BY <1>0, <2>3, FrameTrans
    <3> QED BY <2>4, <3>1, FrameTrans
  <2>6. EntriesSet(e, g, k, v, s, X)
    BY <1>2, <2>1, <2>3, <2>4, <2>5 DEF EntriesPut, EntriesSet
  <2> QED BY <2>6 DEF g, s
<1>5. CASE ~(Count(e.size[k]) + n <= 0)
  <2>1. s = Count(e.size[k]) + n /\ s # Nil
    BY <1>1, <1>5, CollectionsAssumption DEF Counted
  <2>2. g = h
    BY <1>0, <1>5, <2>1, Zenon DEF IncrSize
  <2> HIDE DEF h, g, s
  <2>3. Frame(f, h, k) /\ h.size[k] = s
    BY <1>2, <1>3, Zenon DEF Frame, SameFields, TimeKept
  <2>4. Frame(e, h, k)
    BY <1>0, <2>3, FrameTrans
  <2>5. /\ f.list[k] = e.list[k] /\ f.head[k] = e.head[k] /\ f.orphan[k] = e.orphan[k]
        /\ f.val[k] = v /\ f.index[k] = X
        /\ f.exp[k] = e.exp[k] /\ TimeKept(e, f, k) /\ f.time \subseteq e.time
    BY DEF EntriesPut, EntriesSet
  <2>6. EntriesSet(e, h, k, v, s, X)
    BY <1>2, <2>1, <2>3, <2>4, <2>5 DEF EntriesSet, TimeKept
  <2> QED BY <2>2, <2>6 DEF g, s
<1> QED BY <1>4, <1>5

(* The members of a key are finitely many. *)
LEMMA NamedFinite ==
    ASSUME NEW v
    PROVE  /\ IsFiniteSet(Named(v)) /\ Cardinality(Named(v)) \in Nat
           /\ Cardinality(Named(v)) = 0 <=> Named(v) = {}
<1>1. Named(v) \in SUBSET Member
  BY DEF Named
<1>2. IsFiniteSet(Named(v))
  BY <1>1, FS_Subset, KeyspaceAssumption
<1> QED BY <1>2, FS_CardinalityType, FS_EmptySet

LEMMA StoredCount ==
    ASSUME NEW e \in DB, NEW k \in Key, Sound(e, k)
    PROVE  Entries(e, k) = Named(e.val[k]) /\ Count(e.size[k]) = Cardinality(Named(e.val[k]))
<1>1. Entries(e, k) = Named(e.val[k])
  BY DEF Entries, Named
<1> QED BY <1>1, NamedFinite DEF Sound, CountRight, Count

(* A count that goes up and down with the entries is right. *)
LEMMA CountMatches ==
    ASSUME NEW e \in DB, NEW k \in Key, Sound(e, k), NEW v, NEW n \in Int,
           Cardinality(Named(v)) = Cardinality(Named(e.val[k])) + n
    PROVE  LET c == Counted(e.size[k], n)
           IN  IF c = Nil THEN Named(v) = {} ELSE c = Cardinality(Named(v))
<1> DEFINE a == Cardinality(Named(e.val[k]))
           b == Cardinality(Named(v))
<1>1. /\ a \in Nat /\ b \in Nat /\ (b = 0 <=> Named(v) = {})
      /\ Count(e.size[k]) = a /\ b = a + n
  BY NamedFinite, StoredCount
<1> HIDE DEF a, b
<1>2. CASE b = 0
  <2>1. Counted(e.size[k], n) = Nil
    BY <1>1, <1>2 DEF Counted
  <2> QED BY <1>1, <1>2, <2>1
<1>3. CASE b # 0
  <2>1. Counted(e.size[k], n) = b /\ b # Nil
    BY <1>1, <1>3, CollectionsAssumption DEF Counted
  <2> QED BY <2>1 DEF b
<1> QED BY <1>2, <1>3

(* What joins, and what leaves, is counted. *)
LEMMA JoinCount ==
    ASSUME NEW A, NEW B, IsFiniteSet(A), IsFiniteSet(B), A \cap B = {}
    PROVE  /\ IsFiniteSet(A \cup B) /\ Cardinality(A \cup B) = Cardinality(A) + Cardinality(B)
           /\ Cardinality(A) \in Nat /\ Cardinality(B) \in Nat
<1>1. /\ IsFiniteSet(A \cup B)
      /\ Cardinality(A \cup B) = Cardinality(A) + Cardinality(B) - Cardinality(A \cap B)
  BY FS_Union
<1>2. Cardinality(A \cap B) = 0 /\ Cardinality(A) \in Nat /\ Cardinality(B) \in Nat
  BY FS_EmptySet, FS_CardinalityType
<1> QED BY <1>1, <1>2

(* HCLEAR, SCLEAR. *)
LEMMA ClearIs ==
    ASSUME NEW e \in DB, NEW k \in Key
    PROVE  EntriesSet(e, Clear(e, k), k, Empty, Nil, e.index[k]) /\ Clear(e, k).exp[k] = Nil
<1> DEFINE g == [e EXCEPT !.val[k] = Empty, !.size[k] = Nil]
           f == Clear(e, k)
<1>0. Empty \in [Member -> Datum]
  BY DEF Empty, Datum
<1>1. /\ g \in DB /\ g.val = [e.val EXCEPT ![k] = Empty] /\ g.size = [e.size EXCEPT ![k] = Nil]
      /\ g.list = e.list /\ g.head = e.head /\ g.orphan = e.orphan
      /\ g.index = e.index /\ g.exp = e.exp /\ g.time = e.time
  BY <1>0, Zenon DEF DB
<1>2. f = RmExpire(g, k)
  BY Zenon DEF Clear
<1>3. e.val \in [Key -> [Member -> Datum]] /\ e.size \in [Key -> Int \cup {Nil}]
  BY DEF DB
<1> HIDE DEF g, f
<1>4. /\ g.val[k] = Empty /\ g.size[k] = Nil
      /\ \A x \in Key : x # k => g.val[x] = e.val[x] /\ g.size[x] = e.size[x]
  BY <1>1, <1>3
<1>5. Frame(e, g, k)
  BY <1>1, <1>4, Zenon DEF Frame, SameFields, TimeKept
<1>6. /\ f \in DB /\ Frame(g, f, k)
      /\ f.list[k] = g.list[k] /\ f.head[k] = g.head[k] /\ f.orphan[k] = g.orphan[k]
      /\ f.val[k] = g.val[k] /\ f.size[k] = g.size[k] /\ f.index[k] = g.index[k]
      /\ f.exp[k] = Nil /\ f.time \subseteq g.time
  BY <1>1, <1>2, RmExpireAt
<1>7. Frame(e, f, k)
  BY <1>5, <1>6, FrameTrans
<1> QED BY <1>1, <1>4, <1>6, <1>7 DEF EntriesSet, f

LEMMA ClearDone ==
    ASSUME kind \in {"kv", "hash", "set"}, NEW e \in DB, NEW k \in Key, Basic(e, k)
    PROVE  /\ Good(e, Clear(e, k), k) /\ Sound(Clear(e, k), k) /\ Clear(e, k).exp[k] = Nil
           /\ Clear(e, k).val[k] = Empty /\ Clear(e, k).size[k] = Nil
<1> DEFINE f == Clear(e, k)
<1>1. EntriesSet(e, f, k, Empty, Nil, e.index[k]) /\ f.exp[k] = Nil
  BY ClearIs
<1> HIDE DEF f
<1>2. Basic(f, k)
  BY <1>1 DEF Basic, EntriesSet
<1>3. Entries(f, k) = {}
  BY <1>1 DEF EntriesSet, Entries, Empty
<1>4. Sound(f, k)
  BY <1>1, <1>3 DEF Sound, CountRight, IndexRight, EntriesSet
<1>5. Kept(e, f, k)
  BY <1>2, <1>3 DEF Kept, Basic
<1> QED BY <1>1, <1>2, <1>4, <1>5 DEF Good, EntriesSet, f

\* One or two pairs of a member and a value in V.
PairList(pairs, V) ==
    /\ DOMAIN pairs \subseteq {1, 2}
    /\ \A i \in DOMAIN pairs : pairs[i][1] \in Member /\ pairs[i][2] \in V

\* w is v with the pairs put into it.
PutIn(v, pairs, w) ==
    /\ w \in [Member -> Datum]
    /\ \A m \in Member : (\A i \in DOMAIN pairs : pairs[i][1] # m) => w[m] = v[m]
    /\ \A m \in Member : (\E i \in DOMAIN pairs : pairs[i][1] = m)
          => \E i \in DOMAIN pairs : pairs[i][1] = m /\ w[m] = pairs[i][2]

LEMMA PutPairsIs ==
    ASSUME NEW v \in [Member -> Datum], NEW V, V \subseteq Int \cup {Blank},
           NEW pairs, PairList(pairs, V)
    PROVE  PutIn(v, pairs, PutPairs(v, pairs))
<1> DEFINE At(m) == {i \in DOMAIN pairs : pairs[i][1] = m}
           Top(m) == CHOOSE i \in At(m) : \A j \in At(m) : j <= i
           w == PutPairs(v, pairs)
<1>1. w = [m \in Member |-> IF At(m) = {} THEN v[m] ELSE pairs[Top(m)][2]]
  BY DEF PutPairs
<1>2. ASSUME NEW m \in Member, At(m) # {} PROVE Top(m) \in At(m)
  <2>1. At(m) \subseteq {1, 2}
    BY DEF PairList
  <2>2. \E i \in At(m) : \A j \in At(m) : j <= i
    <3> DEFINE A == At(m)
    <3>1. A \subseteq {1, 2} /\ A # {}
      BY <1>2, <2>1
    <3> HIDE DEF A
    <3>2. \E i \in A : \A j \in A : j <= i
      <4>1. CASE 2 \in A
        <5>1. \A j \in A : j <= 2
          BY <3>1
        <5> QED BY <4>1, <5>1
      <4>2. CASE 2 \notin A
        <5>1. \A j \in A : j = 1
          BY <3>1, <4>2
        <5>2. 1 \in A
          BY <3>1, <5>1
        <5>3. \A j \in A : j <= 1
          BY <5>1
        <5> QED BY <5>2, <5>3
      <4> QED BY <4>1, <4>2
    <3> QED BY <3>2 DEF A
  <2> HIDE DEF At
  <2> QED BY <2>2
<1>3. \A m \in Member : At(m) # {} =>
          \E i \in DOMAIN pairs : pairs[i][1] = m /\ w[m] = pairs[i][2]
  <2> SUFFICES ASSUME NEW m \in Member, At(m) # {}
               PROVE  \E i \in DOMAIN pairs : pairs[i][1] = m /\ w[m] = pairs[i][2]
    OBVIOUS
  <2>1. Top(m) \in At(m)
    BY <1>2
  <2>2. w[m] = pairs[Top(m)][2]
    BY <1>1
  <2> HIDE DEF Top
  <2> QED BY <2>1, <2>2
<1>4. \A m \in Member : At(m) = {} => w[m] = v[m]
  BY <1>1
<1>5. w = [m \in Member |-> w[m]]
  BY <1>1
<1>6. ASSUME NEW m \in Member PROVE w[m] \in Datum
  <2>1. CASE At(m) = {}
    BY <1>4, <2>1
  <2>2. CASE At(m) # {}
    <3>1. PICK i \in DOMAIN pairs : pairs[i][1] = m /\ w[m] = pairs[i][2]
      BY <1>3, <2>2
    <3> QED BY <3>1 DEF PairList, Datum
  <2> QED BY <2>1, <2>2
<1> HIDE DEF w
<1>7. w \in [Member -> Datum]
  BY <1>5, <1>6
<1> QED BY <1>3, <1>4, <1>7 DEF PutIn, w

\* The members that pairs name, and those of them that are new.
Names(pairs) == {pairs[i][1] : i \in DOMAIN pairs}
NewIn(v, pairs) == {m \in Names(pairs) : v[m] = Nil}

(* Pairs add the members they name. *)
LEMMA PutNames ==
    ASSUME NEW v \in [Member -> Datum], NEW V, V \subseteq Int \cup {Blank},
           NEW pairs, PairList(pairs, V), NEW w, PutIn(v, pairs, w)
    PROVE  /\ Named(w) = Named(v) \cup NewIn(v, pairs)
           /\ Cardinality(Named(w)) = Cardinality(Named(v)) + Cardinality(NewIn(v, pairs))
           /\ IsFiniteSet(NewIn(v, pairs)) /\ Cardinality(NewIn(v, pairs)) \in Nat
<1>1. ASSUME NEW m \in Member
      PROVE  m \in Named(w) <=> m \in Named(v) \/ m \in NewIn(v, pairs)
  <2>1. CASE \A i \in DOMAIN pairs : pairs[i][1] # m
    BY <2>1 DEF PutIn, Named, NewIn, Names
  <2>2. CASE \E i \in DOMAIN pairs : pairs[i][1] = m
    <3>1. PICK i \in DOMAIN pairs : pairs[i][1] = m /\ w[m] = pairs[i][2]
      BY <2>2 DEF PutIn
    <3>2. w[m] # Nil
      BY <3>1, CollectionsAssumption DEF PairList
    <3> QED BY <2>2, <3>2 DEF Named, NewIn, Names
  <2> QED BY <2>1, <2>2
<1>2. NewIn(v, pairs) \subseteq Member /\ NewIn(v, pairs) \cap Named(v) = {}
  BY DEF NewIn, Names, Named, PairList
<1>3. Named(w) = Named(v) \cup NewIn(v, pairs)
  <2>1. Named(w) \subseteq Member /\ Named(v) \subseteq Member
    BY DEF Named
  <2> QED BY <1>1, <1>2, <2>1
<1>4. IsFiniteSet(NewIn(v, pairs)) /\ IsFiniteSet(Named(v))
  BY <1>2, FS_Subset, KeyspaceAssumption, NamedFinite
<1> DEFINE A == Named(v)
           B == NewIn(v, pairs)
<1>5. IsFiniteSet(A) /\ IsFiniteSet(B) /\ A \cap B = {}
  BY <1>2, <1>4
<1> HIDE DEF A, B
<1>6. Cardinality(A \cup B) = Cardinality(A) + Cardinality(B) /\ Cardinality(B) \in Nat
  BY <1>5, JoinCount
<1> QED BY <1>3, <1>4, <1>6 DEF A, B

\* No member is named twice.
Distinct(pairs) == \A i, j \in DOMAIN pairs : pairs[i][1] = pairs[j][1] => i = j

(* Each pair counted on its own: right when no member is named twice. *)
LEMMA FreshCount ==
    ASSUME NEW v, NEW V, NEW pairs, PairList(pairs, V)
    PROVE  LET F == {i \in DOMAIN pairs : v[pairs[i][1]] = Nil}
           IN  /\ Cardinality(F) \in Nat
               /\ Distinct(pairs) => Cardinality(F) = Cardinality(NewIn(v, pairs))
<1> DEFINE F == {i \in DOMAIN pairs : v[pairs[i][1]] = Nil}
           g == [i \in F |-> pairs[i][1]]
<1>1. IsFiniteSet(F)
  <2>1. F \in SUBSET (1..2)
    BY DEF PairList
  <2>2. IsFiniteSet(1..2)
    <3>1. 1 \in Int /\ 2 \in Int
      OBVIOUS
    <3> QED BY <3>1, FS_Interval
  <2> QED BY <2>1, <2>2, FS_Subset
<1>2. g \in [F -> NewIn(v, pairs)]
  BY DEF NewIn, Names
<1>3. \A z \in NewIn(v, pairs) : \E i \in F : g[i] = z
  BY DEF NewIn, Names
<1>4. ASSUME Distinct(pairs) PROVE Cardinality(F) = Cardinality(NewIn(v, pairs))
  <2>1. \A i, j \in F : g[i] = g[j] => i = j
    BY <1>4 DEF Distinct
  <2> HIDE DEF F, g
  <2> QED BY <1>1, <1>2, <1>3, <2>1, BijectionCard
<1> QED BY <1>1, <1>4, FS_CardinalityType

(* HMSET, SADD and the members of ZADD: entries and count. *)
LEMMA PutIs ==
    ASSUME NEW e \in DB, NEW k \in Key, NEW V, V \subseteq Int \cup {Blank},
           NEW pairs, PairList(pairs, V)
    PROVE  LET w == PutPairs(e.val[k], pairs)
               c == Counted(e.size[k], Fresh(e, k, pairs))
           IN  /\ EntriesSet(e, Put(e, k, pairs), k, w, c, e.index[k])
               /\ PutIn(e.val[k], pairs, w)
               /\ Sound(e, k) /\ Distinct(pairs) =>
                     IF c = Nil THEN Named(w) = {} ELSE c = Cardinality(Named(w))
<1> DEFINE v == e.val[k]
           w == PutPairs(v, pairs)
           n == Fresh(e, k, pairs)
           F == {i \in DOMAIN pairs : v[pairs[i][1]] = Nil}
           g == [e EXCEPT !.val[k] = w]
<1>1. v \in [Member -> Datum]
  BY DEF DB
<1>2. n = Cardinality(F)
  BY DEF Fresh
<1>3. Put(e, k, pairs) = IncrSize(g, k, n)
  BY Zenon DEF Put
<1>4. v = e.val[k]
  OBVIOUS
<1> HIDE DEF v
<1>5. PutIn(v, pairs, w)
  BY <1>1, PutPairsIs
<1>6. n \in Nat /\ (Distinct(pairs) => n = Cardinality(NewIn(v, pairs)))
  <2> HIDE DEF n
  <2> QED BY <1>2, FreshCount
<1>7. Cardinality(Named(w)) = Cardinality(Named(v)) + Cardinality(NewIn(v, pairs))
  <2> HIDE DEF w
  <2> QED BY <1>1, <1>5, PutNames
<1> HIDE DEF w, n
<1>8. EntriesPut(e, g, k, w, e.index[k])
  BY <1>5, ValSet DEF PutIn
<1> HIDE DEF g
<1>9. EntriesSet(e, IncrSize(g, k, n), k, w, Counted(e.size[k], n), e.index[k])
  BY <1>6, <1>8, SizeSet
<1>10. ASSUME Sound(e, k), Distinct(pairs)
       PROVE  IF Counted(e.size[k], n) = Nil THEN Named(w) = {}
              ELSE Counted(e.size[k], n) = Cardinality(Named(w))
  <2>1. Cardinality(Named(w)) = Cardinality(Named(e.val[k])) + n /\ n \in Int
    BY <1>4, <1>6, <1>7, <1>10
  <2> QED BY <1>10, <2>1, CountMatches
<1> QED BY <1>3, <1>4, <1>5, <1>9, <1>10 DEF w, n

(* HMSET and SADD. *)
LEMMA PutDone ==
    ASSUME kind \in {"hash", "set"}, NEW e \in DB, NEW k \in Key, Basic(e, k),
           NEW V, V \subseteq Int \cup {Blank}, NEW pairs, PairList(pairs, V)
    PROVE  Done(e, Put(e, k, pairs), k, Distinct(pairs))
<1> DEFINE w == PutPairs(e.val[k], pairs)
           c == Counted(e.size[k], Fresh(e, k, pairs))
           f == Put(e, k, pairs)
           X == e.index[k]
           right == Distinct(pairs)
<1>1. /\ EntriesSet(e, f, k, w, c, X)
      /\ Sound(e, k) /\ right => IF c = Nil THEN Named(w) = {} ELSE c = Cardinality(Named(w))
  BY PutIs
<1>2. Shaped(w, X)
  BY DEF Shaped, Basic
<1> HIDE DEF w, c, f, X, right
<1>3. Sound(e, k) /\ right => Agree(w, c, X)
  BY <1>1 DEF Agree
<1>4. Done(e, f, k, right)
  BY <1>1, <1>2, <1>3, EntriesDone DEF EntryKinds
<1> QED BY <1>4 DEF f, right

(* HSET: one batch for each pair, so a field counts once. *)
LEMMA HSETDone ==
    ASSUME kind = "hash", NEW e \in DB, NEW k \in Key, Basic(e, k),
           NEW V, V \subseteq Int \cup {Blank}, NEW pairs, PairList(pairs, V)
    PROVE  Done(e, CmdHSET(e, k, pairs), k, TRUE)
<1> DEFINE v == e.val[k]
           w == PutPairs(v, pairs)
           new == {pairs[i][1] : i \in {j \in DOMAIN pairs : v[pairs[j][1]] = Nil}}
           g == [e EXCEPT !.val[k] = w]
           n == Cardinality(new)
           f == CmdHSET(e, k, pairs)
           X == e.index[k]
<1>1. v \in [Member -> Datum] /\ v = e.val[k]
  BY DEF DB
<1>2. f = IF new = {} THEN g ELSE IncrSize(g, k, n)
  BY Zenon DEF CmdHSET
<1>3. Shaped(w, X)
  BY DEF Shaped, Basic
<1>4. new = NewIn(v, pairs)
  BY DEF NewIn, Names
<1> HIDE DEF v, new
<1>5. PutIn(v, pairs, w)
  BY <1>1, PutPairsIs
<1> HIDE DEF w
<1>6. /\ Named(w) = Named(v) \cup new /\ Cardinality(Named(w)) = Cardinality(Named(v)) + n
      /\ n \in Nat
  BY <1>1, <1>4, <1>5, PutNames
<1>7. EntriesPut(e, g, k, w, X)
  BY <1>5, ValSet DEF PutIn
<1> HIDE DEF g, X, f, n
<1>8. CASE new = {}
  <2>1. EntriesSet(e, f, k, w, e.size[k], X)
    BY <1>2, <1>7, <1>8 DEF EntriesPut
  <2>2. ASSUME Sound(e, k) PROVE Agree(w, e.size[k], X)
    <3>1. Entries(e, k) = Named(w)
      BY <1>1, <1>6, <1>8, <2>2, StoredCount
    <3> QED BY <2>2, <3>1 DEF Sound, CountRight, Agree
  <2>3. Done(e, f, k, TRUE)
    BY <1>3, <2>1, <2>2, EntriesDone DEF EntryKinds
  <2> QED BY <2>3 DEF f
<1>9. CASE new # {}
  <2> DEFINE c == Counted(e.size[k], n)
  <2>1. EntriesSet(e, f, k, w, c, X)
    BY <1>2, <1>6, <1>7, <1>9, SizeSet
  <2>2. ASSUME Sound(e, k) PROVE IF c = Nil THEN Named(w) = {} ELSE c = Cardinality(Named(w))
    <3>1. Cardinality(Named(w)) = Cardinality(Named(e.val[k])) + n /\ n \in Int
      BY <1>1, <1>6
    <3> QED BY <2>2, <3>1, CountMatches
  <2> HIDE DEF c
  <2>3. Sound(e, k) => Agree(w, c, X)
    BY <2>2 DEF Agree
  <2>4. Done(e, f, k, TRUE)
    BY <1>3, <2>1, <2>3, EntriesDone DEF EntryKinds
  <2> QED BY <2>4 DEF f
<1> QED BY <1>8, <1>9

\* f is e with the value x of the member m of k, which is counted.
OneSet(e, f, k, m, x, c) ==
    LET w == [e.val[k] EXCEPT ![m] = x]
    IN  /\ EntriesSet(e, f, k, w, c, e.index[k])
        /\ Sound(e, k) => IF c = Nil THEN Named(w) = {} ELSE c = Cardinality(Named(w))

(* HSet of ledis, and the member of a ZINCRBY. *)
LEMMA HSetIs ==
    ASSUME NEW e \in DB, NEW k \in Key, NEW m \in Member, NEW x \in Int \cup {Blank}
    PROVE  \E c : OneSet(e, HSet(e, k, m, x), k, m, x, c)
<1> DEFINE v == e.val[k]
           w == [v EXCEPT ![m] = x]
           g == [e EXCEPT !.val[k] = w]
           f == HSet(e, k, m, x)
           X == e.index[k]
<1>1. v \in [Member -> Datum] /\ v = e.val[k] /\ x # Nil /\ x \in Datum
  BY CollectionsAssumption DEF DB, Datum
<1>2. f = IF v[m] = Nil THEN IncrSize(g, k, 1) ELSE g
  BY Zenon DEF HSet
<1> HIDE DEF v
<1>3. w \in [Member -> Datum] /\ Named(w) = Named(v) \cup {m}
  BY <1>1 DEF Named
<1>4. EntriesPut(e, g, k, w, X)
  <2> HIDE DEF w
  <2> QED BY <1>3, ValSet
<1>5. IsFiniteSet(Named(v)) /\ Cardinality(Named(v)) \in Nat
  BY NamedFinite
<1>6. w = [e.val[k] EXCEPT ![m] = x]
  BY <1>1
<1> HIDE DEF w, g, X, f
<1>7. CASE v[m] = Nil
  <2> DEFINE c == Counted(e.size[k], 1)
  <2>1. EntriesSet(e, f, k, w, c, X)
    BY <1>2, <1>4, <1>7, SizeSet
  <2>2. ASSUME Sound(e, k) PROVE IF c = Nil THEN Named(w) = {} ELSE c = Cardinality(Named(w))
    <3>1. m \notin Named(v)
      BY <1>7 DEF Named
    <3>2. Cardinality(Named(w)) = Cardinality(Named(e.val[k])) + 1
      BY <1>1, <1>3, <1>5, <3>1, FS_AddElement
    <3> QED BY <2>2, <3>2, CountMatches
  <2> HIDE DEF c
  <2>3. OneSet(e, f, k, m, x, c)
    BY <1>6, <2>1, <2>2, Zenon DEF OneSet, X
  <2> QED BY <2>3 DEF f
<1>8. CASE v[m] # Nil
  <2>1. EntriesSet(e, f, k, w, e.size[k], X)
    BY <1>2, <1>4, <1>8 DEF EntriesPut
  <2>2. Named(w) = Named(v)
    BY <1>3, <1>8 DEF Named
  <2>3. ASSUME Sound(e, k)
        PROVE  IF e.size[k] = Nil THEN Named(w) = {} ELSE e.size[k] = Cardinality(Named(w))
    BY <1>1, <2>2, <2>3, StoredCount DEF Sound, CountRight
  <2>4. OneSet(e, f, k, m, x, e.size[k])
    BY <1>6, <2>1, <2>3, Zenon DEF OneSet, X
  <2> QED BY <2>4 DEF f
<1> QED BY <1>7, <1>8

(* HSETNX and HINCRBY. *)
LEMMA HSetDone ==
    ASSUME kind = "hash", NEW e \in DB, NEW k \in Key, Basic(e, k),
           NEW m \in Member, NEW x \in Int \cup {Blank}
    PROVE  Done(e, HSet(e, k, m, x), k, TRUE)
<1> DEFINE w == [e.val[k] EXCEPT ![m] = x]
           X == e.index[k]
           f == HSet(e, k, m, x)
<1>1. PICK c : OneSet(e, f, k, m, x, c)
  BY HSetIs
<1>2. Shaped(w, X)
  BY DEF Shaped, Basic
<1>3. EntriesSet(e, f, k, w, c, X) /\ (Sound(e, k) => Agree(w, c, X))
  BY <1>1 DEF OneSet, Agree
<1> HIDE DEF w, X, f
<1>4. Done(e, f, k, TRUE)
  BY <1>2, <1>3, EntriesDone DEF EntryKinds
<1> QED BY <1>4 DEF f

LEMMA HSETNXDone ==
    ASSUME kind = "hash", NEW e \in DB, NEW k \in Key, Basic(e, k), NEW m \in Member,
           NEW x \in Int \cup {Blank}
    PROVE  Done(e, CmdHSETNX(e, k, m, x), k, TRUE)
BY HSetDone, SameDone DEF CmdHSETNX

LEMMA HINCRBYDone ==
    ASSUME kind = "hash", NEW e \in DB, NEW k \in Key, Basic(e, k), NEW m \in Member, NEW n \in Int
    PROVE  Done(e, CmdHINCRBY(e, k, m, n), k, TRUE)
<1>1. e.val[k][m] \in Datum
  BY DEF DB
<1>2. CASE e.val[k][m] = Blank
  BY <1>2, SameDone DEF CmdHINCRBY
<1>3. CASE e.val[k][m] # Blank
  <2>1. Count(e.val[k][m]) + n \in Int
    BY <1>1, <1>3 DEF Count, Datum
  <2> DEFINE x == Count(e.val[k][m]) + n
  <2>2. x \in Int \cup {Blank} /\ CmdHINCRBY(e, k, m, n) = HSet(e, k, m, x)
    BY <1>3, <2>1 DEF CmdHINCRBY
  <2> HIDE DEF x
  <2> QED BY <2>2, HSetDone
<1> QED BY <1>2, <1>3

\* Entries v without the members of gone.
Without(v, gone) == [m \in Member |-> IF m \in gone THEN Nil ELSE v[m]]

(* What leaves is counted. *)
LEMMA LeaveCount ==
    ASSUME NEW v \in [Member -> Datum], NEW gone
    PROVE  LET R == {m \in Named(v) : m \in gone}
           IN  /\ Without(v, gone) \in [Member -> Datum]
               /\ Named(Without(v, gone)) = Named(v) \ gone
               /\ IsFiniteSet(R) /\ Cardinality(R) \in Nat
               /\ Cardinality(Named(Without(v, gone))) = Cardinality(Named(v)) + (0 - Cardinality(R))
<1> DEFINE R == {m \in Named(v) : m \in gone}
           L == Named(v) \ gone
<1>1. Without(v, gone) \in [Member -> Datum]
  BY DEF Without, Datum
<1>2. Named(Without(v, gone)) = L
  BY DEF Without, Named
<1>3. IsFiniteSet(Named(v))
  BY NamedFinite
<1>4. R \in SUBSET Named(v) /\ L \in SUBSET Named(v) /\ L \cap R = {} /\ L \cup R = Named(v)
  OBVIOUS
<1> HIDE DEF R, L
<1>5. IsFiniteSet(R) /\ IsFiniteSet(L)
  BY <1>3, <1>4, FS_Subset
<1>6. /\ Cardinality(L \cup R) = Cardinality(L) + Cardinality(R)
      /\ Cardinality(L) \in Nat /\ Cardinality(R) \in Nat
  BY <1>4, <1>5, JoinCount
<1>7. Cardinality(L) = Cardinality(Named(v)) + (0 - Cardinality(R))
  <2>1. Cardinality(Named(v)) = Cardinality(L) + Cardinality(R)
    BY <1>4, <1>6, Zenon
  <2> QED BY <1>6, <2>1
<1> QED BY <1>1, <1>2, <1>5, <1>6, <1>7 DEF R, L

\* One or two members.
NameList(ms) ==
    /\ ms \in Seq(Member) /\ DOMAIN ms \subseteq {1, 2}

(* HDEL, SREM and the members of ZREM: entries and count. *)
LEMMA RemoveIs ==
    ASSUME NEW e \in DB, NEW k \in Key, NEW ms, NameList(ms)
    PROVE  LET w == Without(e.val[k], Range(ms))
           IN  \E c : /\ EntriesSet(e, RemoveEntries(e, k, ms), k, w, c, e.index[k])
                      /\ Sound(e, k) /\ IsInjective(ms) =>
                            IF c = Nil THEN Named(w) = {} ELSE c = Cardinality(Named(w))
<1> DEFINE v == e.val[k]
           w == Without(v, Range(ms))
           D == {i \in DOMAIN ms : v[ms[i]] # Nil}
           R == {m \in Named(v) : m \in Range(ms)}
           n == 0 - Cardinality(D)
           g == [e EXCEPT !.val[k] = w]
           f == RemoveEntries(e, k, ms)
           c == Counted(e.size[k], n)
<1>1. v \in [Member -> Datum] /\ v = e.val[k]
  BY DEF DB
<1>2. DOMAIN ms = 1..Len(ms) /\ \A i \in DOMAIN ms : ms[i] \in Member
  BY DEF NameList
<1>3. \A m : Contains(ms, m) <=> m \in Range(ms)
  BY <1>2 DEF Contains, Range
<1>4. w = [m \in Member |-> IF Contains(ms, m) THEN Nil ELSE v[m]]
  BY <1>3, Zenon DEF Without
<1>5. f = IncrSize(g, k, n)
  BY <1>4, Zenon DEF RemoveEntries
<1> HIDE DEF v
<1>6. /\ w \in [Member -> Datum] /\ IsFiniteSet(R) /\ Cardinality(R) \in Nat
      /\ Cardinality(Named(w)) = Cardinality(Named(v)) + (0 - Cardinality(R))
  BY ZenonT(60), <1>1, LeaveCount
<1> HIDE DEF w
<1>7. IsFiniteSet(D) /\ Cardinality(D) \in Nat
  <2>1. D \in SUBSET (1..2)
    BY DEF NameList
  <2>2. IsFiniteSet(1..2)
    <3>1. 1 \in Int /\ 2 \in Int
      OBVIOUS
    <3> QED BY <3>1, FS_Interval
  <2>3. IsFiniteSet(D)
    BY <2>1, <2>2, FS_Subset
  <2> QED BY <2>3, FS_CardinalityType
<1>8. ASSUME IsInjective(ms) PROVE Cardinality(R) = Cardinality(D)
  <2> DEFINE b == [i \in D |-> ms[i]]
  <2>1. b \in [D -> R]
    BY <1>2 DEF Named, Range
  <2>2. \A i, j \in D : b[i] = b[j] => i = j
    BY <1>8 DEF IsInjective
  <2>3. \A z \in R : \E i \in D : b[i] = z
    BY DEF Named, Range
  <2> HIDE DEF b, D, R
  <2> QED BY <1>7, <2>1, <2>2, <2>3, BijectionCard
<1>9. EntriesPut(e, g, k, w, e.index[k])
  BY <1>6, ValSet
<1> HIDE DEF g, f, D, R
<1>10. n \in Int
  BY <1>7
<1> HIDE DEF n
<1>11. EntriesSet(e, f, k, w, c, e.index[k])
  BY <1>5, <1>9, <1>10, SizeSet
<1>12. ASSUME Sound(e, k), IsInjective(ms)
       PROVE  IF c = Nil THEN Named(w) = {} ELSE c = Cardinality(Named(w))
  <2>1. Cardinality(Named(w)) = Cardinality(Named(e.val[k])) + n
    BY <1>1, <1>6, <1>8, <1>12 DEF n
  <2> QED BY <1>10, <1>12, <2>1, CountMatches
<1> HIDE DEF c
<1> QED BY <1>1, <1>11, <1>12 DEF w, f

LEMMA RemoveDone ==
    ASSUME kind \in {"hash", "set"}, NEW e \in DB, NEW k \in Key, Basic(e, k), NEW ms, NameList(ms)
    PROVE  Done(e, RemoveEntries(e, k, ms), k, IsInjective(ms))
<1> DEFINE w == Without(e.val[k], Range(ms))
           f == RemoveEntries(e, k, ms)
           X == e.index[k]
           right == IsInjective(ms)
<1>1. PICK c : /\ EntriesSet(e, f, k, w, c, X)
               /\ Sound(e, k) /\ right =>
                     IF c = Nil THEN Named(w) = {} ELSE c = Cardinality(Named(w))
  BY RemoveIs
<1>2. Shaped(w, X)
  BY DEF Shaped, Basic
<1> HIDE DEF w, f, X, right
<1>3. Sound(e, k) /\ right => Agree(w, c, X)
  BY <1>1 DEF Agree
<1>4. Done(e, f, k, right)
  BY <1>1, <1>2, <1>3, EntriesDone DEF EntryKinds
<1> QED BY <1>4 DEF f, right

(* SUNIONSTORE, SDIFFSTORE, SINTERSTORE. *)
LEMMA StoreDone ==
    ASSUME kind = "set", NEW e \in DB, NEW k \in Key, Basic(e, k), NEW op, NEW ks,
           SoptGeneric(e, op, ks) \subseteq Member
    PROVE  Done(e, SoptStoreGeneric(e, op, k, ks), k, TRUE)
<1> DEFINE S == SoptGeneric(e, op, ks)
           w == [m \in Member |-> IF m \in S THEN Present ELSE Nil]
           c == Cardinality(S)
           g == [e EXCEPT !.val[k] = w]
           f == [e EXCEPT !.val[k] = w, !.size[k] = c]
           X == e.index[k]
<1>1. SoptStoreGeneric(e, op, k, ks) = f
  BY Zenon DEF SoptStoreGeneric
<1>2. IsFiniteSet(S) /\ c \in Nat
  BY FS_Subset, FS_CardinalityType, KeyspaceAssumption
<1>3. w \in [Member -> Datum] /\ Named(w) = S
  BY CollectionsAssumption DEF Present, Datum, Named
<1> HIDE DEF S, w, c
<1>4. c \in Int \cup {Nil} /\ c # Nil
  BY <1>2, CollectionsAssumption
<1>5. /\ f \in DB /\ f.val = [e.val EXCEPT ![k] = w] /\ f.size = [e.size EXCEPT ![k] = c]
      /\ f.list = e.list /\ f.head = e.head /\ f.orphan = e.orphan
      /\ f.index = e.index /\ f.exp = e.exp /\ f.time = e.time
  BY <1>3, <1>4, Zenon DEF DB
<1>6. e.val \in [Key -> [Member -> Datum]] /\ e.size \in [Key -> Int \cup {Nil}]
  BY DEF DB
<1>7. Shaped(w, X)
  BY DEF Shaped, Basic
<1> HIDE DEF f, X
<1>8. /\ f.val[k] = w /\ f.size[k] = c
      /\ \A x \in Key : x # k => f.val[x] = e.val[x] /\ f.size[x] = e.size[x]
  BY <1>5, <1>6
<1>9. EntriesSet(e, f, k, w, c, X)
  BY <1>4, <1>5, <1>8, Zenon DEF EntriesSet, Frame, SameFields, TimeKept, X
<1>10. Agree(w, c, X)
  BY <1>3, <1>4 DEF Agree, c
<1>11. Done(e, f, k, TRUE)
  BY <1>7, <1>9, <1>10, EntriesDone DEF EntryKinds
<1> QED BY <1>1, <1>11

(* What a STORE computes are members. *)
LEMMA SoptMembers ==
    ASSUME NEW e, NEW k, NEW t, NEW op \in {"union", "diff", "inter"}
    PROVE  SoptGeneric(e, op, <<k, t>>) \subseteq Member
<1>1. \A x : Entries(e, x) \subseteq Member
  BY DEF Entries
<1> DEFINE ks == <<k, t>>
<1>2. CASE op = "union"
  <2>1. SoptGeneric(e, op, ks) = UNION {Entries(e, ks[i]) : i \in DOMAIN ks}
    BY <1>2 DEF SoptGeneric
  <2> HIDE DEF ks
  <2>2. UNION {Entries(e, ks[i]) : i \in DOMAIN ks} \subseteq Member
    BY <1>1, Zenon
  <2> QED BY <2>1, <2>2 DEF ks
<1>3. CASE op = "diff"
  <2>1. SoptGeneric(e, op, ks) \subseteq Entries(e, ks[1])
    <3>1. SoptGeneric(e, op, ks) = Entries(e, ks[1]) \ UNION {Entries(e, ks[i]) : i \in 2..Len(ks)}
      BY <1>3 DEF SoptGeneric
    <3> QED BY <3>1, Zenon
  <2> QED BY <1>1, <2>1
<1>4. CASE op = "inter"
  <2>1. SoptGeneric(e, op, ks) \subseteq Entries(e, ks[1])
    <3>1. SoptGeneric(e, op, ks) = {m \in Entries(e, ks[1]) :
                                       \A i \in DOMAIN ks : m \in Entries(e, ks[i])}
      BY <1>4 DEF SoptGeneric
    <3> QED BY <3>1, Zenon
  <2> QED BY <1>1, <2>1
<1> QED BY <1>2, <1>3, <1>4

(* HEXPIRE and SEXPIRE. *)
LEMMA ExpireDone ==
    ASSUME kind \in {"hash", "set"}, NEW e \in DB, NEW k \in Key, Basic(e, k),
           NEW w \in Int, NEW t \in Int
    PROVE  Good(e, EntriesExpireAt(e, k, w, t), k)
<1>1. CASE w < t
  BY <1>1, ClearDone DEF EntriesExpireAt
<1>2. CASE ~(w < t) /\ w > t /\ Count(e.size[k]) > 0
  <2>1. e.size[k] # Nil
    BY <1>2 DEF Count
  <2> QED BY <1>2, <2>1, SetExpireGood DEF EntriesExpireAt
<1>3. CASE ~(w < t) /\ ~(w > t /\ Count(e.size[k]) > 0)
  BY <1>3, SameGood DEF EntriesExpireAt
<1> QED BY <1>1, <1>2, <1>3

(* SPERSIST takes the expiry time and nothing else. *)
LEMMA PersistIs ==
    ASSUME kind = "set", NEW e \in DB, NEW k \in Key, Basic(e, k)
    PROVE  LET f == RmExpire(e, k)
           IN  f \in DB /\ Frame(e, f, k) /\ Basic(f, k) /\ (Sound(e, k) => Sound(f, k))
<1> DEFINE f == RmExpire(e, k)
<1>1. /\ f \in DB /\ Frame(e, f, k)
      /\ f.list[k] = e.list[k] /\ f.head[k] = e.head[k] /\ f.orphan[k] = e.orphan[k]
      /\ f.val[k] = e.val[k] /\ f.size[k] = e.size[k] /\ f.index[k] = e.index[k]
      /\ f.exp[k] = Nil
  BY RmExpireAt
<1> HIDE DEF f
<1>2. Basic(f, k)
  BY <1>1 DEF Basic
<1>3. Entries(f, k) = Entries(e, k)
  BY <1>1 DEF Entries
<1>4. Sound(e, k) => Sound(f, k)
  BY <1>1, <1>3 DEF Sound, CountRight, IndexRight
<1> QED BY <1>1, <1>2, <1>4 DEF f

-----------------------------------------------------------------------------
(* Sorted sets.                                                            *)

\* The score entries that belong to scores v.
ScoresOf(v) == {<<v[m], m>> : m \in Named(v)}

LEMMA ZSetEntries ==
    ASSUME kind = "zset", NEW e \in DB, NEW k \in Key
    PROVE  /\ e.val[k] \in [Member -> Datum] /\ e.index[k] \in SUBSET (Int \X Member)
           /\ Basic(e, k) => /\ \A m \in Member : e.val[k][m] \in Int \cup {Nil}
                             /\ IsFiniteSet(e.index[k])
           /\ Sound(e, k) => e.index[k] = ScoresOf(e.val[k])
<1>1. e.val[k] \in [Member -> Datum] /\ e.index[k] \in SUBSET (Int \X Member)
  BY DEF DB
<1>2. Basic(e, k) => /\ \A m \in Member : e.val[k][m] \in Int \cup {Nil}
                     /\ IsFiniteSet(e.index[k])
  BY <1>1 DEF Basic, Datum
<1>3. Sound(e, k) => e.index[k] = ScoresOf(e.val[k])
  BY StoredCount DEF Sound, IndexRight, ScoresOf
<1> QED BY <1>1, <1>2, <1>3

\* Which score entries a ZADD deletes, and those it has at the end.
ZDrops(v, pairs, i, x) == pairs[i][1] = x[2] /\ v[x[2]] = x[1]
ZEntry(pairs, i) == <<pairs[i][2], pairs[i][1]>>
ZAdded(v, X, pairs) ==
    {x \in X : \A i \in DOMAIN pairs : ~ZDrops(v, pairs, i, x)}
    \cup {ZEntry(pairs, i) : i \in {j \in DOMAIN pairs :
              \A l \in DOMAIN pairs : l > j => ~ZDrops(v, pairs, l, ZEntry(pairs, j))}}

(* The score entries after a ZADD that names no member twice. *)
LEMMA ZAddedScores ==
    ASSUME NEW v \in [Member -> Datum], NEW pairs, PairList(pairs, Int), Distinct(pairs),
           NEW w, PutIn(v, pairs, w)
    PROVE  ZAdded(v, ScoresOf(v), pairs) = ScoresOf(w)
<1> DEFINE A == {x \in ScoresOf(v) : \A i \in DOMAIN pairs : ~ZDrops(v, pairs, i, x)}
           J == {j \in DOMAIN pairs :
                    \A l \in DOMAIN pairs : l > j => ~ZDrops(v, pairs, l, ZEntry(pairs, j))}
           B == {ZEntry(pairs, i) : i \in J}
<1>1. ASSUME NEW j \in DOMAIN pairs PROVE j \in J
  <2>1. ASSUME NEW l \in DOMAIN pairs, l > j PROVE ~ZDrops(v, pairs, l, ZEntry(pairs, j))
    <3>1. l # j
      <4>1. j \in {1, 2} /\ l \in {1, 2}
        BY DEF PairList
      <4> QED BY <2>1, <4>1
    <3>2. pairs[l][1] # pairs[j][1]
      BY <3>1 DEF Distinct
    <3> QED BY <3>2 DEF ZDrops, ZEntry
  <2> QED BY <2>1
<1>2. \A j \in DOMAIN pairs : pairs[j][1] \in Member /\ pairs[j][2] \in Int
  BY DEF PairList
<1>3. ASSUME NEW j \in DOMAIN pairs PROVE w[pairs[j][1]] = pairs[j][2] /\ pairs[j][1] \in Named(w)
  <2>1. PICK i \in DOMAIN pairs : pairs[i][1] = pairs[j][1] /\ w[pairs[j][1]] = pairs[i][2]
    BY <1>2 DEF PutIn
  <2>2. i = j
    BY <2>1 DEF Distinct
  <2> QED BY <1>2, <2>1, <2>2, CollectionsAssumption DEF Named
<1>4. ASSUME NEW m \in Member, \A i \in DOMAIN pairs : pairs[i][1] # m
      PROVE  w[m] = v[m]
  BY <1>4 DEF PutIn
<1>5. ASSUME NEW x \in A PROVE x \in ScoresOf(w)
  <2>1. PICK m \in Named(v) : x = <<v[m], m>>
    BY DEF ScoresOf
  <2>2. m \in Member /\ v[m] # Nil
    BY DEF Named
  <2>3. \A i \in DOMAIN pairs : pairs[i][1] # m
    BY <2>1 DEF ZDrops
  <2>4. w[m] = v[m]
    BY <1>4, <2>2, <2>3
  <2> QED BY <2>1, <2>2, <2>4 DEF ScoresOf, Named
<1>6. ASSUME NEW x \in B PROVE x \in ScoresOf(w)
  <2>1. PICK i \in DOMAIN pairs : x = <<pairs[i][2], pairs[i][1]>>
    BY DEF ZEntry
  <2> QED BY <1>3, <2>1 DEF ScoresOf
<1>7. ASSUME NEW x \in ScoresOf(w) PROVE x \in A \/ x \in B
  <2>1. PICK m \in Named(w) : x = <<w[m], m>>
    BY DEF ScoresOf
  <2>2. m \in Member /\ w[m] # Nil
    BY DEF Named
  <2>3. CASE \E i \in DOMAIN pairs : pairs[i][1] = m
    <3>1. PICK i \in DOMAIN pairs : pairs[i][1] = m
      BY <2>3
    <3>2. x = ZEntry(pairs, i)
      BY <1>3, <2>1, <3>1 DEF ZEntry
    <3>3. i \in J
      BY <1>1
    <3> QED BY <3>2, <3>3
  <2>4. CASE \A i \in DOMAIN pairs : pairs[i][1] # m
    <3>1. w[m] = v[m]
      BY <1>4, <2>2, <2>4
    <3>2. m \in Named(v) /\ x = <<v[m], m>>
      BY <2>1, <2>2, <3>1 DEF Named
    <3>3. x \in ScoresOf(v)
      BY <3>2 DEF ScoresOf
    <3>4. \A i \in DOMAIN pairs : ~ZDrops(v, pairs, i, x)
      BY <2>4, <3>2 DEF ZDrops
    <3> QED BY <3>3, <3>4
  <2> QED BY <2>3, <2>4
<1> HIDE DEF A, B, J
<1>8. A \cup B = ScoresOf(w)
  BY <1>5, <1>6, <1>7
<1> QED BY <1>8, Zenon DEF ZAdded, A, B, J

LEMMA ZAddedFinite ==
    ASSUME NEW v, NEW X, IsFiniteSet(X), NEW V, NEW pairs, PairList(pairs, V)
    PROVE  IsFiniteSet(ZAdded(v, X, pairs))
<1> DEFINE A == {x \in X : \A i \in DOMAIN pairs : ~ZDrops(v, pairs, i, x)}
           J == {j \in DOMAIN pairs :
                    \A l \in DOMAIN pairs : l > j => ~ZDrops(v, pairs, l, ZEntry(pairs, j))}
           B == {ZEntry(pairs, i) : i \in J}
<1>1. IsFiniteSet(A)
  BY FS_Subset
<1>2. B \subseteq {ZEntry(pairs, 1), ZEntry(pairs, 2)}
  BY DEF PairList
<1>3. IsFiniteSet({ZEntry(pairs, 1), ZEntry(pairs, 2)})
  <2> DEFINE a == ZEntry(pairs, 1)
             b == ZEntry(pairs, 2)
  <2> HIDE DEF a, b
  <2>1. IsFiniteSet({a} \cup {b})
    BY FS_Singleton, FS_Union
  <2>2. {a} \cup {b} = {a, b}
    OBVIOUS
  <2> QED BY <2>1, <2>2 DEF a, b
<1>4. IsFiniteSet(B)
  BY <1>2, <1>3, FS_Subset
<1> HIDE DEF A, B, J
<1>5. IsFiniteSet(A \cup B)
  BY <1>1, <1>4, FS_Union
<1> QED BY <1>5, Zenon DEF ZAdded, A, B, J

LEMMA ZADDDone ==
    ASSUME kind = "zset", NEW e \in DB, NEW k \in Key, Basic(e, k),
           NEW pairs, PairList(pairs, Int)
    PROVE  Done(e, CmdZADD(e, k, pairs), k, Distinct(pairs))
<1> DEFINE v == e.val[k]
           X == e.index[k]
           w == PutPairs(v, pairs)
           c == Counted(e.size[k], Fresh(e, k, pairs))
           p == Put(e, k, pairs)
           Y == ZAdded(v, X, pairs)
           f == [p EXCEPT !.index[k] = Y]
           right == Distinct(pairs)
<1>1. /\ EntriesSet(e, p, k, w, c, X) /\ PutIn(v, pairs, w)
      /\ Sound(e, k) /\ right => IF c = Nil THEN Named(w) = {} ELSE c = Cardinality(Named(w))
  <2>1. Int \subseteq Int \cup {Blank}
    OBVIOUS
  <2> QED BY <2>1, PutIs
<1>2. p.index[k] = X /\ p \in DB
  BY <1>1 DEF EntriesSet
<1>3. CmdZADD(e, k, pairs) = f
  BY <1>2, Zenon DEF CmdZADD, ZAdded, ZDrops, ZEntry
<1>4. /\ v \in [Member -> Datum] /\ X \in SUBSET (Int \X Member) /\ IsFiniteSet(X)
      /\ \A m \in Member : v[m] \in Int \cup {Nil}
      /\ Sound(e, k) => X = ScoresOf(v)
  BY ZSetEntries
<1> HIDE DEF v, X, w, c, p
<1>5. Y \in SUBSET (Int \X Member)
  <2>1. \A i \in DOMAIN pairs : ZEntry(pairs, i) \in Int \X Member
    BY DEF ZEntry, PairList
  <2> QED BY <1>4, <2>1, Zenon DEF ZAdded
<1>6. ASSUME Sound(e, k), right PROVE Y = ScoresOf(w)
  BY <1>1, <1>4, <1>6, ZAddedScores
<1>7. Shaped(w, Y)
  <2>1. ASSUME NEW m \in Member PROVE w[m] # Blank
    <3>1. CASE \A i \in DOMAIN pairs : pairs[i][1] # m
      BY <1>1, <1>4, <3>1, CollectionsAssumption DEF PutIn
    <3>2. CASE \E i \in DOMAIN pairs : pairs[i][1] = m
      BY <1>1, <3>2, CollectionsAssumption DEF PutIn, PairList
    <3> QED BY <3>1, <3>2
  <2>2. IsFiniteSet(Y)
    BY <1>4, ZAddedFinite
  <2> QED BY <2>1, <2>2 DEF Shaped
<1> HIDE DEF Y
<1>8. EntriesSet(e, f, k, w, c, Y)
  BY <1>1, <1>5, IndexSet
<1> HIDE DEF f, right
<1>9. Sound(e, k) /\ right => Agree(w, c, Y)
  BY <1>1, <1>6 DEF Agree, ScoresOf
<1>10. Done(e, f, k, right)
  BY <1>7, <1>8, <1>9, EntriesDone DEF EntryKinds
<1> QED BY <1>3, <1>10 DEF right

LEMMA ZREMDone ==
    ASSUME kind = "zset", NEW e \in DB, NEW k \in Key, Basic(e, k), NEW ms, NameList(ms)
    PROVE  Done(e, CmdZREM(e, k, ms), k, IsInjective(ms))
<1> DEFINE v == e.val[k]
           X == e.index[k]
           w == Without(v, Range(ms))
           p == RemoveEntries(e, k, ms)
           Y == {x \in X : ~(Contains(ms, x[2]) /\ x[1] = v[x[2]])}
           f == [p EXCEPT !.index[k] = Y]
           right == IsInjective(ms)
<1>1. PICK c : /\ EntriesSet(e, p, k, w, c, X)
               /\ Sound(e, k) /\ right =>
                     IF c = Nil THEN Named(w) = {} ELSE c = Cardinality(Named(w))
  BY RemoveIs
<1>2. p.index[k] = X /\ p \in DB
  BY <1>1 DEF EntriesSet
<1>3. CmdZREM(e, k, ms) = f
  BY <1>2, Zenon DEF CmdZREM
<1>4. /\ v \in [Member -> Datum] /\ X \in SUBSET (Int \X Member) /\ IsFiniteSet(X)
      /\ \A m \in Member : v[m] \in Int \cup {Nil}
      /\ Sound(e, k) => X = ScoresOf(v)
  BY ZSetEntries
<1>5. \A m : Contains(ms, m) <=> m \in Range(ms)
  <2>1. DOMAIN ms = 1..Len(ms)
    BY DEF NameList
  <2> QED BY <2>1 DEF Contains, Range
<1> HIDE DEF v, X, p
<1>6. Y \in SUBSET (Int \X Member)
  BY <1>4
<1>7. ASSUME Sound(e, k) PROVE Y = ScoresOf(w)
  <2>1. X = ScoresOf(v)
    BY <1>4, <1>7
  <2>2. ASSUME NEW x \in Y PROVE x \in ScoresOf(w)
    <3>1. PICK m \in Named(v) : x = <<v[m], m>>
      BY <2>1 DEF ScoresOf
    <3>2. m \in Member /\ v[m] # Nil /\ m \notin Range(ms)
      BY <1>5, <3>1 DEF Named
    <3>3. w[m] = v[m]
      BY <3>2 DEF Without
    <3> QED BY <3>1, <3>2, <3>3 DEF ScoresOf, Named
  <2>3. ASSUME NEW x \in ScoresOf(w) PROVE x \in Y
    <3>1. PICK m \in Named(w) : x = <<w[m], m>>
      BY DEF ScoresOf
    <3>2. m \in Member /\ w[m] # Nil
      BY DEF Named
    <3>3. m \notin Range(ms) /\ w[m] = v[m]
      BY <3>2 DEF Without
    <3>4. x \in X /\ ~Contains(ms, x[2])
      BY <1>5, <2>1, <3>1, <3>2, <3>3 DEF ScoresOf, Named
    <3> QED BY <3>4
  <2> QED BY <2>2, <2>3
<1>8. Shaped(w, Y)
  <2>1. IsFiniteSet(Y)
    BY <1>4, FS_Subset
  <2> HIDE DEF Y
  <2> QED BY <1>4, <2>1, CollectionsAssumption DEF Shaped, Without
<1> HIDE DEF Y, w
<1>9. EntriesSet(e, f, k, w, c, Y)
  BY <1>1, <1>6, IndexSet
<1> HIDE DEF f, right
<1>10. Sound(e, k) /\ right => Agree(w, c, Y)
  BY <1>1, <1>7 DEF Agree, ScoresOf
<1>11. Done(e, f, k, right)
  BY <1>8, <1>9, <1>10, EntriesDone DEF EntryKinds
<1> QED BY <1>3, <1>11 DEF right

LEMMA ZINCRBYDone ==
    ASSUME kind = "zset", NEW e \in DB, NEW k \in Key, Basic(e, k), NEW m \in Member, NEW n \in Int
    PROVE  Done(e, CmdZINCRBY(e, k, m, n), k, n # 0)
<1> DEFINE v == e.val[k]
           X == e.index[k]
           old == v[m]
           new == Count(old) + n
           w == [v EXCEPT ![m] = new]
           p == HSet(e, k, m, new)
           Y == (X \cup {<<new, m>>}) \ {<<old, m>>}
           f == [p EXCEPT !.index[k] = Y]
<1>4. /\ v \in [Member -> Datum] /\ X \in SUBSET (Int \X Member) /\ IsFiniteSet(X)
      /\ \A y \in Member : v[y] \in Int \cup {Nil}
      /\ Sound(e, k) => X = ScoresOf(v)
  BY ZSetEntries
<1>5. new \in Int /\ (n # 0 => new # old)
  BY <1>4, CollectionsAssumption DEF Count
<1>6. new \in Int \cup {Blank}
  BY <1>5
<1> HIDE DEF new
<1>1. PICK c : /\ EntriesSet(e, p, k, w, c, X)
               /\ Sound(e, k) => IF c = Nil THEN Named(w) = {} ELSE c = Cardinality(Named(w))
  <2>1. \E c : OneSet(e, p, k, m, new, c)
    BY <1>6, HSetIs
  <2> QED BY <2>1 DEF OneSet
<1>2. p.index[k] = X /\ p \in DB
  BY <1>1 DEF EntriesSet
<1>3. CmdZINCRBY(e, k, m, n) = f
  BY <1>2, Zenon DEF CmdZINCRBY, new
<1> HIDE DEF v, X, p, old
<1>a. old = v[m]
  BY DEF old
<1>7. Y \in SUBSET (Int \X Member)
  BY <1>4, <1>5
<1>8. ASSUME Sound(e, k), n # 0 PROVE Y = ScoresOf(w)
  <2>1. X = ScoresOf(v)
    BY <1>4, <1>8
  <2>2. \A y \in Member : w[y] = IF y = m THEN new ELSE v[y]
    BY <1>4
  <2>3. new # Nil /\ new # old
    BY <1>5, <1>8, CollectionsAssumption
  <2> HIDE DEF w
  <2>4. ASSUME NEW x \in Y PROVE x \in ScoresOf(w)
    <3>1. CASE x = <<new, m>>
      BY <2>2, <2>3, <3>1 DEF ScoresOf, Named
    <3>2. CASE x # <<new, m>>
      <4>1. x \in ScoresOf(v) /\ x # <<old, m>>
        BY <2>1, <3>2
      <4>2. PICK y \in Named(v) : x = <<v[y], y>>
        BY <4>1 DEF ScoresOf
      <4>3. y # m /\ y \in Member /\ v[y] # Nil
        BY <1>a, <4>1, <4>2 DEF Named
      <4> QED BY <2>2, <4>2, <4>3 DEF ScoresOf, Named
    <3> QED BY <3>1, <3>2
  <2>5. ASSUME NEW x \in ScoresOf(w) PROVE x \in Y
    <3>1. PICK y \in Named(w) : x = <<w[y], y>>
      BY DEF ScoresOf
    <3>2. y \in Member /\ w[y] # Nil
      BY DEF Named
    <3>3. CASE y = m
      BY <2>2, <2>3, <3>1, <3>2, <3>3
    <3>4. CASE y # m
      <4>1. x \in X
        BY <2>1, <2>2, <3>1, <3>2, <3>4 DEF ScoresOf, Named
      <4> QED BY <3>1, <3>4, <4>1
    <3> QED BY <3>3, <3>4
  <2> QED BY <2>4, <2>5
<1>9. Shaped(w, Y)
  <2>1. IsFiniteSet(X \cup {<<new, m>>})
    BY <1>4, FS_AddElement
  <2>2. IsFiniteSet(Y)
    BY <2>1, FS_Subset
  <2> HIDE DEF Y
  <2> QED BY <1>4, <1>5, <2>2, CollectionsAssumption DEF Shaped
<1> HIDE DEF Y, w
<1>10. EntriesSet(e, f, k, w, c, Y)
  BY <1>1, <1>7, IndexSet
<1> HIDE DEF f
<1>11. Sound(e, k) /\ n # 0 => Agree(w, c, Y)
  BY <1>1, <1>8 DEF Agree, ScoresOf
<1>12. Done(e, f, k, n # 0)
  <2> DEFINE right == n # 0
  <2>1. Sound(e, k) /\ right => Agree(w, c, Y)
    BY <1>11
  <2> HIDE DEF right
  <2>2. Done(e, f, k, right)
    BY <1>9, <1>10, <2>1, EntriesDone DEF EntryKinds
  <2> QED BY <2>2 DEF right
<1> QED BY <1>3, <1>12

\* What zRemRange of the score entries R leaves of k.
Ranged(e, f, k, R) ==
    LET w == Without(e.val[k], {x[2] : x \in R})
    IN  \E c : /\ EntriesSet(e, f, k, w, c, e.index[k] \ R) /\ c # 0
               /\ Sound(e, k) => Agree(w, c, e.index[k] \ R)

(* ZREMRANGEBYSCORE, ZREMRANGEBYRANK, ZCLEAR. *)
LEMMA ZRemRangeIs ==
    ASSUME kind = "zset", NEW e \in DB, NEW k \in Key, Basic(e, k), NEW R, R \subseteq e.index[k]
    PROVE  Ranged(e, ZRemRange(e, k, R), k, R)
<1> DEFINE v == e.val[k]
           X == e.index[k]
           gone == {x[2] : x \in R}
           w == Without(v, gone)
           D == {x \in R : v[x[2]] # Nil}
           G == {m \in Named(v) : m \in gone}
           n == 0 - Cardinality(D)
           Y == X \ R
           g == [e EXCEPT !.val[k] = w, !.index[k] = Y]
           f == ZRemRange(e, k, R)
           c == Counted(e.size[k], n)
<1>1. /\ v \in [Member -> Datum] /\ v = e.val[k] /\ X = e.index[k] /\ X \in SUBSET (Int \X Member)
      /\ IsFiniteSet(X) /\ (Sound(e, k) => X = ScoresOf(v))
  BY ZSetEntries
<1>2. f = IncrSize(g, k, n)
  BY Zenon DEF ZRemRange, Without
<1> HIDE DEF v, X
<1>3. /\ w \in [Member -> Datum] /\ IsFiniteSet(G) /\ Cardinality(G) \in Nat
      /\ Cardinality(Named(w)) = Cardinality(Named(v)) + (0 - Cardinality(G))
  <2> HIDE DEF gone
  <2>1. v \in [Member -> Datum]
    BY <1>1
  <2> QED BY <2>1, LeaveCount
<1>4. Y \in SUBSET (Int \X Member)
  BY <1>1
<1>5. ASSUME Sound(e, k) PROVE /\ Cardinality(D) = Cardinality(G) /\ Y = ScoresOf(w)
  <2>1. X = ScoresOf(v) /\ R \subseteq ScoresOf(v)
    BY <1>1, <1>5
  <2>2. \A x \in R : x[2] \in Named(v) /\ x = <<v[x[2]], x[2]>>
    BY <2>1 DEF ScoresOf
  <2>3. \A m \in gone : m \in Named(v) /\ <<v[m], m>> \in R
    BY <2>2
  <2> DEFINE b == [m \in G |-> <<v[m], m>>]
  <2>4. b \in [G -> D]
    BY <2>2, <2>3 DEF Named
  <2>5. \A i, j \in G : b[i] = b[j] => i = j
    OBVIOUS
  <2>6. \A z \in D : \E i \in G : b[i] = z
    BY <2>2
  <2>7. Cardinality(D) = Cardinality(G)
    <3> HIDE DEF b, G, D
    <3> QED BY <1>3, <2>4, <2>5, <2>6, BijectionCard
  <2>8. ASSUME NEW x \in Y PROVE x \in ScoresOf(w)
    <3>1. PICK m \in Named(v) : x = <<v[m], m>>
      BY <2>1 DEF ScoresOf
    <3>2. m \in Member /\ v[m] # Nil /\ m \notin gone
      BY <2>3, <3>1 DEF Named
    <3>3. w[m] = v[m]
      BY <3>2 DEF Without
    <3> QED BY <3>1, <3>2, <3>3 DEF ScoresOf, Named
  <2>9. ASSUME NEW x \in ScoresOf(w) PROVE x \in Y
    <3>1. PICK m \in Named(w) : x = <<w[m], m>>
      BY DEF ScoresOf
    <3>2. m \in Member /\ w[m] # Nil
      BY DEF Named
    <3>3. m \notin gone /\ w[m] = v[m]
      BY <3>2 DEF Without
    <3>4. x \in X
      BY <2>1, <3>1, <3>2, <3>3 DEF ScoresOf, Named
    <3>5. x \notin R
      BY <3>1, <3>3
    <3> QED BY <3>4, <3>5
  <2> QED BY <2>7, <2>8, <2>9
<1>7. IsFiniteSet(D) /\ Cardinality(D) \in Nat
  <2>1. D \subseteq X
    BY DEF X
  <2>2. IsFiniteSet(D)
    BY <1>1, <2>1, FS_Subset
  <2> QED BY <2>2, FS_CardinalityType
<1> HIDE DEF w, Y
<1>6. EntriesPut(e, g, k, w, Y)
  BY <1>3, <1>4, ValIndexSet
<1> HIDE DEF g, f, D, G
<1>8. n \in Int
  BY <1>7
<1> HIDE DEF n
<1>9. EntriesSet(e, f, k, w, c, Y)
  BY <1>2, <1>6, <1>8, SizeSet
<1>10. ASSUME Sound(e, k) PROVE Agree(w, c, Y)
  <2>1. Cardinality(Named(w)) = Cardinality(Named(e.val[k])) + n
    BY <1>1, <1>3, <1>5, <1>10 DEF n
  <2>2. IF c = Nil THEN Named(w) = {} ELSE c = Cardinality(Named(w))
    BY <1>8, <1>10, <2>1, CountMatches
  <2> QED BY <1>5, <1>10, <2>2 DEF Agree, ScoresOf
<1>12. c # 0
  <2>1. e.size[k] \in Int \cup {Nil}
    BY DEF DB
  <2> QED BY <1>8, <2>1, CollectionsAssumption DEF Counted, Count
<1> HIDE DEF c
<1>11. w = Without(e.val[k], {x[2] : x \in R}) /\ Y = e.index[k] \ R
  BY <1>1 DEF w, Y
<1> QED BY <1>9, <1>10, <1>11, <1>12 DEF Ranged, f

LEMMA ZRemRangeDone ==
    ASSUME kind = "zset", NEW e \in DB, NEW k \in Key, Basic(e, k), NEW R, R \subseteq e.index[k]
    PROVE  Done(e, ZRemRange(e, k, R), k, TRUE)
<1> DEFINE w == Without(e.val[k], {x[2] : x \in R})
           Y == e.index[k] \ R
           f == ZRemRange(e, k, R)
<1>1. Ranged(e, f, k, R)
  BY ZRemRangeIs
<1>2. PICK c : EntriesSet(e, f, k, w, c, Y) /\ (Sound(e, k) => Agree(w, c, Y))
  BY <1>1 DEF Ranged
<1>3. IsFiniteSet(e.index[k])
  BY DEF Basic
<1>4. IsFiniteSet(Y)
  BY <1>3, FS_Subset
<1>5. \A m \in Member : w[m] # Blank
  BY CollectionsAssumption DEF Basic, Without
<1> HIDE DEF w, Y, f
<1>6. Shaped(w, Y)
  BY <1>4, <1>5 DEF Shaped
<1>7. Done(e, f, k, TRUE)
  BY <1>2, <1>6, EntriesDone DEF EntryKinds
<1> QED BY <1>7 DEF f

\* f has nothing of k.
Gone(f, k) ==
    /\ f.list[k] = <<>> /\ Entries(f, k) = {} /\ f.index[k] = {}
    /\ f.size[k] = Nil /\ f.exp[k] = Nil

\* What one key is after a command that clears it.
Cleared(e, f, k) ==
    /\ f \in DB /\ Frame(e, f, k) /\ Basic(f, k) /\ f.exp[k] = Nil
    /\ kind = "zset" => f.time \subseteq e.time
    /\ Sound(e, k) => Sound(f, k) /\ Gone(f, k)

LEMMA LClearCleared ==
    ASSUME kind = "list", NEW e \in DB, NEW k \in Key, Basic(e, k)
    PROVE  Cleared(e, LClear(e, k), k) /\ Kept(e, LClear(e, k), k)
<1> DEFINE f == LClear(e, k)
<1>1. Good(e, f, k) /\ f.exp[k] = Nil /\ f.list[k] = <<>>
  BY LClearGood
<1> HIDE DEF f
<1>2. Basic(f, k)
  BY <1>1 DEF Good
<1>3. Entries(f, k) = {} /\ Sound(f, k) /\ f.index[k] = {} /\ f.size[k] = Nil
  BY <1>1, <1>2, ListSound DEF Basic
<1> QED BY <1>1, <1>2, <1>3 DEF Cleared, Gone, Good, f

LEMMA ClearCleared ==
    ASSUME kind \in {"kv", "hash", "set"}, NEW e \in DB, NEW k \in Key, Basic(e, k)
    PROVE  Cleared(e, Clear(e, k), k) /\ Kept(e, Clear(e, k), k)
<1> DEFINE f == Clear(e, k)
<1>1. /\ Good(e, f, k) /\ Sound(f, k) /\ f.exp[k] = Nil /\ f.val[k] = Empty /\ f.size[k] = Nil
  BY ClearDone
<1> HIDE DEF f
<1>2. Basic(f, k)
  BY <1>1 DEF Good
<1>3. Entries(f, k) = {} /\ f.list[k] = <<>> /\ f.index[k] = {}
  BY <1>1, <1>2 DEF Basic, Entries, Empty
<1> QED BY <1>1, <1>2, <1>3 DEF Cleared, Gone, Good, f

(* flushType of a sorted set counts down what it removes: it leaves *)
(* nothing when the score entries and the count were right.         *)
LEMMA ZFlushCleared ==
    ASSUME kind = "zset", NEW e \in DB, NEW k \in Key, Basic(e, k)
    PROVE  Cleared(e, RmExpire(ZRemRange(e, k, e.index[k]), k), k)
<1> DEFINE R == e.index[k]
           p == ZRemRange(e, k, R)
           f == RmExpire(p, k)
           w == Without(e.val[k], {x[2] : x \in R})
<1>1. Ranged(e, p, k, R) /\ Done(e, p, k, TRUE)
  BY ZRemRangeIs, ZRemRangeDone
<1>2. PICK c : EntriesSet(e, p, k, w, c, R \ R) /\ c # 0 /\ (Sound(e, k) => Agree(w, c, R \ R))
  BY <1>1 DEF Ranged
<1> HIDE DEF p
<1>3. /\ p \in DB /\ Frame(e, p, k) /\ Basic(p, k) /\ (Sound(e, k) => Sound(p, k))
      /\ p.time \subseteq e.time
  BY <1>1 DEF Done
<1>4. /\ f \in DB /\ Frame(p, f, k)
      /\ f.list[k] = p.list[k] /\ f.head[k] = p.head[k] /\ f.orphan[k] = p.orphan[k]
      /\ f.val[k] = p.val[k] /\ f.size[k] = p.size[k] /\ f.index[k] = p.index[k]
      /\ f.exp[k] = Nil /\ f.time \subseteq p.time
  BY <1>3, RmExpireAt
<1> HIDE DEF f
<1>5. Frame(e, f, k)
  BY <1>3, <1>4, FrameTrans
<1>6. Basic(f, k)
  BY <1>3, <1>4 DEF Basic
<1>7. Entries(f, k) = Entries(p, k) /\ Entries(p, k) = Named(w)
  BY <1>2, <1>4 DEF Entries, Named, EntriesSet
<1>8. Sound(p, k) => Sound(f, k)
  BY <1>4, <1>7 DEF Sound, CountRight, IndexRight
<1>9. ASSUME Sound(e, k) PROVE Gone(f, k)
  <2>1. R = ScoresOf(e.val[k])
    BY <1>9, ZSetEntries
  <2>2. Named(w) = {}
    <3>1. ASSUME NEW m \in Member PROVE w[m] = Nil
      <4>1. CASE e.val[k][m] = Nil
        BY <4>1 DEF Without
      <4>2. CASE e.val[k][m] # Nil
        <5>1. <<e.val[k][m], m>> \in R
          BY <2>1, <4>2 DEF ScoresOf, Named
        <5>2. m \in {x[2] : x \in R}
          BY <5>1
        <5> QED BY <5>2 DEF Without
      <4> QED BY <4>1, <4>2
    <3> QED BY <3>1 DEF Named
  <2>3. c = Nil
    <3>1. Cardinality(Named(w)) = 0
      BY <2>2, FS_EmptySet
    <3> QED BY <1>2, <1>9, <3>1 DEF Agree
  <2>4. f.list[k] = <<>>
    BY <1>6 DEF Basic
  <2>5. p.index[k] = {} /\ p.size[k] = Nil
    BY <1>2, <2>3 DEF EntriesSet
  <2> QED BY <1>4, <1>7, <2>2, <2>4, <2>5 DEF Gone
<1> QED BY <1>3, <1>4, <1>5, <1>6, <1>8, <1>9 DEF Cleared, f, p

LEMMA FlushCleared ==
    ASSUME kind \in Kinds, NEW e \in DB, NEW k \in Key, Basic(e, k)
    PROVE  Cleared(e, FlushType(e, k), k)
<1>1. CASE kind = "list"
  BY <1>1, LClearCleared DEF FlushType
<1>2. CASE kind = "zset"
  <2>1. FlushType(e, k) = RmExpire(ZRemRange(e, k, e.index[k]), k)
    BY <1>2, Zenon DEF FlushType
  <2> QED BY <1>2, <2>1, ZFlushCleared
<1>3. CASE kind \in {"kv", "hash", "set"}
  <2>1. FlushType(e, k) = Clear(e, k)
    BY <1>3 DEF FlushType
  <2> QED BY <1>3, <2>1, ClearCleared
<1> QED BY <1>1, <1>2, <1>3 DEF Kinds

-----------------------------------------------------------------------------
(* Commands on several keys.                                               *)

\* The database that the command on x alone leaves, if it is on x.
OneOf(e, one, x) == IF x \in DOMAIN one THEN one[x] ELSE e

EachIs(e, f, K, one) ==
    /\ f \in DB
    /\ \A x \in Key : SameFields(OneOf(e, one, x), f, x)
    /\ f.time = {y \in e.time : \A k \in K : y \in one[k].time}

LEMMA EachOfFields ==
    ASSUME NEW e \in DB, NEW K, K \subseteq Key, NEW one \in [K -> DB]
    PROVE  EachIs(e, EachOf(e, one), K, one)
<1> DEFINE L == [k \in Key |-> OneOf(e, one, k).list[k]]
           H == [k \in Key |-> OneOf(e, one, k).head[k]]
           V == [k \in Key |-> OneOf(e, one, k).val[k]]
           S == [k \in Key |-> OneOf(e, one, k).size[k]]
           O == [k \in Key |-> OneOf(e, one, k).orphan[k]]
           I == [k \in Key |-> OneOf(e, one, k).index[k]]
           E == [k \in Key |-> OneOf(e, one, k).exp[k]]
           T == {y \in e.time : \A k \in K : y \in one[k].time}
           f == EachOf(e, one)
<1>1. DOMAIN one = K
  OBVIOUS
<1>2. f = [list |-> L, head |-> H, val |-> V, size |-> S, orphan |-> O, index |-> I,
           exp |-> E, time |-> T]
  BY <1>1, Zenon DEF EachOf, OneOf
<1>3. \A x \in Key : OneOf(e, one, x) \in DB
  BY DEF OneOf
<1>4. /\ L \in [Key -> Seq(Datum)] /\ H \in [Key -> Int]
  BY <1>3 DEF DB
<1>5. /\ V \in [Key -> [Member -> Datum]] /\ S \in [Key -> Int \cup {Nil}]
  BY <1>3 DEF DB
<1>6. /\ O \in [Key -> Datum] /\ E \in [Key -> Int \cup {Nil}]
  BY <1>3 DEF DB
<1>7. /\ I \in [Key -> SUBSET (Int \X Member)]
  BY <1>3 DEF DB
<1>8. T \in SUBSET (Key \X Int)
  BY DEF DB
<1>9. \A x \in Key : /\ L[x] = OneOf(e, one, x).list[x] /\ H[x] = OneOf(e, one, x).head[x]
                     /\ V[x] = OneOf(e, one, x).val[x] /\ S[x] = OneOf(e, one, x).size[x]
                     /\ O[x] = OneOf(e, one, x).orphan[x] /\ I[x] = OneOf(e, one, x).index[x]
                     /\ E[x] = OneOf(e, one, x).exp[x]
  BY Zenon
<1>10. f.time = T
  BY <1>2
<1> HIDE DEF L, H, V, S, O, I, E, T, f
<1>11. /\ f.list = L /\ f.head = H /\ f.val = V /\ f.size = S /\ f.orphan = O
       /\ f.index = I /\ f.exp = E /\ f \in DB
  BY <1>2, <1>4, <1>5, <1>6, <1>7, <1>8 DEF DB
<1>12. \A x \in Key : SameFields(OneOf(e, one, x), f, x)
  BY <1>9, <1>11, Zenon DEF SameFields
<1> QED BY <1>10, <1>11, <1>12 DEF EachIs, f, T

\* f is e with every key of K cleared.
AllCleared(e, f, K) ==
    /\ f \in DB /\ AllBasic(f) /\ f.time \subseteq e.time
    /\ \A x \in K : f.exp[x] = Nil /\ (Sound(e, x) => Sound(f, x) /\ Gone(f, x))
    /\ \A x \in Key \ K : Kept(e, f, x) /\ (Sound(e, x) => Sound(f, x)) /\ SameFields(e, f, x)

LEMMA GoneSame ==
    ASSUME NEW e, NEW f, NEW x, SameFields(e, f, x), Gone(e, x)
    PROVE  Gone(f, x)
BY DEF Gone, SameFields, Entries

LEMMA EachCleared ==
    ASSUME NEW e \in DB, AllBasic(e), NEW K, K \subseteq Key, NEW one \in [K -> DB],
           \A x \in K : Cleared(e, one[x], x)
    PROVE  AllCleared(e, EachOf(e, one), K)
<1> DEFINE f == EachOf(e, one)
<1>1. /\ f \in DB
      /\ \A x \in Key : SameFields(OneOf(e, one, x), f, x)
      /\ f.time = {y \in e.time : \A k \in K : y \in one[k].time}
  <2>1. EachIs(e, EachOf(e, one), K, one)
    BY EachOfFields
  <2> QED BY <2>1 DEF EachIs
<1> HIDE DEF f
<1>2. ASSUME NEW x \in K
      PROVE  Basic(f, x) /\ f.exp[x] = Nil /\ (Sound(e, x) => Sound(f, x) /\ Gone(f, x))
  <2> DEFINE o == one[x]
  <2>1. SameFields(o, f, x) /\ Cleared(e, o, x)
    BY <1>1 DEF OneOf
  <2> HIDE DEF o
  <2>2. o.exp[x] = Nil /\ Basic(o, x)
    BY <2>1 DEF Cleared
  <2>3. (Basic(o, x) => Basic(f, x)) /\ (Sound(o, x) => Sound(f, x))
    BY <2>1, <2>2, SameKey
  <2>4. f.exp[x] = Nil
    BY <2>1, <2>2 DEF SameFields
  <2>5. Gone(o, x) => Gone(f, x)
    BY <2>1, GoneSame
  <2> QED BY <2>1, <2>2, <2>3, <2>4, <2>5 DEF Cleared
<1>3. ASSUME NEW x \in Key \ K
      PROVE  Basic(f, x) /\ Kept(e, f, x) /\ (Sound(e, x) => Sound(f, x)) /\ SameFields(e, f, x)
  <2>1. SameFields(e, f, x)
    BY <1>1 DEF OneOf
  <2>2. TimeKept(e, f, x)
    <3> SUFFICES ASSUME NEW w, <<x, w>> \in e.time PROVE <<x, w>> \in f.time
      BY DEF TimeKept
    <3>1. ASSUME NEW k \in K PROVE <<x, w>> \in one[k].time
      BY DEF Cleared, Frame, TimeKept
    <3> QED BY <1>1, <3>1
  <2> QED BY <2>1, <2>2, SameKey DEF AllBasic
<1>4. AllBasic(f)
  BY <1>2, <1>3 DEF AllBasic
<1>5. f.time \subseteq e.time
  BY <1>1
<1>6. AllCleared(e, f, K)
  BY <1>1, <1>2, <1>3, <1>4, <1>5 DEF AllCleared
<1> QED BY <1>6 DEF f

(* LMCLEAR; HMCLEAR and SMCLEAR. *)
LEMMA LMClearCleared ==
    ASSUME kind = "list", NEW e \in DB, AllBasic(e), NEW k \in Key, NEW t \in Key
    PROVE  AllCleared(e, CmdLMCLEAR(e, <<k, t>>), {k, t})
<1> DEFINE K == Range(<<k, t>>)
           one == [x \in K |-> LClear(e, x)]
<1>1. K = {k, t}
  BY DEF Range
<1> HIDE DEF K
<1>2. \A x \in K : Cleared(e, LClear(e, x), x)
  BY <1>1, LClearCleared DEF AllBasic
<1>3. \A x \in K : LClear(e, x) \in DB
  BY <1>2 DEF Cleared
<1>4. one \in [K -> DB] /\ \A x \in K : Cleared(e, one[x], x)
  BY <1>2, <1>3
<1>5. CmdLMCLEAR(e, <<k, t>>) = EachOf(e, one)
  BY Zenon DEF CmdLMCLEAR, K
<1> HIDE DEF one
<1>6. AllCleared(e, EachOf(e, one), K)
  BY <1>1, <1>4, EachCleared
<1> QED BY <1>1, <1>5, <1>6

LEMMA MClearCleared ==
    ASSUME kind \in {"hash", "set"}, NEW e \in DB, AllBasic(e), NEW k \in Key, NEW t \in Key
    PROVE  /\ AllCleared(e, CmdHMCLEAR(e, <<k, t>>), {k, t})
           /\ AllCleared(e, CmdSMCLEAR(e, <<k, t>>), {k, t})
<1> DEFINE K == Range(<<k, t>>)
           one == [x \in K |-> Clear(e, x)]
<1>1. K = {k, t}
  BY DEF Range
<1> HIDE DEF K
<1>2. \A x \in K : Cleared(e, Clear(e, x), x)
  BY <1>1, ClearCleared DEF AllBasic
<1>3. \A x \in K : Clear(e, x) \in DB
  BY <1>2 DEF Cleared
<1>4. one \in [K -> DB] /\ \A x \in K : Cleared(e, one[x], x)
  BY <1>2, <1>3
<1>5. CmdHMCLEAR(e, <<k, t>>) = EachOf(e, one) /\ CmdSMCLEAR(e, <<k, t>>) = EachOf(e, one)
  BY Zenon DEF CmdHMCLEAR, CmdSMCLEAR, K
<1> HIDE DEF one
<1>6. AllCleared(e, EachOf(e, one), K)
  BY <1>1, <1>4, EachCleared
<1> QED BY <1>1, <1>5, <1>6

-----------------------------------------------------------------------------
(* The steps of the specification.                                         *)

\* A step from e to f keeps what holds of keys outside odd.
Safe(e, f, odd) ==
    /\ f \in DB /\ AllBasic(f) /\ (kind = "zset" => f.time \subseteq e.time)
    /\ \A x \in Key \ odd : Sound(e, x) => Sound(f, x)

\* It takes expiry times only with what they are of.
Keeps(e, f, odd) == \A x \in Key \ odd : Sound(e, x) => Kept(e, f, x)

LEMMA DoneSafe ==
    ASSUME NEW e, NEW f, NEW k \in Key, AllBasic(e), NEW right, Done(e, f, k, right),
           NEW odd, right \/ k \in odd
    PROVE  Safe(e, f, odd) /\ Keeps(e, f, odd)
<1>1. ASSUME NEW x \in Key, x # k
      PROVE  Basic(f, x) /\ (Sound(e, x) => Sound(f, x)) /\ Kept(e, f, x)
  <2>1. SameFields(e, f, x) /\ TimeKept(e, f, x)
    BY <1>1 DEF Done, Frame
  <2> QED BY <2>1, SameKey DEF AllBasic
<1>2. AllBasic(f)
  BY <1>1 DEF Done, AllBasic
<1>3. ASSUME NEW x \in Key \ odd, Sound(e, x) PROVE Sound(f, x) /\ Kept(e, f, x)
  <2>1. CASE x = k
    BY <1>3, <2>1 DEF Done
  <2>2. CASE x # k
    BY <1>1, <1>3, <2>2
  <2> QED BY <2>1, <2>2
<1> QED BY <1>2, <1>3 DEF Safe, Keeps, Done

LEMMA ClearedSafe ==
    ASSUME NEW e, NEW f, NEW K, AllCleared(e, f, K), NEW odd
    PROVE  Safe(e, f, odd) /\ Keeps(e, f, odd)
<1>1. ASSUME NEW x \in Key, Sound(e, x) PROVE Sound(f, x) /\ Kept(e, f, x)
  <2>1. CASE x \in K
    BY <1>1, <2>1 DEF AllCleared, Gone, Kept
  <2>2. CASE x \notin K
    BY <1>1, <2>2 DEF AllCleared
  <2> QED BY <2>1, <2>2
<1> QED BY <1>1 DEF Safe, Keeps, AllCleared

(* The TTL checker at a key that is due. *)
LEMMA CheckedSafe ==
    ASSUME kind \in {"kv", "list", "hash", "set"}, NEW e \in DB, AllBasic(e), NEW k \in Key, NEW t
    PROVE  LET c == IF kind = "list" THEN LClear(e, k) ELSE Clear(e, k)
               f == [c EXCEPT !.exp[k] = Nil, !.time = @ \ {<<k, t>>}]
           IN  /\ Safe(e, f, {}) /\ Keeps(e, f, {})
               /\ \A x \in Key : f.list[x] = e.list[x] \/ f.list[x] = <<>>
<1> DEFINE c == IF kind = "list" THEN LClear(e, k) ELSE Clear(e, k)
           f == [c EXCEPT !.exp[k] = Nil, !.time = @ \ {<<k, t>>}]
<1>1. Cleared(e, c, k)
  <2>1. Basic(e, k)
    BY DEF AllBasic
  <2>2. CASE kind = "list"
    BY <2>1, <2>2, LClearCleared
  <2>3. CASE kind # "list"
    BY <2>1, <2>3, ClearCleared
  <2> QED BY <2>2, <2>3
<1> HIDE DEF c
<1>2. c \in DB /\ Frame(e, c, k) /\ Basic(c, k) /\ c.exp[k] = Nil
  BY <1>1 DEF Cleared
<1>3. /\ f \in DB
      /\ f.list = c.list /\ f.head = c.head /\ f.orphan = c.orphan
      /\ f.val = c.val /\ f.size = c.size /\ f.index = c.index
      /\ f.exp = [c.exp EXCEPT ![k] = Nil]
      /\ f.time = c.time \ {<<k, t>>}
  BY <1>2, Zenon DEF DB
<1>4. c.exp \in [Key -> Int \cup {Nil}]
  BY <1>2 DEF DB
<1> HIDE DEF f
<1>5. \A x \in Key : f.exp[x] = c.exp[x]
  BY <1>2, <1>3, <1>4
<1>6. ASSUME NEW x, NEW w, x # k, <<x, w>> \in c.time PROVE <<x, w>> \in f.time
  BY <1>3, <1>6, Zenon
<1>7. \A x \in Key : SameFields(c, f, x)
  BY <1>3, <1>5, Zenon DEF SameFields
<1>8. Frame(c, f, k)
  BY <1>6, <1>7 DEF Frame, TimeKept
<1>9. Frame(e, f, k)
  BY <1>2, <1>8, FrameTrans
<1>10. /\ Basic(c, k) => Basic(f, k)
       /\ Sound(c, k) => Sound(f, k)
  BY <1>2, <1>7, SameKey
<1>11. Gone(c, k) => Gone(f, k)
  BY <1>7, GoneSame
<1>12. Done(e, f, k, TRUE)
  BY <1>1, <1>2, <1>3, <1>9, <1>10, <1>11 DEF Done, Cleared, Gone, Kept
<1>13. Safe(e, f, {}) /\ Keeps(e, f, {})
  BY <1>12, DoneSafe
<1>14. ASSUME NEW x \in Key PROVE f.list[x] = e.list[x] \/ f.list[x] = <<>>
  <2>1. CASE x # k
    BY <1>9, <2>1 DEF Frame, SameFields
  <2>2. CASE x = k /\ kind # "list"
    BY <1>12, <2>2 DEF Done, Basic
  <2>3. CASE x = k /\ kind = "list"
    <3>1. LClear(e, k).list[k] = <<>>
      BY <2>3, LClearGood DEF AllBasic
    <3> QED BY <1>3, <2>3, <3>1 DEF c
  <2> QED BY <2>1, <2>2, <2>3
<1> QED BY <1>13, <1>14, Zenon DEF f, c

\* A step that keeps the invariant and the expiry times.
KeptAll == \A x \in Key \ suspect' : Kept(d, d', x)
Stepped == KeysInv' /\ KeptAll

LEMMA KeysHold ==
    ASSUME KeysInv
    PROVE  /\ kind \in Kinds /\ d \in DB /\ AllBasic(d) /\ now \in Int /\ Keys \subseteq Key
           /\ \A x \in Key \ suspect : Sound(d, x)
           /\ \A x \in Key : Len(d.list[x]) <= MaxSize
<1>1. Keys \subseteq Key
  BY KeyspaceAssumption DEF KeysInv, Keys
<1> QED BY <1>1 DEF KeysInv, AllBasic

(* Of a database that a step leaves, the invariant. *)
LEMMA KeysNow ==
    ASSUME KeysInv, kind' = kind, now' \in Int, suspect \subseteq suspect',
           NEW odd, odd \subseteq suspect', Safe(d, d', odd),
           \A x \in Key : Len(d'.list[x]) <= MaxSize
    PROVE  KeysInv'
<1>1. kind \in Kinds /\ d' \in DB /\ AllBasic(d') /\ (kind = "zset" => d'.time = {})
  BY DEF KeysInv, Safe
<1>2. ASSUME NEW x \in Key PROVE Basic(d, x)'
  <2>1. Basic(d', x)
    BY <1>1 DEF AllBasic
  <2> QED BY <2>1, kind' = kind DEF Basic
<1>3. ASSUME NEW x \in Key, x \notin suspect' PROVE Sound(d, x)'
  <2>1. Sound(d, x)
    BY <1>3 DEF KeysInv
  <2>2. Sound(d', x)
    BY <1>3, <2>1 DEF Safe
  <2> QED BY <2>2, kind' = kind DEF Sound, CountRight, IndexRight, Entries
<1> QED BY <1>1, <1>2, <1>3, kind' = kind, now' \in Int DEF KeysInv

LEMMA SafeStep ==
    ASSUME KeysInv, NEW e, NEW s, NEW odd, Leaves(e, s, odd), Safe(d, e, odd)
    PROVE  KeysInv' /\ (Keeps(d, e, odd) => KeptAll)
<1>1. /\ d' = e /\ suspect' = suspect \cup odd /\ kind' = kind /\ now' = now
      /\ \A x \in Key : Len(e.list[x]) <= MaxSize
  BY Zenon DEF Leaves, Bounded
<1>2. now' \in Int
  BY <1>1, KeysHold
<1>3. KeysInv'
  BY <1>1, <1>2, KeysNow
<1>4. Keeps(d, e, odd) => KeptAll
  BY <1>1, KeysHold DEF Keeps, KeptAll
<1> QED BY <1>3, <1>4

LEMMA DoneStep ==
    ASSUME KeysInv, NEW k \in Key, NEW e, NEW right, Done(d, e, k, right), NEW odd,
           right \/ k \in odd, Write(e, odd)
    PROVE  Stepped
<1>1. Safe(d, e, odd) /\ Keeps(d, e, odd)
  BY KeysHold, DoneSafe
<1> QED BY <1>1, SafeStep DEF Write, Stepped

LEMMA GoodStep ==
    ASSUME KeysInv, kind # "zset", NEW k \in Key, NEW e, Good(d, e, k), NEW odd, Write(e, odd)
    PROVE  Stepped
<1>1. Done(d, e, k, TRUE)
  BY GoodDone
<1> QED BY <1>1, DoneStep

LEMMA ClearedStep ==
    ASSUME KeysInv, NEW e, NEW K, AllCleared(d, e, K), NEW odd, Write(e, odd)
    PROVE  Stepped
<1>1. Safe(d, e, odd) /\ Keeps(d, e, odd)
  BY ClearedSafe
<1> QED BY <1>1, SafeStep DEF Write, Stepped

LEMMA NumbersAre ==
    /\ Numbers \subseteq Int /\ Indexes \subseteq Int /\ Value \subseteq Int \cup {Blank}
    /\ Numbers \subseteq Datum /\ Value \subseteq Datum
<1>1. Value \subseteq Int \cup {Blank}
  BY KeyspaceAssumption
<1>2. Numbers \subseteq Int
  BY <1>1 DEF Numbers
<1>3. Indexes \subseteq Int
  BY DEF Indexes
<1>4. Numbers \subseteq Datum /\ Value \subseteq Datum
  BY <1>1, <1>2 DEF Datum
<1> QED BY <1>1, <1>2, <1>3, <1>4

LEMMA ListSteps ==
    ASSUME KeysInv, NEW k \in Keys, ListCommand(k)
    PROVE  Stepped
<1>0. /\ kind = "list" /\ d \in DB /\ k \in Key /\ Basic(d, k) /\ AllBasic(d) /\ now \in Int
      /\ Keys \subseteq Key
  BY KeysHold DEF ListCommand, AllBasic
<1>1. ASSUME NEW e \in Numbers, NEW f \in Numbers, Write(CmdLPUSH(d, k, <<e, f>>), {})
      PROVE  Stepped
  <2> DEFINE es == <<e, f>>
  <2>1. es \in Seq(Datum) /\ es # <<>>
    BY NumbersAre
  <2> HIDE DEF es
  <2>2. Good(d, CmdLPUSH(d, k, es), k)
    BY <1>0, <2>1, LPushGood
  <2> QED BY <1>0, <1>1, <2>2, GoodStep DEF es
<1>2. ASSUME NEW e \in Value, Write(CmdRPUSH(d, k, <<e>>), {})
      PROVE  Stepped
  <2> DEFINE es == <<e>>
  <2>1. es \in Seq(Datum) /\ es # <<>>
    BY NumbersAre
  <2> HIDE DEF es
  <2>2. Good(d, CmdRPUSH(d, k, es), k)
    BY <1>0, <2>1, RPushGood
  <2> QED BY <1>0, <1>2, <2>2, GoodStep DEF es
<1>3. ASSUME Write(CmdLPOP(d, k), {}) PROVE Stepped
  BY <1>0, <1>3, LPopGood, GoodStep
<1>4. ASSUME Write(CmdRPOP(d, k), {}) PROVE Stepped
  <2>1. Good(d, CmdRPOP(d, k), k)
    BY <1>0, RPopGood DEF PoppedIs
  <2> QED BY <1>0, <1>4, <2>1, GoodStep
<1>5. ASSUME NEW i \in Indexes, NEW j \in Indexes,
             Write(CmdLTRIM(d, k, i, j), IF TrimsBefore(d, k, i, j) THEN {k} ELSE {})
      PROVE  Stepped
  <2> DEFINE right == ~TrimsBefore(d, k, i, j)
             e == CmdLTRIM(d, k, i, j)
             odd == IF TrimsBefore(d, k, i, j) THEN {k} ELSE {}
  <2>1. Done(d, e, k, right)
    BY <1>0, LTrimDone, NumbersAre
  <2>2. Write(e, odd) /\ (right \/ k \in odd)
    BY <1>5
  <2> HIDE DEF odd, e, right
  <2> QED BY <1>0, <2>1, <2>2, DoneStep
<1>6. ASSUME NEW i \in Indexes, NEW e \in Value,
             Write(CmdLSET(d, k, i, e), IF d.list[k] = <<>> THEN {k} ELSE {})
      PROVE  Stepped
  <2>1. Good(d, CmdLSET(d, k, i, e), k)
    BY <1>0, LSetGood, NumbersAre
  <2> DEFINE odd == IF d.list[k] = <<>> THEN {k} ELSE {}
  <2>2. Write(CmdLSET(d, k, i, e), odd)
    BY <1>6
  <2> HIDE DEF odd
  <2> QED BY <1>0, <2>1, <2>2, GoodStep
<1>7. ASSUME Write(CmdLCLEAR(d, k), {}) PROVE Stepped
  <2>1. Good(d, CmdLCLEAR(d, k), k)
    BY <1>0, LClearGood DEF CmdLCLEAR
  <2> QED BY <1>0, <1>7, <2>1, GoodStep
<1>8. ASSUME NEW t \in Keys, Write(CmdLMCLEAR(d, <<k, t>>), {}) PROVE Stepped
  <2>1. AllCleared(d, CmdLMCLEAR(d, <<k, t>>), {k, t})
    BY <1>0, LMClearCleared
  <2> DEFINE e == CmdLMCLEAR(d, <<k, t>>)
             K == {k, t}
  <2>2. AllCleared(d, e, K) /\ Write(e, {})
    BY <1>8, <2>1
  <2> HIDE DEF e, K
  <2> QED BY <2>2, ClearedStep
<1>9. ASSUME NEW w \in Int, Write(LExpireAt(d, k, w, now), {}) PROVE Stepped
  BY <1>0, <1>9, LExpireGood, GoodStep
<1>10. ASSUME NEW i \in Indexes,
              Write(CmdLEXPIRE(d, k, now, i, now), {}) \/ Write(CmdLEXPIREAT(d, k, now + i, now), {})
       PROVE  Stepped
  <2>1. now + i \in Int
    BY <1>0, NumbersAre
  <2>2. Write(LExpireAt(d, k, now + i, now), {})
    BY <1>10, Zenon DEF CmdLEXPIRE, CmdLEXPIREAT
  <2> DEFINE w == now + i
  <2>3. w \in Int /\ Write(LExpireAt(d, k, w, now), {})
    BY <2>1, <2>2
  <2> HIDE DEF w
  <2> QED BY <1>9, <2>3
<1> QED BY <1>1, <1>2, <1>3, <1>4, <1>5, <1>6, <1>7, <1>8, <1>10, Zenon DEF ListCommand

(* What the argument lists are. *)
LEMMA ArgsAre ==
    ASSUME NEW args \in Args, NEW k
    PROVE  NameList(args) /\ (IsInjective(args) \/ k \in Repeats(k, args))
<1>1. NameList(args)
  <2>1. CASE args \in {<<m>> : m \in Member}
    <3>1. PICK m \in Member : args = <<m>>
      BY <2>1
    <3>2. <<m>> \in Seq(Member) /\ DOMAIN <<m>> = {1}
      OBVIOUS
    <3>3. args \in Seq(Member) /\ DOMAIN args \subseteq {1, 2}
      BY <3>1, <3>2
    <3> QED BY <3>3 DEF NameList
  <2>2. CASE args \in {<<m, n>> : m, n \in Member}
    <3>1. PICK m, n \in Member : args = <<m, n>>
      BY <2>2
    <3>2. <<m, n>> \in Seq(Member) /\ DOMAIN <<m, n>> = {1, 2}
      OBVIOUS
    <3>3. args \in Seq(Member) /\ DOMAIN args \subseteq {1, 2}
      BY <3>1, <3>2
    <3> QED BY <3>3 DEF NameList
  <2> QED BY <2>1, <2>2 DEF Args
<1> QED BY <1>1 DEF Repeats

LEMMA PairsAre ==
    ASSUME NEW V, NEW pairs \in Pairs(V), NEW k
    PROVE  PairList(pairs, V) /\ (Distinct(pairs) \/ k \in RepeatsPair(k, pairs))
<1>1. PairList(pairs, V)
  <2>1. CASE pairs \in {<<<<m, v>>>> : m \in Member, v \in V}
    BY <2>1 DEF PairList
  <2>2. CASE pairs \in {<<<<m, v>>, <<n, v>>>> : m, n \in Member, v \in V}
    BY <2>2 DEF PairList
  <2>3. CASE pairs \in {<<<<m, v>>, <<m, w>>>> : m \in Member, v, w \in V}
    BY <2>3 DEF PairList
  <2> QED BY <2>1, <2>2, <2>3 DEF Pairs
<1>2. ASSUME ~Distinct(pairs) PROVE k \in RepeatsPair(k, pairs)
  <2> DEFINE names == [i \in DOMAIN pairs |-> pairs[i][1]]
  <2>1. ~IsInjective(names)
    BY <1>2 DEF IsInjective, Distinct
  <2> HIDE DEF names
  <2>2. k \in Repeats(k, names)
    BY <2>1 DEF Repeats
  <2> QED BY <2>2 DEF RepeatsPair, names
<1> QED BY <1>1, <1>2

\* The pairs of an SADD.
Added(ms) == [i \in DOMAIN ms |-> <<ms[i], Present>>]

LEMMA AddedAre ==
    ASSUME NEW ms, NameList(ms)
    PROVE  PairList(Added(ms), {Present}) /\ (IsInjective(ms) => Distinct(Added(ms)))
<1>1. \A i \in DOMAIN ms : ms[i] \in Member
  BY DEF NameList
<1>2. DOMAIN Added(ms) = DOMAIN ms /\ \A i \in DOMAIN ms : Added(ms)[i] = <<ms[i], Present>>
  BY DEF Added
<1> QED BY <1>1, <1>2 DEF PairList, Distinct, IsInjective, NameList

(* HEXPIRE, HEXPIREAT, SEXPIRE, SEXPIREAT. *)
LEMMA ExpireSteps ==
    ASSUME KeysInv, kind \in {"hash", "set"}, NEW k \in Keys, NEW i \in Indexes,
           Write(EntriesExpireAt(d, k, now + i, now), {})
    PROVE  Stepped
<1>0. d \in DB /\ k \in Key /\ Basic(d, k) /\ now \in Int
  BY KeysHold DEF AllBasic
<1> DEFINE w == now + i
<1>1. w \in Int /\ Write(EntriesExpireAt(d, k, w, now), {})
  BY <1>0, NumbersAre
<1> HIDE DEF w
<1>2. Good(d, EntriesExpireAt(d, k, w, now), k)
  BY <1>0, <1>1, ExpireDone
<1> QED BY <1>0, <1>1, <1>2, GoodStep

LEMMA HashSteps ==
    ASSUME KeysInv, NEW k \in Keys, HashCommand(k)
    PROVE  Stepped
<1>0. /\ kind = "hash" /\ d \in DB /\ k \in Key /\ Basic(d, k) /\ AllBasic(d) /\ now \in Int
      /\ Keys \subseteq Key
  BY KeysHold DEF HashCommand, AllBasic
<1>1. ASSUME NEW pairs \in Pairs(Value), Write(CmdHSET(d, k, pairs), {}) PROVE Stepped
  <2>1. PairList(pairs, Value)
    BY PairsAre
  <2>2. Done(d, CmdHSET(d, k, pairs), k, TRUE)
    BY <1>0, <2>1, HSETDone, NumbersAre
  <2> QED BY <1>0, <1>1, <2>2, DoneStep
<1>2. ASSUME NEW pairs \in Pairs(Value), Write(CmdHMSET(d, k, pairs), RepeatsPair(k, pairs))
      PROVE  Stepped
  <2> DEFINE right == Distinct(pairs)
             odd == RepeatsPair(k, pairs)
             e == CmdHMSET(d, k, pairs)
  <2>1. PairList(pairs, Value) /\ (right \/ k \in odd)
    BY PairsAre
  <2>2. Done(d, e, k, right)
    BY <1>0, <2>1, PutDone, NumbersAre DEF CmdHMSET
  <2>3. Write(e, odd)
    BY <1>2
  <2> HIDE DEF right, odd, e
  <2> QED BY <1>0, <2>1, <2>2, <2>3, DoneStep
<1>3. ASSUME NEW f \in Member, NEW v \in Value, Write(CmdHSETNX(d, k, f, v), {}) PROVE Stepped
  <2>1. Done(d, CmdHSETNX(d, k, f, v), k, TRUE)
    BY <1>0, HSETNXDone, NumbersAre
  <2> QED BY <1>0, <1>3, <2>1, DoneStep
<1>4. ASSUME NEW f \in Member, Write(CmdHINCRBY(d, k, f, 1), {}) PROVE Stepped
  <2>0. 1 \in Int
    OBVIOUS
  <2>1. Done(d, CmdHINCRBY(d, k, f, 1), k, TRUE)
    BY <1>0, <2>0, HINCRBYDone, Zenon
  <2> QED BY <1>0, <1>4, <2>1, DoneStep
<1>5. ASSUME NEW args \in Args, Write(CmdHDEL(d, k, args), Repeats(k, args)) PROVE Stepped
  <2> DEFINE right == IsInjective(args)
             odd == Repeats(k, args)
             e == CmdHDEL(d, k, args)
  <2>1. NameList(args) /\ (right \/ k \in odd)
    BY ArgsAre
  <2>2. Done(d, e, k, right)
    BY <1>0, <2>1, RemoveDone DEF CmdHDEL
  <2>3. Write(e, odd)
    BY <1>5
  <2> HIDE DEF right, odd, e
  <2> QED BY <1>0, <2>1, <2>2, <2>3, DoneStep
<1>6. ASSUME Write(CmdHCLEAR(d, k), {}) PROVE Stepped
  <2>1. Good(d, CmdHCLEAR(d, k), k)
    BY <1>0, ClearDone DEF CmdHCLEAR
  <2> QED BY <1>0, <1>6, <2>1, GoodStep
<1>7. ASSUME NEW t \in Keys, Write(CmdHMCLEAR(d, <<k, t>>), {}) PROVE Stepped
  <2> DEFINE e == CmdHMCLEAR(d, <<k, t>>)
             K == {k, t}
  <2>1. AllCleared(d, e, K) /\ Write(e, {})
    BY <1>0, <1>7, MClearCleared
  <2> HIDE DEF e, K
  <2> QED BY <2>1, ClearedStep
<1>8. ASSUME NEW i \in Indexes,
             Write(CmdHEXPIRE(d, k, now, i, now), {}) \/ Write(CmdHEXPIREAT(d, k, now + i, now), {})
      PROVE  Stepped
  <2>1. Write(EntriesExpireAt(d, k, now + i, now), {})
    BY <1>8, Zenon DEF CmdHEXPIRE, CmdHEXPIREAT
  <2> QED BY <1>0, <2>1, ExpireSteps
<1> QED BY <1>1, <1>2, <1>3, <1>4, <1>5, <1>6, <1>7, <1>8, Zenon DEF HashCommand

LEMMA SetSteps ==
    ASSUME KeysInv, NEW k \in Keys, SetCommand(k)
    PROVE  Stepped
<1>0. /\ kind = "set" /\ d \in DB /\ k \in Key /\ Basic(d, k) /\ AllBasic(d) /\ now \in Int
      /\ Keys \subseteq Key
  BY KeysHold DEF SetCommand, AllBasic
<1>1. ASSUME NEW args \in Args, Write(CmdSADD(d, k, args), Repeats(k, args)) PROVE Stepped
  <2> DEFINE pairs == Added(args)
             right == Distinct(pairs)
             odd == Repeats(k, args)
             e == CmdSADD(d, k, args)
  <2>1. NameList(args) /\ (IsInjective(args) \/ k \in odd)
    BY ArgsAre
  <2>2. PairList(pairs, {Present}) /\ (right \/ k \in odd)
    BY <2>1, AddedAre
  <2>3. e = Put(d, k, pairs)
    BY Zenon DEF CmdSADD, Added
  <2>4. {Present} \subseteq Int \cup {Blank}
    BY DEF Present
  <2> HIDE DEF pairs
  <2>5. Done(d, e, k, right)
    BY <1>0, <2>2, <2>3, <2>4, PutDone
  <2>6. Write(e, odd)
    BY <1>1
  <2> HIDE DEF right, odd, e
  <2> QED BY <1>0, <2>2, <2>5, <2>6, DoneStep
<1>2. ASSUME NEW args \in Args, Write(CmdSREM(d, k, args), Repeats(k, args)) PROVE Stepped
  <2> DEFINE right == IsInjective(args)
             odd == Repeats(k, args)
             e == CmdSREM(d, k, args)
  <2>1. NameList(args) /\ (right \/ k \in odd)
    BY ArgsAre
  <2>2. Done(d, e, k, right)
    BY <1>0, <2>1, RemoveDone DEF CmdSREM
  <2>3. Write(e, odd)
    BY <1>2
  <2> HIDE DEF right, odd, e
  <2> QED BY <1>0, <2>1, <2>2, <2>3, DoneStep
<1>3. ASSUME NEW t \in Keys, NEW op \in {"union", "diff", "inter"},
             Write(SoptStoreGeneric(d, op, k, <<k, t>>), {})
      PROVE  Stepped
  <2> DEFINE ks == <<k, t>>
  <2>1. SoptGeneric(d, op, ks) \subseteq Member /\ Write(SoptStoreGeneric(d, op, k, ks), {})
    BY <1>3, SoptMembers
  <2> HIDE DEF ks
  <2>2. Done(d, SoptStoreGeneric(d, op, k, ks), k, TRUE)
    BY <1>0, <2>1, StoreDone
  <2> QED BY <1>0, <2>1, <2>2, DoneStep
<1>4. ASSUME Write(CmdSCLEAR(d, k), {}) PROVE Stepped
  <2>1. Good(d, CmdSCLEAR(d, k), k)
    BY <1>0, ClearDone DEF CmdSCLEAR
  <2> QED BY <1>0, <1>4, <2>1, GoodStep
<1>5. ASSUME NEW t \in Keys, Write(CmdSMCLEAR(d, <<k, t>>), {}) PROVE Stepped
  <2> DEFINE e == CmdSMCLEAR(d, <<k, t>>)
             K == {k, t}
  <2>1. AllCleared(d, e, K) /\ Write(e, {})
    BY <1>0, <1>5, MClearCleared
  <2> HIDE DEF e, K
  <2> QED BY <2>1, ClearedStep
<1>6. ASSUME NEW i \in Indexes,
             Write(CmdSEXPIRE(d, k, now, i, now), {}) \/ Write(CmdSEXPIREAT(d, k, now + i, now), {})
      PROVE  Stepped
  <2>1. Write(EntriesExpireAt(d, k, now + i, now), {})
    BY <1>6, Zenon DEF CmdSEXPIRE, CmdSEXPIREAT
  <2> QED BY <1>0, <2>1, ExpireSteps
<1> QED BY <1>1, <1>2, <1>3, <1>4, <1>5, <1>6, Zenon DEF SetCommand

LEMMA ZSetSteps ==
    ASSUME KeysInv, NEW k \in Keys, ZSetCommand(k)
    PROVE  Stepped
<1>0. /\ kind = "zset" /\ d \in DB /\ k \in Key /\ Basic(d, k)
  BY KeysHold DEF ZSetCommand, AllBasic
<1>1. ASSUME NEW pairs \in Pairs(Numbers), Write(CmdZADD(d, k, pairs), RepeatsPair(k, pairs))
      PROVE  Stepped
  <2> DEFINE right == Distinct(pairs)
             odd == RepeatsPair(k, pairs)
             e == CmdZADD(d, k, pairs)
  <2>1. PairList(pairs, Numbers) /\ (right \/ k \in odd)
    BY PairsAre
  <2>2. PairList(pairs, Int)
    BY <2>1, NumbersAre DEF PairList
  <2>3. Done(d, e, k, right)
    BY <1>0, <2>2, ZADDDone
  <2>4. Write(e, odd)
    BY <1>1
  <2> HIDE DEF right, odd, e
  <2> QED BY <1>0, <2>1, <2>3, <2>4, DoneStep
<1>2. ASSUME NEW args \in Args, Write(CmdZREM(d, k, args), Repeats(k, args)) PROVE Stepped
  <2> DEFINE right == IsInjective(args)
             odd == Repeats(k, args)
             e == CmdZREM(d, k, args)
  <2>1. NameList(args) /\ (right \/ k \in odd)
    BY ArgsAre
  <2>2. Done(d, e, k, right)
    BY <1>0, <2>1, ZREMDone
  <2>3. Write(e, odd)
    BY <1>2
  <2> HIDE DEF right, odd, e
  <2> QED BY <1>0, <2>1, <2>2, <2>3, DoneStep
<1>3. ASSUME NEW m \in Member, NEW i \in Indexes,
             Write(CmdZINCRBY(d, k, m, i), IF i = 0 THEN {k} ELSE {})
      PROVE  Stepped
  <2> DEFINE right == i # 0
             odd == IF i = 0 THEN {k} ELSE {}
             e == CmdZINCRBY(d, k, m, i)
  <2>1. right \/ k \in odd
    OBVIOUS
  <2>2. Done(d, e, k, right)
    BY <1>0, ZINCRBYDone, NumbersAre
  <2>3. Write(e, odd)
    BY <1>3
  <2> HIDE DEF right, odd, e
  <2> QED BY <1>0, <2>1, <2>2, <2>3, DoneStep
<1>4. ASSUME NEW R, R \subseteq d.index[k], Write(ZRemRange(d, k, R), {}) PROVE Stepped
  <2>1. Done(d, ZRemRange(d, k, R), k, TRUE)
    BY <1>0, <1>4, ZRemRangeDone
  <2> QED BY <1>0, <1>4, <2>1, DoneStep
<1>5. ASSUME Write(CmdZCLEAR(d, k), {}) PROVE Stepped
  BY <1>4, <1>5 DEF CmdZCLEAR
<1>6. ASSUME NEW i, NEW j, Write(CmdZREMRANGEBYSCORE(d, k, i, j), {}) PROVE Stepped
  <2>1. InScores(d, k, i, j) \subseteq d.index[k]
    BY DEF InScores
  <2> QED BY <1>4, <1>6, <2>1 DEF CmdZREMRANGEBYSCORE
<1>7. ASSUME NEW i, NEW j, Write(CmdZREMRANGEBYRANK(d, k, i, j), {}) PROVE Stepped
  <2> DEFINE r == ZParseRange(d, k, i, j)
             In(n) == 0 <= r[1] /\ r[1] <= n /\ (r[2] < 0 \/ n < r[1] + r[2])
             R == {x \in d.index[k] : In(Rank(d.index[k], x))}
  <2>1. CmdZREMRANGEBYRANK(d, k, i, j) = ZRemRange(d, k, R)
    BY Zenon DEF CmdZREMRANGEBYRANK
  <2>2. R \subseteq d.index[k]
    BY Zenon
  <2> HIDE DEF R
  <2> QED BY <1>4, <1>7, <2>1, <2>2
<1> QED BY <1>1, <1>2, <1>3, <1>5, <1>6, <1>7, Zenon DEF ZSetCommand

(* A command on strings leaves the entries of the other types. *)
LEMMA StringSteps ==
    ASSUME KeysInv, NEW k \in Keys, StringCommand(k)
    PROVE  Stepped
<1>1. PICK s : Leaves(d, s, {})
  BY Zenon DEF StringCommand, SetStr
<1>2. Safe(d, d, {}) /\ Keeps(d, d, {})
  BY KeysHold DEF Safe, Keeps, Kept
<1> QED BY <1>1, <1>2, SafeStep DEF Stepped

LEMMA PersistSteps ==
    ASSUME KeysInv, NEW k \in Keys, Persist(k)
    PROVE  KeysInv' /\ \A x \in Key \ suspect' : x # k => Kept(d, d', x)
<1>0. /\ kind = "set" /\ d \in DB /\ k \in Key /\ AllBasic(d) /\ Basic(d, k)
  BY KeysHold DEF Persist, AllBasic
<1> DEFINE e == RmExpire(d, k)
<1>1. Leaves(e, str, {})
  BY Zenon DEF Persist, Write, CmdSPERSIST
<1>2. e \in DB /\ Frame(d, e, k) /\ Basic(e, k) /\ (Sound(d, k) => Sound(e, k))
  BY <1>0, PersistIs
<1> HIDE DEF e
<1>3. ASSUME NEW x \in Key, x # k
      PROVE  Basic(e, x) /\ (Sound(d, x) => Sound(e, x)) /\ Kept(d, e, x)
  <2>1. SameFields(d, e, x) /\ TimeKept(d, e, x)
    BY <1>2, <1>3 DEF Frame
  <2> QED BY <1>0, <2>1, SameKey DEF AllBasic
<1>4. AllBasic(e)
  BY <1>2, <1>3 DEF AllBasic
<1>5. Safe(d, e, {})
  BY <1>0, <1>2, <1>3, <1>4 DEF Safe
<1>6. KeysInv'
  BY <1>1, <1>5, SafeStep
<1>7. d' = e
  BY <1>1, Zenon DEF Leaves
<1> QED BY <1>3, <1>6, <1>7

LEMMA RotateSteps ==
    ASSUME KeysInv, NEW k \in Keys, NEW t \in Keys, RPopLPush(k, t)
    PROVE  /\ KeysInv' /\ Rotation(d, d', k, t, now) /\ k \in Key /\ t \in Key
<1>0. /\ kind = "list" /\ d \in DB /\ k \in Key /\ t \in Key /\ AllBasic(d) /\ now \in Int
  BY KeysHold DEF RPopLPush
<1> DEFINE e == CmdRPOPLPUSH(d, k, t, now)
<1>1. Leaves(e, str, {})
  BY Zenon DEF RPopLPush, Write
<1>2. Rotation(d, e, k, t, now)
  BY <1>0, RotateOK
<1> HIDE DEF e
<1>3. e \in DB /\ AllBasic(e)
  BY <1>2 DEF Rotation
<1>4. \A x \in Key : Sound(d, x) => Sound(e, x)
  BY <1>2 DEF Rotation
<1>5. Safe(d, e, {})
  BY <1>0, <1>3, <1>4 DEF Safe
<1>6. KeysInv'
  BY <1>1, <1>5, SafeStep
<1>7. d' = e
  BY <1>1, Zenon DEF Leaves
<1> QED BY <1>0, <1>2, <1>6, <1>7

LEMMA CheckSteps ==
    ASSUME KeysInv, NEW k \in Keys, NEW t, CheckTTL(k, t)
    PROVE  Stepped
<1>0. /\ d \in DB /\ k \in Key /\ AllBasic(d) /\ now \in Int /\ kind \in Kinds
  BY KeysHold
<1>1. kind \in {"kv", "list", "hash", "set"}
  <2>1. <<k, t>> \in d.time
    BY Zenon DEF CheckTTL
  <2>2. kind # "zset"
    BY <2>1 DEF KeysInv
  <2> QED BY <1>0, <2>2 DEF Kinds
<1> DEFINE c == IF kind = "list" THEN LClear(d, k) ELSE Clear(d, k)
           f == [c EXCEPT !.exp[k] = Nil, !.time = @ \ {<<k, t>>}]
<1>2. d' = f /\ kind' = kind /\ now' = now /\ suspect' = suspect
  BY Zenon DEF CheckTTL
<1>3. /\ Safe(d, f, {}) /\ Keeps(d, f, {})
      /\ \A x \in Key : f.list[x] = d.list[x] \/ f.list[x] = <<>>
  BY ZenonT(60), <1>0, <1>1, CheckedSafe
<1> HIDE DEF f
<1>4. \A x \in Key : Len(f.list[x]) <= MaxSize
  BY <1>3, KeysHold, KeyspaceAssumption
<1>5. KeysInv'
  BY <1>0, <1>2, <1>3, <1>4, KeysNow
<1>6. KeptAll
  BY <1>2, <1>3, KeysHold DEF Keeps, KeptAll
<1> QED BY <1>5, <1>6 DEF Stepped

(* FLUSHALL clears the keys that exist; those that do not have nothing. *)
LEMMA FlushSteps ==
    ASSUME KeysInv, FlushAll
    PROVE  /\ Stepped /\ AllCleared(d, d', Existing(d, str))
           /\ suspect' = suspect /\ (hung' <=> Existing(d', str') # {})
           /\ str' = [x \in Key |-> Nil]
<1>0. /\ d \in DB /\ AllBasic(d) /\ now \in Int /\ kind \in Kinds
  BY KeysHold
<1> DEFINE K == Existing(d, str)
           one == [x \in K |-> FlushType(d, x)]
           e == EachOf(d, one)
<1>1. /\ d' = e /\ kind' = kind /\ now' = now /\ suspect' = suspect
      /\ str' = [x \in Key |-> Nil] /\ hung' = (Existing(e, [x \in Key |-> Nil]) # {})
  BY Zenon DEF FlushAll
<1>2. K \subseteq Key
  BY <1>0 DEF Existing, Kinds
<1> HIDE DEF K
<1>3. \A x \in K : Cleared(d, FlushType(d, x), x)
  BY <1>0, <1>2, FlushCleared DEF AllBasic
<1>4. \A x \in K : FlushType(d, x) \in DB
  BY <1>3 DEF Cleared
<1>5. one \in [K -> DB] /\ \A x \in K : Cleared(d, one[x], x)
  BY <1>3, <1>4
<1> HIDE DEF one
<1>6. AllCleared(d, e, K)
  BY <1>0, <1>2, <1>5, EachCleared
<1>7. \A x \in Key : Len(e.list[x]) <= MaxSize
  <2>1. ASSUME NEW x \in K PROVE e.list[x] = <<>>
    <3>1. CASE kind = "list"
      <4>1. Sound(d, x)
        BY <1>0, <1>2, <3>1, ListSound DEF AllBasic, K, Existing
      <4> QED BY <1>6, <4>1 DEF AllCleared, Gone
    <3>2. CASE kind # "list"
      BY <1>2, <1>6, <3>2 DEF AllCleared, AllBasic, Basic
    <3> QED BY <3>1, <3>2
  <2>2. ASSUME NEW x \in Key \ K PROVE e.list[x] = d.list[x]
    BY <1>6 DEF AllCleared, SameFields
  <2> QED BY <2>1, <2>2, KeysHold, KeyspaceAssumption
<1> HIDE DEF e
<1>8. Safe(d, e, {}) /\ Keeps(d, e, {})
  BY <1>6, ClearedSafe
<1>9. KeysInv'
  BY <1>0, <1>1, <1>7, <1>8, KeysNow
<1>10. KeptAll
  BY <1>1, <1>8, KeysHold DEF Keeps, KeptAll
<1> QED BY <1>1, <1>6, <1>9, <1>10 DEF Stepped, K

LEMMA KeysInvInit == Init => KeysInv
<1> SUFFICES ASSUME Init PROVE KeysInv
  OBVIOUS
<1>1. kind \in Kinds /\ d = EmptyDB /\ now = 1 /\ suspect = {}
  BY DEF Init
<1>2. /\ d.list = [x \in Key |-> <<>>] /\ d.head = [x \in Key |-> 0]
      /\ d.val = [x \in Key |-> Empty] /\ d.size = [x \in Key |-> Nil]
      /\ d.orphan = [x \in Key |-> Nil] /\ d.index = [x \in Key |-> {}]
      /\ d.exp = [x \in Key |-> Nil] /\ d.time = {}
  BY <1>1 DEF EmptyDB
<1>3. d \in DB
  <2>1. <<>> \in Seq(Datum) /\ 0 \in Int /\ Empty \in [Member -> Datum]
    BY DEF Empty, Datum
  <2> QED BY <1>1, <2>1, NilDatum DEF EmptyDB, DB
<1>4. ASSUME NEW x \in Key
      PROVE  /\ d.list[x] = <<>> /\ d.head[x] = 0 /\ d.val[x] = Empty /\ d.size[x] = Nil
             /\ d.orphan[x] = Nil /\ d.index[x] = {} /\ d.exp[x] = Nil
  BY <1>2
<1>5. ASSUME NEW x \in Key PROVE Basic(d, x) /\ Len(d.list[x]) <= MaxSize /\ Sound(d, x)
  <2>1. Len(d.list[x]) <= MaxSize
    BY <1>4, KeyspaceAssumption
  <2>2. IsFiniteSet(d.index[x])
    BY <1>4, FS_EmptySet
  <2>3. \A m \in Member : d.val[x][m] = Nil
    BY <1>4 DEF Empty
  <2>4. Nil # Blank
    BY CollectionsAssumption
  <2>5. Basic(d, x)
    BY <1>4, <2>2, <2>3, <2>4 DEF Basic
  <2>6. Entries(d, x) = {}
    BY <2>3 DEF Entries
  <2> QED BY <1>4, <2>1, <2>5, <2>6 DEF Sound, CountRight, IndexRight
<1> QED BY <1>1, <1>2, <1>3, <1>5 DEF KeysInv

\* The database stays.
Idle == d' = d /\ kind' = kind /\ suspect' = suspect /\ now' \in Int

LEMMA IdleSteps ==
    ASSUME KeysInv, Idle
    PROVE  Stepped
<1>1. Safe(d, d, {}) /\ (\A x \in Key : Len(d.list[x]) <= MaxSize)
  BY KeysHold DEF Safe
<1>2. KeysInv'
  BY <1>1, KeysNow DEF Idle
<1>3. KeptAll
  BY DEF KeptAll, Kept, Idle
<1> QED BY <1>2, <1>3 DEF Stepped

(* What a step that is neither an SPERSIST nor an RPOPLPUSH keeps. *)
LEMMA OtherSteps ==
    ASSUME KeysInv, [Next]_vars
    PROVE  \/ Stepped
           \/ \E k \in Keys : Persist(k)
           \/ \E k, t \in Keys : RPopLPush(k, t)
<1>1. ASSUME NEW k \in Keys,
             \/ ListCommand(k) \/ HashCommand(k) \/ SetCommand(k)
             \/ ZSetCommand(k) \/ StringCommand(k)
      PROVE  Stepped
  BY <1>1, ListSteps, HashSteps, SetSteps, ZSetSteps, StringSteps, Zenon
<1>2. ASSUME NEW k \in Keys, NEW t, CheckTTL(k, t) PROVE Stepped
  BY <1>2, CheckSteps
<1>3. CASE FlushAll
  BY <1>3, FlushSteps
<1>4. CASE ClockTick
  BY <1>4, KeysHold, IdleSteps DEF ClockTick, Idle
<1>5. CASE ScanBegin
  BY <1>5, KeysHold, IdleSteps, Zenon DEF ScanBegin, Idle
<1>6. CASE ScanNext
  BY <1>6, KeysHold, IdleSteps, Zenon DEF ScanNext, Idle
<1>7. CASE UNCHANGED vars
  BY <1>7, KeysHold, IdleSteps DEF vars, Idle
<1> QED BY <1>1, <1>2, <1>3, <1>4, <1>5, <1>6, <1>7, Zenon DEF Next

LEMMA KeysInvNext == KeysInv /\ [Next]_vars => KeysInv'
<1> SUFFICES ASSUME KeysInv, [Next]_vars PROVE KeysInv'
  OBVIOUS
<1>1. CASE Stepped
  BY <1>1 DEF Stepped
<1>2. ASSUME NEW k \in Keys, Persist(k) PROVE KeysInv'
  BY <1>2, PersistSteps
<1>3. ASSUME NEW k \in Keys, NEW t \in Keys, RPopLPush(k, t) PROVE KeysInv'
  BY <1>3, RotateSteps
<1> QED BY <1>1, <1>2, <1>3, OtherSteps

LEMMA KeysAlways == Spec => []KeysInv
BY KeysInvInit, KeysInvNext, PTL DEF Spec

\* What is stored of the keys that are not suspect tells one story.
StoredRight ==
    \A k \in Keys \ suspect : /\ CountRight(d, k) /\ IndexRight(d, k)
                              /\ d.exp[k] # Nil => k \in Existing(d, str)

(* Of every key that is not suspect, the stored count is the number of     *)
(* entries, the score entries of a sorted set are exactly those of its     *)
(* members, and an expiry time belongs to a key that exists: HSET, SADD,   *)
(* ZADD and the other commands keep the separate entries in step.  This is *)
(* what the counts and ranks that ReadsAgree compares rest on.             *)
THEOREM StoredAgree == Spec => []StoredRight
<1>1. ASSUME KeysInv PROVE StoredRight
  <2>1. kind \in Kinds /\ Keys \subseteq Key /\ \A x \in Key \ suspect : Sound(d, x)
    BY <1>1, KeysHold
  <2>2. ASSUME NEW k \in Keys \ suspect PROVE Sound(d, k) /\ k \in Key /\ Basic(d, k)
    BY <1>1, <2>1, <2>2 DEF KeysInv
  <2>3. ASSUME NEW k \in Keys \ suspect, d.exp[k] # Nil PROVE k \in Existing(d, str)
    BY <2>1, <2>2, <2>3 DEF Existing, Sound, Basic, Kinds
  <2> QED BY <2>2, <2>3 DEF StoredRight, Sound
<1> QED BY <1>1, KeysAlways, PTL

(* No step takes the expiry time from a key that keeps elements, except    *)
(* SPERSIST, a removal on a key whose count is wrong, a rotation after the *)
(* time has come, and an RPOPLPUSH that has to put the only element back:  *)
(* for every set of keys, members and times and every sequence number      *)
(* range.                                                                  *)
THEOREM ExpiriesKept == Spec => ExpiryKept
<1>1. ASSUME KeysInv, [Next]_vars
      PROVE  [\A k \in Keys : d.exp[k] # Nil /\ d'.exp[k] = Nil =>
                 \/ d'.list[k] = <<>> /\ Entries(d', k) = {}
                 \/ d.exp[k] <= now \/ k \in suspect' \/ Persist(k)
                 \/ \E t \in Keys : RPopLPush(k, t) /\ ~CanLPush(d, t, 1)]_vars
  <2> SUFFICES ASSUME NEW k \in Keys, d.exp[k] # Nil, d'.exp[k] = Nil, k \notin suspect'
               PROVE  \/ d'.list[k] = <<>> /\ Entries(d', k) = {}
                      \/ d.exp[k] <= now \/ Persist(k)
                      \/ \E t \in Keys : RPopLPush(k, t) /\ ~CanLPush(d, t, 1)
    OBVIOUS
  <2>0. k \in Key
    BY <1>1, KeysHold
  <2>1. CASE Stepped
    <3>1. Kept(d, d', k)
      BY <2>0, <2>1 DEF Stepped, KeptAll
    <3> QED BY <3>1 DEF Kept
  <2>2. ASSUME NEW x \in Keys, Persist(x), x # k
        PROVE  d'.list[k] = <<>> /\ Entries(d', k) = {}
    <3>1. Kept(d, d', k)
      BY <1>1, <2>0, <2>2, PersistSteps
    <3> QED BY <3>1 DEF Kept
  <2>3. ASSUME NEW s \in Keys, NEW t \in Keys, RPopLPush(s, t)
        PROVE  \/ d'.list[k] = <<>> /\ Entries(d', k) = {}
               \/ d.exp[k] <= now
               \/ RPopLPush(k, t) /\ ~CanLPush(d, t, 1)
    <3>1. Rotation(d, d', s, t, now)
      BY <1>1, <2>3, RotateSteps
    <3>2. \/ Kept(d, d', k) \/ d.exp[k] <= now
          \/ k = s /\ ~CanLPush(d, t, 1)
      BY <2>0, <3>1 DEF Rotation
    <3>3. k = s => RPopLPush(k, t)
      BY <2>3
    <3> QED BY <3>2, <3>3 DEF Kept
  <2> QED BY <1>1, <2>1, <2>2, <2>3, OtherSteps
<1> QED BY <1>1, KeysAlways, PTL DEF Spec, ExpiryKept

(* RPOPLPUSH moves one element or none: every value occurs as often after  *)
(* it as before, whatever the lists, the same list twice, and a push that  *)
(* is refused included.                                                    *)
THEOREM MovesConserve == Spec => MoveConserves
<1>1. ASSUME KeysInv, [Next]_vars
      PROVE  [\A k, t \in Keys : RPopLPush(k, t) =>
                 \A e \in Value : Occurs(d, e) = Occurs(d', e)]_vars
  <2> SUFFICES ASSUME NEW k \in Keys, NEW t \in Keys, RPopLPush(k, t), NEW v \in Value
               PROVE  Occurs(d, v) = Occurs(d', v)
    OBVIOUS
  <2>1. KeysInv' /\ Rotation(d, d', k, t, now) /\ k \in Key /\ t \in Key
    BY <1>1, RotateSteps
  <2>2. d \in DB /\ \A x \in Key : Len(d.list[x]) <= MaxSize
    BY <1>1, KeysHold
  <2>3. d' \in DB /\ \A x \in Key : Len(d'.list[x]) <= MaxSize
    BY <2>1 DEF KeysInv
  <2>4. CASE \A x \in Key : d'.list[x] = d.list[x]
    BY <2>4, Zenon DEF Occurs
  <2>5. CASE d.list[k] # <<>> /\ Moved(d, d', k, t)
    BY <2>1, <2>2, <2>3, <2>5, MovedConserves
  <2>6. CASE d.list[k] = <<>>
    <3>1. d' = CmdRPOPLPUSH(d, k, t, now)
      BY Zenon DEF RPopLPush, Write, Leaves
    <3>2. CmdRPOPLPUSH(d, k, t, now) = d
      BY <2>6, Zenon DEF CmdRPOPLPUSH
    <3> QED BY <3>1, <3>2, Zenon
  <2>7. CASE Dropped(d, d', k)
    <3>1. v # Nil
      BY KeyspaceAssumption, CollectionsAssumption
    <3> QED BY <2>1, <2>2, <2>3, <2>7, <3>1, DroppedConserves
  <2> QED BY <2>1, <2>4, <2>5, <2>6, <2>7 DEF Rotation
<1> QED BY <1>1, KeysAlways, PTL DEF Spec, MoveConserves

(* A key that FLUSHALL does not visit and that is not suspect had nothing. *)
LEMMA AbsentGone ==
    ASSUME NEW e, NEW s, NEW x \in Key, kind \in Kinds, Basic(e, x), Sound(e, x),
           x \notin Existing(e, s)
    PROVE  Gone(e, x)
<1>1. CASE kind = "kv"
  <2>1. e.list[x] = <<>> /\ e.size[x] = Nil /\ e.index[x] = {} /\ e.exp[x] = Nil
    BY <1>1 DEF Basic
  <2>2. Entries(e, x) = {}
    BY <2>1 DEF Sound, CountRight
  <2> QED BY <2>1, <2>2 DEF Gone
<1>2. CASE kind = "list"
  <2>1. e.list[x] = <<>> /\ e.size[x] = Nil /\ e.index[x] = {}
    BY <1>2 DEF Basic, Existing
  <2>2. Entries(e, x) = {} /\ e.exp[x] = Nil
    BY <2>1 DEF Sound, CountRight
  <2> QED BY <2>1, <2>2 DEF Gone
<1>3. CASE kind \in {"hash", "set", "zset"}
  <2>1. e.list[x] = <<>> /\ e.size[x] = Nil
    BY <1>3 DEF Basic, Existing
  <2>2. Entries(e, x) = {} /\ e.exp[x] = Nil
    BY <2>1 DEF Sound, CountRight
  <2>3. e.index[x] = {}
    BY <1>3, <2>2 DEF Sound, IndexRight, Basic
  <2> QED BY <2>1, <2>2, <2>3 DEF Gone
<1> QED BY <1>1, <1>2, <1>3 DEF Kinds

(* FLUSHALL leaves nothing of a key that is not suspect, neither entries   *)
(* nor a count nor an expiry time, and goes on for ever only if some key   *)
(* is suspect.                                                             *)
THEOREM FlushesEmpty == Spec => FlushEmpties
<1>1. ASSUME KeysInv, [Next]_vars
      PROVE  [FlushAll => /\ hung' => suspect # {}
                          /\ \A k \in Keys \ suspect :
                                /\ d'.list[k] = <<>> /\ Entries(d', k) = {} /\ d'.index[k] = {}
                                /\ d'.size[k] = Nil /\ d'.exp[k] = Nil]_vars
  <2> SUFFICES ASSUME FlushAll
               PROVE  /\ hung' => suspect # {}
                      /\ \A k \in Keys \ suspect : Gone(d', k)
    BY DEF Gone
  <2> DEFINE K == Existing(d, str)
  <2>1. /\ Stepped /\ AllCleared(d, d', K) /\ suspect' = suspect
        /\ (hung' <=> Existing(d', str') # {}) /\ str' = [x \in Key |-> Nil]
    BY <1>1, FlushSteps
  <2>2. /\ kind \in Kinds /\ Keys \subseteq Key /\ AllBasic(d)
        /\ \A x \in Key \ suspect : Sound(d, x)
    BY <1>1, KeysHold
  <2>3. ASSUME NEW x \in Key \ suspect PROVE Gone(d', x)
    <3>1. CASE x \in K
      BY <2>1, <2>2, <3>1 DEF AllCleared
    <3>2. CASE x \notin K
      <4>1. Gone(d, x)
        BY <2>2, <3>2, AbsentGone DEF AllBasic
      <4>2. SameFields(d, d', x)
        BY <2>1, <3>2 DEF AllCleared
      <4> QED BY <4>1, <4>2, GoneSame
    <3> QED BY <3>1, <3>2
  <2>4. ASSUME hung', suspect = {} PROVE FALSE
    <3>1. ASSUME NEW x \in Key PROVE x \notin Existing(d', str')
      <4>1. d'.list[x] = <<>> /\ d'.size[x] = Nil /\ str'[x] = Nil
        BY <2>1, <2>3, <2>4 DEF Gone
      <4> QED BY <2>2, <4>1 DEF Existing, Kinds
    <3>2. Existing(d', str') \subseteq Key
      BY <2>2 DEF Existing, Kinds
    <3> QED BY <2>1, <2>4, <3>1, <3>2
  <2> QED BY <2>2, <2>3, <2>4
<1> QED BY <1>1, KeysAlways, PTL DEF Spec, FlushEmpties
=============================================================================
