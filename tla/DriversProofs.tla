--------------------------- MODULE DriversProofs ---------------------------
(***************************************************************************)
(* Theorems about Drivers for every set of keys and values, every encoding *)
(* of the keys and every number of operations and of faults: what a client *)
(* was told is what readers see, and every driver implements BatchStore.   *)
(***************************************************************************)
EXTENDS Drivers, WellFoundedInduction, TLAPS

Val == Value \cup {Nil}
Stored == Val \cup {Cid(v) : v \in Value}
Op == Key \X Val
Cell == Val \cup {NoBytes}

Rec == [local : [Key -> Stored], remote : [Key -> Val], blobs : SUBSET Value, bucket : BOOLEAN,
        cache : [Key -> Cell], batch : Seq(Key \X Stored), err : BOOLEAN]

\* The fields an operation leaves, and the two of Queue.
SameStores(t, u) == u.local = t.local /\ u.remote = t.remote
SameRest(t, u) == u.blobs = t.blobs /\ u.err = t.err
Queues(t, u, k, x) ==
    u.batch = Append(t.batch, <<k, x>>) /\ u.cache = [t.cache EXCEPT ![k] = Nil]

-----------------------------------------------------------------------------
(* What the operations of the drivers do to the fields of their state. *)

(* The batch of every driver but crdt and ipfs-log. *)
LEMMA QueueFacts ==
    ASSUME NEW t \in Rec, NEW k \in Key, NEW x \in Stored
    PROVE  /\ Queue(t, k, x) \in Rec /\ Queues(t, Queue(t, k, x), k, x)
           /\ SameStores(t, Queue(t, k, x)) /\ SameRest(t, Queue(t, k, x))
<1>1. Append(t.batch, <<k, x>>) \in Seq(Key \X Stored)
  BY DEF Rec
<1>2. [t.cache EXCEPT ![k] = Nil] \in [Key -> Cell]
  BY DEF Rec, Val, Cell
<1>3. Queue(t, k, x) \in Rec
  BY <1>1, <1>2, Zenon DEF Queue, Rec
<1>4. Queue(t, k, x).batch = Append(t.batch, <<k, x>>)
  BY Zenon DEF Queue, Rec
<1>5. Queue(t, k, x).cache = [t.cache EXCEPT ![k] = Nil]
  BY Zenon DEF Queue, Rec
<1>6. Queue(t, k, x).local = t.local
  BY Zenon DEF Queue, Rec
<1>7. Queue(t, k, x).remote = t.remote
  BY Zenon DEF Queue, Rec
<1>8. Queue(t, k, x).blobs = t.blobs
  BY Zenon DEF Queue, Rec
<1>9. Queue(t, k, x).err = t.err
  BY Zenon DEF Queue, Rec
<1> QED BY <1>3, <1>4, <1>5, <1>6, <1>7, <1>8, <1>9 DEF Queues, SameStores, SameRest

(* One field is changed. *)
LEMMA RemoteFacts ==
    ASSUME NEW t \in Rec, NEW k \in Key, NEW v \in Val
    PROVE  LET u == [t EXCEPT !.remote[k] = v] IN
           /\ u \in Rec /\ u.remote = [t.remote EXCEPT ![k] = v] /\ u.local = t.local
           /\ u.batch = t.batch /\ u.cache = t.cache /\ SameRest(t, u)
<1> DEFINE u == [t EXCEPT !.remote[k] = v]
<1>1. [t.remote EXCEPT ![k] = v] \in [Key -> Val]
  BY DEF Rec
<1>2. u \in Rec
  BY <1>1, Zenon DEF Rec
<1>3. u.remote = [t.remote EXCEPT ![k] = v]
  BY Zenon DEF Rec
<1>4. u.local = t.local
  BY Zenon DEF Rec
<1>5. u.batch = t.batch /\ u.cache = t.cache
  BY Zenon DEF Rec
<1>6. u.blobs = t.blobs /\ u.err = t.err
  BY Zenon DEF Rec
<1> HIDE DEF u
<1>7. SameRest(t, u)
  BY <1>6, Zenon DEF SameRest
<1> QED BY <1>2, <1>3, <1>4, <1>5, <1>7, Zenon DEF u

LEMMA LocalFacts ==
    ASSUME NEW t \in Rec, NEW f \in [Key -> Stored]
    PROVE  LET u == [t EXCEPT !.local = f] IN
           /\ u \in Rec /\ u.local = f /\ u.remote = t.remote
           /\ u.batch = t.batch /\ u.cache = t.cache /\ SameRest(t, u)
<1> DEFINE u == [t EXCEPT !.local = f]
<1>2. u \in Rec
  BY Zenon DEF Rec
<1>3. u.local = f
  BY Zenon DEF Rec
<1>4. u.remote = t.remote
  BY Zenon DEF Rec
<1>5. u.batch = t.batch /\ u.cache = t.cache
  BY Zenon DEF Rec
<1>6. u.blobs = t.blobs /\ u.err = t.err
  BY Zenon DEF Rec
<1> HIDE DEF u
<1>7. SameRest(t, u)
  BY <1>6, Zenon DEF SameRest
<1> QED BY <1>2, <1>3, <1>4, <1>5, <1>7, Zenon DEF u

LEMMA BucketFacts ==
    ASSUME NEW t \in Rec, NEW out
    PROVE  LET u == NewClient(t, out) IN
           /\ u \in Rec /\ SameStores(t, u) /\ SameRest(t, u)
           /\ u.batch = t.batch /\ u.cache = t.cache
<1> DEFINE u == [t EXCEPT !.bucket = TRUE]
<1>1. u \in Rec
  BY Zenon DEF Rec
<1>2. u.local = t.local /\ u.remote = t.remote
  BY Zenon DEF Rec
<1>3. u.batch = t.batch /\ u.cache = t.cache
  BY Zenon DEF Rec
<1>4. u.blobs = t.blobs /\ u.err = t.err
  BY Zenon DEF Rec
<1> HIDE DEF u
<1>5. NewClient(t, out) = t \/ NewClient(t, out) = u
  BY Zenon DEF NewClient, u
<1> QED BY <1>1, <1>2, <1>3, <1>4, <1>5, Zenon DEF SameStores, SameRest

Lazy == {"badger", "hybriddb", "ipfs"}
Direct == {"crdt", "ipfs-log"}
Keeps == {"badger", "ipfs"}

\* hybriddb and ipfs: an operation is queued, in ipfs with the identifier of
\* the content, or lost.
LazyAdds(t, u, k, v) ==
    /\ SameStores(t, u) /\ u.err = t.err
    /\ \/ (kind # "ipfs" \/ v = Nil) /\ Queues(t, u, k, v) /\ u.blobs = t.blobs
       \/ kind = "ipfs" /\ v \in Value /\ Queues(t, u, k, Cid(v)) /\ u.blobs = t.blobs \cup {v}
Loses(t, u) ==
    SameStores(t, u) /\ u.blobs = t.blobs /\ u.err /\ u.batch = t.batch /\ u.cache = t.cache

\* badger: it is queued, begins a new part of the batch, or is lost.
BadgerAdds(t, u, k, v, out) ==
    /\ u.remote = t.remote /\ u.blobs = t.blobs
    /\ \/ /\ out = "ok" /\ u.local = t.local /\ u.err = t.err
          /\ u.batch = Append(t.batch, <<k, v>>)
       \/ /\ out = "full" /\ u.local = ApplyAll(t.local, t.batch) /\ u.err = t.err
          /\ u.batch = <<<<k, v>>>>
       \/ out = "lost" /\ u.local = t.local /\ u.err = TRUE /\ u.batch = <<<<k, v>>>>
       \/ out \notin {"ok", "full", "lost"} /\ u = t

\* oss: it is queued and done in S3 and LevelDB, or in LevelDB, or not.
OssAdds(t, u, k, v, out) ==
    /\ Queues(t, u, k, v) /\ SameRest(t, u)
    /\ \/ out = "ok" /\ u.remote = [t.remote EXCEPT ![k] = v] /\ u.local = [t.local EXCEPT ![k] = v]
       \/ out # "ok" /\ u.remote = t.remote /\ u.local \in {t.local, [t.local EXCEPT ![k] = v]}

\* crdt and ipfs-log: it is done or not.
DirectAdds(t, u, k, v, out) ==
    /\ u.local = t.local /\ u.batch = t.batch /\ u.cache = t.cache /\ SameRest(t, u)
    /\ u.remote = IF out = "ok" THEN [t.remote EXCEPT ![Slot(k)] = v] ELSE t.remote

Adds(t, u, k, v, out) ==
    /\ u \in Rec
    /\ \/ kind \in Cached /\ LazyAdds(t, u, k, v)
       \/ kind = "badger" /\ BadgerAdds(t, u, k, v, out)
       \/ kind = "ipfs" /\ out # "ok" /\ v # Nil /\ Loses(t, u)
       \/ kind = "oss" /\ OssAdds(t, u, k, v, out)
       \/ kind \in Direct /\ DirectAdds(t, u, k, v, out)

(* What is stored for a value. *)
LEMMA StoredFacts ==
    /\ Val \subseteq Stored /\ Nil \in Val
    /\ \A v \in Value : v \in Val /\ Cid(v) \in Stored
  BY DEF Val, Stored

(* Put of ipfs. *)
LEMMA IpfsPutFacts ==
    ASSUME NEW t \in Rec, NEW k \in Key, NEW v \in Value, NEW out, kind = "ipfs"
    PROVE  LET u == IpfsPut(t, k, v, out) IN
           /\ u \in Rec
           /\ out = "ok" => LazyAdds(t, u, k, v)
           /\ out # "ok" => Loses(t, u)
<1>1. CASE out = "ok"
  <2> DEFINE q == Queue(t, k, Cid(v))
             u == [q EXCEPT !.blobs = @ \cup {v}]
  <2>1. /\ q \in Rec /\ Queues(t, q, k, Cid(v)) /\ SameStores(t, q) /\ SameRest(t, q)
    BY QueueFacts, StoredFacts
  <2>2. IpfsPut(t, k, v, out) = u
    BY <1>1, Zenon DEF IpfsPut
  <2> HIDE DEF q
  <2>3. q.blobs \cup {v} \in SUBSET Value
    BY <2>1 DEF Rec
  <2>4. u \in Rec
    BY <2>1, <2>3, Zenon DEF Rec
  <2>5. u.blobs = q.blobs \cup {v} /\ u.err = q.err
    BY <2>1, Zenon DEF Rec
  <2>6. u.local = q.local /\ u.remote = q.remote
    BY <2>1, Zenon DEF Rec
  <2>7. u.batch = q.batch /\ u.cache = q.cache
    BY <2>1, Zenon DEF Rec
  <2> HIDE DEF u
  <2>8. LazyAdds(t, u, k, v)
    BY <2>1, <2>5, <2>6, <2>7 DEF LazyAdds, Queues, SameStores, SameRest
  <2> QED BY <1>1, <2>2, <2>4, <2>8
<1>2. CASE out # "ok"
  <2> DEFINE u == [t EXCEPT !.err = TRUE]
  <2>1. IpfsPut(t, k, v, out) = u
    BY <1>2, Zenon DEF IpfsPut
  <2>2. u \in Rec
    BY Zenon DEF Rec
  <2>3. u.local = t.local /\ u.remote = t.remote
    BY Zenon DEF Rec
  <2>4. u.blobs = t.blobs /\ u.err = TRUE
    BY Zenon DEF Rec
  <2>5. u.batch = t.batch /\ u.cache = t.cache
    BY Zenon DEF Rec
  <2> HIDE DEF u
  <2>6. Loses(t, u)
    BY <2>3, <2>4, <2>5 DEF Loses, SameStores
  <2> QED BY <1>2, <2>1, <2>2, <2>6
<1> QED BY <1>1, <1>2

(* Put and Delete of oss. *)
LEMMA OssFacts ==
    ASSUME NEW t \in Rec, NEW k \in Key, NEW v \in Val, NEW out
    PROVE  LET u == IF v = Nil THEN OssDelete(t, k, out) ELSE OssPut(t, k, v, out) IN
           u \in Rec /\ OssAdds(t, u, k, v, out)
<1> DEFINE q == Queue(t, k, v)
           c == NewClient(q, out)
           r == [c EXCEPT !.remote[k] = v]
           d == IF out = "ok" THEN r ELSE c
           e == [d EXCEPT !.local[k] = v]
<1>1. q \in Rec /\ Queues(t, q, k, v) /\ SameStores(t, q) /\ SameRest(t, q)
  BY QueueFacts, StoredFacts
<1> HIDE DEF q
<1>2. c \in Rec /\ SameStores(q, c) /\ SameRest(q, c) /\ c.batch = q.batch /\ c.cache = q.cache
  BY <1>1, BucketFacts
<1> HIDE DEF c
<1>3. /\ r \in Rec /\ r.remote = [c.remote EXCEPT ![k] = v] /\ r.local = c.local
      /\ r.batch = c.batch /\ r.cache = c.cache /\ SameRest(c, r)
  BY <1>2, RemoteFacts
<1> HIDE DEF r
<1>4. /\ d \in Rec /\ Queues(t, d, k, v) /\ SameRest(t, d) /\ d.local = t.local
      /\ d.remote = IF out = "ok" THEN [t.remote EXCEPT ![k] = v] ELSE t.remote
  BY <1>1, <1>2, <1>3 DEF Queues, SameStores, SameRest
<1> HIDE DEF d
<1>5. /\ e \in Rec /\ e.local = [d.local EXCEPT ![k] = v] /\ e.remote = d.remote
      /\ e.batch = d.batch /\ e.cache = d.cache /\ SameRest(d, e)
  <2> DEFINE f == [d.local EXCEPT ![k] = v]
  <2>1. f \in [Key -> Stored]
    BY <1>4, StoredFacts DEF Rec
  <2>2. e = [d EXCEPT !.local = f]
    BY Zenon DEF e
  <2> HIDE DEF f, e
  <2>3. LET u == [d EXCEPT !.local = f] IN
          /\ u \in Rec /\ u.local = f /\ u.remote = d.remote
          /\ u.batch = d.batch /\ u.cache = d.cache /\ SameRest(d, u)
    BY <1>4, <2>1, LocalFacts, Zenon
  <2> QED BY <2>2, <2>3, Zenon DEF f
<1> HIDE DEF e
<1>6. OssAdds(t, e, k, v, out)
  BY <1>4, <1>5 DEF OssAdds, Queues, SameRest
<1>7. CASE v = Nil
  <2>1. OssDelete(t, k, out) = e
    BY <1>7, Zenon DEF OssDelete, S3Delete, ClientDelete, e, d, r, c, q
  <2> QED BY <1>5, <1>6, <1>7, <2>1
<1>8. CASE v # Nil
  <2>1. OssPut(t, k, v, out) = IF out = "ok" THEN e ELSE d
    BY Zenon DEF OssPut, S3Put, ClientSet, e, d, r, c, q
  <2>2. out # "ok" => OssAdds(t, d, k, v, out)
    BY <1>4 DEF OssAdds
  <2> QED BY <1>4, <1>5, <1>6, <1>8, <2>1, <2>2
<1> QED BY <1>7, <1>8

-----------------------------------------------------------------------------
(* The operations of a batch. *)

(* A set of natural numbers has a least element. *)
LEMMA NatMin ==
    ASSUME NEW T \in SUBSET Nat, T # {}
    PROVE  \E x \in T : \A y \in T : x <= y
<1> DEFINE R == OpToRel(<, Nat)
<1>1. IsWellFoundedOn(R, Nat)
  BY NatLessThanWellFounded
<1>2. \E x \in T : \A y \in T : ~(<<y, x>> \in R)
  <2> HIDE DEF R
  <2> QED BY <1>1, WFMin
<1>3. \A x, y \in Nat : <<y, x>> \notin R => x <= y
  BY DEF OpToRel
<1> QED BY <1>2, <1>3

(* The last of some positions. *)
LEMMA MaxFacts ==
    ASSUME NEW n \in Nat, NEW I \in SUBSET (1..n), I # {}
    PROVE  Max(I) \in I /\ \A i \in I : i <= Max(I)
<1> DEFINE T == {n - i : i \in I}
<1>1. T \in SUBSET Nat /\ T # {}
  <2>1. \A i \in I : n - i \in Nat
    OBVIOUS
  <2> QED BY <2>1
<1>2. \E x \in T : \A y \in T : x <= y
  <2> HIDE DEF T
  <2> QED BY <1>1, NatMin
<1>3. PICK m \in I : \A y \in T : n - m <= y
  BY <1>2
<1>4. \A i \in I : m >= i
  BY <1>3
<1>5. \E x \in I : \A y \in I : x >= y
  BY <1>4
<1>6. Max(I) \in I /\ \A y \in I : Max(I) >= y
  BY <1>5 DEF Max
<1> QED BY <1>6

Positions(b, k) == {i \in DOMAIN b : b[i][1] = k}

\* The value of k is that of the last operation on it.
LastWins(f, b, k) ==
    /\ Positions(b, k) \subseteq 1..Len(b) /\ Len(b) \in Nat /\ DOMAIN b = 1..Len(b)
    /\ Positions(b, k) = {} => ApplyAll(f, b)[k] = f[k]
    /\ Positions(b, k) # {} =>
          /\ ApplyAll(f, b)[k] = b[Max(Positions(b, k))][2]
          /\ Max(Positions(b, k)) \in Positions(b, k)
          /\ \A i \in Positions(b, k) : i <= Max(Positions(b, k))

(* The value of a key after a batch. *)
LEMMA ApplyFacts ==
    ASSUME NEW S, NEW b \in Seq(Key \X S), NEW f, NEW k \in Key
    PROVE  LastWins(f, b, k)
<1>1. Positions(b, k) \subseteq 1..Len(b) /\ Len(b) \in Nat /\ DOMAIN b = 1..Len(b)
  BY DEF Positions
<1>2. ApplyAll(f, b)[k] = IF Positions(b, k) = {} THEN f[k] ELSE b[Max(Positions(b, k))][2]
  BY DEF ApplyAll, Positions
<1> QED BY <1>1, <1>2, MaxFacts DEF LastWins

(* A batch keeps the type of what it is applied to. *)
LEMMA ApplyType ==
    ASSUME NEW S, NEW b \in Seq(Key \X S), NEW f \in [Key -> S]
    PROVE  ApplyAll(f, b) \in [Key -> S]
<1>1. ASSUME NEW k \in Key PROVE ApplyAll(f, b)[k] \in S
  <2>0. LastWins(f, b, k)
    BY ApplyFacts
  <2>1. CASE Positions(b, k) = {}
    BY <2>0, <2>1 DEF LastWins
  <2>2. CASE Positions(b, k) # {}
    <3> DEFINE m == Max(Positions(b, k))
    <3>1. m \in 1..Len(b) /\ ApplyAll(f, b)[k] = b[m][2]
      BY <2>0, <2>2 DEF LastWins
    <3> HIDE DEF m
    <3>2. b[m] \in Key \X S
      BY <3>1
    <3> QED BY <3>1, <3>2
  <2> QED BY <2>1, <2>2
<1>2. ApplyAll(f, b) = [k \in Key |-> ApplyAll(f, b)[k]]
  BY DEF ApplyAll
<1> QED BY <1>1, <1>2

(* An empty batch, and one more operation. *)
LEMMA ApplyNone ==
    ASSUME NEW f, NEW k \in Key
    PROVE  ApplyAll(f, <<>>)[k] = f[k]
  BY DEF ApplyAll

\* The effect of one more operation.
OneMore(f, b, j, x, k) ==
    /\ ApplyAll(f, Append(b, <<j, x>>))[k] = IF k = j THEN x ELSE ApplyAll(f, b)[k]
    /\ Positions(Append(b, <<j, x>>), k) = {} <=> k # j /\ Positions(b, k) = {}

LEMMA ApplyMore ==
    ASSUME NEW S, NEW b \in Seq(Key \X S), NEW j \in Key, NEW x \in S, NEW f, NEW k \in Key
    PROVE  OneMore(f, b, j, x, k)
<1> SUFFICES /\ ApplyAll(f, Append(b, <<j, x>>))[k] = IF k = j THEN x ELSE ApplyAll(f, b)[k]
             /\ Positions(Append(b, <<j, x>>), k) = {} <=> k # j /\ Positions(b, k) = {}
  BY DEF OneMore
<1> DEFINE c == Append(b, <<j, x>>)  n == Len(b)
<1>1. /\ c \in Seq(Key \X S) /\ Len(c) = n + 1 /\ n \in Nat /\ c[n + 1] = <<j, x>>
      /\ \A i \in 1..n : c[i] = b[i]
  OBVIOUS
<1>2. DOMAIN c = 1..(n + 1) /\ DOMAIN b = 1..n
  BY <1>1
<1> HIDE DEF c, n
<1>21. LastWins(f, c, k) /\ LastWins(f, b, k)
  BY <1>1, ApplyFacts
<1>3. CASE k = j
  <2>1. n + 1 \in Positions(c, k)
    BY <1>1, <1>2, <1>3 DEF Positions
  <2> DEFINE m == Max(Positions(c, k))
  <2>2. m \in Positions(c, k) /\ n + 1 <= m /\ ApplyAll(f, c)[k] = c[m][2]
    BY <1>21, <2>1 DEF LastWins
  <2> HIDE DEF m
  <2>3. m = n + 1
    BY <1>1, <1>2, <2>2 DEF Positions
  <2> QED BY <1>1, <1>3, <2>1, <2>2, <2>3 DEF c
<1>4. CASE k # j
  <2>1. Positions(c, k) = Positions(b, k)
    <3>1. ASSUME NEW i \in Positions(c, k) PROVE i \in Positions(b, k)
      <4>1. i \in 1..(n + 1) /\ c[i][1] = k
        BY <1>2, <3>1 DEF Positions
      <4>2. i # n + 1
        BY <1>1, <1>4, <4>1
      <4> QED BY <1>1, <1>2, <4>1, <4>2 DEF Positions
    <3>2. ASSUME NEW i \in Positions(b, k) PROVE i \in Positions(c, k)
      BY <1>1, <1>2 DEF Positions
    <3> QED BY <3>1, <3>2
  <2>2. CASE Positions(b, k) = {}
    BY <1>21, <1>4, <2>1, <2>2 DEF c, LastWins
  <2>3. CASE Positions(b, k) # {}
    <3> DEFINE m == Max(Positions(b, k))
    <3>1. m \in 1..n /\ ApplyAll(f, b)[k] = b[m][2] /\ ApplyAll(f, c)[k] = c[m][2]
      BY <1>21, <2>1, <2>3 DEF n, LastWins
    <3> HIDE DEF m
    <3> QED BY <1>1, <1>4, <2>1, <2>3, <3>1 DEF c
  <2> QED BY <2>2, <2>3
<1> QED BY <1>3, <1>4 DEF c

-----------------------------------------------------------------------------
(* The other calls of the drivers. *)

(* Set and Delete of badger's batch. *)
LEMMA BadgerFacts ==
    ASSUME NEW t \in Rec, NEW k \in Key, NEW v \in Val, NEW out
    PROVE  LET u == BadgerAdd(t, k, v, out) IN u \in Rec /\ BadgerAdds(t, u, k, v, out)
<1> DEFINE f == ApplyAll(t.local, t.batch)
           w == [t EXCEPT !.local = f]
           one == <<<<k, v>>>>
           p == [w EXCEPT !.batch = one]
           l == [t EXCEPT !.batch = one, !.err = TRUE]
<1>1. f \in [Key -> Stored] /\ one \in Seq(Key \X Stored)
  <2>1. t.local \in [Key -> Stored] /\ t.batch \in Seq(Key \X Stored)
    BY DEF Rec
  <2>2. f \in [Key -> Stored]
    BY <2>1, ApplyType
  <2>3. <<k, v>> \in Key \X Stored
    BY StoredFacts
  <2>4. one \in Seq(Key \X Stored)
    BY <2>3
  <2> QED BY <2>2, <2>4
<1>2. WriteOut(t) = w
  BY Zenon DEF WriteOut
<1>3. /\ out = "ok" => BadgerAdd(t, k, v, out) = Queue(t, k, v)
      /\ out = "full" => BadgerAdd(t, k, v, out) = p
      /\ out = "lost" => BadgerAdd(t, k, v, out) = l
      /\ out \notin {"ok", "full", "lost"} => BadgerAdd(t, k, v, out) = t
  <2>1. out = "ok" => BadgerAdd(t, k, v, out) = Queue(t, k, v)
    BY Zenon DEF BadgerAdd
  <2>2. "full" # "ok" /\ "lost" # "ok" /\ "lost" # "full"
    OBVIOUS
  <2>3. out = "full" => BadgerAdd(t, k, v, out) = p
    BY <1>2, <2>2, Zenon DEF BadgerAdd
  <2>4. out = "lost" => BadgerAdd(t, k, v, out) = l
    BY <2>2, Zenon DEF BadgerAdd
  <2>5. out \notin {"ok", "full", "lost"} => BadgerAdd(t, k, v, out) = t
    BY Zenon DEF BadgerAdd
  <2> QED BY <2>1, <2>3, <2>4, <2>5, Zenon
<1> HIDE DEF f, one
<1>4. /\ w \in Rec /\ w.local = f /\ w.remote = t.remote /\ w.batch = t.batch /\ SameRest(t, w)
  BY <1>1, LocalFacts, Zenon
<1> HIDE DEF w
<1>5. p \in Rec /\ p.batch = one /\ p.local = w.local
  BY <1>1, <1>4, Zenon DEF Rec
<1>6. p.remote = w.remote /\ p.blobs = w.blobs /\ p.err = w.err
  BY <1>4, Zenon DEF Rec
<1>7. l \in Rec /\ l.batch = one /\ l.local = t.local
  BY <1>1, Zenon DEF Rec
<1>8. l.remote = t.remote /\ l.blobs = t.blobs /\ l.err = TRUE
  BY Zenon DEF Rec
<1> HIDE DEF p, l
<1>9. CASE out = "ok"
  <2>1. v \in Stored
    BY StoredFacts
  <2>2. /\ Queue(t, k, v) \in Rec /\ Queues(t, Queue(t, k, v), k, v)
        /\ SameStores(t, Queue(t, k, v)) /\ SameRest(t, Queue(t, k, v))
    BY <2>1, QueueFacts
  <2> QED BY <1>3, <1>9, <2>2 DEF BadgerAdds, Queues, SameStores, SameRest
<1>10. CASE out = "full"
  BY <1>3, <1>4, <1>5, <1>6, <1>10 DEF BadgerAdds, SameRest, f, one
<1>11. CASE out = "lost"
  BY <1>3, <1>7, <1>8, <1>11 DEF BadgerAdds, one
<1>12. CASE out \notin {"ok", "full", "lost"}
  BY <1>3, <1>12 DEF BadgerAdds
<1> QED BY <1>9, <1>10, <1>11, <1>12

(* Put and Delete of each driver. *)
LEMMA AddFacts ==
    ASSUME NEW t \in Rec, NEW k \in Key, NEW v \in Val, NEW out, kind \in Kinds
    PROVE  Adds(t, BatchAdd(t, k, v, out), k, v, out)
<1>1. CASE kind = "hybriddb"
  <2>1. BatchAdd(t, k, v, out) = Queue(t, k, v)
    BY <1>1 DEF BatchAdd, HybridAdd
  <2> QED BY <1>1, <2>1, QueueFacts, StoredFacts DEF Adds, LazyAdds, Cached, SameRest
<1>0. CASE kind = "badger"
  <2>1. BatchAdd(t, k, v, out) = BadgerAdd(t, k, v, out)
    BY <1>0 DEF BatchAdd
  <2> QED BY <1>0, <2>1, BadgerFacts DEF Adds
<1>2. CASE kind = "ipfs" /\ v = Nil
  <2>1. BatchAdd(t, k, v, out) = Queue(t, k, v)
    BY <1>2 DEF BatchAdd, IpfsDelete
  <2> QED BY <1>2, <2>1, QueueFacts, StoredFacts DEF Adds, LazyAdds, Cached, SameRest
<1>3. CASE kind = "ipfs" /\ v # Nil
  <2>1. BatchAdd(t, k, v, out) = IpfsPut(t, k, v, out) /\ v \in Value
    BY <1>3 DEF BatchAdd, Val
  <2> QED BY <1>3, <2>1, IpfsPutFacts DEF Adds, Cached
<1>4. CASE kind = "oss"
  <2>1. BatchAdd(t, k, v, out) = IF v = Nil THEN OssDelete(t, k, out) ELSE OssPut(t, k, v, out)
    BY <1>4 DEF BatchAdd
  <2> QED BY <1>4, <2>1, OssFacts DEF Adds
<1>5. CASE kind \in Direct
  <2> DEFINE r == [t EXCEPT !.remote[Slot(k)] = v]
  <2>0. Slot(k) \in Key /\ Slot(k) = IF kind = "crdt" THEN EncodeKey[k] ELSE k
    BY DriversAssumption DEF Slot
  <2>1. /\ r \in Rec /\ r.remote = [t.remote EXCEPT ![Slot(k)] = v] /\ r.local = t.local
        /\ r.batch = t.batch /\ r.cache = t.cache /\ SameRest(t, r)
    BY <2>0, RemoteFacts
  <2>2. CASE kind = "crdt"
    <3>1. BatchAdd(t, k, v, out) = CrdtAdd(t, k, v, out)
      BY <2>2 DEF BatchAdd
    <3>2. CrdtAdd(t, k, v, out) = IF out = "ok" THEN r ELSE t
      BY <2>0, <2>2, Zenon DEF CrdtAdd
    <3> HIDE DEF r
    <3> QED BY <1>5, <2>1, <3>1, <3>2 DEF Adds, DirectAdds, SameRest
  <2>3. CASE kind = "ipfs-log"
    <3>1. BatchAdd(t, k, v, out) = IpfsLogAdd(t, k, v, out)
      BY <2>3 DEF BatchAdd
    <3>2. Slot(k) = k
      BY <2>0, <2>3
    <3>3. IpfsLogAdd(t, k, v, out) = IF out = "ok" THEN r ELSE t
      BY <3>2, Zenon DEF IpfsLogAdd
    <3> HIDE DEF r
    <3> QED BY <1>5, <2>1, <3>1, <3>3 DEF Adds, DirectAdds, SameRest
  <2> QED BY <1>5, <2>2, <2>3 DEF Direct
<1> QED BY <1>0, <1>1, <1>2, <1>3, <1>4, <1>5 DEF Kinds, Direct

\* Commit: LevelDB gets the batch, unless there is none or an error is kept.
Commits(t, u) ==
    /\ u \in Rec /\ u.remote = t.remote /\ SameRest(t, u)
    /\ u.batch = t.batch /\ u.cache = t.cache
    /\ IF kind \in Direct \/ (kind \in Keeps /\ t.err) THEN u.local = t.local
       ELSE u.local = ApplyAll(t.local, t.batch)

\* Rollback: the batch is emptied.
RollsBack(t, u) ==
    /\ u \in Rec /\ SameStores(t, u) /\ u.blobs = t.blobs /\ u.cache = t.cache
    /\ u.err = IF kind = "badger" THEN FALSE ELSE t.err
    /\ IF kind \in Direct THEN u.batch = t.batch ELSE u.batch = <<>>

\* The database opened again.
Opens(t, u) ==
    /\ u \in Rec /\ SameStores(t, u) /\ u.blobs = t.blobs
    /\ u.cache \in {t.cache, Nothing} /\ (kind \in Cached => u.cache = Nothing)
    /\ IF kind \in Direct THEN u.batch = t.batch ELSE u.batch = <<>>
    /\ u.err = IF kind \in Keeps THEN FALSE ELSE t.err

\* A read that fills the cache.
Fills(t, u, k, v) ==
    /\ u \in Rec /\ SameStores(t, u) /\ SameRest(t, u) /\ u.batch = t.batch
    /\ u.cache = [t.cache EXCEPT ![k] = v]

(* Commit of each driver. *)
LEMMA CommitFacts ==
    ASSUME NEW t \in Rec, kind \in Kinds
    PROVE  Commits(t, BatchCommit(t))
<1> DEFINE f == ApplyAll(t.local, t.batch)
           u == [t EXCEPT !.local = f]
<1>1. f \in [Key -> Stored]
  <2>1. t.local \in [Key -> Stored] /\ t.batch \in Seq(Key \X Stored)
    BY DEF Rec
  <2> QED BY <2>1, ApplyType
<1>2. WriteOut(t) = u
  BY Zenon DEF WriteOut
<1> HIDE DEF f
<1>3. /\ u \in Rec /\ u.local = f /\ u.remote = t.remote
      /\ u.batch = t.batch /\ u.cache = t.cache /\ SameRest(t, u)
  BY <1>1, LocalFacts, Zenon
<1> HIDE DEF u
<1>4. BatchCommit(t) = IF kind \in Direct \/ (kind \in Keeps /\ t.err) THEN t ELSE u
  BY <1>2 DEF BatchCommit, BadgerCommit, HybridCommit, IpfsCommit, OssCommit, CrdtCommit,
              IpfsLogCommit, Kinds, Direct, Keeps
<1> QED BY <1>3, <1>4 DEF Commits, SameRest, f

(* Rollback of each driver. *)
LEMMA RollbackFacts ==
    ASSUME NEW t \in Rec, kind \in Kinds
    PROVE  RollsBack(t, BatchRollback(t))
<1> DEFINE u == [t EXCEPT !.batch = <<>>]
           w == [t EXCEPT !.batch = <<>>, !.err = FALSE]
<1>0. <<>> \in Seq(Key \X Stored)
  OBVIOUS
<1>1. u \in Rec /\ w \in Rec
  BY <1>0, Zenon DEF Rec
<1>2. u.batch = <<>> /\ u.cache = t.cache /\ w.batch = <<>> /\ w.cache = t.cache
  BY Zenon DEF Rec
<1>3. u.local = t.local /\ u.remote = t.remote /\ w.local = t.local /\ w.remote = t.remote
  BY Zenon DEF Rec
<1>4. u.blobs = t.blobs /\ u.err = t.err /\ w.blobs = t.blobs /\ w.err = FALSE
  BY Zenon DEF Rec
<1>5. BadgerRollback(t) = w /\ HybridRollback(t) = u /\ IpfsRollback(t) = u /\ OssRollback(t) = u
  BY Zenon DEF BadgerRollback, HybridRollback, IpfsRollback, OssRollback
<1> HIDE DEF u, w
<1>6. BatchRollback(t) = IF kind \in Direct THEN t ELSE IF kind = "badger" THEN w ELSE u
  BY <1>5 DEF BatchRollback, CrdtRollback, IpfsLogRollback, Kinds, Direct
<1> QED BY <1>1, <1>2, <1>3, <1>4, <1>6 DEF RollsBack, SameStores, Direct

(* OpenDB of each driver. *)
LEMMA OpenFacts ==
    ASSUME NEW t \in Rec, kind \in Kinds
    PROVE  Opens(t, Open(t))
<1> DEFINE a == [t EXCEPT !.batch = <<>>, !.err = FALSE]
           b == [t EXCEPT !.cache = Nothing, !.batch = <<>>]
           c == [t EXCEPT !.cache = Nothing, !.batch = <<>>, !.err = FALSE]
<1>0. <<>> \in Seq(Key \X Stored) /\ Nothing \in [Key -> Cell]
  BY DEF Nothing, Val, Cell
<1>1. a \in Rec /\ b \in Rec /\ c \in Rec
  BY <1>0, Zenon DEF Rec
<1>2. a.batch = <<>> /\ b.batch = <<>> /\ c.batch = <<>>
  BY Zenon DEF Rec
<1>3. a.cache = t.cache /\ b.cache = Nothing /\ c.cache = Nothing
  BY Zenon DEF Rec
<1>4. a.local = t.local /\ b.local = t.local /\ c.local = t.local
  BY Zenon DEF Rec
<1>5. a.remote = t.remote /\ b.remote = t.remote /\ c.remote = t.remote
  BY Zenon DEF Rec
<1>6. a.blobs = t.blobs /\ b.blobs = t.blobs /\ c.blobs = t.blobs
  BY Zenon DEF Rec
<1>7. a.err = FALSE /\ b.err = t.err /\ c.err = FALSE
  BY Zenon DEF Rec
<1>8. BadgerOpen(t) = a /\ HybridOpen(t) = b /\ OssOpen(t) = b /\ IpfsOpen(t) = c
  BY Zenon DEF BadgerOpen, HybridOpen, IpfsOpen, OssOpen
<1> HIDE DEF a, b, c
<1>9. CASE kind = "badger"
  <2>1. Open(t) = a
    BY <1>8, <1>9 DEF Open
  <2> QED BY <1>1, <1>2, <1>3, <1>4, <1>5, <1>6, <1>7, <1>9, <2>1 DEF Opens, SameStores, Direct, Cached, Keeps
<1>10. CASE kind \in {"hybriddb", "oss"}
  <2>1. Open(t) = b
    BY <1>8, <1>10 DEF Open
  <2> QED BY <1>1, <1>2, <1>3, <1>4, <1>5, <1>6, <1>7, <1>10, <2>1 DEF Opens, SameStores, Direct, Cached, Keeps
<1>11. CASE kind = "ipfs"
  <2>1. Open(t) = c
    BY <1>8, <1>11 DEF Open
  <2> QED BY <1>1, <1>2, <1>3, <1>4, <1>5, <1>6, <1>7, <1>11, <2>1 DEF Opens, SameStores, Direct, Cached, Keeps
<1>12. CASE kind \in Direct
  <2>1. Open(t) = t
    BY <1>12 DEF Open, CrdtOpen, IpfsLogOpen, Direct
  <2> QED BY <1>12, <2>1 DEF Opens, SameStores, Direct, Cached, Keeps
<1> QED BY <1>9, <1>10, <1>11, <1>12 DEF Kinds, Direct

(* A read of hybriddb or ipfs. *)
LEMMA FillFacts ==
    ASSUME NEW t \in Rec, NEW k \in Key, NEW v \in Cell
    PROVE  Fills(t, [t EXCEPT !.cache[k] = v], k, v)
<1> DEFINE u == [t EXCEPT !.cache[k] = v]
<1>1. [t.cache EXCEPT ![k] = v] \in [Key -> Cell]
  BY DEF Rec
<1>2. u \in Rec
  BY <1>1, Zenon DEF Rec
<1>3. u.cache = [t.cache EXCEPT ![k] = v]
  BY Zenon DEF Rec
<1>4. u.local = t.local /\ u.remote = t.remote
  BY Zenon DEF Rec
<1>5. u.batch = t.batch /\ u.blobs = t.blobs /\ u.err = t.err
  BY Zenon DEF Rec
<1> HIDE DEF u
<1>6. Fills(t, u, k, v)
  BY <1>2, <1>3, <1>4, <1>5, Zenon DEF Fills, SameStores, SameRest
<1> QED BY <1>6 DEF u

-----------------------------------------------------------------------------
(* What a driver keeps for a value: ipfs its identifier, the others itself. *)

\* What is kept when the contents B were added to IPFS, and what it means.
Holds(kd, B) == IF kd = "ipfs" THEN {Nil} \cup {Cid(v) : v \in B} ELSE Val
Content(B, x) == CHOOSE v \in B : Cid(v) = x
Plain(kd, B, x) == IF kd = "ipfs" /\ x # Nil THEN Content(B, x) ELSE x

\* x means v.
Means(kd, B, x, v) == x \in Holds(kd, B) /\ Plain(kd, B, x) = v

(* A deletion, a value, and the identifier of a content that was added. *)
LEMMA MeansFacts ==
    ASSUME NEW kd, NEW B \in SUBSET Value
    PROVE  /\ Means(kd, B, Nil, Nil)
           /\ kd # "ipfs" => \A v \in Val : Means(kd, B, v, v)
           /\ kd = "ipfs" => \A v \in B : Means(kd, B, Cid(v), v)
<1>1. ASSUME kd = "ipfs", NEW v \in B PROVE Means(kd, B, Cid(v), v)
  <2>1. Cid(v) # Nil
    BY DriversAssumption DEF Cid
  <2>2. \A w \in B : Cid(w) = Cid(v) <=> w = v
    BY DEF Cid
  <2> QED BY <1>1, <2>1, <2>2 DEF Means, Holds, Plain, Content
<1> QED BY <1>1 DEF Means, Holds, Plain, Val

(* A kept thing means a value; only Nil means Nil. *)
LEMMA MeansValue ==
    ASSUME NEW kd, NEW B \in SUBSET Value, NEW x, NEW v, Means(kd, B, x, v)
    PROVE  v \in Val /\ (v = Nil <=> x = Nil)
<1>1. CASE kd = "ipfs" /\ x # Nil
  <2>1. PICK w \in B : x = Cid(w)
    BY <1>1 DEF Means, Holds
  <2>2. Plain(kd, B, x) = w
    BY <1>1, <2>1, MeansFacts DEF Means
  <2> QED BY <1>1, <2>1, <2>2, DriversAssumption DEF Means, Val
<1>2. CASE kd = "ipfs" /\ x = Nil
  BY <1>2 DEF Means, Plain, Val
<1>3. CASE kd # "ipfs"
  BY <1>3 DEF Means, Plain, Holds
<1> QED BY <1>1, <1>2, <1>3

(* Further contents change no meaning. *)
LEMMA MeansMore ==
    ASSUME NEW kd, NEW C \in SUBSET Value, NEW B \in SUBSET C, NEW x, NEW v, Means(kd, B, x, v)
    PROVE  Means(kd, C, x, v)
<1>1. CASE kd = "ipfs" /\ x # Nil
  <2>1. PICK w \in B : x = Cid(w)
    BY <1>1 DEF Means, Holds
  <2>2. Means(kd, B, x, w) /\ Means(kd, C, x, w)
    BY <1>1, <2>1, MeansFacts
  <2> QED BY <2>2 DEF Means
<1>2. CASE kd = "ipfs" /\ x = Nil
  BY <1>2 DEF Means, Plain, Holds
<1>3. CASE kd # "ipfs"
  BY <1>3 DEF Means, Plain, Holds
<1> QED BY <1>1, <1>2, <1>3

\* The batch b means the operations c.
MeansOps(kd, B, b, c) ==
    /\ Len(b) = Len(c)
    /\ \A i \in 1..Len(c) : b[i][1] = c[i][1] /\ Means(kd, B, b[i][2], c[i][2])

(* A batch that means c, applied to what means h, gives what means h after c. *)
LEMMA ApplyMeans ==
    ASSUME NEW kd, NEW B, NEW b \in Seq(Key \X Stored), NEW c \in Seq(Op), MeansOps(kd, B, b, c),
           NEW f, NEW h, NEW k \in Key, Means(kd, B, f[k], h[k])
    PROVE  Means(kd, B, ApplyAll(f, b)[k], ApplyAll(h, c)[k])
<1>1. LastWins(f, b, k)
  BY ApplyFacts
<1>2. LastWins(h, c, k)
  BY ApplyFacts DEF Op
<1>3. Positions(b, k) = Positions(c, k)
  <2>1. DOMAIN b = 1..Len(c) /\ DOMAIN c = 1..Len(c)
    BY <1>1, <1>2 DEF MeansOps, LastWins
  <2> QED BY <2>1 DEF Positions, MeansOps
<1>4. CASE Positions(c, k) = {}
  BY <1>1, <1>2, <1>3, <1>4 DEF LastWins
<1>5. CASE Positions(c, k) # {}
  <2> DEFINE m == Max(Positions(c, k))
  <2>1. m \in 1..Len(c) /\ ApplyAll(f, b)[k] = b[m][2] /\ ApplyAll(h, c)[k] = c[m][2]
    BY <1>1, <1>2, <1>3, <1>5 DEF LastWins
  <2> HIDE DEF m
  <2> QED BY <2>1 DEF MeansOps
<1> QED BY <1>4, <1>5

(* Further contents, and one more operation. *)
LEMMA MeansOpsMore ==
    ASSUME NEW kd, NEW C \in SUBSET Value, NEW B \in SUBSET C,
           NEW b \in Seq(Key \X Stored), NEW c \in Seq(Op), MeansOps(kd, B, b, c)
    PROVE  MeansOps(kd, C, b, c)
<1>1. ASSUME NEW i \in 1..Len(c) PROVE b[i][1] = c[i][1] /\ Means(kd, C, b[i][2], c[i][2])
  BY MeansMore DEF MeansOps
<1> QED BY <1>1 DEF MeansOps

LEMMA MeansOpsAppend ==
    ASSUME NEW kd, NEW B, NEW b \in Seq(Key \X Stored), NEW c \in Seq(Op), MeansOps(kd, B, b, c),
           NEW k \in Key, NEW x \in Stored, NEW v \in Val, Means(kd, B, x, v)
    PROVE  MeansOps(kd, B, Append(b, <<k, x>>), Append(c, <<k, v>>))
<1> DEFINE bb == Append(b, <<k, x>>)  cc == Append(c, <<k, v>>)  n == Len(c)
<1>1. /\ Len(bb) = n + 1 /\ bb[n + 1] = <<k, x>> /\ \A i \in 1..n : bb[i] = b[i]
      /\ Len(cc) = n + 1 /\ cc[n + 1] = <<k, v>> /\ \A i \in 1..n : cc[i] = c[i]
      /\ n \in Nat
  BY DEF MeansOps, Op
<1>2. \A i \in 1..n : b[i][1] = c[i][1] /\ Means(kd, B, b[i][2], c[i][2])
  BY DEF MeansOps
<1> HIDE DEF bb, cc, n
<1>3. ASSUME NEW i \in 1..(n + 1) PROVE bb[i][1] = cc[i][1] /\ Means(kd, B, bb[i][2], cc[i][2])
  <2>1. CASE i = n + 1
    BY <1>1, <2>1
  <2>2. CASE i \in 1..n
    BY <1>1, <1>2, <2>2
  <2> QED BY <1>1, <2>1, <2>2
<1>4. MeansOps(kd, B, bb, cc)
  BY <1>1, <1>3 DEF MeansOps
<1> QED BY <1>4 DEF bb, cc

-----------------------------------------------------------------------------
(* The inductive invariant. *)

Types(kd, t, rd, ph, ack, td, db, rk) ==
    /\ kd \in Kinds /\ t \in Rec /\ ph \in {"idle", "open", "committed"}
    /\ rd \in [Reader -> {Nil} \cup (Key \X Stored)]
    /\ ack \in [Key -> Val] /\ td \in Seq(Op) /\ db \in SUBSET Key /\ rk \in SUBSET Key
    /\ t.err => kd \in Keeps
    /\ ph # "open" => td = <<>> /\ rk = {}
    /\ kd \in Cached => rk = {}
    /\ ph = "idle" \/ kd \in Direct => t.batch = <<>>

\* hybriddb, ipfs: LevelDB means what clients know, whatever fails.
LocalInv(kd, t, ack) ==
    kd \in Cached => \A k \in Key : Means(kd, t.blobs, t.local[k], ack[k])

\* The contents of the queued identifiers were added.
HeldInv(kd, t) ==
    kd \in Lazy => \A i \in DOMAIN t.batch : t.batch[i][2] \in Holds(kd, t.blobs)

\* So were those of the identifiers a reader has.
ReadInv(kd, t, rd) ==
    \A r \in Reader : rd[r] # Nil =>
        kd \in Cached /\ rd[r][2] # Nil /\ rd[r][2] \in Holds(kd, t.blobs)

\* No operation of an open batch is missing, unless the error is kept.
BatchInv(kd, t, ph, td) ==
    kd \in Cached /\ ph = "open" /\ ~t.err => MeansOps(kd, t.blobs, t.batch, td)

\* The cache has nothing old, and nothing of what the batch will change.
CacheInv(kd, t, ack, td, db) ==
    kd \in Cached => \A k \in Key \ db :
        /\ t.cache[k] \in {Nil, ack[k]}
        /\ ~t.err /\ Positions(td, k) # {} => t.cache[k] = Nil

\* badger: the keys no part of the open batch has changed are as clients know
\* them, and with the last part written all are as the batch will have them.
BadgerInv(kd, t, ph, ack, td, db, rk) ==
    kd = "badger" =>
        /\ \A k \in Key \ (db \cup rk) : t.local[k] = ack[k]
        /\ ph = "open" => \A k \in Key \ db :
              IF t.err THEN Positions(t.batch, k) # {} => k \in rk
              ELSE ApplyAll(t.local, t.batch)[k] = ApplyAll(ack, td)[k]

\* oss, crdt, ipfs-log: the open batch is in the store already; LevelDB and
\* S3 agree, and writing the batch of oss once more changes nothing.
EagerInv(kd, t, ph, ack, td, db, rk) ==
    kd \in Eager =>
        /\ \A k \in Key \ db : t.remote[k] = ApplyAll(ack, td)[k]
        /\ \A k \in Key : Positions(td, k) # {} => k \in rk
        /\ kd = "oss" => \A k \in Key \ db : t.local[k] = ApplyAll(ack, td)[k]
        /\ kd = "oss" /\ ph = "open" => t.batch = td

InvOf(kd, t, rd, ph, ack, td, db, rk) ==
    /\ Types(kd, t, rd, ph, ack, td, db, rk)
    /\ LocalInv(kd, t, ack) /\ HeldInv(kd, t) /\ ReadInv(kd, t, rd) /\ BatchInv(kd, t, ph, td)
    /\ CacheInv(kd, t, ack, td, db) /\ BadgerInv(kd, t, ph, ack, td, db, rk)
    /\ EagerInv(kd, t, ph, ack, td, db, rk)

Inv == InvOf(kind, s, read, phase, acked, todo, doubt, risk)

(* Which keys a batch has operations on. *)
LEMMA KeysFacts ==
    ASSUME NEW b
    PROVE  \A k : k \in Keys(b) <=> Positions(b, k) # {}
  BY DEF Keys, Positions

(* Which drivers are which. *)
LEMMA KindFacts ==
    ASSUME kind \in Kinds
    PROVE  /\ kind \in Lazy <=> kind \notin Eager
           /\ kind \in Eager <=> kind = "oss" \/ kind \in Direct
           /\ kind \in Cached => kind \in Lazy /\ kind # "badger"
           /\ kind \in Lazy => kind = "badger" \/ kind \in Cached
           /\ kind = "badger" => kind \in Lazy /\ kind \notin Cached
           /\ kind = "ipfs" => kind \in Cached
           /\ kind \in Lazy \/ kind = "oss" => kind \notin Direct
           /\ kind \in Lazy => kind # "oss" /\ kind # "crdt"
           /\ kind \in Direct => kind # "oss"
  BY DEF Kinds, Lazy, Eager, Direct, Cached

(* The initial state. *)
LEMMA InvInit == Init => Inv
<1> SUFFICES ASSUME Init PROVE Inv
  OBVIOUS
<1>1. /\ s \in Rec /\ s.local = Nothing /\ s.remote = Nothing /\ s.cache = Nothing
      /\ s.batch = <<>> /\ ~s.err /\ s.blobs = {}
  <2>1. /\ Nothing \in [Key -> Val] /\ Nothing \in [Key -> Stored] /\ Nothing \in [Key -> Cell]
        /\ <<>> \in Seq(Key \X Stored)
    BY StoredFacts DEF Nothing, Cell
  <2> QED BY <2>1 DEF Init, Rec
<1>2. /\ kind \in Kinds /\ phase = "idle" /\ acked = Nothing /\ todo = <<>> /\ doubt = {}
      /\ risk = {} /\ read = NoReads
  BY DEF Init
<1>3. \A k \in Key : Nothing[k] = Nil
  BY DEF Nothing
<1>4. Types(kind, s, read, phase, acked, todo, doubt, risk)
  <2>1. /\ Nothing \in [Key -> Val] /\ <<>> \in Seq(Op)
        /\ NoReads \in [Reader -> {Nil} \cup (Key \X Stored)]
    BY StoredFacts DEF Nothing, NoReads
  <2> QED BY <1>1, <1>2, <2>1 DEF Types
<1>5. LocalInv(kind, s, acked)
  <2>1. Means(kind, s.blobs, Nil, Nil)
    BY <1>1, MeansFacts
  <2> QED BY <1>1, <1>2, <1>3, <2>1 DEF LocalInv
<1>6. HeldInv(kind, s) /\ BatchInv(kind, s, phase, todo)
  <2>1. DOMAIN s.batch = {}
    BY <1>1
  <2> QED BY <1>2, <2>1 DEF HeldInv, BatchInv
<1>7. CacheInv(kind, s, acked, todo, doubt)
  <2>1. \A k \in Key : s.cache[k] = Nil
    BY <1>1, <1>3
  <2> QED BY <2>1 DEF CacheInv
<1>8. EagerInv(kind, s, phase, acked, todo, doubt, risk)
  <2>1. \A k \in Key : ApplyAll(acked, todo)[k] = Nil /\ Positions(todo, k) = {}
    BY <1>2, <1>3, ApplyNone DEF Positions
  <2> QED BY <1>1, <1>2, <1>3, <2>1 DEF EagerInv
<1>9. ReadInv(kind, s, read)
  BY <1>2 DEF ReadInv, NoReads
<1>10. BadgerInv(kind, s, phase, acked, todo, doubt, risk)
  BY <1>1, <1>2 DEF BadgerInv
<1> QED BY <1>4, <1>5, <1>6, <1>7, <1>8, <1>9, <1>10 DEF Inv, InvOf

\* What happens to a batch that is not committed.
GivesUp(t, u) ==
    /\ u \in Rec /\ u.remote = t.remote /\ u.blobs = t.blobs
    /\ u.local = t.local \/ (kind = "badger" /\ \A k \in Key \ GivenUp : u.local[k] = t.local[k])
    /\ u.batch \in {t.batch, <<>>} /\ u.cache \in {t.cache, Nothing} /\ (u.err => t.err)

(* A batch is given up: CommitFails, Unlock and Restart. *)
LEMMA InvGivesUp ==
    ASSUME Inv, NEW u, GivesUp(s, u), NEW ph \in {"idle", "committed"},
           ph = "idle" => u.batch = <<>>, NEW rd \in {read, NoReads},
           NEW db, db = GivenUp \/ (kind \in Cached /\ u.cache = Nothing /\ db = {})
    PROVE  InvOf(kind, u, rd, ph, acked, <<>>, db, {})
<1>1. /\ Types(kind, s, read, phase, acked, todo, doubt, risk)
      /\ LocalInv(kind, s, acked) /\ HeldInv(kind, s) /\ ReadInv(kind, s, read)
      /\ CacheInv(kind, s, acked, todo, doubt)
      /\ BadgerInv(kind, s, phase, acked, todo, doubt, risk)
      /\ EagerInv(kind, s, phase, acked, todo, doubt, risk)
  BY DEF Inv, InvOf
<1>2. /\ kind \in Kinds /\ todo \in Seq(Op) /\ doubt \in SUBSET Key /\ risk \in SUBSET Key
      /\ acked \in [Key -> Val] /\ (s.err => kind \in Keeps) /\ (kind \in Direct => s.batch = <<>>)
      /\ read \in [Reader -> {Nil} \cup (Key \X Stored)] /\ (kind \in Cached => risk = {})
  BY <1>1 DEF Types
<1>3. /\ u \in Rec /\ u.remote = s.remote /\ u.blobs = s.blobs
      /\ u.local = s.local \/ (kind = "badger" /\ \A k \in Key \ GivenUp : u.local[k] = s.local[k])
      /\ u.batch \in {s.batch, <<>>} /\ u.cache \in {s.cache, Nothing} /\ (u.err => s.err)
  BY DEF GivesUp
<1>4. GivenUp = doubt \cup risk
  BY DEF GivenUp
<1>41. kind \in Cached \/ kind \in Eager => u.local = s.local /\ kind # "badger"
  BY <1>3 DEF Cached, Eager
<1>5. Types(kind, u, rd, ph, acked, <<>>, db, {})
  <2>1. <<>> \in Seq(Op) /\ NoReads \in [Reader -> {Nil} \cup (Key \X Stored)]
    BY DEF NoReads
  <2>2. rd \in [Reader -> {Nil} \cup (Key \X Stored)]
    BY <1>2, <2>1
  <2>3. db \in SUBSET Key
    BY <1>2, <1>4
  <2> QED BY <1>2, <1>3, <2>1, <2>2, <2>3 DEF Types
<1>6. LocalInv(kind, u, acked)
  BY <1>1, <1>3, <1>41 DEF LocalInv
<1>7. HeldInv(kind, u)
  <2>1. DOMAIN <<>> = {}
    OBVIOUS
  <2> QED BY <1>1, <1>3, <2>1 DEF HeldInv
<1>71. ReadInv(kind, u, rd)
  BY <1>1, <1>3 DEF ReadInv, NoReads
<1>8. BatchInv(kind, u, ph, <<>>)
  BY DEF BatchInv
<1>9. CacheInv(kind, u, acked, <<>>, db)
  <2>1. \A k \in Key : Nothing[k] = Nil /\ Positions(<<>>, k) = {}
    BY DEF Nothing, Positions
  <2>2. kind \in Cached => db = doubt \/ u.cache = Nothing
    BY <1>2, <1>4
  <2> QED BY <1>1, <1>3, <2>1, <2>2 DEF CacheInv
<1>10. BadgerInv(kind, u, ph, acked, <<>>, db, {})
  <2> SUFFICES ASSUME kind = "badger", NEW k \in Key \ db PROVE u.local[k] = acked[k]
    BY DEF BadgerInv
  <2>1. db = GivenUp
    BY DEF Cached
  <2>2. s.local[k] = acked[k]
    BY <1>1, <1>4, <2>1 DEF BadgerInv
  <2> QED BY <1>3, <2>1, <2>2
<1>11. EagerInv(kind, u, ph, acked, <<>>, db, {})
  <2> SUFFICES ASSUME kind \in Eager PROVE EagerInv(kind, u, ph, acked, <<>>, db, {})
    BY DEF EagerInv
  <2>1. db = GivenUp
    BY DEF Cached, Eager
  <2>2. ASSUME NEW k \in Key \ db PROVE k \notin doubt /\ ApplyAll(acked, <<>>)[k] = ApplyAll(acked, todo)[k]
    <3>1. LastWins(acked, todo, k)
      BY <1>2, ApplyFacts DEF Op
    <3>2. k \notin doubt /\ Positions(todo, k) = {}
      BY <1>1, <1>4, <2>1 DEF EagerInv
    <3> QED BY <3>1, <3>2, ApplyNone DEF LastWins
  <2>3. ph # "open" /\ \A k \in Key : Positions(<<>>, k) = {}
    BY DEF Positions
  <2> QED BY <1>1, <1>3, <1>41, <2>2, <2>3 DEF EagerInv
<1> QED BY <1>5, <1>6, <1>7, <1>71, <1>8, <1>9, <1>10, <1>11 DEF InvOf

(* Lock: an empty batch. *)
LEMMA InvLock == Inv /\ Lock => Inv'
<1> SUFFICES ASSUME Inv, Lock PROVE Inv'
  OBVIOUS
<1>1. /\ Types(kind, s, read, phase, acked, todo, doubt, risk)
      /\ LocalInv(kind, s, acked) /\ HeldInv(kind, s) /\ ReadInv(kind, s, read)
      /\ CacheInv(kind, s, acked, todo, doubt)
      /\ BadgerInv(kind, s, phase, acked, todo, doubt, risk)
      /\ EagerInv(kind, s, phase, acked, todo, doubt, risk)
  BY DEF Inv, InvOf
<1>2. /\ phase = "idle" /\ phase' = "open" /\ todo' = todo /\ todo = <<>> /\ s.batch = <<>>
      /\ kind' = kind /\ s' = s /\ acked' = acked /\ doubt' = doubt
      /\ risk' = risk /\ risk = {} /\ read' = read
  BY <1>1 DEF Lock, Types
<1>3. Types(kind, s, read, "open", acked, todo, doubt, risk)
  BY <1>1, <1>2 DEF Types
<1>4. BatchInv(kind, s, "open", todo)
  BY <1>2 DEF BatchInv, MeansOps
<1>5. EagerInv(kind, s, "open", acked, todo, doubt, risk)
  BY <1>1, <1>2 DEF EagerInv
<1>6. BadgerInv(kind, s, "open", acked, todo, doubt, risk)
  <2>1. \A k \in Key : /\ ApplyAll(s.local, s.batch)[k] = s.local[k]
                      /\ ApplyAll(acked, todo)[k] = acked[k] /\ Positions(s.batch, k) = {}
    BY <1>2, ApplyNone DEF Positions
  <2> QED BY <1>1, <1>2, <2>1 DEF BadgerInv
<1>7. InvOf(kind, s, read, "open", acked, todo, doubt, risk)
  BY <1>1, <1>3, <1>4, <1>5, <1>6 DEF InvOf
<1> QED BY <1>2, <1>7 DEF Inv

(* The last part of a batch of badger, when another was lost. *)
LEMMA PartWritten ==
    ASSUME Inv, phase = "open", kind = "badger", s.err
    PROVE  /\ WriteOut(s) \in Rec /\ WriteOut(s).local = ApplyAll(s.local, s.batch)
           /\ WriteOut(s).batch = s.batch /\ GivesUp(s, WriteOut(s))
<1>1. /\ s \in Rec /\ BadgerInv(kind, s, phase, acked, todo, doubt, risk)
  BY DEF Inv, InvOf, Types
<1> DEFINE f == ApplyAll(s.local, s.batch)
           u == [s EXCEPT !.local = f]
<1>2. s.local \in [Key -> Stored] /\ s.batch \in Seq(Key \X Stored)
  BY <1>1 DEF Rec
<1>3. f \in [Key -> Stored]
  BY <1>2, ApplyType
<1>4. WriteOut(s) = u
  BY Zenon DEF WriteOut
<1> HIDE DEF f
<1>5. /\ u \in Rec /\ u.local = f /\ u.remote = s.remote
      /\ u.batch = s.batch /\ u.cache = s.cache /\ SameRest(s, u)
  BY <1>1, <1>3, LocalFacts, Zenon
<1> HIDE DEF u
<1>6. ASSUME NEW k \in Key \ GivenUp PROVE u.local[k] = s.local[k]
  <2>1. k \notin doubt /\ k \notin risk
    BY DEF GivenUp
  <2>2. Positions(s.batch, k) = {}
    BY <1>1, <2>1 DEF BadgerInv
  <2>3. LastWins(s.local, s.batch, k)
    BY <1>2, ApplyFacts
  <2> QED BY <1>5, <2>2, <2>3 DEF LastWins, f
<1>7. GivesUp(s, u)
  BY <1>5, <1>6 DEF GivesUp, SameRest
<1> QED BY <1>4, <1>5, <1>7 DEF f

(* A commit that fails. *)
LEMMA InvCommitFails == Inv /\ CommitFails => Inv'
<1> SUFFICES ASSUME Inv, CommitFails PROVE Inv'
  OBVIOUS
<1>1. kind \in Kinds /\ s \in Rec /\ (s.err => kind \in Keeps)
  BY DEF Inv, InvOf, Types
<1>2. /\ kind' = kind /\ phase' = "committed" /\ acked' = acked /\ todo' = <<>> /\ doubt' = GivenUp
      /\ read' = read /\ risk' = {} /\ phase = "open"
      /\ \/ s' = s \/ (s.err /\ s' = BatchCommit(s))
         \/ (kind = "badger" /\ s.err /\ s' = WriteOut(s))
  BY DEF CommitFails
<1>3. GivesUp(s, s')
  <2>1. Commits(s, BatchCommit(s))
    BY <1>1, CommitFacts
  <2>2. GivesUp(s, s)
    BY <1>1 DEF GivesUp
  <2>3. ASSUME s.err, s' = BatchCommit(s) PROVE GivesUp(s, s')
    BY <1>1, <2>1, <2>3 DEF GivesUp, Commits, SameRest
  <2>4. ASSUME kind = "badger", s.err, s' = WriteOut(s) PROVE GivesUp(s, s')
    BY <1>2, <2>4, PartWritten
  <2> QED BY <1>2, <2>2, <2>3, <2>4
<1>4. InvOf(kind, s', read, "committed", acked, <<>>, GivenUp, {})
  BY <1>3, InvGivesUp
<1> QED BY <1>2, <1>4 DEF Inv

(* A rollback. *)
LEMMA InvUnlock == Inv /\ Unlock => Inv'
<1> SUFFICES ASSUME Inv, Unlock PROVE Inv'
  OBVIOUS
<1>1. kind \in Kinds /\ s \in Rec /\ (kind \in Direct => s.batch = <<>>)
  BY DEF Inv, InvOf, Types
<1>2. /\ kind' = kind /\ phase' = "idle" /\ acked' = acked /\ todo' = <<>> /\ doubt' = GivenUp
      /\ read' = read /\ risk' = {} /\ s' = BatchRollback(s)
  BY DEF Unlock
<1>3. GivesUp(s, s') /\ s'.batch = <<>>
  <2>1. RollsBack(s, s')
    BY <1>1, <1>2, RollbackFacts
  <2> QED BY <1>1, <2>1 DEF GivesUp, RollsBack, SameStores
<1>4. InvOf(kind, s', read, "idle", acked, <<>>, GivenUp, {})
  BY <1>3, InvGivesUp
<1> QED BY <1>2, <1>4 DEF Inv

(* A crash and a restart. *)
LEMMA InvRestart == Inv /\ Restart => Inv'
<1> SUFFICES ASSUME Inv, Restart PROVE Inv'
  OBVIOUS
<1>1. kind \in Kinds /\ s \in Rec /\ (kind \in Direct => s.batch = <<>>)
  BY DEF Inv, InvOf, Types
<1>2. /\ kind' = kind /\ phase' = "idle" /\ acked' = acked /\ todo' = <<>>
      /\ doubt' = IF kind \in Cached THEN {} ELSE GivenUp
      /\ read' = NoReads /\ risk' = {} /\ s' = Open(s)
  BY DEF Restart
<1>3. GivesUp(s, s') /\ s'.batch = <<>> /\ (kind \in Cached => s'.cache = Nothing)
  <2>1. Opens(s, s')
    BY <1>1, <1>2, OpenFacts
  <2> QED BY <1>1, <2>1 DEF GivesUp, Opens, SameStores
<1>4. InvOf(kind, s', NoReads, "idle", acked, <<>>, doubt', {})
  BY <1>2, <1>3, InvGivesUp
<1> QED BY <1>2, <1>4 DEF Inv

(* A commit: what the batch means is known from now on. *)
LEMMA InvCommitOk == Inv /\ CommitOk => Inv'
<1> SUFFICES ASSUME Inv, CommitOk PROVE Inv'
  OBVIOUS
<1>1. /\ Types(kind, s, read, phase, acked, todo, doubt, risk)
      /\ LocalInv(kind, s, acked) /\ HeldInv(kind, s) /\ BatchInv(kind, s, phase, todo)
      /\ ReadInv(kind, s, read) /\ CacheInv(kind, s, acked, todo, doubt)
      /\ BadgerInv(kind, s, phase, acked, todo, doubt, risk)
      /\ EagerInv(kind, s, phase, acked, todo, doubt, risk)
  BY DEF Inv, InvOf
<1>2. /\ kind \in Kinds /\ s \in Rec /\ todo \in Seq(Op) /\ doubt \in SUBSET Key
      /\ acked \in [Key -> Val] /\ (kind \in Direct => s.batch = <<>>)
      /\ read \in [Reader -> {Nil} \cup (Key \X Stored)]
  BY <1>1 DEF Types
<1>3. /\ phase = "open" /\ ~s.err /\ s' = BatchCommit(s) /\ phase' = "committed"
      /\ acked' = ApplyAll(acked, todo) /\ todo' = <<>> /\ kind' = kind /\ doubt' = doubt
      /\ risk' = {} /\ read' = read
  BY DEF CommitOk
<1>4. /\ s' \in Rec /\ s'.remote = s.remote /\ s'.blobs = s.blobs /\ s'.err = s.err
      /\ s'.batch = s.batch /\ s'.cache = s.cache
      /\ IF kind \in Direct THEN s'.local = s.local ELSE s'.local = ApplyAll(s.local, s.batch)
  <2>1. Commits(s, s')
    BY <1>2, <1>3, CommitFacts
  <2> QED BY <1>3, <2>1 DEF Commits, SameRest
<1> DEFINE u == s'  ack == ApplyAll(acked, todo)
<1> HIDE DEF u, ack
<1>5. /\ u \in Rec /\ u.remote = s.remote /\ u.blobs = s.blobs /\ u.err = s.err
      /\ u.batch = s.batch /\ u.cache = s.cache
      /\ IF kind \in Direct THEN u.local = s.local ELSE u.local = ApplyAll(s.local, s.batch)
  BY <1>4 DEF u
<1>6. ~s.err
  BY <1>3
<1>7. ack \in [Key -> Val]
  BY <1>2, ApplyType DEF ack, Op
<1>8. \A k \in Key : ApplyAll(ack, <<>>)[k] = ack[k] /\ Positions(<<>>, k) = {}
  BY ApplyNone DEF Positions
<1>9. s.batch \in Seq(Key \X Stored) /\ s.local \in [Key -> Stored]
  BY <1>2 DEF Rec
<1>10. Types(kind, u, read, "committed", ack, <<>>, doubt, {})
  <2>1. <<>> \in Seq(Op)
    OBVIOUS
  <2> QED BY <1>2, <1>5, <1>6, <1>7, <2>1 DEF Types
<1>11. LocalInv(kind, u, ack)
  <2> SUFFICES ASSUME kind \in Cached, NEW k \in Key PROVE Means(kind, u.blobs, u.local[k], ack[k])
    BY DEF LocalInv
  <2>1. MeansOps(kind, s.blobs, s.batch, todo)
    BY <1>1, <1>3, <1>6 DEF BatchInv
  <2>2. Means(kind, s.blobs, s.local[k], acked[k])
    BY <1>1 DEF LocalInv
  <2>3. Means(kind, s.blobs, ApplyAll(s.local, s.batch)[k], ApplyAll(acked, todo)[k])
    BY <1>2, <1>9, <2>1, <2>2, ApplyMeans
  <2> QED BY <1>2, <1>5, <2>3, KindFacts DEF ack
<1>12. HeldInv(kind, u) /\ ReadInv(kind, u, read)
  BY <1>1, <1>5 DEF HeldInv, ReadInv
<1>13. BatchInv(kind, u, "committed", <<>>)
  BY DEF BatchInv
<1>14. CacheInv(kind, u, ack, <<>>, doubt)
  <2> SUFFICES ASSUME kind \in Cached, NEW k \in Key \ doubt PROVE u.cache[k] \in {Nil, ack[k]}
    BY <1>8 DEF CacheInv
  <2>1. s.cache[k] \in {Nil, acked[k]} /\ (Positions(todo, k) # {} => s.cache[k] = Nil)
    BY <1>1, <1>6 DEF CacheInv
  <2>2. Positions(todo, k) = {} => ack[k] = acked[k]
    <3>1. LastWins(acked, todo, k)
      BY <1>2, ApplyFacts DEF Op
    <3> QED BY <3>1 DEF LastWins, ack
  <2> QED BY <1>5, <2>1, <2>2
<1>15. EagerInv(kind, u, "committed", ack, <<>>, doubt, {})
  <2> SUFFICES ASSUME kind \in Eager, NEW k \in Key \ doubt
               PROVE  u.remote[k] = ack[k] /\ (kind = "oss" => u.local[k] = ack[k])
    BY <1>8 DEF EagerInv
  <2>1. s.remote[k] = ack[k] /\ (kind = "oss" => s.local[k] = ack[k] /\ s.batch = todo)
    BY <1>1, <1>3 DEF EagerInv, ack
  <2>2. ASSUME kind = "oss" PROVE u.local[k] = ack[k]
    <3>1. LastWins(acked, todo, k) /\ LastWins(s.local, todo, k)
      BY <1>2, ApplyFacts DEF Op
    <3>2. u.local[k] = ApplyAll(s.local, todo)[k]
      BY <1>2, <1>5, <2>1, <2>2, KindFacts
    <3> QED BY <2>1, <2>2, <3>1, <3>2 DEF LastWins, ack
  <2> QED BY <1>5, <2>1, <2>2
<1>16. BadgerInv(kind, u, "committed", ack, <<>>, doubt, {})
  <2> SUFFICES ASSUME kind = "badger", NEW k \in Key \ doubt PROVE u.local[k] = ack[k]
    BY DEF BadgerInv
  <2>1. ApplyAll(s.local, s.batch)[k] = ApplyAll(acked, todo)[k]
    BY <1>1, <1>3 DEF BadgerInv
  <2> QED BY <1>2, <1>5, <2>1, KindFacts DEF ack
<1>17. InvOf(kind, u, read, "committed", ack, <<>>, doubt, {})
  BY <1>10, <1>11, <1>12, <1>13, <1>14, <1>15, <1>16 DEF InvOf
<1> QED BY <1>3, <1>17 DEF Inv, u, ack

(* A read that changes neither LevelDB, nor the batch, nor a cache entry.   *)
LEMMA InvSame ==
    ASSUME Inv, NEW u \in Rec, SameStores(s, u), SameRest(s, u), u.batch = s.batch, u.cache = s.cache
    PROVE  InvOf(kind, u, read, phase, acked, todo, doubt, risk)
<1>1. /\ Types(kind, s, read, phase, acked, todo, doubt, risk)
      /\ LocalInv(kind, s, acked) /\ HeldInv(kind, s) /\ BatchInv(kind, s, phase, todo)
      /\ ReadInv(kind, s, read) /\ CacheInv(kind, s, acked, todo, doubt)
      /\ BadgerInv(kind, s, phase, acked, todo, doubt, risk)
      /\ EagerInv(kind, s, phase, acked, todo, doubt, risk)
  BY DEF Inv, InvOf
<1>2. u.local = s.local /\ u.remote = s.remote /\ u.blobs = s.blobs /\ u.err = s.err
  BY DEF SameStores, SameRest
<1>3. Types(kind, u, read, phase, acked, todo, doubt, risk)
  BY <1>1, <1>2 DEF Types
<1>4. LocalInv(kind, u, acked) /\ HeldInv(kind, u) /\ BatchInv(kind, u, phase, todo) /\ ReadInv(kind, u, read)
  BY <1>1, <1>2 DEF LocalInv, HeldInv, BatchInv, ReadInv
<1>5. CacheInv(kind, u, acked, todo, doubt)
  BY <1>1, <1>2 DEF CacheInv
<1>6. BadgerInv(kind, u, phase, acked, todo, doubt, risk)
  BY <1>1, <1>2 DEF BadgerInv
<1>7. EagerInv(kind, u, phase, acked, todo, doubt, risk)
  BY <1>1, <1>2 DEF EagerInv
<1> QED BY <1>3, <1>4, <1>5, <1>6, <1>7 DEF InvOf

LEMMA InvReadS3 == Inv /\ ReadS3 => Inv'
<1> SUFFICES ASSUME Inv, ReadS3 PROVE Inv'
  OBVIOUS
<1>1. /\ s' = NewClient(s, "ok") /\ kind' = kind /\ read' = read /\ phase' = phase /\ acked' = acked
      /\ todo' = todo /\ doubt' = doubt /\ risk' = risk
  BY DEF ReadS3
<1> DEFINE u == NewClient(s, "ok")
<1>2. u \in Rec /\ SameStores(s, u) /\ SameRest(s, u) /\ u.batch = s.batch /\ u.cache = s.cache
  BY BucketFacts DEF Inv, InvOf, Types
<1> HIDE DEF u
<1>3. InvOf(kind, u, read, phase, acked, todo, doubt, risk)
  BY <1>2, InvSame
<1> QED BY <1>1, <1>3 DEF Inv, u

(* A reader takes what LevelDB has, or gives up. *)
LEMMA InvReader ==
    ASSUME NEW r \in Reader, Inv, (\E k \in Key : ReadLevel(r, k)) \/ ReadFails(r)
    PROVE  Inv'
<1>1. /\ Types(kind, s, read, phase, acked, todo, doubt, risk) /\ LocalInv(kind, s, acked)
      /\ ReadInv(kind, s, read)
  BY DEF Inv, InvOf
<1>2. /\ read \in [Reader -> {Nil} \cup (Key \X Stored)] /\ s \in Rec /\ s.local \in [Key -> Stored]
  BY <1>1 DEF Types, Rec
<1>3. PICK x \in {Nil} \cup (Key \X Stored) :
          /\ read' = [read EXCEPT ![r] = x]
          /\ x # Nil => kind \in Cached /\ x[2] # Nil /\ x[2] \in Holds(kind, s.blobs)
  <2>1. ASSUME NEW k \in Key, ReadLevel(r, k)
        PROVE  /\ <<k, s.local[k]>> \in Key \X Stored /\ kind \in Cached /\ s.local[k] # Nil
               /\ read' = [read EXCEPT ![r] = <<k, s.local[k]>>] /\ s.local[k] \in Holds(kind, s.blobs)
    <3>1. kind \in Cached /\ s.local[k] # Nil /\ read' = [read EXCEPT ![r] = <<k, s.local[k]>>]
      BY <2>1 DEF ReadLevel
    <3>2. Means(kind, s.blobs, s.local[k], acked[k])
      BY <1>1, <3>1 DEF LocalInv
    <3> QED BY <1>2, <3>1, <3>2 DEF Means
  <2>2. ASSUME ReadFails(r) PROVE read' = [read EXCEPT ![r] = Nil]
    BY <2>2 DEF ReadFails
  <2>3. CASE \E k \in Key : ReadLevel(r, k)
    <3>1. PICK k \in Key : ReadLevel(r, k)
      BY <2>3
    <3> DEFINE y == <<k, s.local[k]>>
    <3>2. /\ y \in Key \X Stored /\ kind \in Cached /\ y[2] # Nil
          /\ read' = [read EXCEPT ![r] = y] /\ y[2] \in Holds(kind, s.blobs)
      BY <2>1, <3>1
    <3> HIDE DEF y
    <3> QED BY <3>2
  <2> QED BY <2>2, <2>3
<1>4. /\ kind' = kind /\ s' = s /\ phase' = phase /\ acked' = acked
      /\ todo' = todo /\ doubt' = doubt /\ risk' = risk
  BY DEF ReadLevel, ReadFails
<1>5. read' \in [Reader -> {Nil} \cup (Key \X Stored)]
  BY <1>2, <1>3
<1>6. ReadInv(kind, s, read')
  <2>1. \A q \in Reader : read'[q] = IF q = r THEN x ELSE read[q]
    BY <1>2, <1>3
  <2> QED BY <1>1, <1>3, <2>1 DEF ReadInv
<1>7. Types(kind, s, read', phase, acked, todo, doubt, risk)
  BY <1>1, <1>5 DEF Types
<1>8. InvOf(kind, s, read', phase, acked, todo, doubt, risk)
  BY <1>6, <1>7 DEF Inv, InvOf
<1> QED BY <1>4, <1>8 DEF Inv

(* An entry of the cache changes, and its key is in doubt unless the entry   *)
(* has what clients know and no open batch changes it.                       *)
LEMMA InvFills ==
    ASSUME Inv, kind \in Cached, NEW k \in Key, NEW v \in Cell, NEW u, Fills(s, u, k, v),
           NEW rd \in [Reader -> {Nil} \cup (Key \X Stored)], ReadInv(kind, s, rd), NEW db \in SUBSET Key,
           doubt \subseteq db, k \notin db => v = acked[k] /\ Positions(todo, k) = {}
    PROVE  InvOf(kind, u, rd, phase, acked, todo, db, risk)
<1>1. /\ Types(kind, s, read, phase, acked, todo, doubt, risk)
      /\ LocalInv(kind, s, acked) /\ HeldInv(kind, s) /\ BatchInv(kind, s, phase, todo)
      /\ CacheInv(kind, s, acked, todo, doubt)
  BY DEF Inv, InvOf
<1>2. /\ u \in Rec /\ u.local = s.local /\ u.remote = s.remote /\ u.blobs = s.blobs /\ u.err = s.err
      /\ u.batch = s.batch /\ u.cache = [s.cache EXCEPT ![k] = v]
  BY DEF Fills, SameStores, SameRest
<1>3. s.cache \in [Key -> Cell] /\ kind # "badger" /\ kind \notin Eager
  BY <1>1 DEF Types, Rec, Cached, Eager
<1>4. Types(kind, u, rd, phase, acked, todo, db, risk)
  BY <1>1, <1>2 DEF Types
<1>5. LocalInv(kind, u, acked) /\ HeldInv(kind, u) /\ BatchInv(kind, u, phase, todo) /\ ReadInv(kind, u, rd)
  BY <1>1, <1>2 DEF LocalInv, HeldInv, BatchInv, ReadInv
<1>6. CacheInv(kind, u, acked, todo, db)
  <2> SUFFICES ASSUME NEW j \in Key \ db
               PROVE  /\ u.cache[j] \in {Nil, acked[j]}
                      /\ ~u.err /\ Positions(todo, j) # {} => u.cache[j] = Nil
    BY DEF CacheInv
  <2>1. /\ s.cache[j] \in {Nil, acked[j]}
        /\ ~s.err /\ Positions(todo, j) # {} => s.cache[j] = Nil
    BY <1>1 DEF CacheInv
  <2>2. u.cache[j] = IF j = k THEN v ELSE s.cache[j]
    BY <1>2, <1>3
  <2> QED BY <1>2, <2>1, <2>2
<1>7. BadgerInv(kind, u, phase, acked, todo, db, risk) /\ EagerInv(kind, u, phase, acked, todo, db, risk)
  BY <1>3 DEF BadgerInv, EagerInv
<1> QED BY <1>4, <1>5, <1>6, <1>7 DEF InvOf

(* A reader puts what it has from LevelDB, or its content, in the cache. *)
LEMMA FillValue ==
    ASSUME NEW r \in Reader, Inv, read[r] # Nil
    PROVE  LET k == read[r][1]  x == read[r][2]  v == IF kind = "ipfs" THEN Cat(s, x) ELSE x IN
           /\ k \in Key /\ kind \in Cached /\ x \in Stored
           /\ v \in Cell /\ (x = s.local[k] => v = acked[k])
<1> DEFINE k == read[r][1]  x == read[r][2]  v == IF kind = "ipfs" THEN Cat(s, x) ELSE x
<1>1. /\ read \in [Reader -> {Nil} \cup (Key \X Stored)] /\ s \in Rec /\ s.blobs \in SUBSET Value
      /\ ReadInv(kind, s, read) /\ LocalInv(kind, s, acked)
  BY DEF Inv, InvOf, Types, Rec
<1>3. k \in Key /\ x \in Stored
  <2>1. read[r] \in Key \X Stored
    BY <1>1
  <2> QED BY <2>1
<1>4. kind \in Cached /\ x # Nil /\ x \in Holds(kind, s.blobs)
  BY <1>1 DEF ReadInv
<1> HIDE DEF k, x
<1>5. Means(kind, s.blobs, s.local[k], acked[k])
  BY <1>1, <1>3, <1>4 DEF LocalInv
<1>6. Means(kind, s.blobs, x, Plain(kind, s.blobs, x))
  BY <1>4 DEF Means
<1>7. Plain(kind, s.blobs, x) \in Val
  BY <1>1, <1>6, MeansValue
<1>8. CASE kind = "ipfs"
  <2>1. v = Plain(kind, s.blobs, x)
    BY <1>4, <1>8 DEF Plain, Content, Cat
  <2> HIDE DEF v
  <2> QED BY <1>3, <1>4, <1>5, <1>7, <2>1 DEF Means, Cell, v, k, x
<1>9. CASE kind # "ipfs"
  <2>1. v = Plain(kind, s.blobs, x)
    BY <1>9 DEF Plain
  <2> HIDE DEF v
  <2> QED BY <1>3, <1>4, <1>5, <1>7, <2>1 DEF Means, Cell, v, k, x
<1> QED BY <1>8, <1>9

LEMMA InvReadFill ==
    ASSUME NEW r \in Reader, Inv, ReadFill(r)
    PROVE  Inv'
<1> DEFINE k == read[r][1]  x == read[r][2]  v == IF kind = "ipfs" THEN Cat(s, x) ELSE x
<1>1. read[r] # Nil /\ s' = [s EXCEPT !.cache[k] = v] /\ read' = [read EXCEPT ![r] = Nil]
  BY Zenon DEF ReadFill
<1>2. doubt' = IF x # s.local[k] \/ k \in Keys(todo) THEN doubt \cup {k} ELSE doubt
  BY Zenon DEF ReadFill
<1>3. kind' = kind /\ phase' = phase /\ acked' = acked /\ todo' = todo /\ risk' = risk
  BY Zenon DEF ReadFill
<1>4. k \in Key /\ kind \in Cached /\ v \in Cell /\ (x = s.local[k] => v = acked[k])
  BY <1>1, FillValue
<1> HIDE DEF k, x, v
<1>5. /\ read \in [Reader -> {Nil} \cup (Key \X Stored)] /\ s \in Rec /\ doubt \in SUBSET Key
      /\ ReadInv(kind, s, read)
  BY DEF Inv, InvOf, Types
<1>6. Fills(s, s', k, v)
  BY <1>1, <1>4, <1>5, FillFacts, Zenon
<1>7. read' \in [Reader -> {Nil} \cup (Key \X Stored)] /\ ReadInv(kind, s, read')
  BY <1>1, <1>5 DEF ReadInv
<1>8. /\ doubt' \in SUBSET Key /\ doubt \subseteq doubt'
      /\ k \notin doubt' => v = acked[k] /\ Positions(todo, k) = {}
  BY <1>2, <1>4, <1>5, KeysFacts
<1>9. InvOf(kind, s', read', phase, acked, todo, doubt', risk)
  BY <1>4, <1>6, <1>7, <1>8, InvFills
<1> QED BY <1>3, <1>9 DEF Inv

(* An entry without bytes: the key is in doubt. *)
LEMMA InvReadBroken ==
    ASSUME NEW k \in Key, Inv, ReadBroken(k)
    PROVE  Inv'
<1>1. s' = [s EXCEPT !.cache[k] = NoBytes] /\ kind = "hybriddb" /\ doubt' = doubt \cup {k}
  BY Zenon DEF ReadBroken
<1>2. kind' = kind /\ phase' = phase /\ acked' = acked /\ todo' = todo /\ risk' = risk /\ read' = read
  BY Zenon DEF ReadBroken
<1>3. /\ read \in [Reader -> {Nil} \cup (Key \X Stored)] /\ s \in Rec /\ doubt \in SUBSET Key
      /\ ReadInv(kind, s, read)
  BY DEF Inv, InvOf, Types
<1>4. NoBytes \in Cell
  BY DEF Cell
<1>5. Fills(s, s', k, NoBytes)
  BY <1>1, <1>3, <1>4, FillFacts, Zenon
<1>6. kind \in Cached
  BY <1>1 DEF Cached
<1>7. doubt' \in SUBSET Key /\ doubt \subseteq doubt' /\ k \in doubt'
  BY <1>1, <1>3
<1>8. InvOf(kind, s', read, phase, acked, todo, doubt', risk)
  BY <1>3, <1>4, <1>5, <1>6, <1>7, InvFills
<1> QED BY <1>2, <1>8 DEF Inv

\* What AddOp does besides the call of the driver.
AddsTo(k, v, out) ==
    /\ phase = "open" /\ kind' = kind /\ phase' = phase /\ acked' = acked /\ read' = read
    /\ s' = BatchAdd(s, k, v, out) /\ todo' = Append(todo, <<Slot(k), v>>)
    /\ doubt' = IF Taken(out) THEN doubt \ {Slot(k)}
                ELSE IF kind \in Cached THEN doubt ELSE doubt \cup {Slot(k)}
    /\ risk' = risk \cup (IF out \in {"full", "lost"} THEN Keys(s.batch) ELSE {})
                    \cup (IF \/ kind \in Eager
                             \/ kind = "badger" /\ (s'.err \/ k \in doubt)
                          THEN {Slot(k)} ELSE {})
    /\ out \in {"full", "lost"} => kind = "badger"

(* An operation that is queued. *)
LEMMA InvQueues ==
    ASSUME NEW k \in Key, NEW v \in Val, NEW out, NEW u \in Rec, NEW td \in Seq(Op), NEW db \in SUBSET Key,
           Inv, phase = "open", kind \in Cached, LazyAdds(s, u, k, v),
           td = Append(todo, <<k, v>>), db \in {doubt, doubt \ {k}}
    PROVE  InvOf(kind, u, read, phase, acked, td, db, risk)
<1>1. /\ Types(kind, s, read, phase, acked, todo, doubt, risk)
      /\ LocalInv(kind, s, acked) /\ HeldInv(kind, s) /\ BatchInv(kind, s, phase, todo)
      /\ CacheInv(kind, s, acked, todo, doubt) /\ ReadInv(kind, s, read)
  BY DEF Inv, InvOf
<1>2. /\ kind \in Kinds /\ s \in Rec /\ todo \in Seq(Op) /\ acked \in [Key -> Val]
      /\ s.batch \in Seq(Key \X Stored) /\ s.blobs \in SUBSET Value /\ s.cache \in [Key -> Cell]
      /\ u.blobs \in SUBSET Value
  BY <1>1 DEF Types, Rec
<1>3. PICK x \in Stored : /\ u.batch = Append(s.batch, <<k, x>>) /\ Means(kind, u.blobs, x, v)
                          /\ s.blobs \subseteq u.blobs
  <2>1. CASE (kind # "ipfs" \/ v = Nil) /\ Queues(s, u, k, v) /\ u.blobs = s.blobs
    BY <1>2, <2>1, MeansFacts, StoredFacts, ZenonT(60) DEF Queues
  <2>2. CASE kind = "ipfs" /\ v \in Value /\ Queues(s, u, k, Cid(v)) /\ u.blobs = s.blobs \cup {v}
    BY <1>2, <2>2, MeansFacts, StoredFacts DEF Queues
  <2> QED BY <2>1, <2>2 DEF LazyAdds
<1>4. u.cache = [s.cache EXCEPT ![k] = Nil] /\ u.local = s.local /\ u.err = s.err
  BY DEF LazyAdds, Queues, SameStores
<1>5. kind \notin Direct /\ kind \notin Eager /\ kind # "badger" /\ kind \in Lazy
  BY <1>2, KindFacts
<1>6. Types(kind, u, read, phase, acked, td, db, risk)
  BY <1>1, <1>4, <1>5 DEF Types
<1>7. LocalInv(kind, u, acked)
  <2> SUFFICES ASSUME NEW j \in Key PROVE Means(kind, u.blobs, u.local[j], acked[j])
    BY DEF LocalInv
  <2>1. Means(kind, s.blobs, s.local[j], acked[j])
    BY <1>1 DEF LocalInv
  <2> QED BY <1>2, <1>3, <1>4, <2>1, MeansMore
<1>8. HeldInv(kind, u)
  <2> SUFFICES ASSUME NEW i \in DOMAIN u.batch PROVE u.batch[i][2] \in Holds(kind, u.blobs)
    BY DEF HeldInv
  <2>1. CASE i = Len(s.batch) + 1
    BY <1>2, <1>3, <2>1 DEF Means
  <2>2. CASE i \in 1..Len(s.batch)
    <3>1. u.batch[i] = s.batch[i] /\ i \in DOMAIN s.batch
      BY <1>2, <1>3, <2>2
    <3>2. s.batch[i][2] \in Holds(kind, s.blobs)
      BY <1>1, <1>5, <3>1 DEF HeldInv
    <3>3. Holds(kind, s.blobs) \subseteq Holds(kind, u.blobs)
      BY <1>3 DEF Holds
    <3> QED BY <3>1, <3>2, <3>3
  <2> QED BY <1>2, <1>3, <2>1, <2>2
<1>9. BatchInv(kind, u, phase, td)
  <2> SUFFICES ASSUME ~s.err PROVE MeansOps(kind, u.blobs, u.batch, td)
    BY <1>4 DEF BatchInv
  <2>1. MeansOps(kind, s.blobs, s.batch, todo)
    BY <1>1 DEF BatchInv
  <2>2. MeansOps(kind, u.blobs, s.batch, todo)
    BY <1>2, <1>3, <2>1, MeansOpsMore
  <2> QED BY <1>2, <1>3, <2>2, MeansOpsAppend
<1>10. CacheInv(kind, u, acked, td, db)
  <2> SUFFICES ASSUME kind \in Cached, NEW j \in Key \ db
               PROVE  /\ u.cache[j] \in {Nil, acked[j]}
                      /\ ~u.err /\ Positions(td, j) # {} => u.cache[j] = Nil
    BY DEF CacheInv
  <2>1. CASE j = k
    BY <1>2, <1>4, <2>1
  <2>2. CASE j # k
    <3>1. u.cache[j] = s.cache[j] /\ j \notin doubt
      BY <1>2, <1>4, <2>2
    <3>2. Positions(td, j) # {} => Positions(todo, j) # {}
      <4>1. OneMore(acked, todo, k, v, j)
        BY <1>2, ApplyMore DEF Op
      <4> QED BY <2>2, <4>1 DEF OneMore
    <3> QED BY <1>1, <1>4, <3>1, <3>2 DEF CacheInv
  <2> QED BY <2>1, <2>2
<1>11. EagerInv(kind, u, phase, acked, td, db, risk) /\ BadgerInv(kind, u, phase, acked, td, db, risk)
  BY <1>5 DEF EagerInv, BadgerInv
<1>12. ReadInv(kind, u, read)
  <2>1. Holds(kind, s.blobs) \subseteq Holds(kind, u.blobs)
    BY <1>3 DEF Holds
  <2> QED BY <1>1, <2>1 DEF ReadInv
<1> QED BY <1>6, <1>7, <1>8, <1>9, <1>10, <1>11, <1>12 DEF InvOf

(* An operation that ipfs loses: the error is kept. *)
LEMMA InvLoses ==
    ASSUME NEW k \in Key, NEW v \in Val, NEW u \in Rec, NEW td \in Seq(Op),
           Inv, phase = "open", kind = "ipfs", Loses(s, u)
    PROVE  InvOf(kind, u, read, phase, acked, td, doubt, risk)
<1>1. /\ Types(kind, s, read, phase, acked, todo, doubt, risk)
      /\ LocalInv(kind, s, acked) /\ HeldInv(kind, s) /\ ReadInv(kind, s, read)
      /\ CacheInv(kind, s, acked, todo, doubt)
  BY DEF Inv, InvOf
<1>2. u.local = s.local /\ u.blobs = s.blobs /\ u.err /\ u.batch = s.batch /\ u.cache = s.cache
  BY DEF Loses, SameStores
<1>3. Types(kind, u, read, phase, acked, td, doubt, risk)
  BY <1>1, <1>2 DEF Types, Keeps
<1>4. LocalInv(kind, u, acked) /\ HeldInv(kind, u) /\ BatchInv(kind, u, phase, td) /\ ReadInv(kind, u, read)
  BY <1>1, <1>2 DEF LocalInv, HeldInv, BatchInv, ReadInv
<1>5. CacheInv(kind, u, acked, td, doubt)
  BY <1>1, <1>2 DEF CacheInv
<1>6. EagerInv(kind, u, phase, acked, td, doubt, risk) /\ BadgerInv(kind, u, phase, acked, td, doubt, risk)
  BY DEF EagerInv, Eager, BadgerInv
<1> QED BY <1>3, <1>4, <1>5, <1>6 DEF InvOf

(* An operation of an eager driver is done, or the key is in doubt. *)
LEMMA InvEager ==
    ASSUME NEW k \in Key, NEW v \in Val, NEW out, NEW u \in Rec, NEW td \in Seq(Op), NEW db \in SUBSET Key,
           Inv, phase = "open", td = Append(todo, <<Slot(k), v>>),
           \/ kind = "oss" /\ OssAdds(s, u, k, v, out)
           \/ kind \in Direct /\ DirectAdds(s, u, k, v, out),
           db = IF out = "ok" THEN doubt \ {Slot(k)} ELSE doubt \cup {Slot(k)},
           NEW rk \in SUBSET Key, rk = risk \cup {Slot(k)}
    PROVE  InvOf(kind, u, read, phase, acked, td, db, rk)
<1>1. /\ Types(kind, s, read, phase, acked, todo, doubt, risk) /\ ReadInv(kind, s, read)
      /\ EagerInv(kind, s, phase, acked, todo, doubt, risk)
  BY DEF Inv, InvOf
<1>2. /\ kind \in Kinds /\ s \in Rec /\ todo \in Seq(Op) /\ acked \in [Key -> Val]
      /\ s.local \in [Key -> Stored] /\ s.remote \in [Key -> Val]
      /\ (s.err => kind \in Keeps) /\ (kind \in Direct => s.batch = <<>>)
  BY <1>1 DEF Types, Rec
<1>3. kind \in Eager /\ kind \notin Lazy /\ kind \notin Cached /\ kind # "ipfs" /\ kind # "badger"
  BY <1>2, KindFacts
<1>4. Slot(k) \in Key /\ (kind = "oss" => Slot(k) = k) /\ (kind \in Direct => kind # "oss")
  BY <1>2, DriversAssumption, KindFacts DEF Slot
<1>5. /\ u.err = s.err
      /\ kind \in Direct => u.batch = s.batch
      /\ kind = "oss" => u.batch = Append(s.batch, <<k, v>>)
  BY <1>4 DEF OssAdds, DirectAdds, SameRest, Queues
<1>6. \A j \in Key \ db :
          /\ u.remote[j] = IF j = Slot(k) THEN v ELSE s.remote[j]
          /\ kind = "oss" => u.local[j] = IF j = Slot(k) THEN v ELSE s.local[j]
  <2>1. CASE kind = "oss" /\ out = "ok"
    <3>1. u.remote = [s.remote EXCEPT ![k] = v] /\ u.local = [s.local EXCEPT ![k] = v]
      BY <1>4, <2>1 DEF OssAdds
    <3> QED BY <1>2, <1>4, <2>1, <3>1
  <2>2. CASE kind = "oss" /\ out # "ok"
    <3>1. u.remote = s.remote /\ u.local \in {s.local, [s.local EXCEPT ![k] = v]}
      BY <1>4, <2>2 DEF OssAdds
    <3>2. \A j \in Key \ db : j # k /\ j # Slot(k)
      BY <1>4, <2>2
    <3> QED BY <1>2, <2>2, <3>1, <3>2
  <2>3. CASE kind \in Direct
    <3>1. u.remote = IF out = "ok" THEN [s.remote EXCEPT ![Slot(k)] = v] ELSE s.remote
      BY <1>4, <2>3 DEF DirectAdds
    <3>2. out # "ok" => \A j \in Key \ db : j # Slot(k)
      OBVIOUS
    <3> QED BY <1>2, <1>4, <2>3, <3>1, <3>2
  <2> QED BY <2>1, <2>2, <2>3
<1>7. \A j \in Key : ApplyAll(acked, td)[j] = IF j = Slot(k) THEN v ELSE ApplyAll(acked, todo)[j]
  <2>1. ASSUME NEW j \in Key PROVE OneMore(acked, todo, Slot(k), v, j)
    BY <1>2, <1>4, ApplyMore DEF Op
  <2> QED BY <2>1 DEF OneMore
<1>8. \A j \in Key \ db : j # Slot(k) => j \notin doubt
  OBVIOUS
<1>71. \A j \in Key : Positions(td, j) # {} => j \in rk
  <2>1. ASSUME NEW j \in Key PROVE OneMore(acked, todo, Slot(k), v, j)
    BY <1>2, <1>4, ApplyMore DEF Op
  <2> QED BY <1>1, <1>3, <2>1 DEF OneMore, EagerInv
<1>9. Types(kind, u, read, phase, acked, td, db, rk)
  BY <1>1, <1>2, <1>3, <1>5 DEF Types
<1>10. EagerInv(kind, u, phase, acked, td, db, rk)
  <2>1. \A j \in Key \ db : u.remote[j] = ApplyAll(acked, td)[j]
    BY <1>1, <1>3, <1>6, <1>7, <1>8 DEF EagerInv
  <2>2. kind = "oss" => \A j \in Key \ db : u.local[j] = ApplyAll(acked, td)[j]
    BY <1>1, <1>3, <1>6, <1>7, <1>8 DEF EagerInv
  <2>3. kind = "oss" => u.batch = td
    BY <1>1, <1>3, <1>4, <1>5 DEF EagerInv
  <2> QED BY <1>71, <2>1, <2>2, <2>3 DEF EagerInv
<1>11. /\ LocalInv(kind, u, acked) /\ HeldInv(kind, u) /\ BatchInv(kind, u, phase, td)
       /\ CacheInv(kind, u, acked, td, db) /\ BadgerInv(kind, u, phase, acked, td, db, rk)
       /\ ReadInv(kind, u, read)
  BY <1>1, <1>3 DEF LocalInv, HeldInv, BatchInv, CacheInv, BadgerInv, ReadInv
<1> QED BY <1>9, <1>10, <1>11 DEF InvOf

(* An operation of badger is queued, begins a part, or is lost. *)
LEMMA InvBadger ==
    ASSUME NEW k \in Key, NEW v \in Val, NEW out, NEW u \in Rec, NEW td \in Seq(Op), NEW db \in SUBSET Key,
           Inv, phase = "open", kind = "badger", BadgerAdds(s, u, k, v, out), td = Append(todo, <<k, v>>),
           db = IF out \in {"ok", "full", "lost"} THEN doubt \ {k} ELSE doubt \cup {k},
           NEW rk \in SUBSET Key,
           rk = risk \cup (IF out \in {"full", "lost"} THEN Keys(s.batch) ELSE {})
                     \cup (IF u.err \/ k \in doubt THEN {k} ELSE {})
    PROVE  InvOf(kind, u, read, phase, acked, td, db, rk)
<1>1. /\ Types(kind, s, read, phase, acked, todo, doubt, risk) /\ ReadInv(kind, s, read)
      /\ HeldInv(kind, s) /\ BadgerInv(kind, s, phase, acked, todo, doubt, risk)
  BY DEF Inv, InvOf
<1>2. /\ s \in Rec /\ todo \in Seq(Op) /\ acked \in [Key -> Val] /\ s.local \in [Key -> Stored]
      /\ s.batch \in Seq(Key \X Stored) /\ s.err \in BOOLEAN /\ u.err \in BOOLEAN
  BY <1>1 DEF Types, Rec
<1>3. kind \in Lazy /\ kind \notin Cached /\ kind \notin Direct /\ kind \notin Eager /\ kind \in Keeps
  BY DEF Lazy, Cached, Direct, Eager, Keeps
<1>4. Types(kind, u, read, phase, acked, td, db, rk)
  BY <1>1, <1>3 DEF Types
<1> DEFINE one == <<<<k, v>>>>
<1>5. /\ one \in Seq(Key \X Stored) /\ DOMAIN one = 1..1 /\ one[1] = <<k, v>>
      /\ one = Append(<<>>, <<k, v>>)
  <2>1. <<k, v>> \in Key \X Stored
    BY StoredFacts
  <2> QED BY <2>1
<1>6. v \in Stored /\ v \in Holds(kind, u.blobs)
  BY StoredFacts DEF Holds
<1> HIDE DEF one
<1>7. /\ u.blobs = s.blobs
      /\ out = "ok" => u.local = s.local /\ u.err = s.err /\ u.batch = Append(s.batch, <<k, v>>)
      /\ out = "full" => u.local = ApplyAll(s.local, s.batch) /\ u.err = s.err /\ u.batch = one
      /\ out = "lost" => u.local = s.local /\ u.err = TRUE /\ u.batch = one
      /\ out \notin {"ok", "full", "lost"} => u = s
  BY DEF BadgerAdds, one
<1>8. HeldInv(kind, u)
  <2> SUFFICES ASSUME NEW i \in DOMAIN u.batch PROVE u.batch[i][2] \in Holds(kind, u.blobs)
    BY DEF HeldInv
  <2>1. CASE out = "ok"
    <3>1. u.batch = Append(s.batch, <<k, v>>)
      BY <1>7, <2>1
    <3>2. CASE i = Len(s.batch) + 1
      BY <1>2, <1>6, <3>1, <3>2
    <3>3. CASE i \in 1..Len(s.batch)
      <4>1. u.batch[i] = s.batch[i] /\ i \in DOMAIN s.batch
        BY <1>2, <3>1, <3>3
      <4> QED BY <1>1, <1>3, <1>7, <4>1 DEF HeldInv
    <3> QED BY <1>2, <3>1, <3>2, <3>3
  <2>2. CASE out \in {"full", "lost"}
    BY <1>5, <1>6, <1>7, <2>2
  <2>3. CASE out \notin {"ok", "full", "lost"}
    BY <1>1, <1>3, <1>7, <2>3 DEF HeldInv
  <2> QED BY <2>1, <2>2, <2>3
<1>9. \A j \in Key : /\ ApplyAll(acked, td)[j] = IF j = k THEN v ELSE ApplyAll(acked, todo)[j]
  <2>1. ASSUME NEW j \in Key PROVE OneMore(acked, todo, k, v, j)
    BY <1>2, ApplyMore DEF Op
  <2> QED BY <2>1 DEF OneMore
<1>10. ASSUME NEW j \in Key
       PROVE  /\ ApplyAll(s.local, Append(s.batch, <<k, v>>))[j]
                     = IF j = k THEN v ELSE ApplyAll(s.local, s.batch)[j]
              /\ Positions(Append(s.batch, <<k, v>>), j) # {} => j = k \/ Positions(s.batch, j) # {}
  <2>1. OneMore(s.local, s.batch, k, v, j)
    BY <1>2, <1>6, ApplyMore
  <2> QED BY <2>1 DEF OneMore
<1>11. ASSUME NEW j \in Key, NEW f
       PROVE  /\ ApplyAll(f, one)[j] = IF j = k THEN v ELSE f[j]
              /\ Positions(one, j) # {} => j = k
  <2> DEFINE e == <<>>
  <2>0. e \in Seq(Key \X Stored) /\ one = Append(e, <<k, v>>)
    BY <1>5
  <2>1. ApplyAll(f, e)[j] = f[j] /\ Positions(e, j) = {}
    BY ApplyNone DEF Positions
  <2> HIDE DEF e
  <2>2. OneMore(f, e, k, v, j)
    BY <1>6, <2>0, ApplyMore
  <2> QED BY <2>0, <2>1, <2>2 DEF OneMore
<1>12. \A j \in Key : Positions(s.batch, j) # {} <=> j \in Keys(s.batch)
  BY KeysFacts
<1>13. ASSUME NEW j \in Key \ (db \cup rk) PROVE u.local[j] = acked[j]
  <2>1. j \notin risk
    OBVIOUS
  <2>2. j \notin doubt
    OBVIOUS
  <2>3. s.local[j] = acked[j]
    BY <1>1, <2>1, <2>2 DEF BadgerInv
  <2>4. CASE out = "full"
    <3>1. j \notin Keys(s.batch)
      BY <2>4
    <3>2. LastWins(s.local, s.batch, j)
      BY <1>2, ApplyFacts
    <3> QED BY <1>7, <1>12, <2>3, <2>4, <3>1, <3>2 DEF LastWins
  <2>5. CASE out # "full"
    BY <1>7, <2>3, <2>5
  <2> QED BY <2>4, <2>5
<1>14. ASSUME NEW j \in Key \ db, u.err PROVE Positions(u.batch, j) # {} => j \in rk
  <2>0. k \in rk /\ risk \subseteq rk
    BY <1>14
  <2>1. CASE out = "ok"
    <3>1. s.err /\ u.batch = Append(s.batch, <<k, v>>)
      BY <1>7, <1>14, <2>1
    <3>2. j # k => j \notin doubt
      OBVIOUS
    <3>3. j # k /\ Positions(s.batch, j) # {} => j \in risk
      BY <1>1, <3>1, <3>2 DEF BadgerInv
    <3> QED BY <1>10, <2>0, <3>1, <3>3
  <2>2. CASE out \in {"full", "lost"}
    <3>1. u.batch = one
      BY <1>7, <2>2
    <3> QED BY <1>11, <2>0, <3>1
  <2>3. CASE out \notin {"ok", "full", "lost"}
    <3>1. u = s /\ j \notin doubt
      BY <1>7, <2>3
    <3> QED BY <1>1, <1>14, <2>0, <3>1 DEF BadgerInv
  <2> QED BY <2>1, <2>2, <2>3
<1>15. ASSUME NEW j \in Key \ db, ~u.err PROVE ApplyAll(u.local, u.batch)[j] = ApplyAll(acked, td)[j]
  <2>1. ~s.err
    BY <1>2, <1>7, <1>15
  <2>2. j # k => ApplyAll(s.local, s.batch)[j] = ApplyAll(acked, todo)[j]
    BY <1>1, <2>1 DEF BadgerInv
  <2>3. CASE out = "ok"
    BY <1>7, <1>9, <1>10, <2>2, <2>3
  <2>4. CASE out = "full"
    <3>1. u.local = ApplyAll(s.local, s.batch) /\ u.batch = one
      BY <1>7, <2>4
    <3>2. ApplyAll(u.local, one)[j] = IF j = k THEN v ELSE u.local[j]
      BY <1>11
    <3> QED BY <1>9, <2>2, <3>1, <3>2
  <2>5. CASE out \notin {"ok", "full", "lost"}
    <3>1. u = s /\ j # k
      BY <1>7, <2>5
    <3> QED BY <1>9, <2>2, <3>1
  <2>6. out # "lost"
    BY <1>7, <1>15
  <2> QED BY <2>3, <2>4, <2>5, <2>6
<1>16. BadgerInv(kind, u, phase, acked, td, db, rk)
  BY <1>13, <1>14, <1>15 DEF BadgerInv
<1>17. /\ LocalInv(kind, u, acked) /\ BatchInv(kind, u, phase, td) /\ CacheInv(kind, u, acked, td, db)
       /\ EagerInv(kind, u, phase, acked, td, db, rk) /\ ReadInv(kind, u, read)
  BY <1>1, <1>3, <1>7 DEF LocalInv, BatchInv, CacheInv, EagerInv, ReadInv
<1> QED BY <1>4, <1>8, <1>16, <1>17 DEF InvOf

(* An operation of any driver. *)
LEMMA InvAddOp ==
    ASSUME NEW k \in Key, NEW v \in Val, NEW out, Inv, AddsTo(k, v, out)
    PROVE  Inv'
<1>2. /\ phase = "open" /\ kind' = kind /\ phase' = phase /\ acked' = acked /\ read' = read
      /\ s' = BatchAdd(s, k, v, out) /\ todo' = Append(todo, <<Slot(k), v>>)
      /\ doubt' = IF Taken(out) THEN doubt \ {Slot(k)}
                  ELSE IF kind \in Cached THEN doubt ELSE doubt \cup {Slot(k)}
      /\ out \in {"full", "lost"} => kind = "badger"
  BY DEF AddsTo
<1> DEFINE u == s'  td == todo'  db == doubt'  rk == risk'
<1>21. rk = risk \cup (IF out \in {"full", "lost"} THEN Keys(s.batch) ELSE {})
                 \cup (IF \/ kind \in Eager
                          \/ kind = "badger" /\ (u.err \/ k \in doubt)
                       THEN {Slot(k)} ELSE {})
  BY DEF AddsTo
<1>3. /\ kind \in Kinds /\ s \in Rec /\ todo \in Seq(Op) /\ doubt \in SUBSET Key /\ risk \in SUBSET Key
      /\ s.batch \in Seq(Key \X Stored)
  BY DEF Inv, InvOf, Types, Rec
<1>4. Slot(k) \in Key /\ (kind \in Lazy => Slot(k) = k)
  BY <1>3, DriversAssumption, KindFacts DEF Slot
<1>41. Keys(s.batch) \subseteq Key
  <2>1. \A i \in DOMAIN s.batch : s.batch[i][1] \in Key
    BY <1>3
  <2> QED BY <2>1 DEF Keys
<1>5. td \in Seq(Op) /\ db \in SUBSET Key
  BY <1>2, <1>3, <1>4 DEF Op
<1>51. Adds(s, u, k, v, out)
  BY <1>2, <1>3, AddFacts
<1>52. td = Append(todo, <<Slot(k), v>>)
  BY <1>2
<1>53. db = IF Taken(out) THEN doubt \ {Slot(k)}
            ELSE IF kind \in Cached THEN doubt ELSE doubt \cup {Slot(k)}
  BY <1>2
<1> HIDE DEF u, td, db, rk
<1>6. rk \in SUBSET Key
  BY <1>21, <1>3, <1>4, <1>41
<1>7. u \in Rec
  BY <1>51 DEF Adds
<1> SUFFICES InvOf(kind, u, read, phase, acked, td, db, rk)
  BY <1>2 DEF Inv, u, td, db, rk
<1>8. CASE kind \in Cached /\ LazyAdds(s, u, k, v)
  <2>0. kind \in Lazy /\ kind \notin Eager /\ kind # "badger"
    BY <1>3, <1>8, KindFacts
  <2>1. td = Append(todo, <<k, v>>) /\ db \in {doubt, doubt \ {k}}
    BY <1>4, <1>8, <1>52, <1>53, <2>0
  <2>2. rk = risk
    BY <1>2, <1>21, <2>0
  <2> QED BY <1>2, <1>5, <1>7, <1>8, <2>1, <2>2, InvQueues
<1>9. CASE kind = "ipfs" /\ out # "ok" /\ v # Nil /\ Loses(s, u)
  <2>1. db = doubt
    BY <1>9, <1>53 DEF Taken, Cached
  <2>2. rk = risk
    BY <1>2, <1>9, <1>21 DEF Eager
  <2> QED BY <1>2, <1>5, <1>7, <1>9, <2>1, <2>2, InvLoses
<1>10. CASE \/ kind = "oss" /\ OssAdds(s, u, k, v, out)
            \/ kind \in Direct /\ DirectAdds(s, u, k, v, out)
  <2>0. kind \in Eager /\ kind \notin Cached /\ kind # "badger"
    BY <1>10 DEF Eager, Direct, Cached
  <2>2. db = IF out = "ok" THEN doubt \ {Slot(k)} ELSE doubt \cup {Slot(k)}
    BY <1>53, <2>0 DEF Taken
  <2>3. rk = risk \cup {Slot(k)}
    BY <1>2, <1>21, <2>0
  <2> QED BY <1>2, <1>5, <1>6, <1>7, <1>10, <1>52, <2>2, <2>3, InvEager
<1>11. CASE kind = "badger" /\ BadgerAdds(s, u, k, v, out)
  <2>0. kind \notin Eager /\ kind \notin Cached /\ Slot(k) = k
    BY <1>4, <1>11 DEF Eager, Cached, Lazy
  <2>1. db = IF out \in {"ok", "full", "lost"} THEN doubt \ {k} ELSE doubt \cup {k}
    BY <1>11, <1>53, <2>0 DEF Taken
  <2>2. rk = risk \cup (IF out \in {"full", "lost"} THEN Keys(s.batch) ELSE {})
                  \cup (IF u.err \/ k \in doubt THEN {k} ELSE {})
    BY <1>11, <1>21, <2>0
  <2>3. td = Append(todo, <<k, v>>)
    BY <1>52, <2>0
  <2> QED BY <1>2, <1>5, <1>6, <1>7, <1>11, <2>1, <2>2, <2>3, InvBadger
<1> QED BY <1>51, <1>8, <1>9, <1>10, <1>11 DEF Adds

(* AddOp is such an operation. *)
LEMMA AddOpAdds ==
    ASSUME NEW k \in Key, NEW v \in Val, NEW out \in Outcomes, AddOp(k, v, out)
    PROVE  AddsTo(k, v, out)
<1>1. out \in {"full", "lost"} => kind = "badger"
  BY DEF AddOp, Possible, Fault
<1> QED BY <1>1, Zenon DEF AddOp, AddsTo

(* Every step keeps the invariant. *)
LEMMA InvStep == Inv /\ [Next]_vars => Inv'
<1>1. CASE UNCHANGED vars
  BY <1>1 DEF vars, Inv
<1>2. ASSUME Inv, NEW r \in Reader, (\E k \in Key : ReadLevel(r, k)) \/ ReadFails(r) PROVE Inv'
  BY <1>2, InvReader
<1>3. ASSUME Inv, NEW k \in Key, NEW v \in Value \cup {Nil}, NEW out \in Outcomes, AddOp(k, v, out) PROVE Inv'
  BY <1>3, AddOpAdds, InvAddOp DEF Val
<1>4. ASSUME Inv, NEW r \in Reader, ReadFill(r) PROVE Inv'
  BY <1>4, InvReadFill
<1>5. ASSUME Inv, NEW k \in Key, ReadBroken(k) PROVE Inv'
  BY <1>5, InvReadBroken
<1> QED BY <1>1, <1>2, <1>3, <1>4, <1>5, InvLock, InvCommitOk, InvCommitFails, InvUnlock, InvRestart,
           InvReadS3 DEF Next

(* The invariant the other theorems rest on: types, and how the fields of   *)
(* the drivers, the open batch and what clients know are related.          *)
THEOREM Invariant == Spec => []Inv
<1> QED BY InvInit, InvStep, PTL DEF Spec

(* AckedVisible of every driver: between commands a read returns, and an    *)
(* iterator lists, what the last command answered with success has written, *)
(* except for the keys in doubt; a read that fails is an error, or in oss   *)
(* and hybriddb a missing key (badger/db.go, hybriddb/db.go, ipfs/db.go,    *)
(* oss/db.go, crdt/db.go and ipfs-log/db.go: Get, Put and Delete; the      *)
(* Commit and Rollback of their batches).                                  *)
THEOREM Visible == Spec => []AckedVisible
<1>1. Inv => AckedVisible
  <2> SUFFICES ASSUME Inv, phase = "idle", NEW k \in Key, Slot(k) \notin doubt
               PROVE  /\ Slot(k) \in Listed(s) <=> acked[Slot(k)] # Nil
                      /\ Get(s, k, "ok") = acked[Slot(k)]
                      /\ Get(s, k, "unreachable")
                            \in {acked[Slot(k)], IF kind \in {"oss", "hybriddb"} THEN Nil ELSE Failure}
    BY DEF AckedVisible
  <2>1. /\ Types(kind, s, read, phase, acked, todo, doubt, risk) /\ LocalInv(kind, s, acked)
        /\ CacheInv(kind, s, acked, todo, doubt) /\ EagerInv(kind, s, phase, acked, todo, doubt, risk)
        /\ BadgerInv(kind, s, phase, acked, todo, doubt, risk)
    BY DEF Inv, InvOf
  <2>2. /\ kind \in Kinds /\ s \in Rec /\ todo = <<>> /\ risk = {} /\ s.blobs \in SUBSET Value
        /\ acked \in [Key -> Val]
    BY <2>1 DEF Types, Rec
  <2>3. Slot(k) \in Key /\ (kind \in Lazy => Slot(k) = k)
    BY <2>2, DriversAssumption, KindFacts DEF Slot
  <2>4. CASE kind = "badger"
    <3>0. Slot(k) = k
      BY <2>3, <2>4 DEF Lazy
    <3>1. s.local[k] = acked[k]
      BY <2>1, <2>2, <2>4, <3>0 DEF BadgerInv
    <3>2. k \in Listed(s) <=> s.local[k] # Nil
      BY <2>4 DEF Listed
    <3>3. Get(s, k, "ok") = s.local[k] /\ Get(s, k, "unreachable") = Failure
      BY <2>4 DEF Get, BadgerGet
    <3> QED BY <2>4, <3>0, <3>1, <3>2, <3>3
  <2>5. CASE kind \in Cached
    <3>0. Slot(k) = k
      BY <2>3, <2>5 DEF Lazy, Cached
    <3>1. s.cache[k] \in {Nil, acked[k]}
      BY <2>1, <2>5, <3>0 DEF CacheInv
    <3>2. Means(kind, s.blobs, s.local[k], acked[k])
      BY <2>1, <2>5 DEF LocalInv
    <3>3. acked[k] \in Val /\ (acked[k] = Nil <=> s.local[k] = Nil)
      BY <2>2, <3>2, MeansValue
    <3>4. acked[k] # NoBytes
      BY <3>3, DriversAssumption DEF Val
    <3>5. k \in Listed(s) <=> s.local[k] # Nil
      BY <2>5 DEF Listed, Cached
    <3>6. s.cache[k] # Nil => Bytes(s.cache[k]) = acked[k]
      BY <3>1, <3>4 DEF Bytes
    <3>7. CASE kind = "hybriddb"
      <4>1. s.local[k] = acked[k]
        BY <3>2, <3>7 DEF Means, Plain
      <4>2. /\ Get(s, k, "ok") = IF s.cache[k] # Nil THEN Bytes(s.cache[k]) ELSE s.local[k]
            /\ Get(s, k, "unreachable") = IF s.cache[k] # Nil THEN Bytes(s.cache[k]) ELSE Nil
        BY <3>7 DEF Get, HybridGet
      <4> QED BY <3>0, <3>3, <3>5, <3>6, <3>7, <4>1, <4>2
    <3>8. CASE kind = "ipfs"
      <4>1. s.local[k] # Nil => Cat(s, s.local[k]) = acked[k]
        BY <3>2, <3>8 DEF Means, Plain, Content, Cat
      <4>2. /\ Get(s, k, "ok") = IF s.cache[k] # Nil THEN Bytes(s.cache[k])
                                 ELSE IF s.local[k] = Nil THEN Nil ELSE Cat(s, s.local[k])
            /\ Get(s, k, "unreachable") = IF s.cache[k] # Nil THEN Bytes(s.cache[k])
                                          ELSE IF s.local[k] = Nil THEN Nil ELSE Failure
        BY <3>8 DEF Get, IpfsGet
      <4> QED BY <3>0, <3>3, <3>5, <3>6, <3>8, <4>1, <4>2
    <3> QED BY <2>5, <3>7, <3>8 DEF Cached
  <2>6. CASE kind \in Eager
    <3>1. ApplyAll(acked, todo)[Slot(k)] = acked[Slot(k)]
      BY <2>2, <2>3, ApplyNone
    <3>2. /\ s.remote[Slot(k)] = acked[Slot(k)]
          /\ kind = "oss" => s.local[Slot(k)] = acked[Slot(k)]
      BY <2>1, <2>3, <2>6, <3>1 DEF EagerInv
    <3>3. /\ Get(s, k, "ok") = s.remote[Slot(k)]
          /\ Get(s, k, "unreachable") = IF kind = "oss" THEN Nil ELSE Failure
      <4>1. CASE kind = "oss"
        <5>1. Get(s, k, "ok") = NewClient(s, "ok").remote[k] /\ Get(s, k, "unreachable") = Nil
          BY <4>1 DEF Get, OssGet, S3Get, ClientGet
        <5>2. NewClient(s, "ok").remote = s.remote
          BY <2>2, BucketFacts DEF SameStores
        <5> QED BY <4>1, <5>1, <5>2 DEF Slot
      <4>2. CASE kind = "crdt"
        BY <4>2 DEF Get, CrdtGet, Slot
      <4>3. CASE kind = "ipfs-log"
        BY <4>3 DEF Get, IpfsLogGet, Slot
      <4> QED BY <2>6, <4>1, <4>2, <4>3 DEF Eager
    <3>4. Slot(k) \in Listed(s) <=> (IF kind = "oss" THEN s.local[Slot(k)] ELSE s.remote[Slot(k)]) # Nil
      BY <2>3, <2>6 DEF Listed, Eager
    <3>5. kind # "hybriddb"
      BY <2>6 DEF Eager
    <3> QED BY <3>2, <3>3, <3>4, <3>5
  <2> QED BY <2>2, <2>4, <2>5, <2>6, KindFacts
<1> QED BY <1>1, Invariant, PTL

-----------------------------------------------------------------------------
(* Every driver implements BatchStore. *)

\* The refinement mapping of Drivers, as functions of the driver's state.
Dec(kd, B, op) == IF kd = "ipfs" /\ op[2] # Nil THEN <<op[1], Content(B, op[2])>> ELSE op
StoreOf(kd, t) ==
    CASE kd = "ipfs" -> [k \in Key |-> IF t.local[k] = Nil THEN Nil
                                       ELSE Content(t.blobs, t.local[k])]
      [] kd \in {"badger", "hybriddb"} -> t.local
      [] OTHER -> t.remote
DecAll(kd, t) == [i \in DOMAIN t.batch |-> Dec(kd, t.blobs, t.batch[i])]
PendingOf(kd, t, ph) ==
    IF ph # "open" THEN Nil ELSE IF kd \in Eager THEN <<>> ELSE DecAll(kd, t)
BrokenOf(t, ph) == ph = "open" /\ t.err
ModeOf(kd) == IF kd \in Eager THEN "eager" ELSE IF kd = "badger" THEN "parts" ELSE "whole"

\* The steps of BatchStore.
Locks(st, pe, st1, pe1, br1) == pe = Nil /\ pe1 = <<>> /\ br1 \in BOOLEAN /\ st1 = st
Puts(m, st, pe, br, st1, pe1, br1) ==
    \E k \in Key, v \in Val :
        /\ pe # Nil /\ br1 = br
        /\ \/ m # "eager" /\ pe1 = Append(pe, <<k, v>>) /\ st1 = st
           \/ m = "eager" /\ st1 = [st EXCEPT ![k] = v] /\ pe1 = pe
Parts(m, st, pe, br, st1, pe1, br1) ==
    \E k \in Key, v \in Val :
        /\ pe # Nil /\ m = "parts" /\ pe1 = <<<<k, v>>>>
        /\ \/ st1 = ApplyAll(st, pe) /\ br1 = br
           \/ br1 = TRUE /\ st1 = st
Drops(st, pe, st1, pe1, br1) == pe # Nil /\ br1 = TRUE /\ st1 = st /\ pe1 = pe
Writes(st, pe, br, st1, pe1, br1) ==
    pe # Nil /\ ~br /\ st1 = ApplyAll(st, pe) /\ pe1 = Nil /\ br1 = br
Discards(m, st, pe, br, st1, pe1, br1) ==
    /\ pe # Nil /\ pe1 = Nil /\ br1 = FALSE
    /\ st1 = st \/ (m = "parts" /\ br /\ st1 = ApplyAll(st, pe))

AbsStep(m, st, pe, br, st1, pe1, br1) ==
    \/ Locks(st, pe, st1, pe1, br1) \/ Puts(m, st, pe, br, st1, pe1, br1)
    \/ Parts(m, st, pe, br, st1, pe1, br1)
    \/ Drops(st, pe, st1, pe1, br1) \/ Writes(st, pe, br, st1, pe1, br1)
    \/ Discards(m, st, pe, br, st1, pe1, br1)
    \/ st1 = st /\ pe1 = pe /\ br1 = br

\* A step of the driver is one of these.
Implements(t, ph) ==
    AbsStep(ModeOf(kind), StoreOf(kind, s), PendingOf(kind, s, phase), BrokenOf(s, phase),
            StoreOf(kind, t), PendingOf(kind, t, ph), BrokenOf(t, ph))

(* The mapping is that of Drivers, before and after a step. *)
LEMMA MappingFacts ==
    /\ Contents(s) = StoreOf(kind, s)
    /\ (Contents(s))' = StoreOf(kind', s')
    /\ [i \in DOMAIN s.batch |-> Decoded(s.batch[i])] = DecAll(kind, s)
    /\ ([i \in DOMAIN s.batch |-> Decoded(s.batch[i])])' = DecAll(kind', s')
<1>1. Contents(s) = StoreOf(kind, s)
  BY DEF Contents, StoreOf, Cat, Content
<1>2. (Contents(s))' = StoreOf(kind', s')
  BY DEF Contents, StoreOf, Cat, Content
<1>3. \A op : Decoded(op) = Dec(kind, s.blobs, op)
  BY DEF Decoded, Dec, Cat, Content
<1>4. ([i \in DOMAIN s.batch |-> Decoded(s.batch[i])])' = DecAll(kind', s')
  BY DEF Decoded, Dec, Cat, Content, DecAll
<1> QED BY <1>1, <1>2, <1>3, <1>4 DEF DecAll

(* A step of the mapped variables is a step of BatchStore. *)
LEMMA AbsSteps ==
    ASSUME kind' = kind, Implements(s', phase')
    PROVE  [Batches!Next]_Batches!vars
<1> DEFINE m == IF kind \in Eager THEN "eager" ELSE IF kind = "badger" THEN "parts" ELSE "whole"
           st == Contents(s)
           pe == IF phase # "open" THEN Nil ELSE IF kind \in Eager THEN <<>>
                 ELSE [i \in DOMAIN s.batch |-> Decoded(s.batch[i])]
           br == phase = "open" /\ s.err
<1>1. AbsStep(m, st, pe, br, st', pe', br')
  BY MappingFacts DEF Implements, PendingOf, BrokenOf, ModeOf
<1>2. m' = m
  OBVIOUS
<1>3. ASSUME Locks(st, pe, st', pe', br') PROVE Batches!Lock
  BY <1>2, <1>3, Zenon DEF Locks, Batches!Lock
<1>4. ASSUME Puts(m, st, pe, br, st', pe', br') PROVE \E k \in Key, v \in Value \cup {Nil} : Batches!Add(k, v)
  BY <1>2, <1>4, Zenon DEF Puts, Batches!Add, Batches!Apply, Val
<1>41. ASSUME Parts(m, st, pe, br, st', pe', br') PROVE \E k \in Key, v \in Value \cup {Nil} : Batches!Part(k, v)
  BY <1>2, <1>41, Zenon DEF Parts, Batches!Part, Batches!ApplyAll, ApplyAll, Batches!Max, Max, Val
<1>5. ASSUME Drops(st, pe, st', pe', br') PROVE Batches!Lose
  BY <1>2, <1>5, Zenon DEF Drops, Batches!Lose
<1>6. ASSUME Writes(st, pe, br, st', pe', br') PROVE Batches!Commit
  BY <1>2, <1>6, Zenon DEF Writes, Batches!Commit, Batches!ApplyAll, ApplyAll, Batches!Max, Max
<1>7. ASSUME Discards(m, st, pe, br, st', pe', br') PROVE Batches!Discard
  BY <1>2, <1>7, Zenon DEF Discards, Batches!Discard, Batches!ApplyAll, ApplyAll, Batches!Max, Max
<1>8. ASSUME st' = st, pe' = pe, br' = br PROVE UNCHANGED Batches!vars
  BY <1>2, <1>8, Zenon DEF Batches!vars
<1> QED BY <1>1, <1>3, <1>4, <1>41, <1>5, <1>6, <1>7, <1>8, Zenon DEF AbsStep, Batches!Next

(* Readers of LevelDB see what clients know. *)
LEMMA LazyStore ==
    ASSUME NEW kd \in Cached, NEW t \in Rec, NEW ack \in [Key -> Val], LocalInv(kd, t, ack)
    PROVE  StoreOf(kd, t) = ack
<1>1. \A k \in Key : Means(kd, t.blobs, t.local[k], ack[k])
  BY DEF LocalInv
<1>2. CASE kd = "ipfs"
  <2>1. StoreOf(kd, t) = [k \in Key |-> IF t.local[k] = Nil THEN Nil
                                        ELSE Content(t.blobs, t.local[k])]
    BY <1>2 DEF StoreOf
  <2>2. \A k \in Key : ack[k] = IF t.local[k] = Nil THEN Nil
                                ELSE Content(t.blobs, t.local[k])
    BY <1>1, <1>2 DEF Means, Plain
  <2> QED BY <2>1, <2>2
<1>3. CASE kd # "ipfs"
  <2>1. StoreOf(kd, t) = t.local
    BY <1>3 DEF StoreOf, Cached
  <2>2. \A k \in Key : t.local[k] = ack[k]
    BY <1>1, <1>3 DEF Means, Plain
  <2> QED BY <2>1, <2>2 DEF Rec
<1> QED BY <1>2, <1>3

(* A queued operation, and what further contents do to it. *)
LEMMA DecFacts ==
    ASSUME NEW kd, NEW C \in SUBSET Value, NEW B \in SUBSET C, NEW k \in Key, NEW x \in Holds(kd, B)
    PROVE  /\ Dec(kd, B, <<k, x>>) = <<k, Plain(kd, B, x)>>
           /\ Dec(kd, C, <<k, x>>) = Dec(kd, B, <<k, x>>)
           /\ Dec(kd, B, <<k, x>>) \in Op
<1>1. Means(kd, B, x, Plain(kd, B, x))
  BY DEF Means
<1>2. Means(kd, C, x, Plain(kd, B, x))
  BY <1>1, MeansMore
<1>3. Plain(kd, B, x) \in Val
  BY <1>1, MeansValue
<1>4. Dec(kd, B, <<k, x>>) = <<k, Plain(kd, B, x)>> /\ Dec(kd, C, <<k, x>>) = <<k, Plain(kd, C, x)>>
  BY DEF Dec, Plain
<1> QED BY <1>2, <1>3, <1>4 DEF Means, Op

(* The operations that are queued. *)
LEMMA DecAllFacts ==
    ASSUME NEW kd \in Lazy, NEW t \in Rec, HeldInv(kd, t)
    PROVE  DecAll(kd, t) \in Seq(Op) /\ Len(DecAll(kd, t)) = Len(t.batch)
<1>1. t.batch \in Seq(Key \X Stored) /\ t.blobs \in SUBSET Value
  BY DEF Rec
<1> DEFINE n == Len(t.batch)
<1>2. n \in Nat /\ DOMAIN t.batch = 1..n
  BY <1>1
<1> HIDE DEF n
<1>3. ASSUME NEW i \in 1..n PROVE Dec(kd, t.blobs, t.batch[i]) \in Op
  <2>1. t.batch[i] \in Key \X Stored
    BY <1>1, <1>2
  <2>2. t.batch[i] = <<t.batch[i][1], t.batch[i][2]>> /\ t.batch[i][1] \in Key
    BY <2>1
  <2>3. t.batch[i][2] \in Holds(kd, t.blobs)
    BY <1>2 DEF HeldInv
  <2>4. Dec(kd, t.blobs, <<t.batch[i][1], t.batch[i][2]>>) \in Op
    BY <1>1, <2>2, <2>3, DecFacts
  <2> QED BY <2>2, <2>4
<1>4. DecAll(kd, t) = [i \in 1..n |-> Dec(kd, t.blobs, t.batch[i])]
  BY <1>2 DEF DecAll
<1> QED BY <1>2, <1>3, <1>4 DEF n

(* Two sequences with the same elements. *)
LEMMA SameSeq ==
    ASSUME NEW S, NEW b \in Seq(S), NEW c \in Seq(S), Len(b) = Len(c), \A i \in 1..Len(b) : b[i] = c[i]
    PROVE  b = c
<1>1. b = [i \in 1..Len(b) |-> b[i]] /\ c = [i \in 1..Len(c) |-> c[i]]
  OBVIOUS
<1> QED BY <1>1

(* An operation that is queued is the last of the pending ones. *)
LEMMA DecAllAppend ==
    ASSUME NEW t \in Rec, NEW u \in Rec, NEW k \in Key, NEW v \in Val, kind \in Lazy,
           HeldInv(kind, t), HeldInv(kind, u), LazyAdds(t, u, k, v)
    PROVE  DecAll(kind, u) = Append(DecAll(kind, t), <<k, v>>)
<1>1. /\ t.batch \in Seq(Key \X Stored) /\ t.blobs \in SUBSET Value
      /\ u.batch \in Seq(Key \X Stored) /\ u.blobs \in SUBSET Value
  BY DEF Rec
<1>2. PICK x \in Stored : /\ u.batch = Append(t.batch, <<k, x>>) /\ Means(kind, u.blobs, x, v)
                          /\ t.blobs \subseteq u.blobs
  <2>1. CASE (kind # "ipfs" \/ v = Nil) /\ Queues(t, u, k, v) /\ u.blobs = t.blobs
    BY <1>1, <2>1, MeansFacts, StoredFacts DEF Queues
  <2>2. CASE kind = "ipfs" /\ v \in Value /\ Queues(t, u, k, Cid(v)) /\ u.blobs = t.blobs \cup {v}
    BY <1>1, <2>2, MeansFacts, StoredFacts DEF Queues
  <2> QED BY <2>1, <2>2 DEF LazyAdds
<1> DEFINE n == Len(t.batch)  d == DecAll(kind, t)  c == DecAll(kind, u)  a == Append(d, <<k, v>>)
<1>3. /\ n \in Nat /\ DOMAIN t.batch = 1..n /\ DOMAIN u.batch = 1..(n + 1) /\ Len(u.batch) = n + 1
      /\ u.batch[n + 1] = <<k, x>> /\ \A i \in 1..n : u.batch[i] = t.batch[i]
  BY <1>1, <1>2
<1>4. d \in Seq(Op) /\ Len(d) = n /\ c \in Seq(Op) /\ Len(c) = n + 1
  BY <1>3, DecAllFacts
<1>5. <<k, v>> \in Op
  BY DEF Op
<1> HIDE DEF n, d, c
<1>6. a \in Seq(Op) /\ Len(a) = n + 1 /\ a[n + 1] = <<k, v>> /\ \A i \in 1..n : a[i] = d[i]
  BY <1>3, <1>4, <1>5
<1> HIDE DEF a
<1>7. ASSUME NEW i \in 1..(n + 1) PROVE c[i] = a[i]
  <2>1. c[i] = Dec(kind, u.blobs, u.batch[i])
    BY <1>3 DEF c, DecAll
  <2>2. CASE i = n + 1
    <3>1. x \in Holds(kind, u.blobs) /\ Plain(kind, u.blobs, x) = v
      BY <1>2 DEF Means
    <3>2. Dec(kind, u.blobs, <<k, x>>) = <<k, Plain(kind, u.blobs, x)>>
      BY <1>1, <3>1, DecFacts
    <3> QED BY <1>3, <1>6, <2>1, <2>2, <3>1, <3>2
  <2>3. CASE i \in 1..n
    <3>1. d[i] = Dec(kind, t.blobs, t.batch[i])
      BY <1>3, <2>3 DEF d, DecAll
    <3>2. t.batch[i] = <<t.batch[i][1], t.batch[i][2]>> /\ t.batch[i][1] \in Key
      <4>1. t.batch[i] \in Key \X Stored
        BY <1>1, <1>3, <2>3
      <4> QED BY <4>1
    <3>3. t.batch[i][2] \in Holds(kind, t.blobs)
      BY <1>3, <2>3 DEF HeldInv
    <3>4. /\ Dec(kind, u.blobs, <<t.batch[i][1], t.batch[i][2]>>)
               = Dec(kind, t.blobs, <<t.batch[i][1], t.batch[i][2]>>)
      BY <1>1, <1>2, <3>2, <3>3, DecFacts
    <3> QED BY <1>3, <1>6, <2>1, <2>3, <3>1, <3>2, <3>4
  <2> QED BY <1>3, <2>2, <2>3
<1>8. c = a
  BY <1>4, <1>6, <1>7, SameSeq
<1> QED BY <1>8 DEF c, a, d

(* The pending operations of a batch without error are those of the command. *)
LEMMA DecAllTodo ==
    ASSUME NEW kd \in Lazy, NEW t \in Rec, NEW td \in Seq(Op), HeldInv(kd, t),
           MeansOps(kd, t.blobs, t.batch, td)
    PROVE  DecAll(kd, t) = td
<1> DEFINE d == DecAll(kd, t)
<1>1. d \in Seq(Op) /\ Len(d) = Len(td)
  BY DecAllFacts DEF MeansOps
<1>2. ASSUME NEW i \in 1..Len(td) PROVE d[i] = td[i]
  <2>1. t.batch \in Seq(Key \X Stored) /\ t.blobs \in SUBSET Value /\ Len(t.batch) = Len(td)
    BY DEF Rec, MeansOps
  <2>2. DOMAIN t.batch = 1..Len(td) /\ t.batch[i] \in Key \X Stored
    BY <2>1
  <2>3. t.batch[i] = <<t.batch[i][1], t.batch[i][2]>> /\ t.batch[i][1] \in Key
    BY <2>2
  <2>4. t.batch[i][1] = td[i][1] /\ Means(kd, t.blobs, t.batch[i][2], td[i][2])
    BY DEF MeansOps
  <2>5. t.batch[i][2] \in Holds(kd, t.blobs) /\ Plain(kd, t.blobs, t.batch[i][2]) = td[i][2]
    BY <2>4 DEF Means
  <2>6. Dec(kd, t.blobs, <<t.batch[i][1], t.batch[i][2]>>)
          = <<t.batch[i][1], Plain(kd, t.blobs, t.batch[i][2])>>
    BY <2>1, <2>3, <2>5, DecFacts
  <2>7. d[i] = Dec(kd, t.blobs, t.batch[i])
    BY <2>2 DEF DecAll
  <2>8. td[i] = <<td[i][1], td[i][2]>>
    BY DEF Op
  <2> QED BY <2>3, <2>4, <2>5, <2>6, <2>7, <2>8
<1> HIDE DEF d
<1>3. d = td
  BY <1>1, <1>2, SameSeq
<1> QED BY <1>3 DEF d

(* badger queues the values themselves. *)
LEMMA DecAllBadger ==
    ASSUME NEW t \in Rec
    PROVE  DecAll("badger", t) = t.batch
<1>1. t.batch \in Seq(Key \X Stored)
  BY DEF Rec
<1>2. t.batch = [i \in DOMAIN t.batch |-> t.batch[i]]
  BY <1>1
<1>3. \A i \in DOMAIN t.batch : Dec("badger", t.blobs, t.batch[i]) = t.batch[i]
  BY DEF Dec
<1>4. DecAll("badger", t) = [i \in DOMAIN t.batch |-> t.batch[i]]
  BY <1>3 DEF DecAll
<1> QED BY <1>2, <1>4

(* The pending operations of an open batch are not Nil. *)
LEMMA OpenPending ==
    ASSUME Inv, phase = "open"
    PROVE  PendingOf(kind, s, phase) # Nil
<1>1. kind \in Kinds /\ s \in Rec /\ HeldInv(kind, s)
  BY DEF Inv, InvOf, Types
<1>2. PendingOf(kind, s, phase) \in Seq(Op)
  <2>1. CASE kind \in Eager
    BY <2>1 DEF PendingOf
  <2>2. CASE kind \in Lazy
    BY <1>1, <2>2, DecAllFacts, KindFacts DEF PendingOf
  <2> QED BY <1>1, <2>1, <2>2, KindFacts
<1> QED BY <1>2, DriversAssumption DEF Op, Val

(* A batch that is given up is discarded; what readers see stays. *)
LEMMA GivesUpImplements ==
    ASSUME Inv, NEW u, GivesUp(s, u), u.local = s.local, NEW ph \in {"idle", "committed"}
    PROVE  Implements(u, ph)
<1>1. StoreOf(kind, u) = StoreOf(kind, s)
  BY DEF GivesUp, StoreOf
<1>2. PendingOf(kind, u, ph) = Nil /\ BrokenOf(u, ph) = FALSE
  BY DEF PendingOf, BrokenOf
<1>3. CASE phase = "open"
  <2>1. PendingOf(kind, s, phase) # Nil
    BY <1>3, OpenPending
  <2>2. Discards(ModeOf(kind), StoreOf(kind, s), PendingOf(kind, s, phase), BrokenOf(s, phase),
                 StoreOf(kind, u), PendingOf(kind, u, ph), BrokenOf(u, ph))
    BY <1>1, <1>2, <2>1 DEF Discards
  <2> QED BY <2>2, Zenon DEF Implements, AbsStep
<1>4. CASE phase # "open"
  <2>1. PendingOf(kind, s, phase) = Nil /\ BrokenOf(s, phase) = FALSE
    BY <1>4 DEF PendingOf, BrokenOf
  <2> QED BY <1>1, <1>2, <2>1, Zenon DEF Implements, AbsStep
<1> QED BY <1>3, <1>4

(* A commit that fails, a rollback and a restart discard the batch. *)
LEMMA FailsImplements == Inv /\ CommitFails => Implements(s', phase')
<1> SUFFICES ASSUME Inv, CommitFails PROVE Implements(s', phase')
  OBVIOUS
<1>1. kind \in Kinds /\ s \in Rec /\ (s.err => kind \in Keeps) /\ HeldInv(kind, s)
  BY DEF Inv, InvOf, Types
<1>2. /\ phase' = "committed" /\ phase = "open"
      /\ \/ s' = s \/ (s.err /\ s' = BatchCommit(s))
         \/ (kind = "badger" /\ s.err /\ s' = WriteOut(s))
  BY DEF CommitFails
<1>3. CASE s' = s \/ (s.err /\ s' = BatchCommit(s))
  <2>1. Commits(s, BatchCommit(s))
    BY <1>1, CommitFacts
  <2>2. GivesUp(s, s)
    BY <1>1 DEF GivesUp
  <2>3. ASSUME s.err, s' = BatchCommit(s) PROVE GivesUp(s, s') /\ s'.local = s.local
    BY <1>1, <2>1, <2>3 DEF GivesUp, Commits, SameRest
  <2>4. GivesUp(s, s') /\ s'.local = s.local
    BY <1>3, <2>2, <2>3
  <2> QED BY <1>2, <2>4, GivesUpImplements
<1>4. CASE kind = "badger" /\ s.err /\ s' = WriteOut(s)
  <2> DEFINE u == WriteOut(s)
  <2>1. u.local = ApplyAll(s.local, s.batch)
    BY <1>2, <1>4, PartWritten
  <2> HIDE DEF u
  <2>2. kind \notin Eager /\ ModeOf(kind) = "parts" /\ kind \in Lazy
    BY <1>4 DEF Eager, ModeOf, Lazy
  <2>3. StoreOf(kind, s) = s.local /\ StoreOf(kind, u) = u.local
    BY <1>4 DEF StoreOf
  <2>4. PendingOf(kind, s, phase) = s.batch
    BY <1>1, <1>2, <1>4, <2>2, DecAllBadger DEF PendingOf
  <2>5. PendingOf(kind, s, phase) # Nil
    BY <1>2, OpenPending
  <2>6. BrokenOf(s, phase) = TRUE
    <3>1. s.err = TRUE
      BY <1>1, <1>4 DEF Rec
    <3> QED BY <1>2, <3>1 DEF BrokenOf
  <2>7. PendingOf(kind, u, "committed") = Nil /\ BrokenOf(u, "committed") = FALSE
    BY DEF PendingOf, BrokenOf
  <2>8. StoreOf(kind, u) = ApplyAll(StoreOf(kind, s), PendingOf(kind, s, phase))
    BY <2>1, <2>3, <2>4
  <2>9. Discards(ModeOf(kind), StoreOf(kind, s), PendingOf(kind, s, phase), BrokenOf(s, phase),
                 StoreOf(kind, u), PendingOf(kind, u, "committed"), BrokenOf(u, "committed"))
    BY <2>2, <2>5, <2>6, <2>7, <2>8, Zenon DEF Discards
  <2>10. Implements(u, "committed")
    BY <2>9, Zenon DEF Implements, AbsStep
  <2> QED BY <1>2, <1>4, <2>10 DEF u
<1> QED BY <1>2, <1>3, <1>4

LEMMA UnlockImplements == Inv /\ Unlock => Implements(s', phase')
<1> SUFFICES ASSUME Inv, Unlock PROVE Implements(s', phase')
  OBVIOUS
<1>1. kind \in Kinds /\ s \in Rec /\ phase' = "idle" /\ s' = BatchRollback(s)
  BY DEF Inv, InvOf, Types, Unlock
<1>2. RollsBack(s, s')
  BY <1>1, RollbackFacts
<1>3. GivesUp(s, s') /\ s'.local = s.local
  <2>1. kind \in Direct => s.batch = <<>>
    BY DEF Inv, InvOf, Types
  <2> QED BY <1>1, <1>2, <2>1 DEF GivesUp, RollsBack, SameStores
<1> QED BY <1>1, <1>3, GivesUpImplements

LEMMA RestartImplements == Inv /\ Restart => Implements(s', phase')
<1> SUFFICES ASSUME Inv, Restart PROVE Implements(s', phase')
  OBVIOUS
<1>1. kind \in Kinds /\ s \in Rec /\ phase' = "idle" /\ s' = Open(s)
  BY DEF Inv, InvOf, Types, Restart
<1>2. Opens(s, s')
  BY <1>1, OpenFacts
<1>3. GivesUp(s, s') /\ s'.local = s.local
  <2>1. kind \in Direct => s.batch = <<>>
    BY DEF Inv, InvOf, Types
  <2> QED BY <1>1, <1>2, <2>1 DEF GivesUp, Opens, SameStores
<1> QED BY <1>1, <1>3, GivesUpImplements

(* Lock opens an empty batch. *)
LEMMA LockImplements == Inv /\ Lock => Implements(s', phase')
<1> SUFFICES ASSUME Inv, Lock PROVE Implements(s', phase')
  OBVIOUS
<1>1. s \in Rec /\ phase = "idle" /\ phase' = "open" /\ s' = s /\ s.batch = <<>>
  BY DEF Inv, InvOf, Types, Lock
<1>2. PendingOf(kind, s, phase) = Nil /\ BrokenOf(s, "open") \in BOOLEAN
  BY <1>1 DEF PendingOf, BrokenOf, Rec
<1>3. DecAll(kind, s) = <<>>
  BY <1>1 DEF DecAll
<1>4. PendingOf(kind, s, "open") = <<>>
  BY <1>3 DEF PendingOf
<1>5. Locks(StoreOf(kind, s), PendingOf(kind, s, phase), StoreOf(kind, s),
            PendingOf(kind, s, "open"), BrokenOf(s, "open"))
  BY <1>2, <1>4, Zenon DEF Locks
<1> QED BY <1>1, <1>5, Zenon DEF Implements, AbsStep

(* A read changes nothing that others see. *)
LEMMA ReadImplements ==
    ASSUME NEW u, SameStores(s, u), SameRest(s, u), u.batch = s.batch
    PROVE  Implements(u, phase)
<1>5. u.local = s.local /\ u.remote = s.remote /\ u.blobs = s.blobs /\ u.err = s.err
  BY DEF SameStores, SameRest
<1>6. StoreOf(kind, u) = StoreOf(kind, s) /\ PendingOf(kind, u, phase) = PendingOf(kind, s, phase)
  BY <1>5 DEF StoreOf, PendingOf, DecAll
<1>7. BrokenOf(u, phase) = BrokenOf(s, phase)
  BY <1>5 DEF BrokenOf
<1> QED BY <1>6, <1>7, Zenon DEF Implements, AbsStep

(* The steps of readers. *)
LEMMA FillImplements ==
    ASSUME NEW r \in Reader, Inv, ReadFill(r)
    PROVE  Implements(s', phase')
<1> DEFINE k == read[r][1]  x == read[r][2]  v == IF kind = "ipfs" THEN Cat(s, x) ELSE x
<1>1. read[r] # Nil /\ s' = [s EXCEPT !.cache[k] = v] /\ phase' = phase
  BY Zenon DEF ReadFill
<1>2. k \in Key /\ v \in Cell
  BY <1>1, FillValue
<1> HIDE DEF k, x, v
<1>3. s \in Rec
  BY DEF Inv, InvOf, Types
<1>4. Fills(s, s', k, v)
  BY <1>1, <1>2, <1>3, FillFacts, Zenon
<1>5. Implements(s', phase)
  BY <1>4, ReadImplements DEF Fills
<1> QED BY <1>1, <1>5

LEMMA BrokenImplements ==
    ASSUME NEW k \in Key, Inv, ReadBroken(k)
    PROVE  Implements(s', phase')
<1>1. s' = [s EXCEPT !.cache[k] = NoBytes] /\ phase' = phase
  BY Zenon DEF ReadBroken
<1>2. s \in Rec /\ NoBytes \in Cell
  BY DEF Inv, InvOf, Types, Cell
<1>3. Fills(s, s', k, NoBytes)
  BY <1>1, <1>2, FillFacts, Zenon
<1>4. Implements(s', phase)
  BY <1>3, ReadImplements DEF Fills
<1> QED BY <1>1, <1>4

LEMMA S3Implements ==
    ASSUME Inv, ReadS3
    PROVE  Implements(s', phase')
<1>1. s' = NewClient(s, "ok") /\ phase' = phase
  BY DEF ReadS3
<1> DEFINE u == NewClient(s, "ok")
<1>2. SameStores(s, u) /\ SameRest(s, u) /\ u.batch = s.batch
  BY BucketFacts DEF Inv, InvOf, Types
<1> HIDE DEF u
<1>3. Implements(u, phase)
  BY <1>2, ReadImplements
<1> QED BY <1>1, <1>3 DEF u

LEMMA ReaderImplements ==
    ASSUME NEW r \in Reader, (\E k \in Key : ReadLevel(r, k)) \/ ReadFails(r)
    PROVE  Implements(s', phase')
<1>1. s' = s /\ phase' = phase
  BY DEF ReadLevel, ReadFails
<1>2. Implements(s, phase)
  BY ReadImplements DEF SameStores, SameRest
<1> QED BY <1>1, <1>2

(* A commit applies the operations of the batch as a whole; in the eager    *)
(* drivers none is left to apply.                                          *)
LEMMA CommitImplements == Inv /\ CommitOk => Implements(s', phase')
<1> SUFFICES ASSUME Inv, CommitOk PROVE Implements(s', phase')
  OBVIOUS
<1>0. Inv'
  BY InvCommitOk
<1>1. /\ kind \in Kinds /\ s \in Rec /\ acked \in [Key -> Val] /\ todo \in Seq(Op)
      /\ LocalInv(kind, s, acked) /\ HeldInv(kind, s) /\ BatchInv(kind, s, phase, todo)
      /\ s.err \in BOOLEAN
  BY DEF Inv, InvOf, Types, Rec
<1>2. /\ phase = "open" /\ s' = BatchCommit(s) /\ phase' = "committed"
      /\ acked' = ApplyAll(acked, todo) /\ kind' = kind
  BY DEF CommitOk
<1>3. ~s.err
  BY DEF CommitOk
<1> DEFINE u == s'  ack == acked'
<1>4. u \in Rec /\ ack \in [Key -> Val] /\ LocalInv(kind, u, ack)
  BY <1>0, <1>2 DEF Inv, InvOf, Types
<1>5. Commits(s, u)
  BY <1>1, <1>2, CommitFacts
<1>6. ack = ApplyAll(acked, todo)
  BY <1>2
<1> HIDE DEF u, ack
<1>7. PendingOf(kind, s, phase) # Nil
  BY <1>2, OpenPending
<1>8. PendingOf(kind, u, "committed") = Nil /\ BrokenOf(u, "committed") = FALSE /\ BrokenOf(s, phase) = FALSE
  BY <1>3 DEF PendingOf, BrokenOf
<1>9. StoreOf(kind, u) = ApplyAll(StoreOf(kind, s), PendingOf(kind, s, phase))
  <2>1. CASE kind \in Cached
    <3>1. StoreOf(kind, s) = acked /\ StoreOf(kind, u) = ack
      BY <1>1, <1>4, <2>1, LazyStore
    <3>2. MeansOps(kind, s.blobs, s.batch, todo)
      BY <1>1, <1>2, <1>3, <2>1 DEF BatchInv
    <3>3. DecAll(kind, s) = todo
      BY <1>1, <2>1, <3>2, DecAllTodo, KindFacts
    <3>4. PendingOf(kind, s, phase) = todo
      BY <1>1, <1>2, <2>1, <3>3, KindFacts DEF PendingOf
    <3> QED BY <1>6, <3>1, <3>4
  <2>3. CASE kind = "badger"
    <3>0. kind \notin Eager /\ kind \notin Direct
      BY <2>3 DEF Eager, Direct
    <3>1. StoreOf(kind, s) = s.local /\ StoreOf(kind, u) = u.local
      BY <2>3 DEF StoreOf
    <3>2. u.local = ApplyAll(s.local, s.batch)
      BY <1>3, <1>5, <3>0 DEF Commits
    <3>3. PendingOf(kind, s, phase) = s.batch
      BY <1>1, <1>2, <2>3, <3>0, DecAllBadger DEF PendingOf
    <3> QED BY <3>1, <3>2, <3>3
  <2>2. CASE kind \in Eager
    <3>1. StoreOf(kind, s) = s.remote /\ StoreOf(kind, u) = u.remote /\ u.remote = s.remote
      BY <1>5, <2>2 DEF StoreOf, Eager, Commits
    <3>2. PendingOf(kind, s, phase) = <<>>
      BY <1>2, <2>2 DEF PendingOf
    <3>3. s.remote \in [Key -> Val]
      BY <1>1 DEF Rec
    <3>4. \A k \in Key : ApplyAll(s.remote, <<>>)[k] = s.remote[k]
      BY ApplyNone
    <3>5. ApplyAll(s.remote, <<>>) = [k \in Key |-> ApplyAll(s.remote, <<>>)[k]]
      BY DEF ApplyAll
    <3>6. ApplyAll(s.remote, <<>>) = s.remote
      BY <3>3, <3>4, <3>5
    <3> QED BY <3>1, <3>2, <3>6
  <2> QED BY <1>1, <2>1, <2>2, <2>3, KindFacts
<1>10. Writes(StoreOf(kind, s), PendingOf(kind, s, phase), BrokenOf(s, phase), StoreOf(kind, u),
              PendingOf(kind, u, "committed"), BrokenOf(u, "committed"))
  BY <1>7, <1>8, <1>9, Zenon DEF Writes
<1>11. Implements(u, "committed")
  BY <1>10, Zenon DEF Implements, AbsStep
<1> QED BY <1>2, <1>11 DEF u

(* An operation is queued, lost, or done at once. *)
LEMMA AddImplements ==
    ASSUME NEW k \in Key, NEW v \in Val, NEW out, Inv, AddsTo(k, v, out)
    PROVE  Implements(s', phase')
<1>0. Inv'
  BY InvAddOp
<1>1. /\ kind \in Kinds /\ s \in Rec /\ acked \in [Key -> Val]
      /\ LocalInv(kind, s, acked) /\ HeldInv(kind, s) /\ s.err \in BOOLEAN
  BY DEF Inv, InvOf, Types, Rec
<1>3. phase = "open" /\ kind' = kind /\ phase' = phase /\ acked' = acked /\ s' = BatchAdd(s, k, v, out)
  BY DEF AddsTo
<1> DEFINE u == s'
<1>4. u \in Rec /\ LocalInv(kind, u, acked) /\ HeldInv(kind, u) /\ u.err \in BOOLEAN
  BY <1>0, <1>3 DEF Inv, InvOf, Types, Rec
<1>5. Adds(s, u, k, v, out)
  BY <1>1, <1>3, AddFacts
<1> HIDE DEF u
<1>6. PendingOf(kind, s, phase) # Nil
  BY <1>3, OpenPending
<1> DEFINE m == ModeOf(kind)
           st == StoreOf(kind, s)  pe == PendingOf(kind, s, phase)  br == BrokenOf(s, phase)
           st1 == StoreOf(kind, u)  pe1 == PendingOf(kind, u, phase)  br1 == BrokenOf(u, phase)
<1>7. CASE kind \in Cached /\ LazyAdds(s, u, k, v)
  <2>1. st1 = st
    BY <1>1, <1>4, <1>7, LazyStore
  <2>2. m # "eager" /\ pe = DecAll(kind, s) /\ pe1 = DecAll(kind, u)
    BY <1>1, <1>3, <1>7, KindFacts DEF PendingOf, ModeOf
  <2>3. pe1 = Append(pe, <<k, v>>)
    BY <1>1, <1>4, <1>7, <2>2, DecAllAppend, KindFacts
  <2>4. br1 = br
    BY <1>7 DEF BrokenOf, LazyAdds
  <2> HIDE DEF m, st, pe, br, st1, pe1, br1
  <2>5. Puts(m, st, pe, br, st1, pe1, br1)
    BY <1>6, <2>1, <2>2, <2>3, <2>4, Zenon DEF Puts, pe
  <2>6. Implements(u, phase)
    BY <2>5, Zenon DEF Implements, AbsStep, m, st, pe, br, st1, pe1, br1
  <2> QED BY <1>3, <2>6 DEF u
<1>8. CASE kind = "ipfs" /\ out # "ok" /\ v # Nil /\ Loses(s, u)
  <2>1. u.local = s.local /\ u.remote = s.remote /\ u.blobs = s.blobs /\ u.batch = s.batch /\ u.err = TRUE
    BY <1>4, <1>8 DEF Loses, SameStores
  <2>2. st1 = st /\ pe1 = pe
    BY <2>1 DEF StoreOf, PendingOf, DecAll
  <2>3. br1 = TRUE
    BY <1>3, <2>1 DEF BrokenOf
  <2> HIDE DEF m, st, pe, br, st1, pe1, br1
  <2>4. Drops(st, pe, st1, pe1, br1)
    BY <1>6, <2>2, <2>3, Zenon DEF Drops, pe
  <2>5. Implements(u, phase)
    BY <2>4, Zenon DEF Implements, AbsStep, m, st, pe, br, st1, pe1, br1
  <2> QED BY <1>3, <2>5 DEF u
<1>9. CASE \/ kind = "oss" /\ OssAdds(s, u, k, v, out)
           \/ kind \in Direct /\ DirectAdds(s, u, k, v, out)
  <2>0. m = "eager" /\ kind \in Eager
    BY <1>1, <1>9, KindFacts DEF ModeOf
  <2>1. st = s.remote /\ st1 = u.remote
    BY <2>0 DEF StoreOf, Eager
  <2>2. pe = <<>> /\ pe1 = <<>>
    BY <1>3, <2>0 DEF PendingOf
  <2>3. br1 = br
    BY <1>9 DEF BrokenOf, OssAdds, DirectAdds, SameRest
  <2>4. Slot(k) \in Key /\ (kind = "oss" => Slot(k) = k)
    BY DriversAssumption DEF Slot
  <2>5. u.remote = s.remote \/ u.remote = [s.remote EXCEPT ![Slot(k)] = v]
    BY <1>9, <2>4 DEF OssAdds, DirectAdds
  <2> HIDE DEF m, st, pe, br, st1, pe1, br1
  <2>6. CASE u.remote = s.remote
    <3>1. st1 = st /\ pe1 = pe /\ br1 = br
      BY <2>1, <2>2, <2>3, <2>6
    <3>2. Implements(u, phase)
      BY <3>1, Zenon DEF Implements, AbsStep, m, st, pe, br, st1, pe1, br1
    <3> QED BY <1>3, <3>2 DEF u
  <2>7. CASE u.remote = [s.remote EXCEPT ![Slot(k)] = v]
    <3>1. st1 = [st EXCEPT ![Slot(k)] = v] /\ pe1 = pe /\ pe # Nil
      BY <1>6, <2>1, <2>2, <2>7 DEF pe
    <3>2. Puts(m, st, pe, br, st1, pe1, br1)
      BY <2>0, <2>3, <2>4, <3>1, Zenon DEF Puts
    <3>3. Implements(u, phase)
      BY <3>2, Zenon DEF Implements, AbsStep, m, st, pe, br, st1, pe1, br1
    <3> QED BY <1>3, <3>3 DEF u
  <2> QED BY <2>5, <2>6, <2>7
<1>10. CASE kind = "badger" /\ BadgerAdds(s, u, k, v, out)
  <2>0. kind \notin Eager /\ m = "parts"
    BY <1>10 DEF Eager, ModeOf
  <2>1. st = s.local /\ st1 = u.local
    BY <1>10 DEF StoreOf
  <2>2. pe = s.batch /\ pe1 = u.batch
    BY <1>1, <1>3, <1>4, <1>10, <2>0, DecAllBadger DEF PendingOf
  <2>3. br = s.err /\ br1 = u.err
    BY <1>1, <1>3, <1>4 DEF BrokenOf
  <2> HIDE DEF m, st, pe, br, st1, pe1, br1
  <2>4. pe # Nil
    BY <1>6 DEF pe
  <2>5. CASE out = "ok"
    <3>1. pe1 = Append(pe, <<k, v>>) /\ st1 = st /\ br1 = br
      BY <1>10, <2>1, <2>2, <2>3, <2>5 DEF BadgerAdds
    <3>2. m # "eager"
      BY <2>0
    <3>3. Puts(m, st, pe, br, st1, pe1, br1)
      BY <2>4, <3>1, <3>2, Zenon DEF Puts
    <3>4. Implements(u, phase)
      BY <3>3, Zenon DEF Implements, AbsStep, m, st, pe, br, st1, pe1, br1
    <3> QED BY <1>3, <3>4 DEF u
  <2>6. CASE out = "full" \/ out = "lost"
    <3>1. pe1 = <<<<k, v>>>> /\ ((st1 = ApplyAll(st, pe) /\ br1 = br) \/ (br1 = TRUE /\ st1 = st))
      BY <1>10, <2>1, <2>2, <2>3, <2>6 DEF BadgerAdds
    <3>3. Parts(m, st, pe, br, st1, pe1, br1)
      BY <2>0, <2>4, <3>1, Zenon DEF Parts
    <3>4. Implements(u, phase)
      BY <3>3, Zenon DEF Implements, AbsStep, m, st, pe, br, st1, pe1, br1
    <3> QED BY <1>3, <3>4 DEF u
  <2>7. CASE out \notin {"ok", "full", "lost"}
    <3>1. u = s
      BY <1>10, <2>7 DEF BadgerAdds
    <3>2. st1 = st /\ pe1 = pe /\ br1 = br
      BY <2>1, <2>2, <2>3, <3>1
    <3>3. Implements(u, phase)
      BY <3>2, Zenon DEF Implements, AbsStep, m, st, pe, br, st1, pe1, br1
    <3> QED BY <1>3, <3>3 DEF u
  <2> QED BY <2>5, <2>6, <2>7
<1> QED BY <1>5, <1>7, <1>8, <1>9, <1>10 DEF Adds

(* The initial state is one of BatchStore. *)
LEMMA InitImplements == Init => Batches!Init
<1> SUFFICES ASSUME Init PROVE Batches!Init
  OBVIOUS
<1>1. s.local = Nothing /\ s.remote = Nothing /\ s.err = FALSE /\ phase = "idle" /\ kind \in Kinds
  BY DEF Init
<1>2. Contents(s) = [k \in Key |-> Nil]
  BY <1>1 DEF Contents, Nothing, Kinds
<1>3. (IF kind \in Eager THEN "eager" ELSE IF kind = "badger" THEN "parts" ELSE "whole")
          \in {"whole", "parts", "eager"}
  OBVIOUS
<1>4. (phase = "open" /\ s.err) = FALSE
  BY <1>1
<1> QED BY <1>1, <1>2, <1>3, <1>4, Zenon DEF Batches!Init

(* Every step is a step of BatchStore or changes nothing of it. *)
LEMMA StepImplements == Inv /\ [Next]_vars => [Batches!Next]_Batches!vars
<1> SUFFICES ASSUME Inv, [Next]_vars PROVE [Batches!Next]_Batches!vars
  OBVIOUS
<1>1. CASE UNCHANGED vars
  <2>1. kind' = kind /\ Implements(s', phase')
    BY <1>1, Zenon DEF vars, Implements, AbsStep
  <2> QED BY <2>1, AbsSteps
<1>2. ASSUME Next PROVE kind' = kind /\ Implements(s', phase')
  <2>1. ASSUME NEW r \in Reader, (\E k \in Key : ReadLevel(r, k)) \/ ReadFails(r)
        PROVE  kind' = kind /\ Implements(s', phase')
    <3>1. kind' = kind
      BY <2>1 DEF ReadLevel, ReadFails
    <3> QED BY <2>1, <3>1, ReaderImplements
  <2>11. ASSUME NEW r \in Reader, ReadFill(r) PROVE kind' = kind /\ Implements(s', phase')
    <3>1. kind' = kind
      BY <2>11, Zenon DEF ReadFill
    <3> QED BY <2>11, <3>1, FillImplements
  <2>12. ASSUME NEW k \in Key, ReadBroken(k) PROVE kind' = kind /\ Implements(s', phase')
    <3>1. kind' = kind
      BY <2>12, Zenon DEF ReadBroken
    <3> QED BY <2>12, <3>1, BrokenImplements
  <2>13. ASSUME ReadS3 PROVE kind' = kind /\ Implements(s', phase')
    <3>1. kind' = kind
      BY <2>13 DEF ReadS3
    <3> QED BY <2>13, <3>1, S3Implements
  <2>2. ASSUME NEW k \in Key, NEW v \in Value \cup {Nil}, NEW out \in Outcomes, AddOp(k, v, out)
        PROVE  kind' = kind /\ Implements(s', phase')
    <3>1. AddsTo(k, v, out) /\ v \in Val
      BY <2>2, AddOpAdds DEF Val
    <3>2. kind' = kind
      BY <3>1 DEF AddsTo
    <3> QED BY <3>1, <3>2, AddImplements
  <2>3. ASSUME Lock \/ CommitOk \/ CommitFails \/ Unlock \/ Restart
        PROVE  kind' = kind /\ Implements(s', phase')
    <3>1. kind' = kind
      BY <2>3 DEF Lock, CommitOk, CommitFails, Unlock, Restart
    <3> QED BY <2>3, <3>1, LockImplements, CommitImplements, FailsImplements, UnlockImplements,
               RestartImplements
  <2> QED BY <1>2, <2>1, <2>11, <2>12, <2>13, <2>2, <2>3 DEF Next
<1>3. CASE Next
  BY <1>2, <1>3, AbsSteps
<1> QED BY <1>1, <1>3

(* ImplementsBatches: the write batch of every driver, from ledis's Lock to *)
(* its Unlock, with failures and crashes in between, is the one BatchStore *)
(* describes: whole in hybriddb and ipfs, in parts in badger when it        *)
(* outgrows a transaction, and eager in oss, crdt and ipfs-log.             *)
THEOREM Refines == Spec => ImplementsBatches
<1>1. Spec => Batches!Init /\ [][Batches!Next]_Batches!vars
  BY InitImplements, StepImplements, Invariant, PTL DEF Spec
<1> QED BY <1>1 DEF ImplementsBatches, Batches!Spec
=============================================================================
