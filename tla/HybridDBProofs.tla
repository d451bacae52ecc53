--------------------------- MODULE HybridDBProofs ---------------------------
(***************************************************************************)
(* Theorems about HybridDB for every set of keys and of readers, every     *)
(* capacity of the cache's buffer and every number of commands.  The first *)
(* lemmas are about the buffer alone: what is appended to it, and what the *)
(* cache's goroutine takes from it, keep what is known of one key.         *)
(***************************************************************************)
EXTENDS HybridDB, SequenceTheorems, TLAPS

\* A deletion of k is in the buffer behind its first i items.
DeletedAfter(buf, k, i) ==
    \E j \in (i + 1)..Len(buf) : buf[j][1] = "delete" /\ buf[j][2] = k

\* What the cache may keep of k: the leveldb's value, and the nil slice when a
\* read has failed.
Good(k) == {disk[k]} \cup (IF k \in failed THEN {NoBytes} ELSE {})

\* The cache holds s of key k: a copy that is not in d, in the cache or in the
\* buffer, is followed by a deletion.
Settles(s, buf, d, k) ==
    /\ s # Nil /\ s \notin d => DeletedAfter(buf, k, 0)
    /\ \A i \in 1..Len(buf) :
          buf[i][1] = "new" /\ buf[i][2] = k /\ buf[i][3] \notin d => DeletedAfter(buf, k, i)

\* Every copy is followed by a deletion.
Dropped(s, buf, k) ==
    /\ s # Nil => DeletedAfter(buf, k, 0)
    /\ \A i \in 1..Len(buf) :
          buf[i][1] = "new" /\ buf[i][2] = k => DeletedAfter(buf, k, i)

\* A reader that is about to fill the cache has what the leveldb has.
ReadersFresh(k) ==
    \A r \in Reader : reads[r] # Nil /\ reads[r].key = k /\ reads[r].at = "fill"
                          => reads[r].val \in Good(k)

\* The command being applied, too; between WriteBatch.Put and the commit its
\* key has left the cache, or will.
WriterFresh ==
    /\ write # Nil /\ write.at = "fill" => write.val \in Good(write.key)
    /\ write # Nil /\ write.at = "commit" => Dropped(store[write.key], setBuf, write.key)

\* What is known of a key a command wrote last.
KeyInv(k) ==
    writer[k] = "command" => Settles(store[k], setBuf, Good(k), k) /\ ReadersFresh(k)

IInv ==
    /\ TypeOK
    /\ \A k \in Key : KeyInv(k)
    /\ WriterFresh

-----------------------------------------------------------------------------
(* Sequences: appending and taking the first element. *)
LEMMA AppendFacts ==
    ASSUME NEW S, NEW q \in Seq(S), NEW x \in S
    PROVE  /\ Append(q, x) \in Seq(S) /\ Len(Append(q, x)) = Len(q) + 1
           /\ \A i \in 1..Len(q) : Append(q, x)[i] = q[i]
           /\ Append(q, x)[Len(q) + 1] = x
  OBVIOUS

LEMMA TailFacts ==
    ASSUME NEW S, NEW q \in Seq(S), q # <<>>
    PROVE  /\ Tail(q) \in Seq(S) /\ Len(Tail(q)) = Len(q) - 1 /\ Len(q) > 0
           /\ \A i \in 1..(Len(q) - 1) : Tail(q)[i] = q[i + 1]
           /\ Head(q) = q[1] /\ Head(q) \in S
  OBVIOUS

(* An item that is appended leaves the deletions in the buffer. *)
LEMMA AppendDeleted ==
    ASSUME NEW buf \in Seq(Item), NEW x \in Item, NEW k, NEW i \in Nat,
           DeletedAfter(buf, k, i)
    PROVE  DeletedAfter(Append(buf, x), k, i)
  BY AppendFacts DEF DeletedAfter

(* cache.Set with the leveldb's value, or with another key, keeps a key    *)
(* settled; so does cache.Del of another key.                              *)
LEMMA AppendSettles ==
    ASSUME NEW buf \in Seq(Item), NEW x \in Item, NEW k, NEW s, NEW t, NEW d,
           Settles(s, buf, d, k),
           t # Nil /\ t \notin d => t = s,
           x[1] = "new" /\ x[2] = k => x[3] \in d
    PROVE  Settles(t, Append(buf, x), d, k)
<1>1. t # Nil /\ t \notin d => DeletedAfter(Append(buf, x), k, 0)
  BY AppendDeleted DEF Settles
<1>2. ASSUME NEW i \in 1..Len(Append(buf, x)),
             Append(buf, x)[i][1] = "new" /\ Append(buf, x)[i][2] = k
                /\ Append(buf, x)[i][3] \notin d
      PROVE  DeletedAfter(Append(buf, x), k, i)
  <2>1. i # Len(buf) + 1
    BY <1>2, AppendFacts
  <2>2. i \in 1..Len(buf) /\ Append(buf, x)[i] = buf[i] /\ i \in Nat
    BY <2>1, AppendFacts
  <2> QED BY <1>2, <2>2, AppendDeleted DEF Settles
<1> QED BY <1>1, <1>2 DEF Settles

LEMMA AppendDropped ==
    ASSUME NEW buf \in Seq(Item), NEW k \in Key, NEW v \in Cached
    PROVE  Dropped(Nil, Append(buf, <<"delete", k, v>>), k)
<1> DEFINE x == <<"delete", k, v>>
           b == Append(buf, x)
<1>1. x \in Item
  BY DEF Item
<1>2. ASSUME NEW i \in 1..Len(b), b[i][1] = "new"
      PROVE  DeletedAfter(b, k, i)
  <2>1. b[Len(buf) + 1] = x /\ Len(b) = Len(buf) + 1 /\ Len(buf) \in Nat
    BY <1>1, AppendFacts
  <2>2. x[1] = "delete" /\ x[2] = k
    OBVIOUS
  <2>3. i \in 1..Len(buf)
    BY <1>2, <2>1, <2>2
  <2> HIDE DEF b, x
  <2>4. Len(buf) + 1 \in (i + 1)..Len(b)
    BY <2>1, <2>3
  <2> QED BY <2>1, <2>2, <2>4 DEF DeletedAfter
<1> HIDE DEF b
<1> QED BY <1>2 DEF Dropped, b

(* More good values. *)
LEMMA WiderSettles ==
    ASSUME NEW buf, NEW k, NEW s, NEW d, NEW e, Settles(s, buf, d, k), d \subseteq e
    PROVE  Settles(s, buf, e, k)
  BY DEF Settles

LEMMA DroppedSettles ==
    ASSUME NEW buf, NEW k, NEW s, NEW d, Dropped(s, buf, k)
    PROVE  Settles(s, buf, d, k)
  BY DEF Settles, Dropped

(* The goroutine of the cache takes an item: what it makes of the cache's  *)
(* copy of k, t, is the item's value, nothing, or the copy as it was, which*)
(* the deletion of k never leaves.                                         *)
LEMMA TailDeleted ==
    ASSUME NEW buf \in Seq(Item), buf # <<>>, NEW k, NEW i \in Nat,
           DeletedAfter(buf, k, i + 1)
    PROVE  DeletedAfter(Tail(buf), k, i)
<1> PICK j \in (i + 1 + 1)..Len(buf) : buf[j][1] = "delete" /\ buf[j][2] = k
  BY DEF DeletedAfter
<1>1. j - 1 \in (i + 1)..Len(Tail(buf)) /\ Tail(buf)[j - 1] = buf[j]
  BY TailFacts
<1> QED BY <1>1 DEF DeletedAfter

LEMMA FirstDeleted ==
    ASSUME NEW buf \in Seq(Item), buf # <<>>, NEW k,
           DeletedAfter(buf, k, 0), ~(buf[1][1] = "delete" /\ buf[1][2] = k)
    PROVE  DeletedAfter(buf, k, 1)
<1>1. Len(buf) \in Nat
  OBVIOUS
<1> QED BY <1>1 DEF DeletedAfter

Processed(x, k, s, t) ==
    \/ t = Nil
    \/ t = s /\ ~(x[1] = "delete" /\ x[2] = k)
    \/ t = x[3] /\ x[1] = "new" /\ x[2] = k

LEMMA TailSettles ==
    ASSUME NEW buf \in Seq(Item), buf # <<>>, NEW k, NEW s, NEW t, NEW d,
           Settles(s, buf, d, k), Processed(Head(buf), k, s, t)
    PROVE  Settles(t, Tail(buf), d, k)
<1>0. Head(buf) = buf[1] /\ Len(buf) \in Nat /\ Len(buf) > 0
  BY TailFacts
<1>1. t # Nil /\ t \notin d => DeletedAfter(Tail(buf), k, 0)
  <2> SUFFICES ASSUME t # Nil, t \notin d PROVE DeletedAfter(buf, k, 0 + 1)
    BY TailDeleted, 0 \in Nat
  <2>1. CASE t = s /\ ~(buf[1][1] = "delete" /\ buf[1][2] = k)
    BY <2>1, FirstDeleted DEF Settles
  <2>2. CASE t = buf[1][3] /\ buf[1][1] = "new" /\ buf[1][2] = k
    BY <1>0, <2>2 DEF Settles
  <2> QED BY <1>0, <2>1, <2>2 DEF Processed
<1>2. ASSUME NEW i \in 1..Len(Tail(buf)),
             Tail(buf)[i][1] = "new" /\ Tail(buf)[i][2] = k /\ Tail(buf)[i][3] \notin d
      PROVE  DeletedAfter(Tail(buf), k, i)
  <2>1. i + 1 \in 1..Len(buf) /\ Tail(buf)[i] = buf[i + 1] /\ i \in Nat
    BY TailFacts
  <2> QED BY <1>2, <2>1, TailDeleted DEF Settles
<1> QED BY <1>1, <1>2 DEF Settles

LEMMA TailDropped ==
    ASSUME NEW buf \in Seq(Item), buf # <<>>, NEW k, NEW s, NEW t,
           Dropped(s, buf, k), Processed(Head(buf), k, s, t)
    PROVE  Dropped(t, Tail(buf), k)
<1>0. Head(buf) = buf[1] /\ Len(buf) \in Nat /\ Len(buf) > 0
  BY TailFacts
<1>1. t # Nil => DeletedAfter(Tail(buf), k, 0)
  <2> SUFFICES ASSUME t # Nil PROVE DeletedAfter(buf, k, 0 + 1)
    BY TailDeleted, 0 \in Nat
  <2>1. CASE t = s /\ ~(buf[1][1] = "delete" /\ buf[1][2] = k)
    BY <2>1, FirstDeleted DEF Dropped
  <2>2. CASE t = buf[1][3] /\ buf[1][1] = "new" /\ buf[1][2] = k
    BY <1>0, <2>2 DEF Dropped
  <2> QED BY <1>0, <2>1, <2>2 DEF Processed
<1>2. ASSUME NEW i \in 1..Len(Tail(buf)), Tail(buf)[i][1] = "new" /\ Tail(buf)[i][2] = k
      PROVE  DeletedAfter(Tail(buf), k, i)
  <2>1. i + 1 \in 1..Len(buf) /\ Tail(buf)[i] = buf[i + 1] /\ i \in Nat
    BY TailFacts
  <2> QED BY <1>2, <2>1, TailDeleted DEF Dropped
<1> QED BY <1>1, <1>2 DEF Dropped

-----------------------------------------------------------------------------
(* The operations of the cache. *)
LEMMA CacheSetType ==
    ASSUME TypeOK, NEW k \in Key, NEW v \in Cached, CacheSet(k, v)
    PROVE  /\ store' \in [Key -> Cached]
           /\ setBuf' \in Seq(Item) /\ Len(setBuf') <= SetBufSize
<1>1. <<IF store[k] = Nil THEN "new" ELSE "update", k, v>> \in Item
  BY DEF Item
<1>2. store' \in [Key -> Cached]
  BY DEF CacheSet, TypeOK
<1>3. setBuf' \in Seq(Item) /\ Len(setBuf') <= SetBufSize
  BY <1>1, AppendFacts, HybridAssumption DEF CacheSet, TypeOK
<1> QED BY <1>2, <1>3

LEMMA CacheSetSettles ==
    ASSUME TypeOK, NEW k0 \in Key, NEW v \in Cached, CacheSet(k0, v),
           NEW k \in Key, NEW d, Settles(store[k], setBuf, d, k),
           k = k0 => v \in d
    PROVE  Settles(store'[k], setBuf', d, k)
<1> DEFINE x == <<IF store[k0] = Nil THEN "new" ELSE "update", k0, v>>
<1>1. x \in Item /\ x[2] = k0 /\ x[3] = v
  BY DEF Item
<1>2. store'[k] = store[k] \/ store'[k] \in d
  BY DEF CacheSet, TypeOK
<1>3. setBuf \in Seq(Item)
  BY DEF TypeOK
<1>4. CASE setBuf' = setBuf
  BY <1>2, <1>4 DEF Settles
<1>5. CASE setBuf' = Append(setBuf, x)
  <2> HIDE DEF x
  <2> QED BY <1>1, <1>2, <1>3, <1>5, AppendSettles
<1> QED BY <1>4, <1>5 DEF CacheSet

LEMMA CacheDelType ==
    ASSUME TypeOK, NEW k \in Key, CacheDel(k)
    PROVE  /\ store' \in [Key -> Cached]
           /\ setBuf' \in Seq(Item) /\ Len(setBuf') <= SetBufSize
<1>1. <<"delete", k, Nil>> \in Item
  BY DEF Item, Cached
<1> QED BY <1>1, AppendFacts, HybridAssumption DEF CacheDel, TypeOK, Cached

LEMMA CacheDelDrops ==
    ASSUME TypeOK, NEW k \in Key, CacheDel(k)
    PROVE  Dropped(store'[k], setBuf', k)
<1>1. store'[k] = Nil /\ setBuf' = Append(setBuf, <<"delete", k, Nil>>)
  BY DEF CacheDel, TypeOK
<1> QED BY <1>1, AppendDropped DEF TypeOK, Cached

LEMMA CacheDelSettles ==
    ASSUME TypeOK, NEW k0 \in Key, CacheDel(k0),
           NEW k \in Key, NEW d, Settles(store[k], setBuf, d, k)
    PROVE  Settles(store'[k], setBuf', d, k)
<1> DEFINE x == <<"delete", k0, Nil>>
<1>1. x \in Item /\ x[1] # "new"
  BY DEF Item, Cached
<1>2. store'[k] = store[k] \/ store'[k] = Nil
  BY DEF CacheDel, TypeOK
<1>3. setBuf \in Seq(Item) /\ setBuf' = Append(setBuf, x)
  BY DEF TypeOK, CacheDel
<1> HIDE DEF x
<1> QED BY <1>1, <1>2, <1>3, AppendSettles

LEMMA ProcessItemStep ==
    ASSUME TypeOK, ProcessItem
    PROVE  /\ store' \in [Key -> Cached]
           /\ setBuf' \in Seq(Item) /\ Len(setBuf') <= SetBufSize
           /\ setBuf # <<>> /\ setBuf' = Tail(setBuf)
           /\ \A k \in Key : Processed(Head(setBuf), k, store[k], store'[k])
<1>1. /\ setBuf # <<>> /\ setBuf' = Tail(setBuf) /\ setBuf \in Seq(Item)
      /\ Len(setBuf) <= SetBufSize
  BY DEF ProcessItem, TypeOK
<1>2. setBuf' \in Seq(Item) /\ Len(setBuf') <= SetBufSize
  BY <1>1, TailFacts, HybridAssumption
<1> DEFINE x == Head(setBuf)
<1>3. x \in Item
  BY <1>1, TailFacts
<1> HIDE DEF x
<1>4. x[1] \in {"new", "update", "delete"} /\ x[2] \in Key /\ x[3] \in Cached
  BY <1>3 DEF Item
<1>5. CASE x[1] = "new" /\ \E victims \in SUBSET (Key \ {x[2]}) :
                store' = [y \in Key |-> IF y = x[2] THEN x[3]
                                        ELSE IF y \in victims THEN Nil ELSE store[y]]
  BY <1>1, <1>2, <1>4, <1>5 DEF Processed, TypeOK, x, Cached
<1>6. CASE x[1] \in {"new", "update"} /\ UNCHANGED store
  BY <1>1, <1>2, <1>4, <1>6 DEF Processed, TypeOK, x
<1>7. CASE x[1] = "delete" /\ store' = [store EXCEPT ![x[2]] = Nil]
  BY <1>1, <1>2, <1>4, <1>7 DEF Processed, TypeOK, x, Cached
<1> QED BY <1>5, <1>6, <1>7 DEF ProcessItem, x

-----------------------------------------------------------------------------
(* Types. *)
LEMMA Calls ==
    ASSUME NEW op \in {"GET", "INCR", "SET"}, NEW k \in Key,
           NEW at \in {"cache", "disk", "fill", "put", "commit"},
           NEW v \in Cached
    PROVE  [op |-> op, key |-> k, at |-> at, val |-> v] \in Call
  BY DEF Call

(* The steps of a command keep its key and move it on. *)
LEMMA CallMoves ==
    ASSUME NEW c \in Call, NEW at \in {"cache", "disk", "fill", "put", "commit"}
    PROVE  /\ [c EXCEPT !.at = at] \in Call
           /\ [c EXCEPT !.at = at].key = c.key /\ [c EXCEPT !.at = at].at = at
           /\ [c EXCEPT !.at = at].val = c.val
<1>1. [c EXCEPT !.at = at] \in Call
  BY Zenon DEF Call
<1>2. [c EXCEPT !.at = at].key = c.key /\ [c EXCEPT !.at = at].at = at
  BY Zenon DEF Call
<1>3. [c EXCEPT !.at = at].val = c.val
  BY Zenon DEF Call
<1> QED BY <1>1, <1>2, <1>3, Zenon

LEMMA CallGets ==
    ASSUME NEW c \in Call, NEW at \in {"cache", "disk", "fill", "put", "commit"},
           NEW v \in Cached
    PROVE  /\ [c EXCEPT !.at = at, !.val = v] \in Call
           /\ [c EXCEPT !.at = at, !.val = v].key = c.key
           /\ [c EXCEPT !.at = at, !.val = v].at = at
           /\ [c EXCEPT !.at = at, !.val = v].val = v
<1>1. [c EXCEPT !.at = at, !.val = v] \in Call
  BY Zenon DEF Call
<1>2. [c EXCEPT !.at = at, !.val = v].key = c.key
  BY Zenon DEF Call
<1>3. [c EXCEPT !.at = at, !.val = v].at = at
  BY Zenon DEF Call
<1>4. [c EXCEPT !.at = at, !.val = v].val = v
  BY Zenon DEF Call
<1> QED BY <1>1, <1>2, <1>3, <1>4, Zenon

LEMMA LookupFacts ==
    ASSUME NEW c \in Call, NEW hit
    PROVE  \/ Lookup(c, hit) = hit /\ store[c.key] # Nil
           \/ Lookup(c, hit) \in Call /\ Lookup(c, hit).at = "disk"
<1>1. CASE store[c.key] = Nil
  <2>1. Lookup(c, hit) = [c EXCEPT !.at = "disk"]
    BY <1>1, Zenon DEF Lookup
  <2> DEFINE u == [c EXCEPT !.at = "disk"]
  <2>2. u \in Call /\ u.at = "disk"
    BY CallMoves, Zenon
  <2> HIDE DEF u
  <2>3. Lookup(c, hit) = u
    BY <2>1, Zenon DEF u
  <2> QED BY <2>2, <2>3, Zenon
<1>2. CASE store[c.key] # Nil
  BY <1>2, Zenon DEF Lookup
<1> QED BY <1>1, <1>2

LEMMA LoadFacts ==
    ASSUME NEW c \in Call, NEW miss, disk[c.key] \in Value \cup {Nil}
    PROVE  \/ Load(c, miss) = miss
           \/ /\ Load(c, miss) \in Call /\ Load(c, miss).at = "fill"
              /\ Load(c, miss).key = c.key /\ Load(c, miss).val = disk[c.key]
<1>1. CASE disk[c.key] # Nil
  <2> DEFINE d == disk[c.key]
  <2>1. Load(c, miss) = [c EXCEPT !.at = "fill", !.val = d]
    BY <1>1, Zenon DEF Load
  <2>2. d \in Cached /\ "fill" \in {"cache", "disk", "fill", "put", "commit"}
    BY DEF Cached
  <2> HIDE DEF d
  <2>3. /\ [c EXCEPT !.at = "fill", !.val = d] \in Call
        /\ [c EXCEPT !.at = "fill", !.val = d].key = c.key
        /\ [c EXCEPT !.at = "fill", !.val = d].at = "fill"
        /\ [c EXCEPT !.at = "fill", !.val = d].val = d
    BY <2>2, CallGets, Zenon
  <2> QED BY <2>1, <2>3, Zenon DEF d
<1>2. CASE disk[c.key] = Nil
  BY <1>2, Zenon DEF Load
<1> QED BY <1>1, <1>2

LEMMA LoadFailsFacts ==
    ASSUME NEW c \in Call
    PROVE  /\ LoadFails(c) \in Call /\ LoadFails(c).at = "fill"
           /\ LoadFails(c).key = c.key /\ LoadFails(c).val = NoBytes
<1>1. NoBytes \in Cached /\ "fill" \in {"cache", "disk", "fill", "put", "commit"}
  BY DEF Cached
<1>2. /\ [c EXCEPT !.at = "fill", !.val = NoBytes] \in Call
      /\ [c EXCEPT !.at = "fill", !.val = NoBytes].key = c.key
      /\ [c EXCEPT !.at = "fill", !.val = NoBytes].at = "fill"
      /\ [c EXCEPT !.at = "fill", !.val = NoBytes].val = NoBytes
  BY <1>1, CallGets, Zenon
<1>3. LoadFails(c) = [c EXCEPT !.at = "fill", !.val = NoBytes]
  BY Zenon DEF LoadFails
<1> QED BY <1>2, <1>3, Zenon

LEMMA IncrementedType ==
    ASSUME NEW v \in Cached
    PROVE  Incremented(v) \in Value
  BY HybridAssumption DEF Incremented, Value, Cached

LEMMA ToPutFacts ==
    ASSUME write \in Call, NEW v \in Cached
    PROVE  ToPut(v) \in Call /\ ToPut(v).at = "put" /\ ToPut(v).val \in Value
<1> DEFINE d == Incremented(v)
<1>1. d \in Cached /\ d \in Value /\ "put" \in {"cache", "disk", "fill", "put", "commit"}
  BY IncrementedType DEF Cached
<1>2. ToPut(v) = [write EXCEPT !.at = "put", !.val = d]
  BY Zenon DEF ToPut
<1> HIDE DEF d
<1>3. /\ [write EXCEPT !.at = "put", !.val = d] \in Call
      /\ [write EXCEPT !.at = "put", !.val = d].at = "put"
      /\ [write EXCEPT !.at = "put", !.val = d].val = d
  BY <1>1, CallGets, Zenon
<1> QED BY <1>1, <1>2, <1>3, Zenon

LEMMA WritePutFacts ==
    ASSUME WritePut, write \in Call
    PROVE  /\ write' \in Call /\ write'.at = "commit" /\ write'.key = write.key
           /\ write'.val = write.val
<1>1. write' = [write EXCEPT !.at = "commit"]
  BY Zenon DEF WritePut
<1> QED BY <1>1, CallMoves, Zenon

LEMMA TypeInit == Init => TypeOK
<1> SUFFICES ASSUME Init PROVE TypeOK
  OBVIOUS
<1>1. setBuf \in Seq(Item) /\ Len(setBuf) = 0
  BY DEF Init
<1>2. 0 \in 0..MaxCommands /\ 0 <= SetBufSize
  BY HybridAssumption
<1>3. /\ disk \in [Key -> Value \cup {Nil}] /\ store \in [Key -> Cached]
      /\ reads \in [Reader -> Call \cup {Nil}]
      /\ writer \in [Key -> {"command", "checker", "restore"}] /\ failed \in SUBSET Key
  BY DEF Init, Cached
<1>4. /\ write = Nil /\ expire = Nil /\ staged \in BOOLEAN /\ ~staged /\ commands = 0
  BY DEF Init
<1> QED BY <1>1, <1>2, <1>3, <1>4 DEF TypeOK

LEMMA TypeStep == TypeOK /\ [Next]_vars => TypeOK'
<1> SUFFICES ASSUME TypeOK, [Next]_vars PROVE TypeOK'
  OBVIOUS
<1> USE DEF TypeOK
<1>1. CASE ProcessItem
  BY <1>1, ProcessItemStep DEF ProcessItem, checker, history
<1>2. ASSUME NEW r \in Reader, NEW k \in Key, BeginRead(r, k) PROVE TypeOK'
  BY <1>2, Calls, HybridAssumption DEF BeginRead, checker, history, Cached
<1>3. ASSUME NEW r \in Reader, ReadLookup(r) PROVE TypeOK'
  <2>1. reads[r] \in Call
    BY <1>3 DEF ReadLookup
  <2>2. Lookup(reads[r], Answered) \in Call \cup {Nil}
    BY <2>1, LookupFacts DEF Answered
  <2> QED BY <1>3, <2>2 DEF ReadLookup, checker, history
<1>4. ASSUME NEW r \in Reader, ReadLoad(r) PROVE TypeOK'
  <2>1. reads[r] \in Call
    BY <1>4 DEF ReadLoad
  <2>2. disk[reads[r].key] \in Value \cup {Nil}
    BY <2>1 DEF Call
  <2>3. Load(reads[r], Answered) \in Call \cup {Nil} /\ LoadFails(reads[r]) \in Call
    BY <2>1, <2>2, LoadFacts, LoadFailsFacts DEF Answered
  <2>4. reads[r].key \in Key
    BY <2>1 DEF Call
  <2> QED BY <1>4, <2>3, <2>4 DEF ReadLoad, checker
<1>5. ASSUME NEW r \in Reader, ReadFill(r) PROVE TypeOK'
  <2>1. reads[r].key \in Key /\ reads[r].val \in Cached
    BY <1>5 DEF ReadFill, Call
  <2>2. CacheSet(reads[r].key, reads[r].val)
    BY <1>5 DEF ReadFill
  <2> QED BY <1>5, <2>1, <2>2, CacheSetType DEF ReadFill, checker, history
<1>6. ASSUME NEW op \in {"SET", "INCR"}, NEW k \in Key, NEW v \in Value, BeginWrite(op, k, v)
      PROVE  TypeOK'
  <2>1. write' \in Call /\ (write'.at = "put" => write'.val \in Value) /\ write'.at # "commit"
    BY <1>6, Calls DEF BeginWrite, Cached
  <2> QED BY <1>6, <2>1, HybridAssumption DEF BeginWrite, checker, history
<1>7. CASE WriteLookup
  <2>1. write \in Call /\ store[write.key] \in Cached
    BY <1>7 DEF WriteLookup, Call
  <2>2. write' \in Call /\ write'.at # "commit" /\ (write'.at = "put" => write'.val \in Value)
    BY <1>7, <2>1, ToPutFacts, LookupFacts DEF WriteLookup
  <2> QED BY <1>7, <2>2 DEF WriteLookup, checker, history
<1>8. CASE WriteLoad
  <2>1. write \in Call /\ disk[write.key] \in Value \cup {Nil}
    BY <1>8 DEF WriteLoad, Call
  <2>3. Nil \in Cached /\ write.key \in Key
    BY <2>1 DEF Cached, Call
  <2>2. write' \in Call /\ write'.at # "commit" /\ (write'.at = "put" => write'.val \in Value)
    BY <1>8, <2>1, <2>3, ToPutFacts, LoadFacts, LoadFailsFacts DEF WriteLoad
  <2> QED BY <1>8, <2>2, <2>3 DEF WriteLoad, checker
<1>9. CASE WriteFill
  <2>1. /\ write.key \in Key /\ write.val \in Cached /\ write \in Call
        /\ CacheSet(write.key, write.val)
    BY <1>9 DEF WriteFill, Call
  <2>2. write' \in Call /\ write'.at # "commit" /\ write'.val \in Value
    BY <1>9, <2>1, ToPutFacts DEF WriteFill
  <2> QED BY <1>9, <2>1, <2>2, CacheSetType DEF WriteFill, checker, history
<1>10. CASE WritePut
  <2>0. write # Nil /\ CacheDel(write.key)
    BY <1>10, Zenon DEF WritePut
  <2>1. write.key \in Key /\ write \in Call /\ CacheDel(write.key)
    BY <2>0 DEF Call
  <2>2. write' \in Call /\ write'.val \in Value
    <3>1. write.at = "put"
      BY <1>10, Zenon DEF WritePut
    <3>2. write.val \in Value
      BY <2>0, <3>1
    <3> QED BY <1>10, <2>1, <3>2, WritePutFacts
  <2>3. /\ store' \in [Key -> Cached]
        /\ setBuf' \in Seq(Item) /\ Len(setBuf') <= SetBufSize
    BY <2>1, CacheDelType
  <2>4. UNCHANGED <<disk, reads, checker, commands, history>>
    BY <1>10, Zenon DEF WritePut
  <2> QED BY <2>0, <2>2, <2>3, <2>4 DEF checker, history
<1>11. CASE WriteCommit
  <2>1. write.key \in Key /\ write.val \in Value
    BY <1>11 DEF WriteCommit, Call
  <2> QED BY <1>11, <2>1 DEF WriteCommit, checker, history
<1>12. ASSUME NEW k \in Key, ExpireLock(k) PROVE TypeOK'
  BY <1>12 DEF ExpireLock, history
<1>13. CASE ExpireDelete
  BY <1>13, CacheDelType DEF ExpireDelete, history
<1>14. CASE ExpireCommit
  BY <1>14 DEF ExpireCommit
<1>15. ASSUME NEW k \in Key, NEW v \in Value, Restore(k, v) PROVE TypeOK'
  BY <1>15, HybridAssumption DEF Restore, checker, history
<1>16. CASE UNCHANGED vars
  BY <1>16 DEF vars
<1> QED BY <1>1, <1>2, <1>3, <1>4, <1>5, <1>6, <1>7, <1>8, <1>9, <1>10, <1>11, <1>12, <1>13,
           <1>14, <1>15, <1>16 DEF Next, Read, Write, Expire

(* Every variable has its type, the buffer of the cache stays within its   *)
(* capacity, and a command being applied excludes the readers and the TTL  *)
(* checker: the locks of the machine and of the store.                     *)
THEOREM TypeCorrect == Spec => []TypeOK
  BY TypeInit, TypeStep, PTL DEF Spec

-----------------------------------------------------------------------------
(* The invariant, one lemma per operation. *)
LEMMA InvInit == Init => IInv
<1> SUFFICES ASSUME Init PROVE IInv
  OBVIOUS
<1>1. TypeOK
  BY TypeInit
<1>2. ASSUME NEW k \in Key PROVE Settles(store[k], setBuf, Good(k), k) /\ ReadersFresh(k)
  BY DEF Init, Settles, ReadersFresh
<1>3. WriterFresh
  BY DEF Init, WriterFresh
<1> QED BY <1>1, <1>2, <1>3 DEF IInv, KeyInv

LEMMA InvProcessItem ==
    ASSUME IInv, ProcessItem
    PROVE  (\A k \in Key : KeyInv(k)') /\ WriterFresh'
<1>0. TypeOK /\ setBuf \in Seq(Item) /\ UNCHANGED <<disk, reads, write, writer, failed>>
  BY DEF IInv, TypeOK, ProcessItem, history
<1>1. /\ setBuf # <<>> /\ setBuf' = Tail(setBuf)
      /\ \A k \in Key : Processed(Head(setBuf), k, store[k], store'[k])
  BY <1>0, ProcessItemStep
<1>2. ASSUME NEW k \in Key, writer'[k] = "command" PROVE KeyInv(k)'
  <2>1. Settles(store[k], setBuf, Good(k), k) /\ ReadersFresh(k)
    BY <1>0, <1>2 DEF IInv, KeyInv
  <2>2. Settles(store'[k], Tail(setBuf), Good(k), k)
    BY <1>0, <1>1, <2>1, TailSettles
  <2> QED BY <1>0, <1>1, <2>1, <2>2 DEF KeyInv, ReadersFresh, Good
<1>3. WriterFresh'
  <2>1. ASSUME write # Nil, write.at = "commit"
        PROVE  Dropped(store'[write.key], Tail(setBuf), write.key)
    <3>1. write.key \in Key
      BY <1>0, <2>1 DEF TypeOK, Call
    <3> QED BY <1>0, <1>1, <2>1, <3>1, TailDropped DEF IInv, WriterFresh
  <2> QED BY <1>0, <1>1, <2>1 DEF IInv, WriterFresh, Good
<1> QED BY <1>2, <1>3 DEF KeyInv

(* A read command gets what the leveldb has, and fills the cache with it   *)
(* while nobody but the checker or a restore can have changed it.          *)
LEMMA InvRead ==
    ASSUME IInv, NEW r \in Reader, Read(r) \/ \E k \in Key : BeginRead(r, k)
    PROVE  (\A k \in Key : KeyInv(k)') /\ WriterFresh'
<1>0. TypeOK
  BY DEF IInv
<1>1. ASSUME UNCHANGED <<disk, store, setBuf, write, writer>>, NEW c,
             failed \subseteq failed', reads' = [reads EXCEPT ![r] = c],
             c # Nil /\ c.at = "fill" =>
                 c.val = disk[c.key] \/ (c.val = NoBytes /\ c.key \in failed')
      PROVE  (\A k \in Key : KeyInv(k)') /\ WriterFresh'
  <2>1. \A q \in Reader : reads'[q] = reads[q] \/ reads'[q] = c
    BY <1>0, <1>1 DEF TypeOK
  <2>4. \A k : Good(k) \subseteq Good(k)'
    BY <1>1 DEF Good
  <2>2. ASSUME NEW k \in Key, writer[k] = "command" PROVE KeyInv(k)'
    <3>1. Settles(store[k], setBuf, Good(k), k) /\ ReadersFresh(k)
      BY <2>2 DEF IInv, KeyInv
    <3>2. Settles(store[k], setBuf, Good(k)', k)
      BY <2>4, <3>1, WiderSettles
    <3>3. ReadersFresh(k)'
      BY <1>1, <2>1, <2>4, <3>1 DEF ReadersFresh, Good
    <3> QED BY <1>1, <3>2, <3>3 DEF KeyInv
  <2>3. WriterFresh'
    BY <1>1, <2>4 DEF IInv, WriterFresh
  <2> QED BY <1>1, <2>2, <2>3 DEF KeyInv
<1>2. ASSUME NEW k \in Key, BeginRead(r, k)
      PROVE  (\A j \in Key : KeyInv(j)') /\ WriterFresh'
  BY <1>1, <1>2 DEF BeginRead, history
<1>3. CASE ReadLookup(r)
  <2>1. reads[r] \in Call
    BY <1>0, <1>3 DEF ReadLookup, TypeOK
  <2>2. LET c == Lookup(reads[r], Answered) IN c = Nil \/ c.at = "disk"
    BY <2>1, LookupFacts DEF Answered
  <2> QED BY <1>1, <1>3, <2>2 DEF ReadLookup, history
<1>4. CASE ReadLoad(r)
  <2>1. reads[r] \in Call /\ disk[reads[r].key] \in Value \cup {Nil}
    BY <1>0, <1>4 DEF ReadLoad, TypeOK, Call
  <2> DEFINE c == Load(reads[r], Answered)
             f == LoadFails(reads[r])
  <2>2. c = Nil \/ c.val = disk[c.key]
    BY <2>1, LoadFacts DEF Answered
  <2>3. f.key = reads[r].key /\ f.val = NoBytes
    BY <2>1, LoadFailsFacts
  <2>4. UNCHANGED <<disk, store, setBuf, write, writer>>
    BY <1>4 DEF ReadLoad
  <2> HIDE DEF c, f
  <2>5. CASE reads' = [reads EXCEPT ![r] = c] /\ UNCHANGED failed
    BY <1>1, <2>2, <2>4, <2>5
  <2>6. CASE reads' = [reads EXCEPT ![r] = f] /\ failed' = failed \cup {reads[r].key}
    <3>1. f.val = NoBytes /\ f.key \in failed' /\ failed \subseteq failed'
      BY <2>3, <2>6
    <3> QED BY <1>1, <2>4, <2>6, <3>1
  <2> QED BY <1>4, <2>5, <2>6 DEF ReadLoad, c, f
<1>5. CASE ReadFill(r)
  <2> DEFINE c == reads[r]
  <2>1. /\ c # Nil /\ c.at = "fill" /\ CacheSet(c.key, c.val) /\ write = Nil
        /\ reads' = [reads EXCEPT ![r] = Nil] /\ UNCHANGED <<disk, write, writer, failed>>
        /\ c.key \in Key /\ c.val \in Cached
    BY <1>0, <1>5 DEF ReadFill, TypeOK, Call, history
  <2>2. \A q \in Reader : reads'[q] = reads[q] \/ reads'[q] = Nil
    BY <1>0, <2>1 DEF TypeOK
  <2> HIDE DEF c
  <2>3. ASSUME NEW k \in Key, writer[k] = "command" PROVE KeyInv(k)'
    <3>1. Settles(store[k], setBuf, Good(k), k) /\ ReadersFresh(k)
      BY <2>3 DEF IInv, KeyInv
    <3>2. k = c.key => c.val \in Good(k)
      BY <2>1, <3>1 DEF ReadersFresh, c
    <3>3. Settles(store'[k], setBuf', Good(k), k)
      BY <1>0, <2>1, <3>1, <3>2, CacheSetSettles
    <3> QED BY <2>1, <2>2, <3>1, <3>3 DEF KeyInv, ReadersFresh, Good
  <2>4. WriterFresh'
    BY <2>1 DEF WriterFresh
  <2> QED BY <2>1, <2>3, <2>4 DEF KeyInv
<1> QED BY <1>2, <1>3, <1>4, <1>5 DEF Read

(* The write command.  No read command is in the driver, so what the       *)
(* command read is what the leveldb has until it commits.                  *)
LEMMA InvWriteStart ==
    ASSUME IInv,
           \/ \E op \in {"SET", "INCR"}, k \in Key, v \in Value : BeginWrite(op, k, v)
           \/ WriteLookup \/ WriteLoad
    PROVE  (\A k \in Key : KeyInv(k)') /\ WriterFresh'
<1>0. TypeOK
  BY DEF IInv
<1>1. ASSUME UNCHANGED <<disk, store, setBuf, reads, writer>>, failed \subseteq failed',
             write'.at # "commit", write'.at = "fill" => write'.val \in Good(write.key)',
             write'.key = write.key \/ write'.at # "fill"
      PROVE  (\A k \in Key : KeyInv(k)') /\ WriterFresh'
  <2>1. \A k : Good(k) \subseteq Good(k)'
    BY <1>1 DEF Good
  <2>2. ASSUME NEW k \in Key, writer[k] = "command" PROVE KeyInv(k)'
    <3>1. Settles(store[k], setBuf, Good(k), k) /\ ReadersFresh(k)
      BY <2>2 DEF IInv, KeyInv
    <3>2. Settles(store[k], setBuf, Good(k)', k)
      BY <2>1, <3>1, WiderSettles
    <3>3. ReadersFresh(k)'
      BY <1>1, <2>1, <3>1 DEF ReadersFresh
    <3> QED BY <1>1, <3>2, <3>3 DEF KeyInv
  <2>3. WriterFresh'
    BY <1>1 DEF WriterFresh, Good
  <2> QED BY <1>1, <2>2, <2>3 DEF KeyInv
<1>2. ASSUME NEW op \in {"SET", "INCR"}, NEW k \in Key, NEW v \in Value,
             BeginWrite(op, k, v)
      PROVE  (\A j \in Key : KeyInv(j)') /\ WriterFresh'
  <2>1. write'.at \in {"put", "cache"}
    BY <1>2 DEF BeginWrite
  <2> QED BY <1>1, <1>2, <2>1 DEF BeginWrite, history
<1>3. CASE WriteLookup
  <2>1. write \in Call /\ store[write.key] \in Cached
    BY <1>0, <1>3 DEF WriteLookup, Call, TypeOK
  <2>2. write'.at \in {"put", "disk"}
    BY <1>3, <2>1, ToPutFacts, LookupFacts DEF WriteLookup
  <2> QED BY <1>1, <1>3, <2>2 DEF WriteLookup, history
<1>4. CASE WriteLoad
  <2>1. write \in Call /\ disk[write.key] \in Value \cup {Nil}
    BY <1>0, <1>4 DEF WriteLoad, Call, TypeOK
  <2> DEFINE c == Load(write, ToPut(Nil))
             f == LoadFails(write)
  <2>2. c.at = "put" \/ (c.at = "fill" /\ c.key = write.key /\ c.val = disk[write.key])
    <3>1. Nil \in Cached
      BY DEF Cached
    <3> QED BY <2>1, <3>1, ToPutFacts, LoadFacts
  <2>3. f.at = "fill" /\ f.key = write.key /\ f.val = NoBytes
    BY <2>1, LoadFailsFacts
  <2>4. UNCHANGED <<disk, store, setBuf, reads, writer>>
    BY <1>4 DEF WriteLoad
  <2> HIDE DEF c, f
  <2>5. CASE write' = c /\ UNCHANGED failed
    <3>1. write'.at = "fill" => write'.val \in Good(write.key)'
      BY <2>2, <2>4, <2>5 DEF Good
    <3>2. failed \subseteq failed' /\ write'.at # "commit"
          /\ (write'.key = write.key \/ write'.at # "fill")
      BY <2>2, <2>5
    <3> QED BY <1>1, <2>4, <3>1, <3>2
  <2>6. CASE write' = f /\ failed' = failed \cup {write.key}
    <3>1. write'.val \in Good(write.key)'
      BY <2>3, <2>6 DEF Good
    <3>2. failed \subseteq failed' /\ write'.at # "commit" /\ write'.key = write.key
      BY <2>3, <2>6
    <3> QED BY <1>1, <2>4, <3>1, <3>2
  <2> QED BY <1>4, <2>5, <2>6 DEF WriteLoad, c, f
<1> QED BY <1>2, <1>3, <1>4

LEMMA InvWriteFill ==
    ASSUME IInv, WriteFill
    PROVE  (\A k \in Key : KeyInv(k)') /\ WriterFresh'
<1>1. /\ TypeOK /\ write # Nil /\ write \in Call /\ CacheSet(write.key, write.val)
      /\ write.key \in Key /\ write.val \in Cached
      /\ write.val \in Good(write.key) /\ write' = ToPut(write.val)
      /\ UNCHANGED <<disk, reads, writer, failed>>
  BY DEF IInv, TypeOK, WriteFill, WriterFresh, Call, history
<1>2. write'.at = "put"
  BY <1>1, ToPutFacts
<1>3. ASSUME NEW k \in Key, writer[k] = "command" PROVE KeyInv(k)'
  <2>1. Settles(store[k], setBuf, Good(k), k) /\ ReadersFresh(k)
    BY <1>3 DEF IInv, KeyInv
  <2>2. Settles(store'[k], setBuf', Good(k), k)
    BY <1>1, <2>1, CacheSetSettles
  <2> QED BY <1>1, <2>1, <2>2 DEF KeyInv, ReadersFresh, Good
<1> QED BY <1>1, <1>2, <1>3 DEF KeyInv, WriterFresh

LEMMA InvWritePut ==
    ASSUME IInv, WritePut
    PROVE  (\A k \in Key : KeyInv(k)') /\ WriterFresh'
<1>1. write # Nil /\ CacheDel(write.key) /\ UNCHANGED <<disk, reads, writer, failed>>
  BY Zenon DEF WritePut, history
<1>2. TypeOK /\ write \in Call /\ write.key \in Key
  BY <1>1 DEF IInv, TypeOK, Call
<1>3. write'.at = "commit" /\ write'.key = write.key
  BY <1>2, WritePutFacts
<1>4. Dropped(store'[write.key], setBuf', write.key)
  BY <1>1, <1>2, CacheDelDrops
<1>5. ASSUME NEW k \in Key, writer[k] = "command" PROVE KeyInv(k)'
  <2>1. Settles(store[k], setBuf, Good(k), k) /\ ReadersFresh(k)
    BY <1>5 DEF IInv, KeyInv
  <2>2. Settles(store'[k], setBuf', Good(k), k)
    BY <1>1, <1>2, <2>1, CacheDelSettles
  <2> QED BY <1>1, <2>1, <2>2 DEF KeyInv, ReadersFresh, Good
<1> QED BY <1>1, <1>3, <1>4, <1>5 DEF KeyInv, WriterFresh

(* The commit makes every copy of the key in the cache an old one; all of  *)
(* them are followed by the deletion of WriteBatch.Put.                    *)
LEMMA InvWriteCommit ==
    ASSUME IInv, WriteCommit
    PROVE  (\A k \in Key : KeyInv(k)') /\ WriterFresh'
<1>1. /\ TypeOK /\ write # Nil /\ write.key \in Key
      /\ disk' = [disk EXCEPT ![write.key] = write.val]
      /\ writer' = [writer EXCEPT ![write.key] = "command"]
      /\ failed' = failed \ {write.key}
      /\ write' = Nil /\ UNCHANGED <<store, setBuf, reads>>
      /\ \A r \in Reader : reads[r] = Nil
      /\ Dropped(store[write.key], setBuf, write.key)
  BY DEF IInv, TypeOK, WriteCommit, WriterFresh, Call
<1>2. ASSUME NEW k \in Key, writer'[k] = "command" PROVE KeyInv(k)'
  <2>1. ReadersFresh(k)'
    BY <1>1 DEF ReadersFresh
  <2>2. CASE k = write.key
    BY <1>1, <2>1, <2>2, DroppedSettles DEF KeyInv
  <2>3. CASE k # write.key
    <3>1. disk'[k] = disk[k] /\ writer[k] = "command"
      BY <1>1, <1>2, <2>3 DEF TypeOK
    <3>2. Good(k)' = Good(k)
      BY <1>1, <2>3, <3>1 DEF Good
    <3> QED BY <1>1, <2>1, <3>1, <3>2 DEF IInv, KeyInv
  <2> QED BY <2>2, <2>3
<1> QED BY <1>1, <1>2 DEF KeyInv, WriterFresh

(* The checker and the restore, which do not keep the readers out, are     *)
(* then the last writers of the key.                                       *)
LEMMA InvOthers ==
    ASSUME IInv,
           \/ Expire
           \/ \E k \in Key : ExpireLock(k) \/ \E v \in Value : Restore(k, v)
    PROVE  (\A k \in Key : KeyInv(k)') /\ WriterFresh'
<1>0. TypeOK
  BY DEF IInv
<1>1. ASSUME NEW k \in Key, ExpireLock(k)
      PROVE  (\A j \in Key : KeyInv(j)') /\ WriterFresh'
  BY <1>1 DEF ExpireLock, history, IInv, KeyInv, ReadersFresh, WriterFresh, Good
<1>2. CASE ExpireDelete
  <2>1. /\ expire \in Key /\ CacheDel(expire) /\ write = Nil
        /\ UNCHANGED <<disk, reads, write, writer, failed>>
    BY <1>0, <1>2 DEF ExpireDelete, TypeOK, history
  <2>2. ASSUME NEW k \in Key, writer[k] = "command" PROVE KeyInv(k)'
    <3>1. Settles(store[k], setBuf, Good(k), k) /\ ReadersFresh(k)
      BY <2>2 DEF IInv, KeyInv
    <3>2. Settles(store'[k], setBuf', Good(k), k)
      BY <1>0, <2>1, <3>1, CacheDelSettles
    <3> QED BY <2>1, <3>1, <3>2 DEF KeyInv, ReadersFresh, Good
  <2> QED BY <2>1, <2>2 DEF KeyInv, WriterFresh
<1>3. ASSUME NEW x \in Key, NEW v, NEW w \in {"checker", "restore"}, write' = Nil,
             disk' = [disk EXCEPT ![x] = v], writer' = [writer EXCEPT ![x] = w],
             UNCHANGED <<store, setBuf, reads, failed>>
      PROVE  (\A k \in Key : KeyInv(k)') /\ WriterFresh'
  <2>1. ASSUME NEW k \in Key, writer'[k] = "command" PROVE KeyInv(k)'
    <3>1. k # x /\ disk'[k] = disk[k] /\ writer[k] = "command"
      BY <1>0, <1>3, <2>1 DEF TypeOK
    <3> QED BY <1>3, <3>1 DEF IInv, KeyInv, ReadersFresh, Good
  <2> QED BY <1>3, <2>1 DEF KeyInv, WriterFresh
<1>4. CASE ExpireCommit
  <2>1. expire \in Key /\ write' = Nil
    BY <1>0, <1>4 DEF ExpireCommit, TypeOK
  <2> QED BY <1>3, <1>4, <2>1 DEF ExpireCommit
<1>5. ASSUME NEW k \in Key, NEW v \in Value, Restore(k, v)
      PROVE  (\A j \in Key : KeyInv(j)') /\ WriterFresh'
  BY <1>3, <1>5 DEF Restore
<1> QED BY <1>1, <1>2, <1>4, <1>5 DEF Expire

LEMMA InvStep == IInv /\ [Next]_vars => IInv'
<1> SUFFICES ASSUME IInv, [Next]_vars PROVE IInv'
  OBVIOUS
<1>1. TypeOK'
  BY TypeStep DEF IInv
<1>2. CASE UNCHANGED vars
  <2>1. (\A k \in Key : KeyInv(k)') /\ WriterFresh'
    BY <1>2 DEF vars, IInv, KeyInv, ReadersFresh, WriterFresh, Good
  <2> QED BY <1>1, <2>1 DEF IInv
<1>3. CASE Next
  <2>1. (\A k \in Key : KeyInv(k)') /\ WriterFresh'
    BY <1>3, InvProcessItem, InvRead, InvWriteStart, InvWriteFill, InvWritePut,
       InvWriteCommit, InvOthers DEF Next, Write
  <2> QED BY <1>1, <2>1 DEF IInv
<1> QED BY <1>2, <1>3

(* A key a command wrote last is not stale once no item about it is left   *)
(* in the buffer.                                                          *)
LEMMA InvCoherent == IInv => CommandsCoherent
<1> SUFFICES ASSUME IInv, NEW k \in Key, Quiet(k), writer[k] = "command", Stale(k)
             PROVE  store[k] = NoBytes /\ k \in failed
  BY DEF CommandsCoherent
<1>1. Settles(store[k], setBuf, Good(k), k)
  BY DEF IInv, KeyInv
<1>2. ~DeletedAfter(setBuf, k, 0)
  BY DEF DeletedAfter, Quiet
<1> QED BY <1>1, <1>2 DEF Settles, Stale, Good

(* A stale entry that stays in the cache is never of a key whose last      *)
(* writer is a command: WriteBatch.Put drops the key from the cache before *)
(* the commit, and the cache's goroutine applies that deletion after every *)
(* older insertion.  The exception is a read of the key that failed since: *)
(* the nil it cached stays, and is never an older value.                   *)
THEOREM Coherent == Spec => []CommandsCoherent
  BY InvInit, InvStep, InvCoherent, PTL DEF Spec
=============================================================================
