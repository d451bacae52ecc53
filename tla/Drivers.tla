------------------------------ MODULE Drivers ------------------------------
(***************************************************************************)
(* The storage drivers of IceFireDB-NoSQL under ledis: badger, hybriddb,   *)
(* ipfs, oss, crdt and ipfs-log.  A behaviour is about one of them, kind.  *)
(* A ledis command locks the batch of its data type, adds operations,      *)
(* commits or gives up, and unlocks, which rolls the batch back.  Between  *)
(* these steps other commands read, in steps of their own where a cache is *)
(* filled; calls of the disk and of remote stores may fail; the process    *)
(* may crash.  The iterators of the drivers are operators, at the end.     *)
(***************************************************************************)
EXTENDS Integers, FiniteSets, Sequences, SequencesExt, FiniteSetsExt

CONSTANTS Key,       \* integers, in the byte order of the keys
          Value, Nil,
          NoBytes,   \* a nil slice as a value of hybriddb's cache
          EncodeKey, \* the key of the CRDT store for each key
          SamePrefix,\* the keys that begin like a key of the CRDT store: with
                     \* its first four bytes, or any key when it has no more
          Reader,    \* goroutines that read
          MaxOps,    \* bound: operations in a behaviour
          MaxFaults  \* bound: failed remote calls, failed writes and crashes

ASSUME DriversAssumption ==
    /\ Key \subseteq Int /\ EncodeKey \in [Key -> Key]
    /\ SamePrefix \in [Key -> SUBSET Key] /\ \A k \in Key : k \in SamePrefix[k]
    /\ Nil \notin Value \cup Key /\ \A v \in Value : Nil # <<"cid", v>>
    /\ NoBytes \notin Value \cup {Nil}
    /\ Nil \notin Seq(Key \X (Value \cup {Nil}))
    /\ MaxOps \in Nat /\ MaxFaults \in Nat

VARIABLES kind,
          s,         \* local:  LevelDB, or badger's LSM tree
                     \* remote: the objects in S3, the CRDT or log store
                     \* blobs:  the contents added to IPFS; bucket: S3 has it
                     \* cache:  the ristretto cache of hybriddb and ipfs
                     \* batch, err: the fields of the driver's WriteBatch
          read,      \* what a reader has from LevelDB and not yet in the cache
          phase,     \* "idle", "open" or "committed": where the command is
          ops, faults,
          acked,     \* history: the value a client knows a key to have
          todo,      \* history: the operations of the open batch
          doubt,     \* history: keys a client cannot know the value of
          risk       \* history: keys in doubt once the open batch is given up

vars == <<kind, s, read, phase, ops, faults, acked, todo, doubt, risk>>

Kinds == {"badger", "hybriddb", "ipfs", "oss", "crdt", "ipfs-log"}
Eager == {"oss", "crdt", "ipfs-log"}
Cached == {"hybriddb", "ipfs"}

Nothing == [k \in Key |-> Nil]
NoReads == [r \in Reader |-> Nil]
Keys(b) == {b[i][1] : i \in DOMAIN b}

\* The operations of a batch in their order: the last one on a key counts.
ApplyAll(f, b) ==
    [k \in Key |-> LET on == {i \in DOMAIN b : b[i][1] = k}
                   IN  IF on = {} THEN f[k] ELSE b[Max(on)][2]]

Slot(k) == IF kind = "crdt" THEN EncodeKey[k] ELSE k

Init ==
    /\ kind \in Kinds
    /\ s = [local |-> Nothing, remote |-> Nothing, blobs |-> {}, bucket |-> FALSE,
            cache |-> Nothing, batch |-> <<>>, err |-> FALSE]
    /\ phase = "idle" /\ ops = 0 /\ faults = 0
    /\ read = NoReads
    /\ acked = Nothing /\ todo = <<>> /\ doubt = {} /\ risk = {}

-----------------------------------------------------------------------------
(* The WriteBatch of each driver, as functions of its state; out is the    *)
(* outcome of the call of the remote store.  v = Nil is a deletion.        *)

Queue(t, k, v) == [t EXCEPT !.batch = Append(@, <<k, v>>), !.cache[k] = Nil]

\* leveldb.Write of a batch, or the commit of a transaction of badger.
WriteOut(t) == [t EXCEPT !.local = ApplyAll(@, t.batch)]

\* badger collects a batch in a transaction.  When an operation makes it too
\* big ("full") it is committed, and the operation begins another one; when
\* that fails ("lost") the error is kept.  The driver ignores what Set and
\* Delete return: an operation they refuse is lost.
BadgerAdd(t, k, v, out) ==
    CASE out = "ok"   -> Queue(t, k, v)
      [] out = "full" -> [WriteOut(t) EXCEPT !.batch = <<<<k, v>>>>]
      [] out = "lost" -> [t EXCEPT !.batch = <<<<k, v>>>>, !.err = TRUE]
      [] OTHER        -> t
HybridAdd(t, k, v) == Queue(t, k, v)

Cid(v) == <<"cid", v>>

\* Put adds the content to IPFS first; the error is kept, never cleared.
IpfsPut(t, k, v, out) ==
    IF out = "ok" THEN [Queue(t, k, Cid(v)) EXCEPT !.blobs = @ \cup {v}]
    ELSE [t EXCEPT !.err = TRUE]

IpfsDelete(t, k) == Queue(t, k, Nil)

\* Every call to S3 makes a client, which creates the bucket when it is
\* missing; then the object is written.  Either may fail.
NewClient(t, out) == IF out = "unreachable" THEN t ELSE [t EXCEPT !.bucket = TRUE]
ClientSet(t, k, v, out) == IF out = "ok" THEN [t EXCEPT !.remote[k] = v] ELSE t
ClientDelete(t, k, out) == IF out = "ok" THEN [t EXCEPT !.remote[k] = Nil] ELSE t
S3Put(t, k, v, out) == ClientSet(NewClient(t, out), k, v, out)
S3Delete(t, k, out) == ClientDelete(NewClient(t, out), k, out)

\* DB.Put writes to S3 and then to LevelDB; DB.Delete goes on to LevelDB
\* when S3 fails.  The batch ignores what they return.
OssPut(t, k, v, out) ==
    LET q == S3Put(Queue(t, k, v), k, v, out)
    IN  IF out = "ok" THEN [q EXCEPT !.local[k] = v] ELSE q

\* Mutant: a deletion does not reach S3.
OssDeleteLocal(t, k, out) == [Queue(t, k, Nil) EXCEPT !.local[k] = Nil]

OssDelete(t, k, out) == [S3Delete(Queue(t, k, Nil), k, out) EXCEPT !.local[k] = Nil]

\* There is no batch: an operation is done at once, its error ignored.
CrdtAdd(t, k, v, out) == IF out = "ok" THEN [t EXCEPT !.remote[EncodeKey[k]] = v] ELSE t
IpfsLogAdd(t, k, v, out) == IF out = "ok" THEN [t EXCEPT !.remote[k] = v] ELSE t

BatchAdd(t, k, v, out) ==
    CASE kind = "badger"   -> BadgerAdd(t, k, v, out)
      [] kind = "hybriddb" -> HybridAdd(t, k, v)
      [] kind = "ipfs"     -> IF v = Nil THEN IpfsDelete(t, k) ELSE IpfsPut(t, k, v, out)
      [] kind = "oss"      -> IF v = Nil THEN OssDelete(t, k, out) ELSE OssPut(t, k, v, out)
      [] kind = "crdt"     -> CrdtAdd(t, k, v, out)
      [] kind = "ipfs-log" -> IpfsLogAdd(t, k, v, out)

BadgerCommit(t) == IF t.err THEN t ELSE WriteOut(t)
HybridCommit(t) == WriteOut(t)

\* Mutant: a kept error does not stop the commit.
IpfsCommitAnyway(t) == WriteOut(t)

IpfsCommit(t) == IF t.err THEN t ELSE WriteOut(t)

OssCommit(t) == WriteOut(t)
CrdtCommit(t) == t
IpfsLogCommit(t) == t

BatchCommit(t) ==
    CASE kind = "badger"   -> BadgerCommit(t)
      [] kind = "hybriddb" -> HybridCommit(t)
      [] kind = "ipfs"     -> IpfsCommit(t)
      [] kind = "oss"      -> OssCommit(t)
      [] kind = "crdt"     -> CrdtCommit(t)
      [] kind = "ipfs-log" -> IpfsLogCommit(t)

BadgerRollback(t) == [t EXCEPT !.batch = <<>>, !.err = FALSE]
HybridRollback(t) == [t EXCEPT !.batch = <<>>]
IpfsRollback(t) == [t EXCEPT !.batch = <<>>]
OssRollback(t) == [t EXCEPT !.batch = <<>>]
CrdtRollback(t) == t
IpfsLogRollback(t) == t

BatchRollback(t) ==
    CASE kind = "badger"   -> BadgerRollback(t)
      [] kind = "hybriddb" -> HybridRollback(t)
      [] kind = "ipfs"     -> IpfsRollback(t)
      [] kind = "oss"      -> OssRollback(t)
      [] kind = "crdt"     -> CrdtRollback(t)
      [] kind = "ipfs-log" -> IpfsLogRollback(t)

-----------------------------------------------------------------------------
(* DB.Get of each driver; out is the outcome of the read of the disk or of *)
(* the remote store, if it comes to that.                                  *)

Failure == "error"

\* shell.Cat of a content identifier.
Cat(t, c) == CHOOSE v \in t.blobs : Cid(v) = c

Bytes(c) == IF c = NoBytes THEN Nil ELSE c

BadgerGet(t, k, out) == IF out = "ok" THEN t.local[k] ELSE Failure

\* hybriddb takes every error of LevelDB for a missing key.
HybridGet(t, k, out) ==
    IF t.cache[k] # Nil THEN Bytes(t.cache[k])
    ELSE IF out = "ok" THEN t.local[k] ELSE Nil
IpfsGet(t, k, out) ==
    IF t.cache[k] # Nil THEN Bytes(t.cache[k])
    ELSE IF t.local[k] = Nil THEN Nil
    ELSE IF out = "ok" THEN Cat(t, t.local[k]) ELSE Failure
ClientGet(t, k, out) == IF out = "ok" THEN t.remote[k] ELSE Failure
S3Get(t, k, out) == ClientGet(NewClient(t, out), k, out)

\* oss takes every error of S3 for a missing key.
OssGet(t, k, out) == IF out = "ok" THEN S3Get(t, k, out) ELSE Nil
CrdtGet(t, k, out) == IF out = "ok" THEN t.remote[EncodeKey[k]] ELSE Failure
IpfsLogGet(t, k, out) == IF out = "ok" THEN t.remote[k] ELSE Failure

Get(t, k, out) ==
    CASE kind = "badger"   -> BadgerGet(t, k, out)
      [] kind = "hybriddb" -> HybridGet(t, k, out)
      [] kind = "ipfs"     -> IpfsGet(t, k, out)
      [] kind = "oss"      -> OssGet(t, k, out)
      [] kind = "crdt"     -> CrdtGet(t, k, out)
      [] kind = "ipfs-log" -> IpfsLogGet(t, k, out)

\* A database opened again over its files, with an empty cache and batch.
BadgerOpen(t) == [t EXCEPT !.batch = <<>>, !.err = FALSE]
HybridOpen(t) == [t EXCEPT !.cache = Nothing, !.batch = <<>>]
IpfsOpen(t) == [t EXCEPT !.cache = Nothing, !.batch = <<>>, !.err = FALSE]
OssOpen(t) == [t EXCEPT !.cache = Nothing, !.batch = <<>>]
CrdtOpen(t) == t
IpfsLogOpen(t) == t

Open(t) ==
    CASE kind = "badger"   -> BadgerOpen(t)
      [] kind = "hybriddb" -> HybridOpen(t)
      [] kind = "ipfs"     -> IpfsOpen(t)
      [] kind = "oss"      -> OssOpen(t)
      [] kind = "crdt"     -> CrdtOpen(t)
      [] kind = "ipfs-log" -> IpfsLogOpen(t)

\* The keys that iterators list.
Listed(t) ==
    {k \in Key : (IF kind \in {"crdt", "ipfs-log"} THEN t.remote[k] ELSE t.local[k]) # Nil}

-----------------------------------------------------------------------------
(* A command of ledis (batch.Lock ... batch.Unlock).                       *)

Outcomes == {"ok", "full", "lost", "unreachable", "refused"}
Fault == faults < MaxFaults /\ faults' = faults + 1

Lock ==
    /\ phase = "idle" /\ ops < MaxOps
    /\ phase' = "open" /\ todo' = <<>>
    /\ UNCHANGED <<kind, s, read, ops, faults, acked, doubt, risk>>

\* The outcomes the call of a driver may have.
Possible(out) ==
    CASE out = "ok"          -> UNCHANGED faults
      [] out = "full"        -> kind = "badger" /\ s.batch # <<>> /\ UNCHANGED faults
      [] out = "lost"        -> kind = "badger" /\ s.batch # <<>> /\ Fault
      [] out = "unreachable" -> kind \in Eager \cup {"ipfs"} /\ Fault
      [] out = "refused"     -> kind # "hybriddb" /\ Fault

\* Whether the operation is in the batch or the store afterwards.
Taken(out) == out = "ok" \/ (kind = "badger" /\ out \in {"full", "lost"})

\* Put or Delete.  In an eager driver the key has the value from now on, or
\* nobody knows; in hybriddb and ipfs an older copy leaves the cache.
AddOp(k, v, out) ==
    /\ phase = "open" /\ ops < MaxOps /\ ops' = ops + 1
    /\ Possible(out)
    /\ s' = BatchAdd(s, k, v, out)
    /\ todo' = Append(todo, <<Slot(k), v>>)
    /\ doubt' = IF Taken(out) THEN doubt \ {Slot(k)}
                ELSE IF kind \in Cached THEN doubt ELSE doubt \cup {Slot(k)}
    /\ risk' = risk \cup (IF out \in {"full", "lost"} THEN Keys(s.batch) ELSE {})
                    \cup (IF \/ kind \in Eager
                             \/ kind = "badger" /\ (s'.err \/ k \in doubt)
                          THEN {Slot(k)} ELSE {})
    /\ UNCHANGED <<kind, read, phase, acked>>

\* Of a batch that is not committed badger may have written some parts, and
\* an eager driver all operations.
GivenUp == doubt \cup risk

\* Commit returns nil; clients of the command get their answer.
CommitOk ==
    /\ phase = "open" /\ ~s.err
    /\ s' = BatchCommit(s) /\ phase' = "committed"
    /\ acked' = ApplyAll(acked, todo) /\ todo' = <<>> /\ risk' = {}
    /\ UNCHANGED <<kind, read, ops, faults, doubt>>

\* Commit returns an error: the kept one, or one of the disk.  The last part
\* of a batch of badger may be written before the error of another arrives.
CommitFails ==
    /\ phase = "open" /\ kind \notin {"crdt", "ipfs-log"}
    /\ \/ s.err /\ s' = BatchCommit(s) /\ UNCHANGED faults
       \/ kind = "badger" /\ s.err /\ s' = WriteOut(s) /\ UNCHANGED faults
       \/ Fault /\ s' = s
    /\ phase' = "committed"
    /\ doubt' = GivenUp /\ todo' = <<>> /\ risk' = {}
    /\ UNCHANGED <<kind, read, ops, acked>>

\* Unlock, after a commit or when the command ends with an error before it.
Unlock ==
    /\ phase \in {"open", "committed"}
    /\ s' = BatchRollback(s) /\ phase' = "idle"
    /\ doubt' = GivenUp /\ todo' = <<>> /\ risk' = {}
    /\ UNCHANGED <<kind, read, ops, faults, acked>>

\* A reader of hybriddb or ipfs does not find the key in the cache and gets
\* what LevelDB has.
ReadLevel(r, k) ==
    /\ kind \in Cached /\ read[r] = Nil
    /\ s.cache[k] = Nil /\ s.local[k] # Nil
    /\ read' = [read EXCEPT ![r] = <<k, s.local[k]>>]
    /\ UNCHANGED <<kind, s, phase, ops, faults, acked, todo, doubt, risk>>

\* Then, in ipfs after getting the content, it puts the value in the cache.
\* That is an old value when a batch changed the key in between, and will be
\* one when the open batch changes it.
ReadFill(r) ==
    LET k == read[r][1]  x == read[r][2]
    IN  /\ read[r] # Nil
        /\ s' = [s EXCEPT !.cache[k] = IF kind = "ipfs" THEN Cat(s, x) ELSE x]
        /\ read' = [read EXCEPT ![r] = Nil]
        /\ doubt' = IF x # s.local[k] \/ k \in Keys(todo) THEN doubt \cup {k} ELSE doubt
        /\ UNCHANGED <<kind, phase, ops, faults, acked, todo, risk>>

\* IPFS does not deliver the content: Get returns the error.
ReadFails(r) ==
    /\ kind = "ipfs" /\ read[r] # Nil /\ Fault
    /\ read' = [read EXCEPT ![r] = Nil]
    /\ UNCHANGED <<kind, s, phase, ops, acked, todo, doubt, risk>>

\* LevelDB fails: hybriddb puts a nil slice in the cache.
ReadBroken(k) ==
    /\ kind = "hybriddb" /\ s.cache[k] = Nil /\ Fault
    /\ s' = [s EXCEPT !.cache[k] = NoBytes]
    /\ doubt' = doubt \cup {k}
    /\ UNCHANGED <<kind, read, phase, ops, acked, todo, risk>>

\* A read of oss makes a client too.
ReadS3 ==
    /\ kind = "oss" /\ ~s.bucket /\ s' = NewClient(s, "ok")
    /\ UNCHANGED <<kind, read, phase, ops, faults, acked, todo, doubt, risk>>

\* The process ends and starts again.
Restart ==
    /\ Fault
    /\ s' = Open(s) /\ phase' = "idle" /\ todo' = <<>> /\ risk' = {}
    /\ read' = NoReads
    /\ doubt' = IF kind \in Cached THEN {} ELSE GivenUp
    /\ UNCHANGED <<kind, ops, acked>>

Next ==
    \/ Lock \/ CommitOk \/ CommitFails \/ Unlock \/ Restart \/ ReadS3
    \/ \E r \in Reader, k \in Key : ReadLevel(r, k)
    \/ \E r \in Reader : ReadFill(r) \/ ReadFails(r)
    \/ \E k \in Key : ReadBroken(k)
    \/ \E k \in Key, v \in Value \cup {Nil}, out \in Outcomes : AddOp(k, v, out)

Spec == Init /\ [][Next]_vars
-----------------------------------------------------------------------------
(* Iterators over the listed keys S.  A position has the key it is at, Nil *)
(* when it is not valid, the direction a CRDT query returns its results in,*)
(* the key that was last sought (crdt: Iterator.seekKey, Nil when empty)   *)
(* and whether the call panicked.                                          *)

At(key, down, sought) == [key |-> key, down |-> down, sought |-> sought, panic |-> FALSE]
Lowest(S) == IF S = {} THEN Nil ELSE CHOOSE x \in S : \A y \in S : x <= y
Highest(S) == IF S = {} THEN Nil ELSE CHOOSE x \in S : \A y \in S : y <= x

First(S, p) == At(Lowest(S), FALSE, Nil)
StepUp(S, p) == [p EXCEPT !.key = Lowest({x \in S : x > p.key})]
StepDown(S, p) == [p EXCEPT !.key = Highest({x \in S : x < p.key})]

\* LevelDB iterators, of hybriddb, ipfs, oss and ipfs-log.
LevelSeek(S, p, k) == At(Lowest({x \in S : x >= k}), FALSE, k)
LevelLast(S, p) == [p EXCEPT !.key = Highest(S)]

\* badger: Prev seeks the key before the current one; there is none before
\* the first, and the iterator stays there.  Last asks an iterator for its
\* item without asking whether it is valid.
BadgerPrev(S, p) == IF p.key = Lowest(S) THEN p ELSE StepDown(S, p)
BadgerLast(S, p) == IF S = {} THEN [p EXCEPT !.panic = TRUE] ELSE [p EXCEPT !.key = Highest(S)]

\* crdt: the results of a query for the key last sought have its prefix.
\* Last asks for those up to the key, in descending order; Next and Prev both
\* take the next result of the query.
Results(S, sought) == IF sought = Nil THEN S ELSE S \cap SamePrefix[sought]
CrdtSeek(S, p, k) ==
    LET e == EncodeKey[k] IN At(Lowest({x \in Results(S, e) : x >= e}), FALSE, e)
CrdtStep(S, p) ==
    IF p.down THEN StepDown(Results(S, p.sought), p) ELSE StepUp(Results(S, p.sought), p)
CrdtLast(S, p) ==
    At(IF p.sought = Nil THEN Nil
       ELSE Highest({x \in Results(S, p.sought) : x <= p.sought}), TRUE, p.sought)

Seek(S, p, k) == IF kind = "crdt" THEN CrdtSeek(S, p, k) ELSE LevelSeek(S, p, k)
Forth(S, p) == IF kind = "crdt" THEN CrdtStep(S, p) ELSE StepUp(S, p)
Prev(S, p) ==
    CASE kind = "crdt"   -> CrdtStep(S, p)
      [] kind = "badger" -> BadgerPrev(S, p)
      [] OTHER           -> StepDown(S, p)
ToLast(S, p) ==
    CASE kind = "crdt"   -> CrdtLast(S, p)
      [] kind = "badger" -> BadgerLast(S, p)
      [] OTHER           -> LevelLast(S, p)

\* A range r: rev, min and max (Nil: none), open (both ends), offset, count.
Move(S, r, p) ==
    IF p.key = Nil THEN p ELSE IF r.rev THEN Prev(S, p) ELSE Forth(S, p)

\* rangeLimitIterator of ledis, up to the offset.
Start(S, r) ==
    LET new == At(Nil, FALSE, Nil)
        to == IF r.max = Nil THEN new ELSE Seek(S, new, r.max)
        last == IF to.key = Nil THEN ToLast(S, to)
                ELSE IF to.key # r.max THEN Prev(S, to) ELSE to
        from == IF r.min = Nil THEN First(S, new) ELSE Seek(S, new, r.min)
        Skip(p, k) == IF r.open /\ p.key # Nil /\ p.key = k THEN Move(S, r, p) ELSE p
    IN  IF r.rev THEN Skip(last, r.max) ELSE Skip(from, r.min)

Valid(r, p, step) ==
    /\ p.key # Nil /\ (r.count >= 0 => step < r.count)
    /\ IF r.rev THEN r.min # Nil => p.key > r.min \/ (~r.open /\ p.key = r.min)
       ELSE r.max # Nil => p.key < r.max \/ (~r.open /\ p.key = r.max)

\* Mutant: an open end is not skipped.
RangeClosed(S, r, n) ==
    LET pos[i \in 0..(r.offset + n)] ==
            IF i = 0 THEN Start(S, [r EXCEPT !.open = FALSE]) ELSE Move(S, r, pos[i - 1])
        ends == {i \in 0..n : ~Valid(r, pos[r.offset + i], i)}
        len == IF ends = {} THEN n ELSE Lowest(ends)
    IN  IF pos[0].panic THEN Nil ELSE [i \in 1..len |-> pos[r.offset + i - 1].key]

\* The first n keys a loop over the range gets, or Nil when it panics.
RangeKeys(S, r, n) ==
    LET pos[i \in 0..(r.offset + n)] ==
            IF i = 0 THEN Start(S, r) ELSE Move(S, r, pos[i - 1])
        ends == {i \in 0..n : ~Valid(r, pos[r.offset + i], i)}
        len == IF ends = {} THEN n ELSE Lowest(ends)
    IN  IF pos[0].panic THEN Nil ELSE [i \in 1..len |-> pos[r.offset + i - 1].key]

-----------------------------------------------------------------------------
Contents(t) ==
    CASE kind = "ipfs" -> [k \in Key |-> IF t.local[k] = Nil THEN Nil ELSE Cat(t, t.local[k])]
      [] kind \in {"badger", "hybriddb"} -> t.local
      [] OTHER -> t.remote

Decoded(op) == IF kind = "ipfs" /\ op[2] # Nil THEN <<op[1], Cat(s, op[2])>> ELSE op

\* The batches of hybriddb and ipfs are applied as a whole, at the commit, or
\* not at all, whatever fails in between.  Those of badger too unless they
\* outgrow a transaction: then in parts, in their order, and a commit that
\* returns nil has written every part.  In oss, crdt and ipfs-log each
\* operation takes effect as it is added, or is lost, and neither a commit
\* nor a rollback changes what readers see.
Batches == INSTANCE BatchStore WITH
    mode <- IF kind \in Eager THEN "eager" ELSE IF kind = "badger" THEN "parts" ELSE "whole",
    store <- Contents(s),
    pending <- IF phase # "open" THEN Nil ELSE IF kind \in Eager THEN <<>>
               ELSE [i \in DOMAIN s.batch |-> Decoded(s.batch[i])],
    broken <- phase = "open" /\ s.err

ImplementsBatches == Batches!Spec

\* Between commands a read returns, and an iterator lists, what the last
\* command that was answered with success has written; a read that fails
\* says so, except that oss and hybriddb call the key missing.  Not, in
\* badger and the eager drivers, a key for which an operation failed (the
\* error is ignored) or that a batch changed which was given up in part; and
\* not, in the cached ones, a key whose cache entry a reader filled while a
\* batch that changed it was open or committed, or after LevelDB failed.
AckedVisible ==
    phase = "idle" =>
        \A k \in Key : Slot(k) \notin doubt =>
            /\ Slot(k) \in Listed(s) <=> acked[Slot(k)] # Nil
            /\ Get(s, k, "ok") = acked[Slot(k)]
            /\ Get(s, k, "unreachable")
                  \in {acked[Slot(k)], IF kind \in {"oss", "hybriddb"} THEN Nil ELSE Failure}

Ranges ==
    [rev : BOOLEAN, min : Key \cup {Nil}, max : Key \cup {Nil}, open : BOOLEAN,
     offset : 0..1, count : {-1, 2}]

InRange(S, r) ==
    {x \in S : /\ r.min # Nil => x > r.min \/ (~r.open /\ x = r.min)
               /\ r.max # Nil => x < r.max \/ (~r.open /\ x = r.max)}

Wanted(S, r) ==
    LET up == SetToSortSeq(InRange(S, r), <)
        all == IF r.rev THEN Reverse(up) ELSE up
        rest == SubSeq(all, r.offset + 1, Len(all))
    IN  IF r.count < 0 \/ Len(rest) <= r.count THEN rest ELSE SubSeq(rest, 1, r.count)

\* Range and limit queries return the keys of the range in order, once each,
\* in every state of the database (iterators do not read the cache).
\* Backwards, badger's do so only when a key of the database precedes the
\* range (or no more than count are wanted), and panic in an empty database.
\* Those of crdt do so only when the ends of the range are their own encoding,
\* and forwards when the keys wanted have the prefix of the lower end,
\* backwards when those wanted have the prefix of the upper end and no key
\* with it follows.
RangesRight ==
    phase = "idle" /\ s.cache = Nothing /\ ~s.err =>
        LET S == Listed(s)  n == Cardinality(Key) + 1
        IN  \A r \in Ranges :
               LET from == IF r.rev THEN r.max ELSE r.min IN
               \/ RangeKeys(S, r, n) = Wanted(S, r)
               \/ /\ kind = "badger" /\ r.rev
                  /\ \A x \in S : r.min # Nil => x \in InRange(S, r) \/ (r.max # Nil /\ x >= r.max)
                  /\ S = {} \/ r.count < 0 \/ Len(Wanted(S, r)) < r.count
               \/ /\ kind = "crdt"
                  /\ \/ \E e \in {r.min, r.max} \ {Nil} : EncodeKey[e] # e
                     \/ from # Nil /\ ~(InRange(S, r) \subseteq SamePrefix[from])
                     \/ r.rev /\ (r.max = Nil \/ \E x \in S \cap SamePrefix[r.max] : x >= r.max)
=============================================================================
