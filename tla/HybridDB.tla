------------------------------ MODULE HybridDB ------------------------------
(***************************************************************************)
(* The hybriddb storage driver of one node: a leveldb with a ristretto     *)
(* cache in front of it.  Who uses it, and under which lock:               *)
(*  - the raft FSM loop applies write commands, one at a time, under       *)
(*    m.mu.Lock and the batch lock;                                        *)
(*  - read commands run concurrently under m.mu.RLock;                     *)
(*  - the TTL checker deletes expired keys under the batch lock alone;     *)
(*  - the restore of a raft snapshot writes to the leveldb under no lock   *)
(*    and past the driver.                                                 *)
(* The cache applies insertions and deletions later, from a buffer; its    *)
(* own goroutine (processItems) does that.  One action is one operation    *)
(* on the leveldb or on the cache.                                         *)
(***************************************************************************)
EXTENDS Integers, Sequences

CONSTANTS Key,
          Reader,       \* the read commands that may run at once
          MaxValue,     \* bound: values of counters
          SetBufSize,   \* capacity of the cache's buffer
          MaxCommands,  \* bound: commands in a behaviour
          Nil,          \* no entry
          NoBytes       \* the nil slice, cached: Get answers that there is no value

ASSUME HybridAssumption ==
    /\ MaxValue \in Nat \ {0} /\ SetBufSize \in Nat \ {0} /\ MaxCommands \in Nat
    /\ Nil \notin Nat /\ NoBytes \notin Nat /\ NoBytes # Nil

VARIABLES disk,      \* the leveldb
          store,     \* the cache: what a cache.Get finds
          setBuf,    \* the cache's buffer
          reads,     \* reads[r]: the read command of r, or Nil
          write,     \* the write command being applied, or Nil
          expire,    \* the key the TTL checker is deleting, or Nil
          staged,    \* that deletion has left the cache, and is not committed
          commands,
          writer,    \* history: who last wrote each key
          failed     \* history: the keys a read of which has failed since a command
                     \* last wrote them

vars == <<disk, store, setBuf, reads, write, expire, staged, commands, writer, failed>>
history == <<writer, failed>>

Value == 0..MaxValue
Cached == Value \cup {Nil, NoBytes}
Item == {"new", "update", "delete"} \X Key \X Cached

\* A command in the driver: GET looks a key up; INCR looks it up and puts it;
\* SET puts it.
Call == [op : {"GET", "INCR", "SET"}, key : Key,
         at : {"cache", "disk", "fill", "put", "commit"}, val : Cached]

Init ==
    /\ disk = [k \in Key |-> Nil] /\ store = disk
    /\ setBuf = <<>>
    /\ reads = [r \in Reader |-> Nil] /\ write = Nil
    /\ expire = Nil /\ staged = FALSE
    /\ commands = 0
    /\ writer = [k \in Key |-> "command"] /\ failed = {}

checker == <<expire, staged>>

-----------------------------------------------------------------------------
(* The cache.                                                              *)

\* cache.Set: a key that is there is updated at once, a new one only through
\* the buffer; when that is full the item is dropped.
CacheSet(k, v) ==
    /\ store' = IF store[k] = Nil THEN store ELSE [store EXCEPT ![k] = v]
    /\ setBuf' = IF Len(setBuf) = SetBufSize THEN setBuf
                 ELSE Append(setBuf, <<IF store[k] = Nil THEN "new" ELSE "update", k, v>>)

\* Mutant: the deletion does not go through the buffer as well.
CacheDelNow(k) ==
    /\ store' = [store EXCEPT ![k] = Nil]
    /\ UNCHANGED setBuf

\* cache.Del: at once, and again after the insertions in the buffer.  It
\* blocks while the buffer is full.
CacheDel(k) ==
    /\ Len(setBuf) < SetBufSize
    /\ store' = [store EXCEPT ![k] = Nil]
    /\ setBuf' = Append(setBuf, <<"delete", k, Nil>>)

\* processItems: the policy admits a new item or not, and evicts others.
ProcessItem ==
    /\ setBuf # <<>>
    /\ setBuf' = Tail(setBuf)
    /\ LET kind == Head(setBuf)[1]  k == Head(setBuf)[2]  v == Head(setBuf)[3]
       IN  \/ kind = "new" /\ \E victims \in SUBSET (Key \ {k}) :
                 store' = [x \in Key |-> IF x = k THEN v
                                         ELSE IF x \in victims THEN Nil ELSE store[x]]
           \/ kind \in {"new", "update"} /\ UNCHANGED store
           \/ kind = "delete" /\ store' = [store EXCEPT ![k] = Nil]
    /\ UNCHANGED <<disk, reads, write, checker, commands, history>>

-----------------------------------------------------------------------------
(* DB.Get, in three steps, of the command in c; hit and miss are what c    *)
(* becomes with the value the cache has, and without any.                  *)

Lookup(c, hit) ==
    IF store[c.key] = Nil THEN [c EXCEPT !.at = "disk"] ELSE hit

Load(c, miss) ==
    IF disk[c.key] = Nil THEN miss
    ELSE [c EXCEPT !.at = "fill", !.val = disk[c.key]]

\* The leveldb's Get fails with another error than ErrNotFound: the nil slice it
\* returns is cached, and answered without the error.
LoadFails(c) == [c EXCEPT !.at = "fill", !.val = NoBytes]

\* A read command is over when it has the value, or knows there is none.
Answered == Nil

BeginRead(r, k) ==
    /\ reads[r] = Nil /\ write = Nil /\ commands < MaxCommands
    /\ reads' = [reads EXCEPT ![r] = [op |-> "GET", key |-> k, at |-> "cache", val |-> Nil]]
    /\ commands' = commands + 1
    /\ UNCHANGED <<disk, store, setBuf, write, checker, history>>

ReadLookup(r) ==
    /\ reads[r] # Nil /\ reads[r].at = "cache"
    /\ reads' = [reads EXCEPT ![r] = Lookup(@, Answered)]
    /\ UNCHANGED <<disk, store, setBuf, write, checker, commands, history>>

ReadLoad(r) ==
    /\ reads[r] # Nil /\ reads[r].at = "disk"
    /\ \/ reads' = [reads EXCEPT ![r] = Load(@, Answered)] /\ UNCHANGED failed
       \/ /\ reads' = [reads EXCEPT ![r] = LoadFails(@)]
          /\ failed' = failed \cup {reads[r].key}
    /\ UNCHANGED <<disk, store, setBuf, write, checker, commands, writer>>

ReadFill(r) ==
    /\ reads[r] # Nil /\ reads[r].at = "fill"
    /\ CacheSet(reads[r].key, reads[r].val)
    /\ reads' = [reads EXCEPT ![r] = Nil]
    /\ UNCHANGED <<disk, write, checker, commands, history>>

Read(r) == ReadLookup(r) \/ ReadLoad(r) \/ ReadFill(r)

-----------------------------------------------------------------------------
(* A write command: m.mu.Lock excludes the readers, the batch lock the     *)
(* checker.                                                                *)

\* incr: the value plus one, 0 when there is none.  (Saturates at the bound.)
Incremented(v) == IF v \in {Nil, NoBytes} THEN 1 ELSE IF v = MaxValue THEN v ELSE v + 1

\* The INCR being applied has read v.
ToPut(v) == [write EXCEPT !.at = "put", !.val = Incremented(v)]

BeginWrite(op, k, v) ==
    /\ write = Nil /\ \A r \in Reader : reads[r] = Nil
    /\ expire = Nil /\ commands < MaxCommands
    /\ \/ /\ op = "SET"
          /\ write' = [op |-> op, key |-> k, at |-> "put", val |-> v]
       \/ /\ op = "INCR"
          /\ write' = [op |-> op, key |-> k, at |-> "cache", val |-> Nil]
    /\ commands' = commands + 1
    /\ UNCHANGED <<disk, store, setBuf, reads, checker, history>>

WriteLookup ==
    /\ write # Nil /\ write.at = "cache"
    /\ write' = Lookup(write, ToPut(store[write.key]))
    /\ UNCHANGED <<disk, store, setBuf, reads, checker, commands, history>>

WriteLoad ==
    /\ write # Nil /\ write.at = "disk"
    /\ \/ write' = Load(write, ToPut(Nil)) /\ UNCHANGED failed
       \/ write' = LoadFails(write) /\ failed' = failed \cup {write.key}
    /\ UNCHANGED <<disk, store, setBuf, reads, checker, commands, writer>>

WriteFill ==
    /\ write # Nil /\ write.at = "fill"
    /\ CacheSet(write.key, write.val)
    /\ write' = ToPut(write.val)
    /\ UNCHANGED <<disk, reads, checker, commands, history>>

\* Mutant: WriteBatch.Put leaves the cache alone.
WritePutOnly ==
    /\ write # Nil /\ write.at = "put"
    /\ write' = [write EXCEPT !.at = "commit"]
    /\ UNCHANGED <<disk, store, setBuf, reads, checker, commands, history>>

\* WriteBatch.Put drops the key from the cache before the commit.
WritePut ==
    /\ write # Nil /\ write.at = "put"
    /\ CacheDel(write.key)
    /\ write' = [write EXCEPT !.at = "commit"]
    /\ UNCHANGED <<disk, reads, checker, commands, history>>

WriteCommit ==
    /\ write # Nil /\ write.at = "commit"
    /\ disk' = [disk EXCEPT ![write.key] = write.val]
    /\ writer' = [writer EXCEPT ![write.key] = "command"]
    /\ failed' = failed \ {write.key}
    /\ write' = Nil
    /\ UNCHANGED <<store, setBuf, reads, checker, commands>>

Write == WriteLookup \/ WriteLoad \/ WriteFill \/ WritePut \/ WriteCommit

-----------------------------------------------------------------------------
(* The TTL checker and the restore do not take m.mu.                       *)

\* check() finds a key whose time has come, and takes the batch lock.
ExpireLock(k) ==
    /\ expire = Nil /\ write = Nil /\ disk[k] # Nil
    /\ expire' = k
    /\ UNCHANGED <<disk, store, setBuf, reads, write, staged, commands, history>>

\* WriteBatch.Delete.
ExpireDelete ==
    /\ expire # Nil /\ ~staged
    /\ CacheDel(expire)
    /\ staged' = TRUE
    /\ UNCHANGED <<disk, reads, write, expire, commands, history>>

ExpireCommit ==
    /\ staged
    /\ disk' = [disk EXCEPT ![expire] = Nil]
    /\ writer' = [writer EXCEPT ![expire] = "checker"]
    /\ expire' = Nil /\ staged' = FALSE
    /\ UNCHANGED <<store, setBuf, reads, write, commands, failed>>

Expire == ExpireDelete \/ ExpireCommit

\* restore writes the keys of the snapshot; no command is being applied.
Restore(k, v) ==
    /\ write = Nil /\ commands < MaxCommands
    /\ disk' = [disk EXCEPT ![k] = v]
    /\ writer' = [writer EXCEPT ![k] = "restore"]
    /\ commands' = commands + 1
    /\ UNCHANGED <<store, setBuf, reads, write, checker, failed>>

-----------------------------------------------------------------------------
Next ==
    \/ ProcessItem
    \/ \E r \in Reader : Read(r) \/ \E k \in Key : BeginRead(r, k)
    \/ Write
    \/ \E op \in {"SET", "INCR"}, k \in Key, v \in Value : BeginWrite(op, k, v)
    \/ Expire
    \/ \E k \in Key : ExpireLock(k)
    \/ \E k \in Key, v \in Value : Restore(k, v)

\* Goroutines that can go on do.
Fairness ==
    /\ WF_vars(ProcessItem) /\ WF_vars(Write) /\ WF_vars(Expire)
    /\ \A r \in Reader : WF_vars(Read(r))

Spec == Init /\ [][Next]_vars /\ Fairness

-----------------------------------------------------------------------------
\* The cache answers something else than the leveldb.
Stale(k) ==
    /\ store[k] # Nil /\ store[k] # disk[k]
    /\ ~(store[k] = NoBytes /\ disk[k] = Nil)

\* No item about k is in the buffer and no command or deletion is in the
\* driver: what the cache holds now it keeps.
Quiet(k) ==
    /\ \A i \in 1..Len(setBuf) : setBuf[i][2] # k
    /\ write = Nil /\ expire = Nil
    /\ \A r \in Reader : reads[r] = Nil

\* Every variable has its type; the buffer is within its capacity; a command
\* being applied excludes read commands and the checker.
TypeOK ==
    /\ disk \in [Key -> Value \cup {Nil}] /\ store \in [Key -> Cached]
    /\ setBuf \in Seq(Item) /\ Len(setBuf) <= SetBufSize
    /\ reads \in [Reader -> Call \cup {Nil}] /\ write \in Call \cup {Nil}
    /\ expire \in Key \cup {Nil} /\ staged \in BOOLEAN
    /\ commands \in 0..MaxCommands
    /\ writer \in [Key -> {"command", "checker", "restore"}]
    /\ write # Nil => expire = Nil /\ \A r \in Reader : reads[r] = Nil
    /\ staged => expire # Nil
    /\ failed \in SUBSET Key
    /\ write # Nil /\ write.at \in {"put", "commit"} => write.val \in Value

\* Invalidating before the commit is enough for what commands write: a stale
\* entry that stays in the cache is of a key the checker or a restore wrote
\* last, never of one a command wrote last, unless a read of the key has failed
\* since; then it answers that there is no value, never an older value.
CommandsCoherent ==
    \A k \in Key : Quiet(k) /\ writer[k] = "command" /\ Stale(k)
                       => store[k] = NoBytes /\ k \in failed

\* An entry can be stale after a command's commit, while an insertion that is
\* older than the command's deletion is ahead of it in the buffer; the
\* deletion follows and ends it.  Only a read that fails can leave one for good.
StaleEnds ==
    \A k \in Key : Stale(k) /\ writer[k] = "command" /\ write = Nil
                        ~> ~Stale(k) \/ writer[k] # "command" \/ k \in failed
=============================================================================
