---------------------------- MODULE Replication ----------------------------
(***************************************************************************)
(* The replicated machine of IceFireDB-NoSQL.  Raft (hashicorp/raft, run   *)
(* by uhaha) commits one sequence of entries; every replica applies it, in *)
(* order, to its own leveldb under main.db.  The parts of the code that    *)
(* make this hard are all here:                                            *)
(*  - main.db survives a restart (main.go no longer removes it), but the   *)
(*    index applied so far is not stored with it, so a restarted replica   *)
(*    restores its last snapshot over the newer main.db and plays the log  *)
(*    from the snapshot's index again;                                     *)
(*  - restore() writes the entries of the snapshot and removes none;       *)
(*  - a command registered with AddReadCommand runs on one node only;      *)
(*  - EXPIRE and SETEX compare with the node's clock, and the ledis TTL    *)
(*    checker removes expired strings by that clock.                       *)
(* Raft itself (elections, log matching, quorums) is external: the model   *)
(* starts from the committed log it provides.                              *)
(***************************************************************************)
EXTENDS Commands

CONSTANTS Replica,
          Command,      \* the commands clients issue in this instance
          MaxLog,       \* bound: committed entries
          MaxTime,      \* bound: TICK timestamps and local clocks
          MaxRestarts,  \* bound: restarts in a behaviour
          MaxInstalls,  \* bound: snapshots sent to lagging replicas
          MaxLocal      \* bound: read-registered commands executed

ASSUME CommandAssumption == Command \subseteq LoggedCommand \cup ReadRegistered

ASSUME BoundAssumption ==
    /\ MaxLog \in Nat /\ MaxTime \in Nat \ {0} /\ MaxRestarts \in Nat
    /\ MaxInstalls \in Nat /\ MaxLocal \in Nat

VARIABLES log,       \* the committed entries, raft's log
          db,        \* db[r]: the leveldb of replica r, on disk
          timers,    \* timers[r]: the time keys in that leveldb
          ts,        \* ts[r]: the machine time m.ts of r; 0 until a TICK
          applied,   \* applied[r]: index of the last entry applied by r
          snap,      \* snap[r]: the latest snapshot in r's snapshot store
          clock,     \* clock[r]: time.Now() at r
          restarts, installs, locals,   \* what the bounds count
          ref,       \* history: ref[i] is the machine after entry i when every
                     \* entry is applied once, with the machine time as clock
          seen,      \* history: the highest entry that left a trace in db[r]
          fresh      \* history: r applied every entry of the log just once

vars == <<log, db, timers, ts, applied, snap, clock, restarts, installs, locals,
          ref, seen, fresh>>

replicaVars == <<db, timers, ts, applied, snap>>
counters == <<restarts, installs, locals>>

Tick == [op : {"TICK"}, time : 1..MaxTime]

Entry == (Command \cap LoggedCommand) \cup Tick

Machine == [db : Database, ts : 0..MaxTime]

Snapshot == [db : Database, timers : SUBSET TimeKey, ts : 0..MaxTime,
             index : 0..MaxLog, seen : 0..MaxLog]

NoSnapshot == [db |-> EmptyDatabase, timers |-> {}, ts |-> 0, index |-> 0, seen |-> 0]

MaxOf(a, b) == IF a < b THEN b ELSE a

-----------------------------------------------------------------------------
(* machine.Apply: TICK moves the machine time forward and is refused when  *)
(* it would not; before the first TICK every command is refused.           *)
ApplyEntry(e, d, t, now) ==
    IF e.op = "TICK"
    THEN [db |-> d, ts |-> IF e.time > t THEN e.time ELSE t]
    ELSE [db |-> IF t = 0 THEN d ELSE Exec(e, d, t, now), ts |-> t]

ApplyTimers(e, d, T, t, now) ==
    IF e.op = "TICK" \/ t = 0 THEN T ELSE ExecTimers(e, d, T, t, now)

\* Mutant: what is on disk wins over the snapshot.
RestoreUnder(d, s) == [x \in Slot |-> IF d[x] # Nil THEN d[x] ELSE s[x]]

\* restore(): Put for every entry of the snapshot, nothing is deleted first.
RestoreOver(d, s) == [x \in Slot |-> IF s[x] # Nil THEN s[x] ELSE d[x]]

Init ==
    /\ log = <<>>
    /\ db = [r \in Replica |-> EmptyDatabase]
    /\ timers = [r \in Replica |-> {}]
    /\ ts = [r \in Replica |-> 0]
    /\ applied = [r \in Replica |-> 0]
    /\ snap = [r \in Replica |-> NoSnapshot]
    /\ clock = [r \in Replica |-> 1]
    /\ restarts = 0 /\ installs = 0 /\ locals = 0
    /\ ref = [i \in {0} |-> [db |-> EmptyDatabase, ts |-> 0]]
    /\ seen = [r \in Replica |-> 0]
    /\ fresh = [r \in Replica |-> TRUE]

\* Raft commits an entry: a client's write command or the leader's TICK.
Commit(e) ==
    LET m == ref[Len(log)] IN
    /\ Len(log) < MaxLog
    /\ log' = Append(log, e)
    /\ ref' = [i \in 0..(Len(log) + 1) |->
                  IF i = Len(log) + 1 THEN ApplyEntry(e, m.db, m.ts, m.ts)
                                      ELSE ref[i]]
    /\ UNCHANGED <<replicaVars, clock, counters, seen, fresh>>

\* Replica r applies its next committed entry when its machine time is t.
ApplyNext(r, t) ==
    /\ applied[r] < Len(log)
    /\ LET e == log[applied[r] + 1]
           m == ApplyEntry(e, db[r], t, clock[r])
       IN /\ db' = [db EXCEPT ![r] = m.db]
          /\ ts' = [ts EXCEPT ![r] = m.ts]
          /\ timers' = [timers EXCEPT ![r] = ApplyTimers(e, db[r], @, t, clock[r])]
    /\ applied' = [applied EXCEPT ![r] = @ + 1]
    /\ seen' = [seen EXCEPT ![r] = MaxOf(@, applied[r] + 1)]
    /\ UNCHANGED <<log, snap, clock, counters, ref, fresh>>

\* Mutant: the node's clock is used before the first TICK.
ApplyByClock(r) == ApplyNext(r, IF ts[r] = 0 THEN clock[r] ELSE ts[r])

\* Mutant: the FSM loop does not run again after a restore.
ApplyUntilRestore(r) == fresh[r] /\ ApplyNext(r, ts[r])

Apply(r) == ApplyNext(r, ts[r])

\* A read-registered command runs on r and is not logged.
ExecRead(r, c) ==
    /\ locals < MaxLocal
    /\ ts[r] # 0
    /\ db' = [db EXCEPT ![r] = Exec(c, db[r], ts[r], clock[r])]
    /\ locals' = locals + 1
    /\ UNCHANGED <<log, timers, ts, applied, snap, clock, restarts, installs,
                   ref, seen, fresh>>

\* Mutant: the snapshot claims an entry that is not in it.
TakeSnapshotLate(r) ==
    /\ applied[r] > snap[r].index
    /\ snap' = [snap EXCEPT ![r] =
                  [db |-> db[r], timers |-> timers[r], ts |-> ts[r],
                   index |-> applied[r] + 1, seen |-> seen[r]]]
    /\ UNCHANGED <<log, db, timers, ts, applied, clock, counters, ref, seen, fresh>>

\* machine.Snapshot and snap.Persist: leveldb and machine time as of applied[r].
TakeSnapshot(r) ==
    /\ applied[r] > snap[r].index
    /\ snap' = [snap EXCEPT ![r] =
                  [db |-> db[r], timers |-> timers[r], ts |-> ts[r],
                   index |-> applied[r], seen |-> seen[r]]]
    /\ UNCHANGED <<log, db, timers, ts, applied, clock, counters, ref, seen, fresh>>

\* Replica r takes the machine from snapshot s (machine.Restore).
Restore(r, s) ==
    /\ db' = [db EXCEPT ![r] = RestoreOver(db[r], s.db)]
    /\ timers' = [timers EXCEPT ![r] = @ \cup s.timers]
    /\ ts' = [ts EXCEPT ![r] = s.ts]
    /\ applied' = [applied EXCEPT ![r] = s.index]
    /\ seen' = [seen EXCEPT ![r] = MaxOf(@, s.seen)]
    /\ fresh' = [fresh EXCEPT ![r] = FALSE]

\* r stops and starts again: main.db is as it was, the rest starts from the
\* latest snapshot, or from nothing.
Restart(r) ==
    /\ restarts < MaxRestarts
    /\ Restore(r, snap[r])
    /\ restarts' = restarts + 1
    /\ UNCHANGED <<log, snap, clock, installs, locals, ref>>

\* r lags behind the log that q still has and is sent q's snapshot.
InstallSnapshot(r, q) ==
    /\ installs < MaxInstalls
    /\ snap[q].index > applied[r]
    /\ Restore(r, snap[q])
    /\ snap' = [snap EXCEPT ![r] = snap[q]]
    /\ installs' = installs + 1
    /\ UNCHANGED <<log, clock, restarts, locals, ref>>

ClockTick(r) ==
    /\ clock[r] < MaxTime
    /\ clock' = [clock EXCEPT ![r] = @ + 1]
    /\ UNCHANGED <<log, replicaVars, counters, ref, seen, fresh>>

(* The ledis TTL checker of r visits a time key that is due.  It reads the *)
(* expiry time of the string again: a missing one counts as 0, a later one *)
(* makes it leave string and time key alone.                               *)
Due(r, x) ==
    LET when == db[r][Exp(x[1])] IN
    x[2] <= clock[r] /\ (when = Nil \/ when <= clock[r])

ExpireKey(r, x) ==
    /\ x \in timers[r]
    /\ Due(r, x)
    /\ db' = [db EXCEPT ![r] = Del(@, {x[1]})]
    /\ timers' = [timers EXCEPT ![r] = @ \ {x}]
    /\ UNCHANGED <<log, ts, applied, snap, clock, counters, ref, seen, fresh>>

Next ==
    \/ \E e \in Entry : Commit(e)
    \/ \E r \in Replica :
          \/ Apply(r)
          \/ \E c \in Command \cap ReadRegistered : ExecRead(r, c)
          \/ TakeSnapshot(r)
          \/ Restart(r)
          \/ \E q \in Replica : InstallSnapshot(r, q)
          \/ ClockTick(r)
          \/ \E x \in timers[r] : ExpireKey(r, x)

\* raft's FSM goroutine keeps applying committed entries.
Fairness == \A r \in Replica : WF_vars(Apply(r))

Spec == Init /\ [][Next]_vars /\ Fairness

-----------------------------------------------------------------------------
(* Every variable has its type; a replica has applied, and shows traces    *)
(* of, committed entries only, and so does every snapshot.                 *)
TypeOK ==
    /\ log \in Seq(Entry) /\ Len(log) <= MaxLog
    /\ db \in [Replica -> Database]
    /\ timers \in [Replica -> SUBSET TimeKey]
    /\ ts \in [Replica -> 0..MaxTime]
    /\ applied \in [Replica -> 0..Len(log)]
    /\ snap \in [Replica -> Snapshot]
    /\ clock \in [Replica -> 1..MaxTime]
    /\ restarts \in 0..MaxRestarts
    /\ installs \in 0..MaxInstalls
    /\ locals \in 0..MaxLocal
    /\ ref \in [0..Len(log) -> Machine]
    /\ seen \in [Replica -> 0..Len(log)]
    /\ fresh \in [Replica -> BOOLEAN]

(* Slots whose content can survive a replay: every command that writes the *)
(* slot is logged and blind there, and when snapshots are installed on     *)
(* lagging replicas none of them erases it.  The size and the score index  *)
(* of a sorted set are never among them: a replay of ZADD over a newer     *)
(* disk finds the member there and does not count it again.                *)
Stable(s) ==
    \A c \in Command : s \in Writes(c) =>
        /\ c \in LoggedCommand
        /\ Blind(c, s)
        /\ MaxInstalls > 0 => ~Erases(c, s)

(* Whatever restarts, replays and snapshots it has been through, a replica *)
(* shows in a stable slot only what the log had put there at some index    *)
(* between the one it has applied and the highest one whose effects reached*)
(* its disk; in particular the replay ends in exactly the state of the log.*)
SlotFromLog ==
    \A r \in Replica, s \in Slot : Stable(s) =>
        \E i \in applied[r]..seen[r] : db[r][s] = ref[i].db[s]

(* Slots written only by logged commands that read neither the local clock *)
(* nor an expiry: all but EXPIRE, EXPIREAT, SETEX and SETEXAT.             *)
Deterministic(s) ==
    \A c \in Command : s \in Writes(c) =>
        c \in LoggedCommand /\ ~(\E k \in Key : Expires(c, k))

(* Until its first restart or installed snapshot a replica holds, in every *)
(* slot written by logged clock-free commands, exactly what the log says,  *)
(* read-modify-write commands (INCRBY, DECRBY, SETNX) included, whatever   *)
(* the other commands, the clocks and the TTL checker do meanwhile; the    *)
(* size and the score index of a sorted set too.                           *)
FirstPassExact ==
    \A r \in Replica, s \in Slot : fresh[r] /\ Deterministic(s) =>
        db[r][s] = ref[applied[r]].db[s]

\* r has applied all that reached its disk and removed all that is due.
Settled(r) ==
    /\ applied[r] = seen[r]
    /\ \A x \in timers[r] : ~Due(r, x)

(* Two settled replicas that have applied the same entries, and whose      *)
(* clocks agree, have the same database.                                   *)
ReplicasAgree ==
    \A r, q \in Replica :
        Settled(r) /\ Settled(q) /\ applied[r] = applied[q] /\ clock[r] = clock[q]
        => db[r] = db[q]

(* A replica that restarted behind its own disk catches up with it.        *)
PlaybackEnds ==
    \A r \in Replica : applied[r] < seen[r] ~> applied[r] = seen[r]
=============================================================================
