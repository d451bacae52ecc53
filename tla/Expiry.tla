------------------------------- MODULE Expiry -------------------------------
(***************************************************************************)
(* Expiring strings on one node, at the granularity of the ledis locks.    *)
(* Two goroutines share the leveldb and the checker's next check time:     *)
(*  - the raft FSM loop, which runs one string command at a time: it reads *)
(*    the clock, takes the batch lock, tells the checker about a new       *)
(*    expiry time, commits and releases the lock;                          *)
(*  - the TTL checker, which reads the clock, opens an iterator over the   *)
(*    time keys (a leveldb snapshot), and takes the batch lock once for    *)
(*    every time key that is due.                                          *)
(* A stop of the process at any point loses what is not on disk.           *)
(***************************************************************************)
EXTENDS Integers, FiniteSets

CONSTANTS Key,
          MaxTime,      \* bound: expiry times clients give
          Horizon,      \* check() looks 3600 s ahead, and sleeps at most that
          MaxCommands,  \* bound: commands in a behaviour
          MaxStops,     \* bound: process stops in a behaviour
          Nil

ASSUME ExpiryAssumption ==
    /\ MaxTime \in Nat \ {0} /\ Horizon \in Nat \ {0}
    /\ MaxCommands \in Nat /\ MaxStops \in Nat
    /\ Nil \notin Nat

VARIABLES str,      \* the keys that hold a string
          meta,     \* meta[k]: the expiry time of k (ExpMetaType), or Nil
          timers,   \* the time keys <<k, t>> (ExpTimeType)
          nc,       \* the checker's next check time, in memory
          clock,    \* time.Now().Unix()
          call,     \* the command the FSM loop is running, or Nil
          chk,      \* the running check(), or Nil
          commands, stops

vars == <<str, meta, timers, nc, clock, call, chk, commands, stops>>
disk == <<str, meta, timers>>

Time == 1..MaxTime

\* SETKEEP is any write that leaves the TTL alone: MSET, GETSET, INCRBY.
Op == {"SET", "SETKEEP", "DEL", "EXPIREAT", "SETEXAT"}

Timed == {"EXPIREAT", "SETEXAT"}

Call == [op : Op, key : Key, when : Time, locked : BOOLEAN]

\* The clock saturates: LastTime stands for every time after MaxTime.
LastTime == MaxTime + 1

Check == [now : 1..LastTime, opened : BOOLEAN, todo : SUBSET (Key \X Time),
          nc : 1..LastTime]

MinOf(a, b) == IF a < b THEN a ELSE b

\* Mutant: the checker does not wait for the lock.
NeverLocked == FALSE

\* The FSM loop holds the lock of the batch of the string type.
BatchLocked == call # Nil /\ call.locked

Init ==
    /\ str = {} /\ meta = [k \in Key |-> Nil] /\ timers = {}
    /\ nc = 0 /\ clock = 1 /\ call = Nil /\ chk = Nil
    /\ commands = 0 /\ stops = 0

-----------------------------------------------------------------------------
(* The FSM loop.                                                           *)

\* The handler starts: an expiry time in the past turns the command into DEL.
Begin(op, k, w) ==
    /\ call = Nil
    /\ commands < MaxCommands
    /\ call' = [op |-> IF op \in Timed /\ w < clock THEN "DEL" ELSE op,
                key |-> k, when |-> w, locked |-> FALSE]
    /\ commands' = commands + 1
    /\ UNCHANGED <<disk, nc, clock, chk, stops>>

\* ExpireAt and SetEXAT read the clock again and refuse a time that has come.
Refuse ==
    /\ call # Nil /\ ~call.locked
    /\ call.op \in Timed /\ call.when <= clock
    /\ call' = Nil
    /\ UNCHANGED <<disk, nc, clock, chk, commands, stops>>

\* The batch lock is taken; EXPIREAT gives up when the string is not there.
\* expireAt tells the checker the new time before the batch is committed.
Lock ==
    LET gone == call.op = "EXPIREAT" /\ call.key \notin str IN
    /\ call # Nil /\ ~call.locked
    /\ call.op \in Timed => call.when > clock
    /\ call' = IF gone THEN Nil ELSE [call EXCEPT !.locked = TRUE]
    /\ nc' = IF call.op \in Timed /\ ~gone THEN MinOf(nc, call.when) ELSE nc
    /\ UNCHANGED <<disk, clock, chk, commands, stops>>

\* rmExpire: the meta key, and the time key of the time it holds.
RmExpire(k) ==
    /\ meta' = [meta EXCEPT ![k] = Nil]
    /\ timers' = timers \ {<<k, meta[k]>>}

\* Mutant: the time is rounded up.
SetExpireLate(k, w) ==
    /\ meta' = [meta EXCEPT ![k] = w + 1]
    /\ timers' = timers \cup {<<k, w + 1>>}

\* expireAt: a new time key; the one of an earlier expiry time stays.
SetExpire(k, w) ==
    /\ meta' = [meta EXCEPT ![k] = w]
    /\ timers' = timers \cup {<<k, w>>}

\* Commit of the batch and release of the lock.
Commit ==
    LET k == call.key IN
    /\ call # Nil /\ call.locked
    /\ \/ /\ call.op = "SET"
          /\ str' = str \cup {k} /\ RmExpire(k)
       \/ /\ call.op = "SETKEEP"
          /\ str' = str \cup {k} /\ UNCHANGED <<meta, timers>>
       \/ /\ call.op = "DEL"
          /\ str' = str \ {k} /\ RmExpire(k)
       \/ /\ call.op \in Timed
          /\ str' = IF call.op = "SETEXAT" THEN str \cup {k} ELSE str
          /\ SetExpire(k, call.when)
    /\ call' = Nil
    /\ UNCHANGED <<nc, clock, chk, commands, stops>>

-----------------------------------------------------------------------------
(* The TTL checker.                                                        *)

\* The second's tick: nothing to do before the next check time.
CheckStart ==
    /\ chk = Nil
    /\ clock >= nc
    /\ chk' = [now |-> clock, opened |-> FALSE, todo |-> {}, nc |-> MinOf(clock + Horizon, LastTime)]
    /\ UNCHANGED <<disk, nc, clock, call, commands, stops>>

\* The iterator sees the time keys as they are now.
CheckOpen ==
    /\ chk # Nil /\ ~chk.opened
    /\ chk' = [chk EXCEPT !.opened = TRUE, !.todo = {x \in timers : x[2] <= chk.nc}]
    /\ UNCHANGED <<disk, nc, clock, call, commands, stops>>

First(x) == x \in chk.todo /\ \A y \in chk.todo : x[2] <= y[2]

\* The first time key in the future ends the scan.
CheckBreak(x) ==
    /\ chk # Nil /\ chk.opened
    /\ First(x) /\ x[2] > chk.now
    /\ chk' = [chk EXCEPT !.todo = {}, !.nc = x[2]]
    /\ UNCHANGED <<disk, nc, clock, call, commands, stops>>

\* Mutant: a string whose time has come between two checks is left alone.
ExpiredExactly(k) == meta[k] = chk.now

\* Mutant: no second look at the expiry time under the lock.
ExpiredUnchecked(k) == TRUE

\* Int64(nil) is 0: a string without expiry time counts as expired.
Expired(k) == meta[k] = Nil \/ meta[k] <= chk.now

\* A time key that is due, under the batch lock.
CheckVisit(x) ==
    /\ chk # Nil /\ chk.opened
    /\ First(x) /\ x[2] <= chk.now
    /\ ~BatchLocked
    /\ IF Expired(x[1])
       THEN /\ str' = str \ {x[1]}
            /\ meta' = [meta EXCEPT ![x[1]] = Nil]
            /\ timers' = timers \ {x}
       ELSE UNCHANGED disk
    /\ chk' = [chk EXCEPT !.todo = @ \ {x}]
    /\ UNCHANGED <<nc, clock, call, commands, stops>>

\* The next check time is forced, whatever expireAt made of it meanwhile.
CheckEnd ==
    /\ chk # Nil /\ chk.opened /\ chk.todo = {}
    /\ nc' = chk.nc
    /\ chk' = Nil
    /\ UNCHANGED <<disk, clock, call, commands, stops>>

-----------------------------------------------------------------------------
ClockTick ==
    /\ clock < LastTime
    /\ clock' = clock + 1
    /\ UNCHANGED <<disk, nc, call, chk, commands, stops>>

\* The process stops and starts again on the same leveldb.
Stop ==
    /\ stops < MaxStops
    /\ stops' = stops + 1
    /\ call' = Nil /\ chk' = Nil /\ nc' = 0
    /\ UNCHANGED <<disk, clock, commands>>

Checker ==
    \/ CheckStart \/ CheckOpen \/ CheckEnd
    \/ chk # Nil /\ \E x \in chk.todo : CheckBreak(x) \/ CheckVisit(x)

Handler == Refuse \/ Lock \/ Commit

Next ==
    \/ \E op \in Op, k \in Key, w \in Time : Begin(op, k, w)
    \/ Handler
    \/ Checker
    \/ ClockTick
    \/ Stop

\* Time passes, the ticker keeps calling check(), a handler runs to its end.
Fairness == WF_vars(ClockTick) /\ WF_vars(Checker) /\ WF_vars(Handler)

Spec == Init /\ [][Next]_vars /\ Fairness

-----------------------------------------------------------------------------
(* Every variable has its type; the expiry times in the leveldb, and the   *)
(* times the checker works with, are times clients can give.               *)
TypeOK ==
    /\ str \in SUBSET Key
    /\ meta \in [Key -> Time \cup {Nil}]
    /\ timers \in SUBSET (Key \X Time)
    /\ nc \in 0..LastTime
    /\ clock \in 1..LastTime
    /\ call \in Call \cup {Nil}
    /\ chk \in Check \cup {Nil}
    /\ commands \in 0..MaxCommands
    /\ stops \in 0..MaxStops

(* The checker can find every expiry time: a string that has one is there, *)
(* and has the time key of that time, whatever stale time keys the checker *)
(* works through meanwhile.                                                *)
ExpiryIndexed ==
    \A k \in Key : meta[k] # Nil => k \in str /\ <<k, meta[k]>> \in timers

(* The checker never removes a string before its expiry time, although it  *)
(* may hold an iterator older than an EXPIRE or SETEX that moved the time. *)
NeverEarly ==
    [][\A k \in Key :
          k \in str \ str' /\ call' = call /\ meta[k] # Nil => meta[k] <= clock]_vars

(* An expired string goes away, although the next check time that expireAt *)
(* sets can be overwritten by a check that was already running.            *)
ExpiryHappens ==
    \A k \in Key :
        meta[k] # Nil /\ meta[k] <= clock ~> meta[k] = Nil \/ meta[k] > clock
=============================================================================
