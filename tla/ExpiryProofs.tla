---------------------------- MODULE ExpiryProofs ----------------------------
(***************************************************************************)
(* Theorems about Expiry for every set of keys and every bound.            *)
(***************************************************************************)
EXTENDS Expiry, TLAPS

\* EXPIREAT holds the lock only over a string that is there.
LockedString ==
    call # Nil => (call.locked /\ call.op = "EXPIREAT" => call.key \in str)

\* A check works with a time that has come.
CheckTime == chk # Nil => chk.now <= clock

IInv ==
    /\ TypeOK
    /\ ExpiryIndexed
    /\ LockedString
    /\ CheckTime

(* The initial state satisfies the invariant. *)
LEMMA InvInit == Init => IInv
BY ExpiryAssumption DEF Init, IInv, TypeOK, ExpiryIndexed, LockedString, CheckTime,
                        LastTime, Time

(* What the FSM loop does before it commits leaves the disk alone. *)
LEMMA CallStep ==
    ASSUME IInv,
           \/ \E op \in Op, k \in Key, w \in Time : Begin(op, k, w)
           \/ Refuse
           \/ Lock
    PROVE  IInv'
<1> USE ExpiryAssumption
<1>1. ASSUME NEW op \in Op, NEW k \in Key, NEW w \in Time, Begin(op, k, w) PROVE IInv'
  <2>1. call' \in Call /\ call'.locked = FALSE
    BY <1>1 DEF Begin, Call, Op
  <2>2. commands' \in 0..MaxCommands
    BY <1>1 DEF Begin, IInv, TypeOK
  <2>3. UNCHANGED <<str, meta, timers, nc, clock, chk, stops>>
    BY <1>1 DEF Begin, disk
  <2> QED BY <2>1, <2>2, <2>3 DEF IInv, TypeOK, ExpiryIndexed, LockedString, CheckTime
<1>2. CASE Refuse
  BY <1>2 DEF Refuse, disk, IInv, TypeOK, ExpiryIndexed, LockedString, CheckTime
<1>3. CASE Lock
  <2>1. call \in Call
    BY <1>3 DEF Lock, IInv, TypeOK
  <2>2. call' \in Call \cup {Nil}
    BY <1>3, <2>1 DEF Lock, Call
  <2>3. nc' \in 0..LastTime
    BY <1>3, <2>1 DEF Lock, Call, IInv, TypeOK, MinOf, Time, LastTime
  <2>4. UNCHANGED <<str, meta, timers, clock, chk, commands, stops>>
    BY <1>3 DEF Lock, disk
  <2>5. LockedString'
    BY <1>3, <2>1, <2>4 DEF Lock, LockedString, Call
  <2> QED BY <2>2, <2>3, <2>4, <2>5 DEF IInv, TypeOK, ExpiryIndexed, CheckTime
<1> QED BY <1>1, <1>2, <1>3

(* A commit keeps every expiry time indexed: SET and DEL drop it with its  *)
(* time key, EXPIREAT and SETEXAT write both.                              *)
LEMMA CommitStep ==
    ASSUME IInv, Commit
    PROVE  IInv'
<1> USE ExpiryAssumption
<1> DEFINE k == call.key
<1>1. call \in Call /\ k \in Key /\ call.when \in Time /\ call.locked
  BY DEF Commit, IInv, TypeOK, Call
<1>2. call' = Nil /\ UNCHANGED <<nc, clock, chk, commands, stops>>
  BY DEF Commit
<1>3. LockedString' /\ CheckTime'
  BY <1>2 DEF LockedString, CheckTime, IInv
<1>4. str' \in SUBSET Key
  BY <1>1 DEF Commit, IInv, TypeOK
<1>5. ASSUME RmExpire(k), \A j \in Key \ {k} : j \in str => j \in str'
      PROVE  meta' \in [Key -> Time \cup {Nil}] /\ timers' \in SUBSET (Key \X Time)
             /\ ExpiryIndexed'
  <2>1. meta' \in [Key -> Time \cup {Nil}] /\ timers' \in SUBSET (Key \X Time)
    BY <1>5 DEF RmExpire, IInv, TypeOK
  <2>2. ASSUME NEW j \in Key, meta'[j] # Nil PROVE j \in str' /\ <<j, meta'[j]>> \in timers'
    <3>1. j # k /\ meta'[j] = meta[j]
      BY <1>1, <1>5, <2>2 DEF RmExpire, IInv, TypeOK
    <3>2. j \in str /\ <<j, meta[j]>> \in timers
      BY <2>2, <3>1 DEF IInv, ExpiryIndexed
    <3> QED BY <1>5, <3>1, <3>2 DEF RmExpire
  <2> QED BY <2>1, <2>2 DEF ExpiryIndexed
<1>6. CASE call.op = "SET" \/ call.op = "DEL"
  <2>1. RmExpire(k) /\ \A j \in Key \ {k} : j \in str => j \in str'
    BY <1>6 DEF Commit, Timed
  <2> QED BY <1>2, <1>3, <1>4, <1>5, <2>1 DEF IInv, TypeOK
<1>7. CASE call.op = "SETKEEP"
  <2>1. str \subseteq str' /\ UNCHANGED <<meta, timers>>
    BY <1>7 DEF Commit, Timed
  <2> QED BY <1>2, <1>3, <1>4, <2>1 DEF IInv, TypeOK, ExpiryIndexed
<1>8. CASE call.op \in Timed
  <2>1. SetExpire(k, call.when) /\ str \subseteq str'
    BY <1>8 DEF Commit, Timed
  <2>2. k \in str'
    BY <1>1, <1>8 DEF Commit, Timed, IInv, LockedString
  <2>3. meta' \in [Key -> Time \cup {Nil}] /\ timers' \in SUBSET (Key \X Time)
    BY <1>1, <2>1 DEF SetExpire, IInv, TypeOK
  <2>4. ASSUME NEW j \in Key, meta'[j] # Nil PROVE j \in str' /\ <<j, meta'[j]>> \in timers'
    <3>1. CASE j = k
      BY <1>1, <2>1, <2>2, <3>1 DEF SetExpire, IInv, TypeOK
    <3>2. CASE j # k
      BY <1>1, <2>1, <2>4, <3>2 DEF SetExpire, IInv, TypeOK, ExpiryIndexed
    <3> QED BY <3>1, <3>2
  <2> QED BY <1>2, <1>3, <1>4, <2>3, <2>4 DEF IInv, TypeOK, ExpiryIndexed
<1> QED BY <1>1, <1>6, <1>7, <1>8 DEF Call, Op, Timed

(* The checker starts, scans and ends without touching the disk. *)
LEMMA ScanStep ==
    ASSUME IInv,
           \/ CheckStart \/ CheckOpen \/ CheckEnd
           \/ chk # Nil /\ \E x \in chk.todo : CheckBreak(x)
    PROVE  IInv'
<1> USE ExpiryAssumption
<1>1. CASE CheckStart
  <2>1. chk' \in Check /\ chk'.now = clock
    BY <1>1 DEF CheckStart, Check, MinOf, LastTime, IInv, TypeOK
  <2>2. UNCHANGED <<str, meta, timers, nc, clock, call, commands, stops>>
    BY <1>1 DEF CheckStart, disk
  <2>3. CheckTime'
    BY <2>1, <2>2 DEF CheckTime, IInv, TypeOK, LastTime
  <2> QED BY <2>1, <2>2, <2>3 DEF IInv, TypeOK, ExpiryIndexed, LockedString
<1>2. CASE CheckOpen
  <2>1. chk \in Check
    BY <1>2 DEF CheckOpen, IInv, TypeOK
  <2>2. {x \in timers : x[2] <= chk.nc} \in SUBSET (Key \X Time)
    BY DEF IInv, TypeOK
  <2>3. chk' \in Check /\ chk'.now = chk.now
    BY <1>2, <2>1, <2>2 DEF CheckOpen, Check
  <2>4. UNCHANGED <<str, meta, timers, nc, clock, call, commands, stops>>
    BY <1>2 DEF CheckOpen, disk
  <2>5. CheckTime'
    BY <1>2, <2>3, <2>4 DEF CheckOpen, CheckTime, IInv
  <2> QED BY <2>3, <2>4, <2>5 DEF IInv, TypeOK, ExpiryIndexed, LockedString
<1>3. CASE CheckEnd
  <2>1. chk \in Check
    BY <1>3 DEF CheckEnd, IInv, TypeOK
  <2>2. nc' \in 0..LastTime
    BY <1>3, <2>1 DEF CheckEnd, Check, LastTime
  <2>3. chk' = Nil /\ UNCHANGED <<str, meta, timers, clock, call, commands, stops>>
    BY <1>3 DEF CheckEnd, disk
  <2> QED BY <2>2, <2>3 DEF IInv, TypeOK, ExpiryIndexed, LockedString, CheckTime
<1>4. ASSUME chk # Nil, NEW x \in chk.todo, CheckBreak(x) PROVE IInv'
  <2>1. chk \in Check
    BY <1>4 DEF IInv, TypeOK
  <2>2. x[2] \in Time /\ x[2] \in 1..LastTime
    BY <2>1 DEF Check, Time, LastTime
  <2>3. chk' \in Check /\ chk'.now = chk.now
    BY <1>4, <2>1, <2>2 DEF CheckBreak, Check
  <2>4. UNCHANGED <<str, meta, timers, nc, clock, call, commands, stops>>
    BY <1>4 DEF CheckBreak, disk
  <2>5. CheckTime'
    BY <1>4, <2>3, <2>4 DEF CheckTime, IInv
  <2> QED BY <2>3, <2>4, <2>5 DEF IInv, TypeOK, ExpiryIndexed, LockedString
<1> QED BY <1>1, <1>2, <1>3, <1>4

(* A visited time key takes string, expiry time and itself away together,  *)
(* and never while EXPIREAT relies on the string.                          *)
LEMMA VisitStep ==
    ASSUME IInv, chk # Nil, NEW x \in chk.todo, CheckVisit(x)
    PROVE  IInv'
<1> USE ExpiryAssumption
<1> DEFINE k == x[1]
<1>1. chk \in Check /\ k \in Key
  BY DEF IInv, TypeOK, Check
<1>2. chk' \in Check /\ chk'.now = chk.now
  <2>1. chk.todo \ {x} \in SUBSET (Key \X Time)
    BY <1>1 DEF Check
  <2> QED BY <1>1, <2>1 DEF CheckVisit, Check
<1>3. UNCHANGED <<nc, clock, call, commands, stops>> /\ ~BatchLocked
  BY DEF CheckVisit
<1>4. CheckTime' /\ LockedString'
  BY <1>2, <1>3 DEF CheckTime, LockedString, BatchLocked, IInv
<1>5. CASE ~Expired(k)
  <2>1. UNCHANGED <<str, meta, timers>>
    BY <1>5 DEF CheckVisit, disk
  <2> QED BY <1>2, <1>3, <1>4, <2>1 DEF IInv, TypeOK, ExpiryIndexed
<1>6. CASE Expired(k)
  <2>1. /\ str' = str \ {k} /\ meta' = [meta EXCEPT ![k] = Nil]
        /\ timers' = timers \ {x}
    BY <1>6 DEF CheckVisit
  <2>2. /\ str' \in SUBSET Key
        /\ meta' \in [Key -> Time \cup {Nil}] /\ timers' \in SUBSET (Key \X Time)
    BY <2>1 DEF IInv, TypeOK
  <2>3. ASSUME NEW j \in Key, meta'[j] # Nil PROVE j \in str' /\ <<j, meta'[j]>> \in timers'
    <3>1. j # k /\ meta'[j] = meta[j]
      BY <1>1, <2>1, <2>3 DEF IInv, TypeOK
    <3>2. j \in str /\ <<j, meta[j]>> \in timers
      BY <2>3, <3>1 DEF IInv, ExpiryIndexed
    <3>3. <<j, meta[j]>> # x
      BY <3>1
    <3> QED BY <2>1, <3>1, <3>2, <3>3
  <2> QED BY <1>2, <1>3, <1>4, <2>2, <2>3 DEF IInv, TypeOK, ExpiryIndexed
<1> QED BY <1>5, <1>6

(* Every step preserves the invariant. *)
LEMMA InvStep ==
    ASSUME IInv, [Next]_vars
    PROVE  IInv'
<1> USE ExpiryAssumption
<1>1. CASE UNCHANGED vars
  BY <1>1 DEF vars, IInv, TypeOK, ExpiryIndexed, LockedString, CheckTime
<1>2. CASE ClockTick
  <2>1. clock' \in 1..LastTime /\ clock <= clock'
    BY <1>2 DEF ClockTick, IInv, TypeOK, LastTime
  <2>2. UNCHANGED <<str, meta, timers, nc, call, chk, commands, stops>>
    BY <1>2 DEF ClockTick, disk
  <2>3. CheckTime'
    <3> SUFFICES ASSUME chk # Nil PROVE chk.now <= clock'
      BY <2>2 DEF CheckTime
    <3>1. chk.now \in Int /\ chk.now <= clock /\ clock \in Int
      BY DEF IInv, TypeOK, CheckTime, Check, LastTime
    <3> QED BY <2>1, <3>1
  <2> QED BY <2>1, <2>2, <2>3 DEF IInv, TypeOK, ExpiryIndexed, LockedString
<1>3. CASE Stop
  BY <1>3 DEF Stop, disk, IInv, TypeOK, ExpiryIndexed, LockedString, CheckTime, LastTime
<1>4. CASE Checker
  BY <1>4, ScanStep, VisitStep DEF Checker
<1> QED BY <1>1, <1>2, <1>3, <1>4, CallStep, CommitStep DEF Next, Handler

(* Whatever the order in which handlers, the checker, clock ticks and      *)
(* process stops interleave, an expiry time always has its string and its  *)
(* time key.                                                               *)
THEOREM Indexed == Spec => []ExpiryIndexed
<1>1. IInv /\ [Next]_vars => IInv'
  BY InvStep
<1>2. IInv => ExpiryIndexed
  BY DEF IInv
<1> QED BY <1>1, <1>2, InvInit, PTL DEF Spec

(* Every behaviour is well typed. *)
THEOREM TypeCorrect == Spec => []TypeOK
<1>1. IInv /\ [Next]_vars => IInv'
  BY InvStep
<1>2. IInv => TypeOK
  BY DEF IInv
<1> QED BY <1>1, <1>2, InvInit, PTL DEF Spec

(* One step of the system never takes away, other than by a command, a     *)
(* string whose expiry time is still to come.                              *)
LEMMA EarlyStep ==
    ASSUME IInv, Next, NEW k \in Key, k \in str \ str', call' = call, meta[k] # Nil
    PROVE  meta[k] <= clock
<1> USE ExpiryAssumption
<1>1. CASE \E op \in Op, j \in Key, w \in Time : Begin(op, j, w)
  BY <1>1 DEF Begin, disk
<1>2. CASE Refuse \/ Lock
  BY <1>2 DEF Refuse, Lock, disk
<1>3. CASE Commit
  BY <1>3 DEF Commit
<1>4. CASE ClockTick \/ Stop \/ CheckStart \/ CheckOpen \/ CheckEnd
  BY <1>4 DEF ClockTick, Stop, CheckStart, CheckOpen, CheckEnd, disk
<1>5. ASSUME chk # Nil, NEW x \in chk.todo, CheckBreak(x) \/ CheckVisit(x)
      PROVE  meta[k] <= clock
  <2>1. CASE CheckBreak(x)
    BY <2>1 DEF CheckBreak, disk
  <2>2. CASE CheckVisit(x)
    <3>1. k = x[1] /\ Expired(k)
      BY <2>2 DEF CheckVisit, disk
    <3>2. meta[k] <= chk.now
      BY <3>1 DEF Expired
    <3>3. chk \in Check /\ chk.now <= clock
      BY <1>5 DEF IInv, TypeOK, CheckTime
    <3>4. meta[k] \in Int /\ chk.now \in Int /\ clock \in Int
      BY <3>3 DEF IInv, TypeOK, Check, Time, LastTime
    <3> QED BY <3>2, <3>3, <3>4
  <2> QED BY <1>5, <2>1, <2>2
<1> QED BY <1>1, <1>2, <1>3, <1>4, <1>5 DEF Next, Handler, Checker

(* The TTL checker never removes a string before its expiry time, however  *)
(* old the iterator it works through is.                                   *)
THEOREM ExpiryNeverEarly == Spec => NeverEarly
<1>1. IInv /\ [Next]_vars => IInv'
  BY InvStep
<1>2. IInv /\ [Next]_vars =>
        [\A k \in Key :
            k \in str \ str' /\ call' = call /\ meta[k] # Nil => meta[k] <= clock]_vars
  BY EarlyStep
<1> QED BY <1>1, <1>2, InvInit, PTL DEF Spec, NeverEarly
=============================================================================
