----------------------------- MODULE BatchStore -----------------------------
(***************************************************************************)
(* What ledis expects of a storage driver: a store that changes only by    *)
(* write batches.  A batch collects operations under the lock of its data  *)
(* type; Commit applies all of them or none, and Rollback none.            *)
(* Some drivers of IceFireDB do less: in one a batch that grows is applied *)
(* in parts; others are eager, an operation takes effect, if it does, when *)
(* it is added.                                                            *)
(***************************************************************************)
EXTENDS Integers, Sequences, FiniteSetsExt

CONSTANTS Key, Value, Nil

VARIABLES mode,      \* of this driver: "whole", "parts" or "eager"
          store,     \* what readers of the database see
          pending,   \* the operations of the open batch, or Nil
          broken     \* whether an operation of the open batch was lost

vars == <<mode, store, pending, broken>>

Apply(f, op) == [f EXCEPT ![op[1]] = op[2]]

\* Of the operations of a batch on a key the last one counts.
ApplyAll(f, b) ==
    [k \in Key |-> LET on == {i \in DOMAIN b : b[i][1] = k}
                   IN  IF on = {} THEN f[k] ELSE b[Max(on)][2]]

Init ==
    /\ mode \in {"whole", "parts", "eager"}
    /\ store = [k \in Key |-> Nil]
    /\ pending = Nil
    /\ broken = FALSE

\* A driver may refuse a batch from its start.
Lock ==
    /\ pending = Nil /\ pending' = <<>>
    /\ broken' \in BOOLEAN /\ UNCHANGED <<mode, store>>

Add(k, v) ==
    /\ pending # Nil
    /\ \/ mode # "eager" /\ pending' = Append(pending, <<k, v>>) /\ UNCHANGED store
       \/ mode = "eager" /\ store' = Apply(store, <<k, v>>) /\ UNCHANGED pending
    /\ UNCHANGED <<mode, broken>>

\* The operations so far are a part: it is applied, or lost for good, and
\* the next operation begins another one.
Part(k, v) ==
    /\ pending # Nil /\ mode = "parts"
    /\ pending' = <<<<k, v>>>>
    /\ \/ store' = ApplyAll(store, pending) /\ UNCHANGED broken
       \/ broken' = TRUE /\ UNCHANGED store
    /\ UNCHANGED mode

Lose == pending # Nil /\ broken' = TRUE /\ UNCHANGED <<mode, store, pending>>

Commit ==
    /\ pending # Nil /\ ~broken
    /\ store' = ApplyAll(store, pending)
    /\ pending' = Nil
    /\ UNCHANGED <<mode, broken>>

\* A rollback, a commit that fails, or a crash.  A commit that fails for a
\* lost part may still apply the last one.
Discard ==
    /\ pending # Nil /\ pending' = Nil
    /\ \/ UNCHANGED store
       \/ mode = "parts" /\ broken /\ store' = ApplyAll(store, pending)
    /\ broken' = FALSE /\ UNCHANGED mode

Next ==
    \/ Lock \/ Lose \/ Commit \/ Discard
    \/ \E k \in Key, v \in Value \cup {Nil} : Add(k, v) \/ Part(k, v)

Spec == Init /\ [][Next]_vars
=============================================================================
