------------------------------ MODULE ProxyPool ------------------------------
(***************************************************************************)
(* The SQL proxy on top of its connection pool: Pool, with the clients     *)
(* the proxy really has.  A client is a MySQL session (onConn) or a peer   *)
(* whose SQL the inbound loop executes (asyncSQL).  The loop serves one    *)
(* statement at a time and, while a sender is in a transaction, keeps the  *)
(* sender's connection in txConn, also while it blocks in popConn for      *)
(* another sender.  Sessions and loop get connections from popConn and     *)
(* give them back by pushConn, and neither ever calls DropConn: a          *)
(* connection they close or leave aside stays counted.                     *)
(***************************************************************************)
EXTENDS Pool

CONSTANTS GetConnRetry,
          Senders    \* the clients that are peers of the inbound loop

ASSUME RetryAssumption == GetConnRetry \in Nat \ {0} /\ Senders \subseteq Clients

VARIABLES tries,    \* the attempts of popConn so far
          serving,  \* the clients popConn has given a connection to
          inbound,  \* the sender of the statement asyncSQL executes, if any
          txConn    \* the senders whose connection asyncSQL keeps

loop == <<inbound, txConn>>
proxyVars == <<vars, tries, serving, loop>>

Sessions == Clients \ Senders

ProxyInit == /\ Init /\ tries = [c \in Clients |-> 0] /\ serving = {}
             /\ inbound = {} /\ txConn = {}

\* The connection is closed, or just dropped, and TotalCount is not told.
Lose(c, next) ==
    /\ lost' = lost + 1
    /\ client' = [client EXCEPT ![c] = next]
    /\ UNCHANGED <<total, idle, producer, upkeep, batch, need, waiting>>

PopConn(c) == GetConn(c) /\ tries' = [tries EXCEPT ![c] = 1]

\* onConn accepts a session.
OnConn(c) == c \in Sessions /\ PopConn(c) /\ UNCHANGED <<serving, loop>>

\* asyncSQL receives a statement of sender s: on the connection it keeps for
\* s, or on one from popConn.
AsyncSQL(s) ==
    /\ inbound = {}
    /\ inbound' = {s}
    /\ IF s \in txConn THEN UNCHANGED <<vars, tries>> ELSE PopConn(s)
    /\ UNCHANGED <<serving, txConn>>

\* popConn: the ping, the rollback and the session settings went well.
PopOK(c) ==
    /\ client[c] = "held" /\ c \notin serving
    /\ serving' = serving \cup {c}
    /\ UNCHANGED <<vars, tries, loop>>

\* popConn: one of them failed.  It tries again, and after the last attempt
\* it returns the connection all the same.
PopFailed(c) ==
    /\ client[c] = "held" /\ c \notin serving
    /\ \/ /\ tries[c] < GetConnRetry
          /\ Lose(c, "get")
          /\ tries' = [tries EXCEPT ![c] = @ + 1]
          /\ UNCHANGED serving
       \/ /\ tries[c] = GetConnRetry
          /\ serving' = serving \cup {c}
          /\ UNCHANGED <<vars, tries>>
    /\ UNCHANGED loop

\* pushConn of a connection that works.
PushConn(c) == PutConn(c) /\ serving' = serving \ {c} /\ UNCHANGED tries

\* The connection is bad, or left in a transaction, or just forgotten.
PushLost(c) == Lose(c, "out") /\ serving' = serving \ {c} /\ UNCHANGED tries

\* onConn's deferred pushConn, whether the connection works or not.
SessionEnds(c) ==
    /\ c \in Sessions \cap serving
    /\ PushConn(c) \/ PushLost(c)
    /\ UNCHANGED loop

\* handleInboundSQL: the statement ran on a connection from popConn.  That is
\* kept when it is in a transaction, forgotten when the statement failed, and
\* pushed otherwise.
HandleNew(s) ==
    /\ s \in inbound \cap serving /\ s \notin txConn
    /\ \/ txConn' = txConn \cup {s} /\ UNCHANGED <<vars, serving, tries>>
       \/ (PushConn(s) \/ PushLost(s)) /\ UNCHANGED txConn
    /\ inbound' = {}

\* handleInboundSQL: the statement ran on the kept connection.  When it ended
\* the transaction the connection is deleted from txConn, and not pushed; a
\* statement that failed leaves it there.
HandleKept(s) ==
    /\ s \in inbound \cap txConn
    /\ \/ UNCHANGED <<vars, serving, tries, txConn>>
       \/ PushLost(s) /\ txConn' = txConn \ {s}
    /\ inbound' = {}

ProxyNext ==
    \/ /\ PoolStep \/ \E c \in Clients : GetStep(c)
       /\ UNCHANGED <<tries, serving, loop>>
    \/ \E c \in Clients : OnConn(c) \/ PopOK(c) \/ PopFailed(c) \/ SessionEnds(c)
    \/ \E s \in Senders : AsyncSQL(s) \/ HandleNew(s) \/ HandleKept(s)

\* Sessions end, and popConn and the inbound loop go on.  Nobody owes the
\* loop a statement, so a transaction of a sender may stay open for ever.
SessionFairness ==
    /\ \A c \in Clients : /\ WF_proxyVars(PopOK(c) \/ PopFailed(c))
                          /\ WF_proxyVars(SessionEnds(c))
    /\ \A s \in Senders : WF_proxyVars(HandleNew(s) \/ HandleKept(s))

ProxySpec ==
    ProxyInit /\ [][ProxyNext]_proxyVars /\ PoolFairness /\ SessionFairness

-----------------------------------------------------------------------------
(* Sessions and the inbound loop hurt the pool only by the connections     *)
(* they lose and by those the loop keeps for senders in a transaction,     *)
(* which it never gives back either (popConn, pushConn, handleInboundSQL): *)
(* as long as the two together are fewer than maxAlive, a session or       *)
(* statement that waits in GetConn gets a connection, although attempts of *)
(* popConn fail, the loop waits for one sender while it holds the          *)
(* connections of others, and connections disappear from the idle list.    *)
ServedWhileSpare ==
    \A c \in Clients :
        client[c] = "get" ~> \/ client[c] = "held"
                            \/ lost + Cardinality(txConn) >= maxAlive
=============================================================================
