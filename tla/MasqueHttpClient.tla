------------------------------ MODULE MasqueHttpClient ------------------------------
(***************************************************************************)
(* The HTTP benchmark client of MasqueHttpClient.{h,cpp}: it opens         *)
(* numTransactions GET or POST transactions on one HQUpstreamSession       *)
(* (through the layered MASQUE sockets, which are below this model), and   *)
(* exits the process once they are done.  Everything runs on the one       *)
(* event base of main(), so each callback is one atomic step.              *)
(***************************************************************************)
EXTENDS Naturals, Sequences, FiniteSets

CONSTANTS
    Txns,      \* the transaction indices 1..numTransactions
    Method,    \* options.httpRequest's method: "GET" or "POST"
    QLog,      \* whether options.qlogPath is set
    Outcomes   \* what newTransaction/canSendHeaders may give one iteration

ASSUME Method \in {"GET", "POST"} /\ QLog \in BOOLEAN
ASSUME Outcomes \subseteq {"ok", "null", "no_headers"} /\ "ok" \in Outcomes

NumTransactions == Cardinality(Txns)

VARIABLES
    session,   \* upstreamSession: none, connecting, draining (closeWhenIdle), failed
    txn,       \* per index: the HTTPTransaction (none, open, detached)
    handler,   \* per index: the TransactionHandler (none, owned, freed)
    egress,    \* per index: what the client sent on the transaction
    ingress,   \* per index: how far the response has come
    completed, \* completedTransactions
    exited,    \* exit(0) was called
    fault      \* undefined behaviour reached; the process is gone

vars == <<session, txn, handler, egress, ingress, completed, exited, fault>>

Alive == ~exited /\ fault = {}

Init ==
    /\ session = "none"
    /\ txn = [t \in Txns |-> "none"]
    /\ handler = [t \in Txns |-> "none"]
    /\ egress = [t \in Txns |-> <<>>]
    /\ ingress = [t \in Txns |-> "none"]
    /\ completed = 0
    /\ exited = FALSE
    /\ fault = {}

(* call(): build the QUIC client and the HQUpstreamSession, set this as   *)
(* its connect callback, and start it.  TLS, transport settings and qlog  *)
(* are left out.                                                           *)
Call ==
    /\ Alive /\ session = "none"
    /\ session' = "connecting"
    /\ UNCHANGED <<txn, handler, egress, ingress, completed, exited, fault>>

(* connectError: only logged; the event base keeps looping.               *)
ConnectError ==
    /\ Alive /\ session = "connecting"
    /\ session' = "failed"
    /\ UNCHANGED <<txn, handler, egress, ingress, completed, exited, fault>>

(* The loop of connectSuccess, iteration t with outcome o.  "ok": the     *)
(* handler is kept in transactionHandlers and the headers are sent.       *)
(* "no_headers": newTransaction gave a transaction that cannot send       *)
(* headers; `continue` drops the unique_ptr, so the handler is freed      *)
(* while the transaction still points to it.  "null": newTransaction gave *)
(* null, and the LOG line reads httpTransaction->getID() through it.      *)
Iteration(o) ==
    CASE o = "ok" -> [txn |-> "open", handler |-> "owned", egress |-> <<"headers">>]
      [] o = "no_headers" -> [txn |-> "open", handler |-> "freed", egress |-> <<>>]
      [] o = "null" -> [txn |-> "none", handler |-> "freed", egress |-> <<>>]

(* connectSuccess with the outcome of every iteration.  The loop stops at  *)
(* the first null transaction (the process crashes there); otherwise      *)
(* every kept handler sends EOM, and closeWhenIdle() is called.            *)
ConnectSuccess(out) ==
    LET crash == {t \in Txns : out[t] = "null"}
        ran == {t \in Txns : \A c \in crash : t < c}
        it(t) == Iteration(out[t])
    IN
    /\ Alive /\ session = "connecting"
    /\ txn' = [t \in Txns |-> IF t \in ran THEN it(t).txn ELSE "none"]
    /\ handler' = [t \in Txns |-> IF t \in ran THEN it(t).handler ELSE "none"]
    /\ egress' = [t \in Txns |->
                    IF t \in ran /\ crash = {} /\ out[t] = "ok"
                    THEN <<"headers", "eom">>
                    ELSE IF t \in ran THEN it(t).egress ELSE <<>>]
    /\ fault' = IF crash = {} THEN {} ELSE {"null_transaction"}
    /\ session' = IF crash = {} THEN "draining" ELSE session
    /\ UNCHANGED <<ingress, completed, exited>>

(* Server: the response headers.  onHeadersComplete of a POST sends the   *)
(* file with postBody(), then sendEOM(), and exits unless qlog is set.    *)
OnHeadersComplete(t) ==
    /\ Alive /\ txn[t] = "open" /\ handler[t] = "owned"
    /\ ingress[t] = "none" /\ egress[t] # <<>>
    /\ ingress' = [ingress EXCEPT ![t] = "headers"]
    /\ egress' = IF Method = "POST"
                 THEN [egress EXCEPT ![t] = @ \o <<"body", "eom">>]
                 ELSE egress
    /\ exited' = (Method = "POST" /\ ~QLog)
    /\ UNCHANGED <<session, txn, handler, completed, fault>>

(* Server: a body chunk; bodyReceivedBytes grows, and the first chunk     *)
(* prints the time to first byte.  Only the response's progress is kept.  *)
OnBody(t) ==
    /\ Alive /\ txn[t] = "open" /\ handler[t] = "owned"
    /\ ingress[t] = "headers"
    /\ ingress' = [ingress EXCEPT ![t] = "body"]
    /\ UNCHANGED <<session, txn, handler, egress, completed, exited, fault>>

(* Mutant: the counter compared before it is incremented, as             *)
(* completedTransactions++ == numTransactions (post-increment) would.    *)
OnEOMPostIncrement(t) ==
    /\ Alive /\ txn[t] = "open" /\ handler[t] = "owned"
    /\ ingress[t] \in {"headers", "body"}
    /\ ingress' = [ingress EXCEPT ![t] = "eom"]
    /\ completed' = IF Method = "GET" THEN completed + 1 ELSE completed
    /\ exited' = (Method = "GET" /\ completed = NumTransactions /\ ~QLog)
    /\ UNCHANGED <<session, txn, handler, egress, fault>>

(* Server: EOM.  For a GET, ++completedTransactions, and exit(0) once it  *)
(* equals numTransactions (unless qlog is set).                            *)
OnEOM(t) ==
    /\ Alive /\ txn[t] = "open" /\ handler[t] = "owned"
    /\ ingress[t] \in {"headers", "body"}
    /\ ingress' = [ingress EXCEPT ![t] = "eom"]
    /\ completed' = IF Method = "GET" THEN completed + 1 ELSE completed
    /\ exited' = (Method = "GET" /\ completed + 1 = NumTransactions /\ ~QLog)
    /\ UNCHANGED <<session, txn, handler, egress, fault>>

(* Mutant: an error counted as a finished transaction, with onEOM's      *)
(* exit test.                                                              *)
OnErrorCounts(t) ==
    /\ Alive /\ txn[t] = "open" /\ handler[t] # "none"
    /\ ingress[t] \notin {"eom", "error"}
    /\ IF handler[t] = "freed"
       THEN /\ fault' = {"freed_handler"}
            /\ UNCHANGED <<ingress, completed, exited>>
       ELSE /\ ingress' = [ingress EXCEPT ![t] = "error"]
            /\ completed' = completed + 1
            /\ exited' = (completed + 1 = NumTransactions /\ ~QLog)
            /\ UNCHANGED fault
    /\ UNCHANGED <<session, txn, handler, egress>>

(* Session: onError (a stream reset, the transaction timeout, the session *)
(* closing); only logged.  On a transaction whose handler the `continue`  *)
(* of connectSuccess freed, the call goes through a dangling pointer.     *)
OnError(t) ==
    /\ Alive /\ txn[t] = "open" /\ handler[t] # "none"
    /\ ingress[t] \notin {"eom", "error"}
    /\ IF handler[t] = "freed"
       THEN /\ fault' = {"freed_handler"}
            /\ UNCHANGED ingress
       ELSE /\ ingress' = [ingress EXCEPT ![t] = "error"]
            /\ UNCHANGED fault
    /\ UNCHANGED <<session, txn, handler, egress, completed, exited>>

(* Session: detachTransaction once the transaction is over in both        *)
(* directions or has failed; the handler forgets its transaction.         *)
DetachTransaction(t) ==
    /\ Alive /\ txn[t] = "open" /\ handler[t] = "owned"
    /\ \/ ingress[t] = "error"
       \/ ingress[t] = "eom" /\ egress[t] # <<>> /\ egress[t][Len(egress[t])] = "eom"
    /\ txn' = [txn EXCEPT ![t] = "detached"]
    /\ UNCHANGED <<session, handler, egress, ingress, completed, exited, fault>>

Next ==
    \/ Call
    \/ ConnectError
    \/ \E out \in [Txns -> Outcomes] : ConnectSuccess(out)
    \/ \E t \in Txns :
         \/ OnHeadersComplete(t)
         \/ OnBody(t)
         \/ OnEOM(t)
         \/ OnError(t)
         \/ DetachTransaction(t)

Spec == Init /\ [][Next]_vars

(* The client's own loop is never starved (call() runs), the handshake    *)
(* ends one way or the other, and the server answers every request it     *)
(* received with headers and EOM.  Errors and body chunks are not         *)
(* assumed.                                                                *)
FairSpec ==
    /\ Spec
    /\ WF_vars(Call)
    /\ WF_vars(ConnectError \/ \E out \in [Txns -> Outcomes] : ConnectSuccess(out))
    /\ \A t \in Txns : WF_vars(OnHeadersComplete(t)) /\ WF_vars(OnEOM(t))
-----------------------------------------------------------------------------
(* onEOM's exit(0) ends the process and with it every other transaction: *)
(* a GET client exits only once every one of its numTransactions         *)
(* transactions has received its whole response.                         *)
ExitAfterAllResponses ==
    exited /\ Method = "GET" => \A t \in Txns : ingress[t] = "eom"

(* Once connectSuccess has run and the server answers every request, the *)
(* client exits, unless the connection failed or a transaction got an    *)
(* error (both only logged by connectError and onError).                 *)
ClientExits ==
    <>(exited \/ session = "failed" \/ \E t \in Txns : ingress[t] = "error")
====
