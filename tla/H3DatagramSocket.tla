--------------------------- MODULE H3DatagramSocket ---------------------------
(***************************************************************************)
(* The client-side H3DatagramAsyncSocket of                                *)
(* src/proxygen/proxygen/lib/transport/H3DatagramAsyncSocket.{h,cpp}: a    *)
(* UDP-socket facade whose datagrams travel as HTTP/3 datagrams on one or  *)
(* more CONNECT transactions, each served by a TransactionHandler with a   *)
(* write buffer, a read buffer and a body buffer.                          *)
(*                                                                         *)
(* The application calls connect, write, resumeRead, pauseRead and close;  *)
(* the HTTP/3 session calls connectSuccess/connectError on the socket and  *)
(* onHeadersComplete, onDatagram, onBody, onEOM, onError and               *)
(* detachTransaction on a handler.  All of them run on the socket's event  *)
(* base, so every action is one atomic step.                               *)
(*                                                                         *)
(* Data is abstracted to identities: the application's datagrams are       *)
(* numbered 1, 2, ... in the order it writes them, the peer's datagrams    *)
(* and body chunks in the order they arrive.  A null dereference is        *)
(* recorded in `fault` and ends the process.                               *)
(***************************************************************************)
EXTENDS Integers, Sequences, SequencesExt, FiniteSets

CONSTANTS
    NumTxns,      \* options_.transactions_: transactions opened on connectSuccess
    SndBuf,       \* sndBufPkts_: capacity of each write buffer
    RcvBuf,       \* rcvBufPkts_: capacity of each read buffer
    MaxWrites,    \* bound on the application's write calls
    MaxIn,        \* bound on the datagrams and body chunks the peer sends
    AppReader,    \* kind of the read callback the application passes to resumeRead
    NewTxnReader, \* reader the NewTransactionCallback attaches ("none" if it attaches none)
    TxnMayFail    \* whether newTransaction/canSendHeaders may fail in connectSuccess

Streams == 1..NumTxns          \* the i-th transaction opened, i = 1..NumTxns
NoStream == 0
Readers == {"plain", "body"}   \* ReadCallback / TransactionBodyReadCallback
NoReader == "none"

ASSUME NumTxns \in Nat \ {0}
ASSUME SndBuf \in Nat /\ RcvBuf \in Nat
ASSUME MaxWrites \in Nat /\ MaxIn \in Nat
ASSUME AppReader \in Readers
ASSUME NewTxnReader \in Readers \cup {NoReader}
ASSUME TxnMayFail \in BOOLEAN

VARIABLES
    connected,      \* connectAddress_.isInitialized()
    session,        \* upstreamSession_: "none", "up" or "gone" (after onDestroy)
    idleClose,      \* closeWhenIdle() has been requested on the session
    csDone,         \* the session has reported connectSuccess or connectError
    transportUp,    \* transportConnected_
    defaultStream,  \* defaultStreamId_ (NoStream when unset)
    defaultReader,  \* defaultReadCallback_
    sockWriteBuf,   \* the socket's writeBuf, used before a default stream exists
    txns,           \* the keys of transactions_
    handler,        \* the TransactionHandler of each stream
    appPaused,      \* the application has called pauseRead and not resumed
    nextOut,        \* identity of the application's next write
    nextIn,         \* identity of the peer's next datagram or body chunk
    accepted,       \* writes for which write() returned the byte count
    flushLost,      \* buffered writes whose sendDatagram failed when flushed
    fault,          \* null dereferences that have happened
    destroyed       \* the socket object has been destroyed

vars == <<connected, session, idleClose, csDone, transportUp, defaultStream,
          defaultReader, sockWriteBuf, txns, handler, appPaused, nextOut,
          nextIn, accepted, flushLost, fault, destroyed>>

(* A freshly constructed TransactionHandler bound to an open transaction. *)
NewHandler ==
    [txn       |-> "open",      \* httpTransaction: "open" or "detached" (null)
     status    |-> "pending",   \* response headers: "pending", "ok" (200), "error"
     ingress   |-> "open",      \* "open", "eom" or "error"
     egressEOM |-> FALSE,       \* sendEOM has been called by close()
     reader    |-> NoReader,    \* readCallback
     writeBuf  |-> <<>>,
     readBuf   |-> <<>>,
     bodyBuf   |-> 0,           \* number of buffered body chunks
     sent      |-> <<>>,        \* datagrams handed to sendDatagram, in order
     delivered |-> <<>>]        \* datagrams delivered to the read callback

Alive == fault = {} /\ ~destroyed

Init ==
    /\ connected = FALSE
    /\ session = "none"
    /\ idleClose = FALSE
    /\ csDone = FALSE
    /\ transportUp = FALSE
    /\ defaultStream = NoStream
    /\ defaultReader = NoReader
    /\ sockWriteBuf = <<>>
    /\ txns = {}
    /\ handler = [s \in Streams |-> NewHandler]
    /\ appPaused = FALSE
    /\ nextOut = 1
    /\ nextIn = 1
    /\ accepted = {}
    /\ flushLost = {}
    /\ fault = {}
    /\ destroyed = FALSE

-----------------------------------------------------------------------------
(* Seeded fault for SetReadCallback: the read buffer is delivered but not *)
(* cleared (a dropped readBuf.clear()).                                    *)
SetReadCallbackNoClear(h, cb) ==
    [h EXCEPT !.reader = cb, !.bodyBuf = 0, !.delivered = @ \o h.readBuf]

(* TransactionHandler::setReadCallback: bind the callback, hand the        *)
(* buffered body to it if it is body-capable (and clear the body buffer    *)
(* either way; body content is not modelled), then deliver the buffered   *)
(* datagrams.  deliverDatagram                                             *)
(* reads httpTransaction->getPeerAddress(), a null dereference once the    *)
(* transaction is detached.                                                *)
SetReadCallback(h, cb) ==
    [h EXCEPT !.reader = cb,
              !.bodyBuf = 0,
              !.delivered = @ \o h.readBuf,
              !.readBuf = <<>>]

(* TransactionHandler::closeRead: forget the read callback (after telling *)
(* it onReadClosed).                                                       *)
CloseRead(h) == [h EXCEPT !.reader = NoReader]

DeliverFault(h) ==
    IF h.readBuf # <<>> /\ h.txn = "detached" THEN {"null_transaction"} ELSE {}

(* TransactionHandler::closeWithError: readCallback->onReadError(ex) with *)
(* no null check, then closeRead().  The fault it records when no read    *)
(* callback is attached.                                                   *)
CloseWithErrorFault(h) ==
    IF h.reader = NoReader THEN {"null_read_callback"} ELSE {}

(* startClient: the QUIC client and the HQUpstreamSession are created   *)
(* and started only when upstreamSession_ is null.  Transport settings,   *)
(* TLS context and qlog are left out.                                      *)
StartClient == IF session = "up" THEN session ELSE "up"

(* Application: connect() stores the address and calls startClient().     *)
Connect ==
    /\ Alive
    /\ ~connected
    /\ connected' = TRUE
    /\ session' = StartClient
    /\ UNCHANGED <<idleClose, csDone, transportUp, defaultStream, defaultReader,
                   sockWriteBuf, txns, handler, appPaused, nextOut, nextIn,
                   accepted, flushLost, fault>>

(* The client's NewTransactionCallback, called by connectSuccess for each *)
(* stream it opens: ConnectUDPClient creates the stream's TUN device and    *)
(* read callback, ConnectIPClient the read callback, and both pass it to    *)
(* resumeRead(streamID, cb), which binds it with setReadCallback.  With no *)
(* callback installed (NewTxnReader = NoReader) the handler is unchanged.  *)
NewTransactionCallback(h) ==
    IF NewTxnReader # NoReader THEN SetReadCallback(h, NewTxnReader) ELSE h

(* Seeded fault for ConnectSuccess: the socket's write buffer is moved   *)
(* out before the first transaction is known to be usable, so it is lost  *)
(* with the handler when that transaction fails.                          *)
ConnectSuccessMoveEarly ==
    /\ Alive
    /\ session = "up"
    /\ ~csDone
    /\ \E failAt \in IF TxnMayFail THEN 1..(NumTxns + 1) ELSE {NumTxns + 1} :
        LET created == {s \in Streams : s < failAt}
            first   == IF defaultStream = NoStream /\ created # {} THEN 1 ELSE NoStream
            h1      == [NewHandler EXCEPT !.writeBuf = sockWriteBuf]
        IN /\ txns' = created
           /\ handler' = [s \in Streams |->
                 IF s \notin created THEN handler[s]
                 ELSE IF s = first THEN SetReadCallback(h1, NewTxnReader)
                 ELSE SetReadCallback(NewHandler, NewTxnReader)]
           /\ defaultStream' = IF first # NoStream THEN first ELSE defaultStream
           /\ sockWriteBuf' = IF defaultStream = NoStream THEN <<>> ELSE sockWriteBuf
           /\ idleClose' = (idleClose \/ failAt > NumTxns)
           /\ transportUp' = (failAt > NumTxns)
    /\ csDone' = TRUE
    /\ UNCHANGED <<connected, session, defaultReader, appPaused, nextOut,
                   nextIn, accepted, flushLost, fault>>

(* Seeded fault for ConnectSuccess: the default stream is taken from the  *)
(* loop bound instead of the first transaction opened.                     *)
ConnectSuccessWrongDefault ==
    /\ Alive
    /\ session = "up"
    /\ ~csDone
    /\ \E failAt \in IF TxnMayFail THEN 1..(NumTxns + 1) ELSE {NumTxns + 1} :
        LET created == {s \in Streams : s < failAt}
        IN /\ txns' = created
           /\ handler' = [s \in Streams |->
                 IF s \in created THEN SetReadCallback(NewHandler, NewTxnReader)
                 ELSE handler[s]]
           /\ defaultStream' = IF defaultStream = NoStream THEN failAt ELSE defaultStream
           /\ sockWriteBuf' = sockWriteBuf
           /\ idleClose' = (idleClose \/ failAt > NumTxns)
           /\ transportUp' = (failAt > NumTxns)
    /\ csDone' = TRUE
    /\ UNCHANGED <<connected, session, defaultReader, appPaused, nextOut,
                   nextIn, accepted, flushLost, fault>>

(* Session: connectSuccess opens NumTxns transactions.  Transaction i      *)
(* gets the default read callback when i is the first, then becomes the    *)
(* default stream and inherits the socket's write buffer if there is no    *)
(* default stream yet, and is announced to the NewTransactionCallback,     *)
(* which (in the ConnectIP/ConnectUDP clients) attaches its own reader.   *)
(* If transaction `failAt` cannot send headers the loop returns early:     *)
(* closeWhenIdle is not requested and transportConnected_ stays false.     *)
ConnectSuccess ==
    /\ Alive
    /\ session = "up"
    /\ ~csDone
    /\ \E failAt \in IF TxnMayFail THEN 1..(NumTxns + 1) ELSE {NumTxns + 1} :
        LET created == {s \in Streams : s < failAt}
            first   == IF defaultStream = NoStream /\ created # {}
                       THEN 1 ELSE NoStream
            withDefault(s) ==
                IF s = 1 /\ defaultReader # NoReader
                THEN SetReadCallback(NewHandler, defaultReader) ELSE NewHandler
            withWrites(s) ==
                IF s = first
                THEN [withDefault(s) EXCEPT !.writeBuf = sockWriteBuf]
                ELSE withDefault(s)
            announced(s) == NewTransactionCallback(withWrites(s))
        IN /\ txns' = created
           /\ handler' = [s \in Streams |->
                            IF s \in created THEN announced(s) ELSE handler[s]]
           /\ defaultStream' = IF first # NoStream THEN first ELSE defaultStream
           /\ sockWriteBuf' = IF first # NoStream THEN <<>> ELSE sockWriteBuf
           /\ idleClose' = (idleClose \/ failAt > NumTxns)
           /\ transportUp' = (failAt > NumTxns)
    /\ csDone' = TRUE
    /\ UNCHANGED <<connected, session, defaultReader, appPaused, nextOut,
                   nextIn, accepted, flushLost, fault>>

(* Session: connectError only logs; the session is then destroyed and     *)
(* onDestroy clears upstreamSession_.                                      *)
ConnectError ==
    /\ Alive
    /\ session = "up"
    /\ ~csDone
    /\ csDone' = TRUE
    /\ session' = "gone"
    /\ UNCHANGED <<connected, idleClose, transportUp, defaultStream,
                   defaultReader, sockWriteBuf, txns, handler, appPaused,
                   nextOut, nextIn, accepted, flushLost, fault>>

(* Application: write(streamID, address, buf).  Fails when connect() was  *)
(* not called or the stream is unknown; before transportConnected_ the     *)
(* datagram is buffered in the handler up to SndBuf; afterwards it goes    *)
(* straight to sendDatagram, which may refuse it as too large or for a     *)
(* full transport buffer.  getDatagramSizeLimit() is read through          *)
(* httpTransaction, a null dereference once the transaction is detached.   *)
WriteStream(s, m) ==
    LET h == handler[s]
        Refused == UNCHANGED <<handler, accepted, fault>>
    IN
    IF ~connected \/ s \notin txns THEN Refused
    ELSE IF ~transportUp
    THEN IF Len(h.writeBuf) < SndBuf
         THEN /\ handler' = [handler EXCEPT ![s].writeBuf = Append(@, m)]
              /\ accepted' = accepted \cup {m}
              /\ UNCHANGED fault
         ELSE Refused
    ELSE IF h.txn = "detached"
    THEN /\ fault' = fault \cup {"null_transaction"}
         /\ UNCHANGED <<handler, accepted>>
    ELSE \/ /\ handler' = [handler EXCEPT ![s].sent = Append(@, m)]
            /\ accepted' = accepted \cup {m}
            /\ UNCHANGED fault
         \/ Refused   \* EMSGSIZE or ENOBUFS from the transport

(* Application: write(address, buf) on the stream-less interface.  Before *)
(* connectSuccess has chosen a default stream the datagram is buffered in  *)
(* the socket's own write buffer, up to SndBuf.                            *)
Write ==
    /\ Alive
    /\ nextOut <= MaxWrites
    /\ nextOut' = nextOut + 1
    /\ IF defaultStream = NoStream
       THEN /\ IF Len(sockWriteBuf) < SndBuf
               THEN /\ sockWriteBuf' = Append(sockWriteBuf, nextOut)
                    /\ accepted' = accepted \cup {nextOut}
               ELSE UNCHANGED <<sockWriteBuf, accepted>>
            /\ UNCHANGED <<handler, fault>>
       ELSE /\ WriteStream(defaultStream, nextOut)
            /\ UNCHANGED sockWriteBuf
    /\ UNCHANGED <<connected, session, idleClose, csDone, transportUp,
                   defaultStream, defaultReader, txns, appPaused, nextIn,
                   flushLost>>

(* Application (LayeredMasqueSocket): the stream-addressed write.          *)
WriteOnStream(s) ==
    /\ Alive
    /\ nextOut <= MaxWrites
    /\ nextOut' = nextOut + 1
    /\ WriteStream(s, nextOut)
    /\ UNCHANGED <<connected, session, idleClose, csDone, transportUp,
                   defaultStream, defaultReader, sockWriteBuf, txns, appPaused,
                   nextIn, flushLost>>

(* Session: onHeadersComplete.  A status other than 200 is only logged.    *)
(* On 200 the write buffer is handed to sendDatagram in order and cleared; *)
(* the results are ignored, so a refused datagram (`lost`) is dropped.     *)
OnHeadersComplete(s) ==
    LET h == handler[s] IN
    /\ Alive
    /\ s \in txns
    /\ h.txn = "open" /\ h.status = "pending"
    /\ \/ handler' = [handler EXCEPT ![s].status = "error"]
          /\ UNCHANGED flushLost
       \/ \E lost \in SUBSET ToSet(h.writeBuf) :
            /\ handler' = [handler EXCEPT
                  ![s].status = "ok",
                  ![s].sent = @ \o SelectSeq(h.writeBuf, LAMBDA m : m \notin lost),
                  ![s].writeBuf = <<>>]
            /\ flushLost' = flushLost \cup lost
    /\ UNCHANGED <<connected, session, idleClose, csDone, transportUp,
                   defaultStream, defaultReader, sockWriteBuf, txns, appPaused,
                   nextOut, nextIn, accepted, fault>>

(* Seeded fault for OnDatagram: `<=` instead of `<` against rcvBufPkts_. *)
OnDatagramOffByOne(s) ==
    LET h == handler[s] IN
    /\ Alive
    /\ s \in txns /\ h.txn = "open"
    /\ nextIn <= MaxIn
    /\ nextIn' = nextIn + 1
    /\ handler' =
         IF h.reader = NoReader
         THEN IF Len(h.readBuf) <= RcvBuf
              THEN [handler EXCEPT ![s].readBuf = Append(@, nextIn)]
              ELSE handler
         ELSE [handler EXCEPT ![s].delivered = Append(@, nextIn)]
    /\ UNCHANGED <<connected, session, idleClose, csDone, transportUp,
                   defaultStream, defaultReader, sockWriteBuf, txns, appPaused,
                   nextOut, accepted, flushLost, fault>>

(* Peer: onDatagram.  Without a read callback the datagram is buffered up *)
(* to RcvBuf and dropped beyond; with one it is delivered at once.         *)
OnDatagram(s) ==
    LET h == handler[s] IN
    /\ Alive
    /\ s \in txns /\ h.txn = "open"
    /\ nextIn <= MaxIn
    /\ nextIn' = nextIn + 1
    /\ handler' =
         IF h.reader = NoReader
         THEN IF Len(h.readBuf) < RcvBuf
              THEN [handler EXCEPT ![s].readBuf = Append(@, nextIn)]
              ELSE handler
         ELSE [handler EXCEPT ![s].delivered = Append(@, nextIn)]
    /\ UNCHANGED <<connected, session, idleClose, csDone, transportUp,
                   defaultStream, defaultReader, sockWriteBuf, txns, appPaused,
                   nextOut, accepted, flushLost, fault>>

(* Peer: onBody.  Without a read callback the chunk is buffered (without  *)
(* bound); a body-capable callback gets it, a plain one does not.          *)
OnBody(s) ==
    LET h == handler[s] IN
    /\ Alive
    /\ s \in txns /\ h.txn = "open" /\ h.ingress = "open"
    /\ nextIn <= MaxIn
    /\ nextIn' = nextIn + 1
    /\ handler' = IF h.reader = NoReader
                  THEN [handler EXCEPT ![s].bodyBuf = @ + 1]
                  ELSE handler   \* onBody of a body callback, or a warning
    /\ UNCHANGED <<connected, session, idleClose, csDone, transportUp,
                   defaultStream, defaultReader, sockWriteBuf, txns, appPaused,
                   nextOut, accepted, flushLost, fault>>

(* Peer: onEOM.  closeRead() clears the read callback (and tells it        *)
(* onReadClosed) when there is one.                                        *)
OnEOM(s) ==
    /\ Alive
    /\ s \in txns /\ handler[s].txn = "open" /\ handler[s].ingress = "open"
    /\ handler' = [handler EXCEPT ![s] = CloseRead([@ EXCEPT !.ingress = "eom"])]
    /\ UNCHANGED <<connected, session, idleClose, csDone, transportUp,
                   defaultStream, defaultReader, sockWriteBuf, txns, appPaused,
                   nextOut, nextIn, accepted, flushLost, fault>>

(* Session: onError (and onUpgrade) call closeWithError, which calls      *)
(* readCallback->onReadError before closeRead(): a null dereference when  *)
(* no read callback is attached.  The transaction timeout (txnTimeout_)   *)
(* and a stream reset arrive here, also after the peer's EOM.             *)
OnError(s) ==
    /\ Alive
    /\ s \in txns /\ handler[s].txn = "open" /\ handler[s].ingress # "error"
    /\ fault' = fault \cup CloseWithErrorFault(handler[s])
    /\ IF CloseWithErrorFault(handler[s]) # {}
       THEN UNCHANGED handler
       ELSE handler' = [handler EXCEPT ![s] = CloseRead([@ EXCEPT !.ingress = "error"])]
    /\ UNCHANGED <<connected, session, idleClose, csDone, transportUp,
                   defaultStream, defaultReader, sockWriteBuf, txns, appPaused,
                   nextOut, nextIn, accepted, flushLost>>

(* Session: detachTransaction, once the transaction has ended (an error,  *)
(* or EOM in both directions).  The handler stays in transactions_ with a *)
(* null httpTransaction.                                                   *)
DetachTransaction(s) ==
    LET h == handler[s] IN
    /\ Alive
    /\ s \in txns /\ h.txn = "open"
    /\ h.ingress = "error" \/ (h.ingress = "eom" /\ h.egressEOM)
    /\ handler' = [handler EXCEPT ![s].txn = "detached"]
    /\ UNCHANGED <<connected, session, idleClose, csDone, transportUp,
                   defaultStream, defaultReader, sockWriteBuf, txns, appPaused,
                   nextOut, nextIn, accepted, flushLost, fault>>

(* Session: after closeWhenIdle and once no transaction is left, the      *)
(* session is destroyed and onDestroy clears upstreamSession_.             *)
SessionDestroyed ==
    /\ Alive
    /\ session = "up" /\ idleClose
    /\ \A s \in txns : handler[s].txn = "detached"
    /\ session' = "gone"
    /\ UNCHANGED <<connected, idleClose, csDone, transportUp, defaultStream,
                   defaultReader, sockWriteBuf, txns, handler, appPaused,
                   nextOut, nextIn, accepted, flushLost, fault>>

(* Application: resumeRead(streamID, cb) on a known stream binds the       *)
(* callback through setReadCallback.                                       *)
ResumeReadStream(s, cb) ==
    /\ Alive
    /\ IF s \in txns
       THEN /\ handler' = [handler EXCEPT ![s] = SetReadCallback(@, cb)]
            /\ fault' = fault \cup DeliverFault(handler[s])
       ELSE UNCHANGED <<handler, fault>>
    /\ appPaused' = FALSE
    /\ UNCHANGED <<connected, session, idleClose, csDone, transportUp,
                   defaultStream, defaultReader, sockWriteBuf, txns,
                   nextOut, nextIn, accepted, flushLost>>

(* Application: resumeRead(cb).  Without a default stream the callback is *)
(* remembered for the first transaction, unless one is already            *)
(* remembered; otherwise it is bound to the default stream.                *)
ResumeRead(cb) ==
    /\ Alive
    /\ IF defaultStream = NoStream
       THEN /\ defaultReader' = IF defaultReader = NoReader THEN cb ELSE defaultReader
            /\ appPaused' = FALSE
            /\ UNCHANGED <<handler, fault>>
       ELSE /\ ResumeReadStream(defaultStream, cb)
            /\ UNCHANGED defaultReader
    /\ UNCHANGED <<connected, session, idleClose, csDone, transportUp,
                   defaultStream, sockWriteBuf, txns, nextOut, nextIn,
                   accepted, flushLost>>

(* Application: pauseRead() clears AsyncUDPSocket's own readCallback_,    *)
(* which no handler reads: the handlers keep their callbacks.             *)
PauseRead ==
    /\ Alive
    /\ appPaused' = TRUE
    /\ UNCHANGED <<connected, session, idleClose, csDone, transportUp,
                   defaultStream, defaultReader, sockWriteBuf, txns, handler,
                   nextOut, nextIn, accepted, flushLost, fault>>

(* Application: close() sends EOM on every transaction whose egress EOM   *)
(* was not sent, reading isEgressEOMSeen() through the handler's          *)
(* transaction pointer (null once detached), and requests closeWhenIdle.  *)
Close ==
    /\ Alive
    /\ IF \E s \in txns : handler[s].txn = "detached"
       THEN /\ fault' = fault \cup {"null_transaction"}
            /\ UNCHANGED <<handler, idleClose>>
       ELSE /\ handler' = [s \in Streams |->
                             IF s \in txns THEN [handler[s] EXCEPT !.egressEOM = TRUE]
                             ELSE handler[s]]
            /\ idleClose' = (idleClose \/ session = "up")
            /\ UNCHANGED fault
    /\ UNCHANGED <<connected, session, csDone, transportUp, defaultStream,
                   defaultReader, sockWriteBuf, txns, appPaused, nextOut,
                   nextIn, accepted, flushLost>>

(* Application: ~H3DatagramAsyncSocket calls                            *)
(* getTransaction()->setHandler(nullptr) for every handler in             *)
(* transactions_, a null dereference for a detached transaction, then     *)
(* unhooks the session's callbacks.  Nothing runs on the socket after it.  *)
Destroy ==
    /\ Alive
    /\ destroyed' = TRUE
    /\ fault' = fault \cup (IF \E s \in txns : handler[s].txn = "detached"
                            THEN {"null_transaction"} ELSE {})
    /\ UNCHANGED <<connected, session, idleClose, csDone, transportUp,
                   defaultStream, defaultReader, sockWriteBuf, txns, handler,
                   appPaused, nextOut, nextIn, accepted, flushLost>>

-----------------------------------------------------------------------------
\* The operations of the application and the callbacks of the session.
Operation ==
    \/ Connect
    \/ ConnectSuccess
    \/ ConnectError
    \/ Write
    \/ Close
    \/ PauseRead
    \/ SessionDestroyed
    \/ ResumeRead(AppReader)
    \/ \E s \in Streams :
         \/ WriteOnStream(s)
         \/ OnHeadersComplete(s)
         \/ OnDatagram(s)
         \/ OnBody(s)
         \/ OnEOM(s)
         \/ OnError(s)
         \/ DetachTransaction(s)
         \/ ResumeReadStream(s, AppReader)

Next ==
    \/ Destroy
    \/ Operation /\ UNCHANGED destroyed

Spec == Init /\ [][Next]_vars

-----------------------------------------------------------------------------
TypeOK ==
    /\ connected \in BOOLEAN /\ idleClose \in BOOLEAN /\ csDone \in BOOLEAN
    /\ transportUp \in BOOLEAN /\ appPaused \in BOOLEAN
    /\ session \in {"none", "up", "gone"}
    /\ defaultStream \in Streams \cup {NoStream}
    /\ defaultReader \in Readers \cup {NoReader}
    /\ sockWriteBuf \in Seq(1..MaxWrites)
    /\ txns \subseteq Streams
    /\ \A s \in Streams :
         /\ handler[s].txn \in {"open", "detached"}
         /\ handler[s].status \in {"pending", "ok", "error"}
         /\ handler[s].ingress \in {"open", "eom", "error"}
         /\ handler[s].reader \in Readers \cup {NoReader}
    /\ nextOut \in 1..(MaxWrites + 1) /\ nextIn \in 1..(MaxIn + 1)
    /\ accepted \subseteq 1..MaxWrites /\ flushLost \subseteq accepted
    /\ fault \subseteq {"null_read_callback", "null_transaction"}
    /\ destroyed \in BOOLEAN

(* Every datagram for which write() reported success is still in a write  *)
(* buffer, was handed to sendDatagram, or was refused by sendDatagram when *)
(* the buffer was flushed: connectSuccess moving the socket's buffer to    *)
(* the default stream, and the flush on the 200 response, lose nothing     *)
(* silently.                                                               *)
AcceptedAccounted ==
    \A m \in accepted :
        \/ m \in ToSet(sockWriteBuf) \cup flushLost
        \/ \E s \in txns : m \in ToSet(handler[s].writeBuf) \cup ToSet(handler[s].sent)

(* Datagrams from the peer reach the read callback of their stream in    *)
(* the order they arrived and at most once, across buffering before a    *)
(* reader is attached, the drain in setReadCallback, closeRead on EOM and *)
(* a later resumeRead.                                                     *)
ReadOrder ==
    \A s \in Streams : IsSorted(handler[s].delivered, <)

(* The socket's write buffer and each handler's write and read buffers    *)
(* never hold more than sndBufPkts_/rcvBufPkts_ datagrams, including the   *)
(* default stream's buffer after it inherits the socket's.                 *)
BuffersBounded ==
    /\ Len(sockWriteBuf) <= SndBuf
    /\ \A s \in Streams : Len(handler[s].writeBuf) <= SndBuf
                         /\ Len(handler[s].readBuf) <= RcvBuf

(* Datagrams the application wrote on a stream leave on that stream in    *)
(* the order they were written (spec: the write buffer is drained in order *)
(* once the 200 response arrives, and datagram I/O is only legal then).    *)
WriteOrder ==
    \A s \in Streams : IsSorted(handler[s].sent, <)

(* No handler dereferences a null read callback or a null transaction.   *)
NoNullDereference ==
    fault = {}
=============================================================================
