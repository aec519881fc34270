------------------------------ MODULE MasqueServer ------------------------------
(***************************************************************************)
(* The MASQUE server of src/proxygen/proxygen/httpserver/samples/masque/   *)
(* for the QUIC connections of one worker event base.  For every new       *)
(* connection DatagramTransportFactory::make (MasqueDownstream.cpp)       *)
(* creates a DatagramSessionController, which owns the connection's        *)
(* StreamSocketMap, and a QuicSetupCallback; once the handshake ends, the *)
(* callback hands the connection to an HQDownstreamSession of that         *)
(* controller.  The session asks the controller for one                    *)
(* DatagramTransactionHandler (MasqueServer.cpp) per request stream; all   *)
(* handlers of a connection share its map, and all connections share the  *)
(* server's SharedTun.  Stream ids are numbered alike on every connection, *)
(* so a transaction is a pair <<connection, stream id>>.                   *)
(*                                                                         *)
(* The handshake's outcome, the client's requests, datagrams and capsules, *)
(* the upstream UDP sockets' and the TUN's packets, and the end of a       *)
(* transaction or connection are the environment's moves.  Upstream       *)
(* callbacks run on other threads and post sendDatagram to the event base *)
(* with runInEventBaseThread, whose queue is `evbQueue`.  Handler and      *)
(* controller callbacks run on the event base, so each is one atomic step. *)
(*                                                                         *)
(* An exception escaping a noexcept handler (std::terminate), and a use of *)
(* a destroyed transaction, are recorded in `fault` and end the server.   *)
(***************************************************************************)
EXTENDS Integers, Sequences, SequencesExt, FiniteSets, TLC

CONSTANTS
    Conns,       \* QUIC connections the server accepts
    Streams,     \* request stream ids, numbered alike on every connection
    Requests,    \* the request shapes clients send (records, see ValidationError)
    MaxIn,       \* bound on datagrams and capsules from the clients
    MaxUp,       \* bound on packets from the upstream sockets and the TUN
    Bodies       \* the body chunks clients send: byte sequences

\* A request stream of a connection, with its HTTPTransaction.
Txns == Conns \X Streams

\* The capsule codec; parsing does not depend on the host's byte order.
Codec == INSTANCE CapsuleCodec WITH HostLittleEndian <- TRUE

\* The capsules the server sends, as the kind and the IP they carry.
EgressTypes == {"ADDRESS_ASSIGN", "ROUTE_ADVERTISEMENT"}
NoRequest == [method |-> "none", protocol |-> "none", host |-> FALSE, path |-> "other",
              capsule |-> FALSE, segments |-> 0, target |-> "ok"]
ContextIDs == {0, 1}          \* the datagram's context id; 1 stands for any non-zero one
NoIP == 0

VARIABLES
    conn,          \* per connection: none, handshake, ready, failed, closed
    controller,    \* connection -> the DatagramSessionController make created for it
    reply,         \* response headers sent on each transaction: "none", "200", "400"
    request,       \* the request each transaction carried
    streams,       \* controller -> its StreamSocketMap: stream id -> QuicStream
    subnetCounter, \* SharedTun::subnetCounter
    tunMap,        \* SharedTun::streamMap: IP -> transaction of its ConnectIPCallback
    capsules,      \* capsules sent to the client on each transaction, in order
    toClient,      \* upstream packets sent to the client on each transaction, in order
    evbQueue,      \* sendDatagram calls posted to the event base
    tunWrites,     \* transactions whose payload was written to the shared TUN, in order
    udpWrites,     \* writes to upstream UDP sockets: sending and owning transaction
    txnGone,       \* transactions whose HTTPTransaction has been destroyed
    nIn,           \* client datagrams and capsules so far
    nextUp,        \* identity of the next upstream packet
    fault          \* terminations and uses of destroyed transactions

vars == <<conn, controller, reply, request, streams, subnetCounter, tunMap, capsules,
          toClient, evbQueue, tunWrites, udpWrites, txnGone, nIn, nextUp, fault>>

\* Everything but the connection-level variables.
txnVars == <<reply, request, streams, subnetCounter, tunMap, capsules,
             toClient, evbQueue, tunWrites, udpWrites, txnGone, nIn, nextUp, fault>>

Alive == fault = {}

\* Every controller's map starts empty (the constructor's make_shared); a
\* controller exists once make has created it.
Init ==
    /\ conn = [c \in Conns |-> "none"]
    /\ controller = <<>>
    /\ reply = [t \in Txns |-> "none"]
    /\ request = [t \in Txns |-> NoRequest]
    /\ streams = [k \in Conns |-> <<>>]
    /\ subnetCounter = 0
    /\ tunMap = <<>>
    /\ capsules = [t \in Txns |-> <<>>]
    /\ toClient = [t \in Txns |-> <<>>]
    /\ evbQueue = <<>>
    /\ tunWrites = <<>>
    /\ udpWrites = <<>>
    /\ txnGone = {}
    /\ nIn = 0
    /\ nextUp = 1
    /\ fault = {}

-----------------------------------------------------------------------------
(* The checks of onHeadersComplete in the order the code makes them; the   *)
(* first that fails names the 400 reply, "ok" when all pass.  A request is *)
(* a record: method ("none", "CONNECT_UDP", "CONNECT_IP", "GET"),          *)
(* protocol (":protocol", "none" when absent), host (Host present), path   *)
(* ("udp", "ip" or "other": which masque prefix it starts with), capsule   *)
(* (capsule-protocol: ?1) and, for a UDP path, segments (the number of    *)
(* '/'-separated parts) and target ("ok", "bad_port": not a number,        *)
(* "bad_host": not an IP literal).                                         *)
ValidationError(r) ==
    IF r.method = "none" THEN "needs a method"
    ELSE IF r.method \notin {"CONNECT_UDP", "CONNECT_IP"}
         THEN "needs connect-udp or connect-ip"
    ELSE IF r.protocol = "none" THEN "protocol not included"
    ELSE IF ~r.host THEN "must include :authority"
    ELSE IF r.path # (IF r.method = "CONNECT_UDP" THEN "udp" ELSE "ip")
         THEN "invalid path"
    ELSE IF ~r.capsule THEN "must start the capsule protocol"
    ELSE IF r.method = "CONNECT_UDP" /\ r.segments # 6
         THEN "invalid path arguments"
    ELSE "ok"

(* Seeded fault for NewController: one controller, and so one stream map, *)
(* for every connection of the event base, as make already does for the   *)
(* ConnectionManager it keeps in an EventBaseLocal.                        *)
NewControllerShared(c) == CHOOSE k \in Conns : TRUE

(* make's `new DatagramSessionController(eventBase, generator, timeout)`: *)
(* a controller, with its own empty map, for each connection.              *)
NewController(c) == c

(* DatagramTransportFactory::make, when the QUIC server sees a new        *)
(* connection: the controller, the event base's ConnectionManager (made on *)
(* the event base's first connection; only its timeout is used), the       *)
(* QuicSetupCallback, and the QuicServerTransport (with a QLogger when a   *)
(* qlog path is set).                                                      *)
Make(c) ==
    /\ Alive /\ conn[c] = "none"
    /\ conn' = [conn EXCEPT ![c] = "handshake"]
    /\ controller' = controller @@ (c :> NewController(c))
    /\ UNCHANGED txnVars

(* QuicSetupCallback::onTransportReady: a new HQDownstreamSession with the *)
(* controller, the datagram and extended-CONNECT settings, and the socket's *)
(* callbacks moved to it; then the setup callback deletes itself.           *)
TransportReady(c) ==
    /\ Alive /\ conn[c] = "handshake"
    /\ conn' = [conn EXCEPT ![c] = "ready"]
    /\ UNCHANGED <<controller>> /\ UNCHANGED txnVars

(* QuicSetupCallback::onConnectionSetupError: logged, the setup callback  *)
(* is detached from the socket and deletes itself; the controller stays.  *)
SetupError(c) ==
    /\ Alive /\ conn[c] = "handshake"
    /\ conn' = [conn EXCEPT ![c] = "failed"]
    /\ UNCHANGED <<controller>> /\ UNCHANGED txnVars

(* The session ends (idle timeout, the client closing): every transaction *)
(* of the connection is destroyed.  The controller's detachSession and     *)
(* onDestroy are empty: its map, the QuicStreams with their UDP sockets,   *)
(* and the callbacks registered in the SharedTun all stay.                 *)
ConnectionClose(c) ==
    /\ Alive /\ conn[c] = "ready"
    /\ conn' = [conn EXCEPT ![c] = "closed"]
    /\ txnGone' = txnGone \cup ({c} \X Streams)
    /\ UNCHANGED <<controller, reply, request, streams, subnetCounter, tunMap, capsules,
                   toClient, evbQueue, tunWrites, udpWrites, nIn, nextUp, fault>>

(* A request the session cannot parse, or one whose headers do not arrive *)
(* before the transaction timeout: the controller's getParseErrorHandler  *)
(* or getTransactionTimeoutHandler hands the session a new handler from   *)
(* the generator, without the stream map; its onError only logs, so no    *)
(* response is sent, and the transaction ends.                              *)
ErrorHandler(t) ==
    /\ Alive /\ conn[t[1]] = "ready"
    /\ reply[t] = "none" /\ t \notin txnGone
    /\ txnGone' = txnGone \cup {t}
    /\ UNCHANGED <<conn, controller, reply, request, streams, subnetCounter, tunMap,
                   capsules, toClient, evbQueue, tunWrites, udpWrites, nIn, nextUp, fault>>

(* The StreamSocketMap a transaction's handler was given: the one of the  *)
(* controller of its connection (getRequestHandler).                       *)
MapOf(t) == streams[controller[t[1]]]

(* Seeded fault for HostIP: the first increment is dropped, so the first *)
(* stream gets the subnet's network address.                               *)
HostIPNoFirstIncrement == subnetCounter

(* The host part registerTransaction hands out: the value of             *)
(* subnetCounter between its two increments.                               *)
HostIP == subnetCounter + 1

(* SharedTun::registerTransaction on this worker: the two increments and  *)
(* the insert of the callback under base + (value between them).  Several *)
(* workers interleaving here is SharedTun.tla's subject.                   *)
RegisterTransaction(t) ==
    LET ip == HostIP IN
    /\ subnetCounter' = subnetCounter + 2
    /\ IF ip \in DOMAIN tunMap
       THEN /\ fault' = fault \cup {"duplicate_ip"}
            /\ UNCHANGED tunMap
       ELSE /\ tunMap' = tunMap @@ (ip :> t)
            /\ UNCHANGED fault

(* A QuicStream as its constructor leaves it: the properties variant of    *)
(* its kind (UDP socket and target, or the SharedTun and assigned IP), the *)
(* transaction its callback holds, and the member type, which neither      *)
(* constructor initialises.                                                 *)
NewQuicStream(kind, ip, owner, typeIsUDP) ==
    [kind |-> kind, ip |-> ip, owner |-> owner, typeIsUDP |-> typeIsUDP]

(* DatagramTransactionHandler::onHeadersComplete.  A failed check sends   *)
(* 400 and creates nothing.  CONNECT-UDP: stoi on the port and IPAddress  *)
(* on the host throw inside the noexcept handler on a malformed target;   *)
(* otherwise a connected UDP socket and its read callback are created.    *)
(* CONNECT-IP: the ConnectIPCallback is registered in the SharedTun.  The *)
(* stream is inserted into the handler's map (ConcurrentHashMap::insert   *)
(* keeps an entry already there), 200 is sent, and for CONNECT-IP an      *)
(* ADDRESS_ASSIGN with the IP of the stream just built.  QuicStream::type *)
(* is never initialised: whether it reads as UDP is whatever the memory   *)
(* held.                                                                    *)
OnHeadersComplete(t) ==
    /\ Alive /\ conn[t[1]] = "ready"
    /\ reply[t] = "none" /\ t \notin txnGone
    /\ \E r \in Requests :
        /\ request' = [request EXCEPT ![t] = r]
        /\ IF ValidationError(r) # "ok"
           THEN /\ reply' = [reply EXCEPT ![t] = "400"]
                /\ UNCHANGED <<streams, subnetCounter, tunMap, capsules, fault>>
           ELSE IF r.method = "CONNECT_UDP" /\ r.target # "ok"
           THEN /\ fault' = fault \cup {"terminate"}
                /\ UNCHANGED <<reply, streams, subnetCounter, tunMap, capsules>>
           ELSE \E typeIsUDP \in BOOLEAN :
                LET kind == IF r.method = "CONNECT_UDP" THEN "udp" ELSE "ip"
                    ip   == IF kind = "ip" THEN HostIP ELSE NoIP
                    k    == controller[t[1]]
                IN /\ streams' = [streams EXCEPT ![k] =
                                    @ @@ (t[2] :> NewQuicStream(kind, ip, t, typeIsUDP))]
                   /\ reply' = [reply EXCEPT ![t] = "200"]
                   /\ IF kind = "ip"
                      THEN /\ RegisterTransaction(t)
                           /\ capsules' = [capsules EXCEPT
                                 ![t] = Append(@, [type |-> "ADDRESS_ASSIGN", ip |-> ip])]
                      ELSE UNCHANGED <<subnetCounter, tunMap, capsules, fault>>
    /\ UNCHANGED <<conn, controller, toClient, evbQueue, tunWrites, udpWrites, txnGone,
                   nIn, nextUp>>

(* getStream: streamSocketMap->at(id) throws std::out_of_range, inside a  *)
(* noexcept handler, for a stream id that is not in the map.               *)
StreamMissing(t) == t[2] \notin DOMAIN MapOf(t)

(* getStream's result: the map's entry under the transaction's stream id. *)
StreamOf(t) == MapOf(t)[t[2]]

(* DatagramTransactionHandler::onDatagram: look the stream up, drop a     *)
(* datagram whose context id is missing or non-zero, and forward the rest *)
(* to the stream's UDP socket or to the shared TUN.                        *)
OnDatagram(t) ==
    /\ Alive
    /\ reply[t] # "none" /\ t \notin txnGone
    /\ nIn < MaxIn
    /\ nIn' = nIn + 1
    /\ \E ctx \in ContextIDs :
         IF StreamMissing(t)
         THEN /\ fault' = fault \cup {"terminate"}
              /\ UNCHANGED <<tunWrites, udpWrites>>
         ELSE IF ctx # 0 THEN UNCHANGED <<tunWrites, udpWrites, fault>>
         ELSE IF StreamOf(t).kind = "udp"
         THEN /\ udpWrites' = Append(udpWrites, [from |-> t, to |-> StreamOf(t).owner])
              /\ UNCHANGED <<tunWrites, fault>>
         ELSE /\ tunWrites' = Append(tunWrites, t)
              /\ UNCHANGED <<udpWrites, fault>>
    /\ UNCHANGED <<conn, controller, reply, request, streams, subnetCounter, tunMap,
                   capsules, toClient, evbQueue, txnGone, nextUp>>

(* Seeded fault for AddressAssignReply: the answer to ADDRESS_REQUEST     *)
(* carries the next free IP of the subnet rather than the stream's own.   *)
AddressAssignReplyNext(t) == [type |-> "ADDRESS_ASSIGN", ip |-> HostIP]

(* The ADDRESS_ASSIGN built in answer to ADDRESS_REQUEST: one entry per   *)
(* requested address, each carrying the looked-up stream's assigned IP.   *)
AddressAssignReply(t) == [type |-> "ADDRESS_ASSIGN", ip |-> StreamOf(t).ip]

(* DatagramTransactionHandler::onBody: look the stream up and return if   *)
(* its (uninitialised) type reads as UDP; otherwise parse the capsule,     *)
(* which may abort (a failed CHECK or a read past the end).  A body that  *)
(* does not parse, and UNKNOWN, are dropped.  DATA goes to the shared    *)
(* TUN.  ADDRESS_REQUEST takes the stream's IPProperties (std::get       *)
(* throws bad_variant_access for a UDP stream) and answers with an        *)
(* ADDRESS_ASSIGN of the assigned IP and a ROUTE_ADVERTISEMENT.  A client *)
(* ADDRESS_ASSIGN or ROUTE_ADVERTISEMENT is ignored.                       *)
OnBody(t) ==
    /\ Alive
    /\ reply[t] # "none" /\ t \notin txnGone
    /\ nIn < MaxIn
    /\ nIn' = nIn + 1
    /\ \E body \in Bodies :
         LET p == Codec!ParseCapsule(body)
             c == p.capsule.type
         IN
         IF StreamMissing(t)
         THEN /\ fault' = fault \cup {"terminate"}
              /\ UNCHANGED <<capsules, tunWrites>>
         ELSE IF StreamOf(t).typeIsUDP
         THEN UNCHANGED <<capsules, tunWrites, fault>>
         ELSE IF p.result = "abort"
         THEN /\ fault' = fault \cup {"terminate"}
              /\ UNCHANGED <<capsules, tunWrites>>
         ELSE IF p.result = "null" \/ c \in {"UNKNOWN", "ADDRESS_ASSIGN", "ROUTE_ADVERTISEMENT"}
         THEN UNCHANGED <<capsules, tunWrites, fault>>
         ELSE IF c = "DATA"
         THEN /\ tunWrites' = Append(tunWrites, t)
              /\ UNCHANGED <<capsules, fault>>
         ELSE IF StreamOf(t).kind = "udp"
         THEN /\ fault' = fault \cup {"terminate"}
              /\ UNCHANGED <<capsules, tunWrites>>
         ELSE /\ capsules' = [capsules EXCEPT ![t] = @ \o
                    <<AddressAssignReply(t),
                      [type |-> "ROUTE_ADVERTISEMENT", ip |-> NoIP]>>]
              /\ UNCHANGED <<tunWrites, fault>>
    /\ UNCHANGED <<conn, controller, reply, request, streams, subnetCounter, tunMap,
                   toClient, evbQueue, udpWrites, txnGone, nextUp>>

(* Every QuicStream in a controller's map.                                  *)
MappedStreams == UNION {Range(streams[k]) : k \in Conns}

(* ConnectUDPCallback::onDataAvailable on the I/O executor's thread, for  *)
(* the UDP socket of a mapped stream, or SharedTun::onPacket dispatching a *)
(* TUN packet by destination IP to a registered ConnectIPCallback on the  *)
(* TUN thread: prepend context id 0 and post sendDatagram on the          *)
(* callback's transaction to the event base.  Nothing unregisters a        *)
(* callback, so this goes on after the transaction is gone.                *)
UpstreamPacket(t) ==
    /\ Alive
    /\ nextUp <= MaxUp
    /\ \/ \E q \in MappedStreams : q.kind = "udp" /\ q.owner = t
       \/ t \in Range(tunMap)
    /\ evbQueue' = Append(evbQueue, <<t, nextUp>>)
    /\ nextUp' = nextUp + 1
    /\ UNCHANGED <<conn, controller, reply, request, streams, subnetCounter, tunMap,
                   capsules, toClient, tunWrites, udpWrites, txnGone, nIn, fault>>

(* Running the posted lambda for the queue's i-th entry: sendDatagram on   *)
(* the callback's downstreamTransaction, a destroyed object once the       *)
(* transaction is gone.  A refused datagram is only logged.                *)
RunPosted(i) ==
    LET t == evbQueue[i][1]
        n == evbQueue[i][2]
    IN /\ evbQueue' = RemoveAt(evbQueue, i)
       /\ IF t \in txnGone
          THEN /\ fault' = fault \cup {"use_after_free"}
               /\ UNCHANGED toClient
          ELSE /\ \/ toClient' = [toClient EXCEPT ![t] = Append(@, n)]
                  \/ UNCHANGED toClient
               /\ UNCHANGED fault
       /\ UNCHANGED <<conn, controller, reply, request, streams, subnetCounter, tunMap,
                      capsules, tunWrites, udpWrites, txnGone, nIn, nextUp>>

(* The event base runs the oldest posted lambda.                          *)
EvbRun ==
    /\ Alive
    /\ evbQueue # <<>>
    /\ RunPosted(1)

(* The transaction ends (the client's reset, the transaction timeout):    *)
(* onEOM and onError only log, detachTransaction is empty, and the session *)
(* destroys the HTTPTransaction.  The stream stays in the map and its      *)
(* callback stays registered.                                               *)
TransactionEnd(t) ==
    /\ Alive
    /\ reply[t] # "none" /\ t \notin txnGone
    /\ txnGone' = txnGone \cup {t}
    /\ UNCHANGED <<conn, controller, reply, request, streams, subnetCounter, tunMap,
                   capsules, toClient, evbQueue, tunWrites, udpWrites, nIn, nextUp, fault>>

Next ==
    \/ EvbRun
    \/ \E c \in Conns :
         \/ Make(c)
         \/ TransportReady(c)
         \/ SetupError(c)
         \/ ConnectionClose(c)
    \/ \E t \in Txns :
         \/ OnHeadersComplete(t)
         \/ ErrorHandler(t)
         \/ OnDatagram(t)
         \/ OnBody(t)
         \/ UpstreamPacket(t)
         \/ TransactionEnd(t)

Spec == Init /\ [][Next]_vars

-----------------------------------------------------------------------------
IPs == 1..(2 * Cardinality(Txns))

TypeOK ==
    /\ conn \in [Conns -> {"none", "handshake", "ready", "failed", "closed"}]
    /\ controller \in [DOMAIN controller -> Conns] /\ DOMAIN controller \subseteq Conns
    /\ reply \in [Txns -> {"none", "200", "400"}]
    /\ \A q \in MappedStreams :
         /\ q.kind \in {"udp", "ip"}
         /\ q.ip \in IF q.kind = "ip" THEN IPs ELSE {NoIP}
         /\ q.owner \in Txns
         /\ q.typeIsUDP \in BOOLEAN
    /\ DOMAIN tunMap \subseteq IPs
    /\ \A t \in Txns : \A i \in 1..Len(capsules[t]) :
         capsules[t][i].type \in EgressTypes /\ capsules[t][i].ip \in IPs \cup {NoIP}
    /\ evbQueue \in Seq(Txns \X (1..MaxUp))
    /\ txnGone \subseteq Txns
    /\ fault \subseteq {"terminate", "use_after_free", "duplicate_ip"}

(* Every ADDRESS_ASSIGN a CONNECT-IP transaction sends (on acceptance and *)
(* in answer to each ADDRESS_REQUEST) carries an IP under which the shared *)
(* TUN routes packets to that same transaction's callback (spec 7.2: the  *)
(* assigned IP is unique and equals the one in the ADDRESS_ASSIGN sent to *)
(* the client).  The IP a client is told is the IP its packets come from.  *)
AssignedIPConsistent ==
    \A t \in Txns : \A i \in 1..Len(capsules[t]) :
        capsules[t][i].type = "ADDRESS_ASSIGN" =>
            /\ capsules[t][i].ip \in DOMAIN tunMap
            /\ tunMap[capsules[t][i].ip] = t

(* Connections are isolated although stream ids repeat on every one of    *)
(* them: a datagram a client sends on a CONNECT-UDP stream is written only *)
(* to the UDP socket that this same transaction's request opened (spec 3: *)
(* StreamSocketMap keys are unique per QUIC connection).  It rests on make *)
(* creating a controller, and so a map, for each connection.               *)
UpstreamWritesOwned ==
    \A i \in 1..Len(udpWrites) : udpWrites[i].to = udpWrites[i].from

(* No request, datagram, capsule or upstream packet terminates the server *)
(* or makes it use a destroyed transaction (spec 4.6: validation failures *)
(* get a 400, parse errors are dropped, streams end independently).       *)
NoServerAbort ==
    fault = {}

(* Only CONNECT-IP streams write to the shared TUN: a CONNECT-UDP stream's *)
(* body is not capsule-parsed (spec 4.4: the body path is CONNECT-IP only) *)
TunWritesFromIPStreams ==
    \A i \in 1..Len(tunWrites) : StreamOf(tunWrites[i]).kind = "ip"
=============================================================================
