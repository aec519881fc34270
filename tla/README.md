# TLA+ models of the MASQUE proxy stack

This directory holds TLA+ models of the MASQUE (CONNECT-UDP / CONNECT-IP over
HTTP/3) proxy in `src/proxygen/proxygen`. It also holds the TLC configurations
that check them. `PROJECT.json` records, for each module, the source lines
each definition translates (`map`), every TLC run with its expected outcome,
the seeded faults (`mutants`) that show each checked property can fail, the
disagreements found (`findings`), and the hazards of the code.

## 1. The system

| Part | Source | State it keeps | Operations |
|---|---|---|---|
| H3 datagram socket | `lib/transport/H3DatagramAsyncSocket.{h,cpp}` | connect address, session pointer, `transportConnected_`, default stream and default read callback, the socket's write buffer, `transactions_` (stream id → handler); per handler: transaction pointer, read callback, write/read/body buffers | app: `connect`, `write` (two forms), `resumeRead` (three forms), `pauseRead`, `close`; session: `connectSuccess`, `connectError`, `onDestroy`; per transaction: `onHeadersComplete`, `onDatagram`, `onBody`, `onEOM`, `onError`, `onUpgrade`, `detachTransaction` |
| Server demultiplexer | `httpserver/samples/masque/MasqueServer.{h,cpp}` | the per-connection stream map (stream id → `QuicStream`), `numberOfStreams` | `onHeadersComplete` (validate, create the stream, reply), `onBody` (capsules), `onDatagram`, `onEOM`/`onError` (log only); upstream callbacks `ConnectUDPCallback::onDataAvailable`, `ConnectIPCallback::onPacket` |
| Shared TUN router | `MasqueUpstream.{h,cpp}` | `subnetCounter` (atomic), `streamMap` (IP → callback), the `QuicStream` records | `registerTransaction`, `onPacket` (dispatch by destination IP), `write` |
| Server session plumbing | `MasqueDownstream.{h,cpp}` | one session controller and one stream map per QUIC connection | `getRequestHandler`, parse-error and timeout handlers, `QuicSetupCallback`, `DatagramTransportFactory::make` |
| Capsule codec | `Capsule.{h,cpp}` | none (pure) | `parseCapsule`, the `toBuffer` of each capsule kind |
| Tunnel clients | `httpclient/samples/H3Datagram/Connect*Client.*`, `H3DatagramClient.cpp` | TUN device, the hop chain of sockets | ConnectIP/ConnectUDP: TUN creation on ADDRESS_ASSIGN, TUN → socket posting, reader wiring |
| HTTP benchmark client | `httpclient/samples/H3Datagram/MasqueHttpClient.{h,cpp}` | the upstream session, `transactionHandlers`, `completedTransactions`; per handler: its transaction pointer | `call`, `connectSuccess`, `connectError`; per transaction: `onHeadersComplete` (with `postBody`), `onBody`, `onEOM`, `onError`, `detachTransaction` |

How they interact:
- On the client, the application (or the TUN thread, through
  `runInEventBaseThread`) writes into the outermost socket. Each socket's
  handler sends HTTP/3 datagrams on its CONNECT transactions.
- On the server, each transaction gets a `DatagramTransactionHandler`. Its
  datagrams go to an upstream UDP socket or the shared TUN. Upstream packets
  come back through callbacks on other threads, which post `sendDatagram` to
  the session's event base.
- Every server connection shares the one `SharedTun`, so registrations from
  several worker threads meet at `subnetCounter`.

The hard behaviours:
- The socket's buffering across `connect` → `connectSuccess` → 200 response,
  with several transactions, any of which may fail.
- Readers attached before, during and after datagrams arrive.
- The transaction ending (EOM, error, timeout) while the handler stays in
  `transactions_`.
- On the server: registrations interleaving across threads, a 400 reply
  followed by more datagrams, and capsules from the client that do not parse.
- Streams are never cleaned up.

Correctness as the code and the spec state it:
- A datagram reported as written is not silently lost. Datagrams keep their
  order on a stream.
- Buffers stay within `sndBufPkts_`/`rcvBufPkts_`.
- No null dereference on any sequence of callbacks.
- `pauseRead` stops delivery.
- Assigned IPs are unique and inside the subnet, although
  `registerTransaction` takes three unsynchronised steps.
- Invalid requests get a 400 and create no stream.
- Capsule parse errors are not fatal.

## 2. Modules

### H3DatagramSocket (modelled)

`H3DatagramSocket.tla` models one socket with `NumTxns` transactions, all on
the socket's event base (so each callback is one atomic step).

- State. The variables follow the members: `connected`, `session`
  (`upstreamSession_`), `transportUp` (`transportConnected_`),
  `defaultStream`, `defaultReader`, `sockWriteBuf`, `txns` (the keys of
  `transactions_`), and `handler[s]`. `handler[s]` is a record of the
  handler's transaction pointer, response status, ingress state, read
  callback, and write/read/body buffers, plus the history of what it
  `sent` and `delivered`.
- Datagrams. They are numbered in the order they are written (`nextOut`) or
  arrive (`nextIn`), so order is `IsSorted(_, <)`.
- Faults. A null dereference is recorded in `fault` and stops the process
  (every action requires `Alive`), so the runs do not check deadlock.
- Actions. There is one action per operation. `ConnectSuccess` chooses the
  transaction at which `newTransaction`/`canSendHeaders` fails (or none) and
  models the whole loop, including the early return.
- Client wiring. For every stream it opens, `ConnectSuccess` calls the
  client's `NewTransactionCallback`. ConnectUDPClient and ConnectIPClient
  create a read callback and bind it with `resumeRead(streamID, cb)`.
- Connect and destroy. `Connect` calls `StartClient`, which creates a
  session only when `upstreamSession_` is null. `Destroy` is the socket's
  destructor: it calls `setHandler(nullptr)` through every handler's
  transaction pointer. After it, nothing runs on the socket (`destroyed`).
- Abstractions. `WriteStream` keeps the code's order of early returns.
  `OnHeadersComplete` chooses which flushed datagrams `sendDatagram` refuses,
  since its result is ignored. `deliverDatagram`'s size check
  (`H3DatagramAsyncSocket.cpp:41-46`) is not modelled: datagrams have no
  size, and every delivery is taken to fit the reader's buffer (the
  client's `TunReadCallback` offers 2048 bytes). A datagram dropped there
  would be lost on the read path, which no run checks.

`MC_H3DatagramSocket.tla` fixes the bounds: 2 transactions, buffers of 1,
2 writes, 2 peer messages.

### SharedTun (modelled)

`SharedTun.tla` models `SharedTun` in `MasqueUpstream.h`: one TUN device
shared by every CONNECT-IP stream of every connection.

- State. `subnetCounter` is the atomic counter, and `streamMap` is the
  concurrent map from IP to callback. An IP is its host part (its offset from
  the subnet base). A callback is the number of the registration that
  created it.
- Actions. `registerTransaction` runs on the worker thread of the accepting
  connection, so several run at once. It is split into the three steps it
  takes on shared state:
  - `RegisterBegin`: the first `subnetCounter++`;
  - `RegisterSecondIncrement`: the second one, whose old value becomes the
    host part;
  - `RegisterInsert`: the `CHECK` that the IP is free, then the insert.
  A failed `CHECK` aborts the server (`fault`). `OnPacket` is the TUN
  reader's dispatch by destination address. Any destination may appear,
  including an unmapped one or a non-IPv4 packet.
- `MC_SharedTun.tla` sets the bounds: 2 workers, 3 registrations, 2 packets,
  a /24 subnet. The two workers are symmetric (`MCSymmetry`): the code
  gives no worker thread a role of its own, and the passing run checks
  invariants only.
  With 2 workers and 3 registrations, two registrations can interleave
  between each other's increments, and one worker can register twice. The
  violation run uses 1 worker and 129 registrations: the least that leaves a
  /24.

### MasqueServer (modelled)

`MasqueServer.tla` models the QUIC connections of one worker event base
(`Conns`), each with request streams whose ids (`Streams`) repeat on every
connection, so a transaction is a pair `<<connection, stream id>>`. It
composes the session plumbing of `MasqueDownstream.cpp` with the
`DatagramTransactionHandler` of every stream, the SharedTun registration
done atomically (its interleaving across workers is SharedTun's subject),
and the upstream callbacks that post to the event base.

- Connections (`MasqueDownstream.cpp`):
  - `Make` is `DatagramTransportFactory::make`. It creates the
    connection's `DatagramSessionController` (`NewController`), and with it
    the stream map that `streams` holds per controller.
  - The handshake then ends in `TransportReady` (`onTransportReady`: a
    session of that controller) or in `SetupError`
    (`onConnectionSetupError`). Requests arrive only on a ready connection.
  - `MapOf` is `getRequestHandler`: a handler uses its connection's
    controller's map.
  - `ErrorHandler` is a parse error or a transaction timeout. The
    generator's handler has no map, and its `onError` only logs, so the
    transaction ends without a reply.
  - `ConnectionClose` ends every transaction of the connection. The
    controller's `detachSession` is empty, so its map, UDP sockets and TUN
    callbacks all stay.
- `OnHeadersComplete`:
  - It takes a request record from `Requests` (method, `:protocol`, Host,
    path prefix, `capsule-protocol`, path segments, target).
  - `ValidationError` makes the code's checks in the code's order.
  - A malformed UDP target makes `stoi`/`IPAddress` throw inside `noexcept`,
    which is a `terminate` fault.
  - A valid request creates the stream and replies 200. For CONNECT-IP it
    also registers in the TUN and sends ADDRESS_ASSIGN.
  - `QuicStream::type` is never initialised: neither constructor in
    `MasqueUpstream.cpp` sets it. `NewQuicStream` builds the record, and
    whether `type` reads as UDP is chosen at creation (`typeIsUDP`), since
    the build may give either.
- `OnBody` is a whole handler. It takes a body from `Bodies` (byte
  sequences) and parses it with `CapsuleCodec`'s `ParseCapsule`.
  `OnDatagram` is also a whole
  handler, over context ids 0 and non-zero. Both
  include `getStream`'s `at()`, which terminates the server on a missing
  stream.
- Upstream packets:
  - `UpstreamPacket` is a `ConnectUDPCallback::onDataAvailable` or a TUN
    packet dispatched to a `ConnectIPCallback`. Either one appends to the
    event base's queue (`runInEventBaseThread`).
  - `EvbRun` runs the oldest queued lambda: `sendDatagram` on the stream's
    transaction. A refused send is only logged.
  - `TransactionEnd` destroys the transaction, and nothing unregisters the
    callback. A lambda run after that is a `use_after_free` fault.
- `MC_MasqueServer.tla` sets the bounds: 2 connections, each with the one
  stream id `s1`. That is the least that puts one stream id on two
  connections at once, and it keeps two CONNECT-IP registrations in one
  TUN. Two connections with two stream ids each take TLC more than 15
  minutes. There are 2 ingress events (datagrams or capsules), so an
  ADDRESS_REQUEST can follow another body, or a datagram can follow a 400.
  There are 2 upstream packets, so one can be queued while the other's
  transaction ends. It offers two request sets:
  - `MCValid`: valid UDP, valid IP, and GET;
  - `MCIPOnly`: valid IP and GET;

### CapsuleCodec and Capsule (modelled)

`CapsuleCodec.tla` translates `Capsule.cpp`. Every `toBuffer` and
`parseCapsule` is an operator over byte sequences.

- Capsules. A capsule is a record with the fields of every kind. An IP is its
  bytes in network order.
- Varints. The QUIC varint is RFC 9000's 1/2/4/8-byte encoding. A decoded
  value of 2^30 or more is kept as `VarIntCap`: TLC's integers have 32 bits,
  and the codec only compares such values with small constants.
- Length field. `toBuffer` (`Capsule.cpp:20`) writes `data->length()`,
  the length of the payload's first IOBuf only; the model writes the whole
  payload's length. The two differ when a payload longer than the
  appender's growth step is chained. `parseCapsule` skips the length field
  and reads the payload to the end, so no property depends on it.
- Entry loops. The ADDRESS and ROUTE loops are `RECURSIVE` (`ParseAddresses`,
  `ParseRanges`).
- Reads. Each read the cursor makes (type, length, request id, version,
  entry) is passed as a parameter to the operator for the next step:
  `ParseCapsule` → `CapsuleAfterType` → `CapsuleAfterLength` →
  `CapsuleOfType` → `DataCapsule` / `AssignCapsule` / `RequestCapsule` /
  `RouteCapsule`, and `ParseAddress` → `AddressAfterID` → `AddressEntry`.
  So every read is evaluated once, as in the code. A LET-bound name would
  be re-evaluated at each use under TLC's `-coverage` profiling.
- Aborts. Every way the parser ends the process gives the result `abort`: a
  failed `CHECK`, a cursor read past the end, or an empty decode result
  dereferenced. It is called from the `noexcept` `onBody`.
- Byte order. `writeBE(toLong())` is modelled by its effect on the bytes
  under the constant `HostLittleEndian`.

`Capsule.tla` runs the codec over one stream body. `SendBody` serialises a
capsule from `Sendable` as one HTTP/3 DATA frame, and `OnBody` hands the peer
one frame and parses it. `MC_Capsule.tla` builds the capsules exactly as
`MasqueServer.cpp` does (assigned IP 10.0.0.1, written through
`createNetwork`, hence /32). With 5 capsules and 3 sends, every kind follows
every other, and request ids 0, 1, 2 and 64 cover one- and two-byte varints.

MasqueServer's `OnBody` parses client bodies (the constant `Bodies`) with the
same operators through `INSTANCE CapsuleCodec`. So a malformed capsule's
abort is the parser's own, not an assumption.

### MasqueHttpClient (partly modelled)

`MasqueHttpClient.tla` models the benchmark client that runs GET or POST
transactions through the tunnel. `main()` and its option parsing are left
out.

- State. `session` is the upstream session: none, connecting, draining
  (after `closeWhenIdle`) or failed. Per transaction index there are three
  variables. `txn` is the `HTTPTransaction`. `handler` is the
  `TransactionHandler`: `owned` while `transactionHandlers` holds it, `freed`
  once its `unique_ptr` is gone. `egress` and `ingress` record what was sent
  and how far the response has come. `completed` is
  `completedTransactions`, `exited` records `exit(0)`, and `fault` records
  undefined behaviour.
- Constants. `Method` and `QLog` are the request method and whether a qlog
  path is set.
- `ConnectSuccess` models the whole callback, with the outcome of each loop
  iteration drawn from `Outcomes`:
  - `ok`: headers are sent and the handler is kept;
  - `no_headers`: `canSendHeaders` is false, and `continue` frees the
    handler while its transaction still points to it;
  - `null`: the `LOG` line dereferences the null transaction.

  It then sends EOM on every kept handler and calls `closeWhenIdle`.
- Callbacks. A callback on a freed handler is a `freed_handler` fault. The
  actions for the server's responses need the request headers to have been
  sent.
- Fairness (`FairSpec`) is weak fairness on:
  - `call()`;
  - the handshake's end, success or failure;
  - the server's response headers and EOM for every request it received.

  These are the steps the client waits for. Errors and body chunks are not
  assumed to happen.
- `MC_MasqueHttpClient.tla` uses three transactions. One can be complete,
  one answered and one still waiting when an error or the last EOM arrives.

### Planned, in order

1. **An abstract per-stream datagram channel** (a lossy FIFO). The socket's
   read path is shown to refine it with `INSTANCE ... WITH`. The send path
   cannot refine it, because `WriteOrder` fails.
2. **Liveness** under weak fairness of the event base's queue: every posted
   upstream packet is eventually sent or its failure logged.
3. **Split and coalesced body chunks**, once it is settled how proxygen cuts
   a body into `onBody` calls.
4. **The HTTP client's POST path**: a property that no body or second EOM
   follows a transaction's EOM, checked on a POST configuration.

## 3. Runs

| Run | Config | Expect | Shows |
|---|---|---|---|
| H3Socket_client | `H3Socket_client.cfg` | pass | The socket as ConnectIP/ConnectUDP wire it (a plain reader on every new transaction; the application's reader is plain), with transaction failure allowed. It checks `TypeOK`, `AcceptedAccounted` (every accepted write is buffered, sent, or refused by the flush), `ReadOrder` (delivery in arrival order, at most once, across resumeRead/closeRead), and `BuffersBounded`. About 3.6 million states, under 1.5 minutes. |
| H3Socket_WriteOrder | `H3Socket_WriteOrder.cfg` | violation | A write after `connectSuccess` but before the 200 response leaves before the datagrams buffered earlier. |
| H3Socket_NoNullDereference | `H3Socket_NoNullDereference.cfg` | violation | `onEOM` then `onError`: `closeWithError` calls `onReadError` on a null callback. |
| SharedTun_workers | `SharedTun_workers.cfg` | pass | Two workers register three CONNECT-IP streams in every interleaving of their increments, with TUN packets dispatched in between. `AssignedIPsRouteToOwner`: the `CHECK` never fails, and each stream's assigned IP routes to it alone. About 600 distinct states with symmetry. Whether the IPs stay inside the subnet needs more registrations than this run has; the next run checks it. |
| SharedTun_AssignedInSubnet | `SharedTun_AssignedInSubnet.cfg` | violation | On the default /24, registration 128 gets .255 and registration 129 gets host part 257, outside the subnet, because every registration adds two to the counter. |
| Server_valid | `Server_valid.cfg` | pass | Two connections whose handshakes may fail, each with a request on the same stream id (valid CONNECT-UDP, valid CONNECT-IP or GET). Capsules, datagrams, upstream packets, parse errors, timeouts, and transaction and connection ends are interleaved. `AssignedIPConsistent`: every ADDRESS_ASSIGN carries an IP the TUN routes back to its own transaction. `UpstreamWritesOwned`: a datagram reaches only the UDP socket its own transaction opened, which rests on one controller per connection. About 116,000 states. |
| Server_NoServerAbort | `Server_NoServerAbort.cfg` | violation | A GET is answered 400, then a datagram on that stream hits `at()` on a missing id and terminates the server. |
| Server_TunWritesFromIPStreams | `Server_TunWritesFromIPStreams.cfg` | violation | On an accepted CONNECT-UDP stream whose `type` reads as IP, a DATA capsule is written to the shared TUN. |
| Capsule_server | `Capsule_server.cfg` | pass | The capsules the server sends, and a client ADDRESS_REQUEST, sent frame by frame in any order. `ParsedAsSent`: each frame parses back to the capsule serialised into it. 586 states. |
| Client_get | `Client_get.cfg` | pass | The GET client with three transactions under `FairSpec`; the connection may fail and any transaction may get an error. `ExitAfterAllResponses`: `exit(0)` comes only once every transaction has its whole response. `ClientExits` (liveness): when the connection succeeds and no transaction errs, the client exits. 346 states. |
| Client_ClientExits | `Client_ClientExits.cfg` | violation | A transaction that cannot send headers is skipped by `connectSuccess`. Its handler is freed, so `onError` on it is a use after free; and the completion count can never reach `numTransactions`. |
| Capsule_ParsedAsSent | `Capsule_ParsedAsSent.cfg` | violation | A ROUTE_ADVERTISEMENT of 10.0.0.0–10.0.0.255 parses back as 0.0.0.10–255.0.0.10, because `AddressRange::toBuffer` writes the network-order `toLong()` with `writeBE`. |
Bounds. Two transactions are the least that exercise:
- a failure after the first transaction was created;
- a default stream distinct from the others;
- per-stream writes on a non-default stream.

Buffers of 1 with 2 writes let a buffer fill and refuse, and let a buffered
datagram be overtaken by a later one. Two peer messages let a datagram be
buffered and a second one be delivered directly, or overflow. They also make
a buffer one over its capacity reachable, so an off-by-one in a capacity
check is caught.

Fairness. Only the HTTP client's runs assume any (see its section). There, the
server answering a request it received is the environment assumption under
which `exit(0)` is meant to come. The socket, SharedTun and server runs
check safety properties only, and they stop at their bounds or at an
abort, so they do not check deadlock.

## 4. Findings

Each is the counterexample of the violation run named, recorded in `PROJECT.json`.

- **Capsule_ParsedAsSent** (`Capsule.cpp:169`, code bug). AddressRange::toBuffer writes startIP.asV4().toLong() and endIP.asV4().toLong() with writeBE. toLong() is already in network byte order, so on a little-endian host the bytes go out reversed, while parseCapsule reads them as network order: 10.0.0.0-10.0.0.255 comes back as 0.0.0.10-255.0.0.10. Address::toBuffer uses toLongHBO() and is correct. The spec (7.1, 7.5) says serialisation of a sorted range sequence round-trips. The server's only route, 0.0.0.0-255.255.255.255, is byte-symmetric and hides the bug.
- **Server_NoServerAbort** (`MasqueServer.cpp:44`, code bug). A request answered 400 creates no stream, but its transaction stays open; a later datagram or body on it calls getStream, whose at() throws std::out_of_range inside a noexcept handler and terminates the whole server. The spec (4.4) says invalid requests get a 400 reply.
- **Server_TunWritesFromIPStreams** (`MasqueServer.cpp:173`, code bug). onBody tests QuicStream::type, which no constructor of QuicStream sets. When the uninitialised value is not UDP on a CONNECT-UDP stream, DATA capsules from that client are written to the shared TUN device (cpp:189), and an ADDRESS_REQUEST reaches std::get<IPProperties> and aborts. The comment at cpp:174 says CONNECT-UDP does not use capsules.
- **SharedTun_AssignedInSubnet** (`MasqueUpstream.h:56`, spec code divergence). registerTransaction increments subnetCounter twice and uses the value between the two increments, so host parts go 1, 3, 5, ... and nothing bounds them. On the /24 that main() accepts, registration 128 gets .255 (the broadcast address) and registration 129 gets base+257, outside the subnet. The spec says that a /24 at most makes the counter a u8 host part, and that every assigned IP lies in the configured subnet (spec 4.4, 7.2).
- **H3Socket_WriteOrder** (`H3DatagramAsyncSocket.cpp:250`, spec code divergence). connectSuccess sets transportConnected_ before any response arrives. From then on write() sends straight away with sendDatagram (cpp:273), while the datagrams buffered earlier wait in the handler's writeBuf until onHeadersComplete flushes them (cpp:75-77). A later datagram therefore leaves before earlier ones on the same stream. The spec (4.2, 5) says datagram I/O is legal only in READY, that the buffer absorbs the window until the transport is ready, and that datagrams on one stream are delivered in the order they were posted.
- **H3Socket_NoNullDereference** (`H3DatagramAsyncSocket.cpp:30`, code bug). closeWithError calls readCallback->onReadError without checking readCallback. onEOM's closeRead has already nulled it, and a stream with no reader never had one. A later onError (transaction timeout, stream reset) or onUpgrade then dereferences null. The spec (4.6) says on_error surfaces to the read callback and closes the read side.
- **Client_ClientExits** (`MasqueHttpClient.cpp:119`, code bug).
  - When newTransaction gives a transaction that cannot send headers,
    connectSuccess logs and continues. That destroys the handler while the
    transaction still points to it, so a later onError is a use after free.
  - Otherwise, completedTransactions never reaches numTransactions and the
    client never exits.
  - A null transaction is dereferenced by the LOG line itself.

Two divergences are recorded as hazards in `PROJECT.json`, without a run of
their own:
- `:protocol` is never compared with the method (`MasqueServer.cpp:89`).
- `pauseRead` leaves every handler's read callback in place
  (`H3DatagramAsyncSocket.h:270`).
- The transaction-timeout and parse-error handlers only log, so no response
  is sent (`MasqueDownstream.cpp:67`). The spec (5) says the timeout handler
  responds and releases the stream.

## 5. Not modelled

- QUIC/HTTP/3 internals (proxygen and mvfst): flow control, the datagram size
  limit, and the session's stream bookkeeping. They are represented only by
  the nondeterministic outcomes the code observes.
- Bodies cut into `onBody` calls other than one per frame, and IPv6 in
  the capsule serialisers (they call `asV4()`).
- The layered socket chain, TUN devices, `MasqueUtils` and packet utilities.
  They are not under `src/`.
- The ConnectIP/ConnectUDP clients' TUN wiring beyond their
  NewTransactionCallback: `createTunDevice` on ADDRESS_ASSIGN, the
  `tunDevices` map and its CHECKs, and the TUN threads posting
  `LayeredMasqueSocket::write(address, packet)`. The address callback is
  called by `LayeredConnectIPSocket` and the stream-less write is
  `LayeredMasqueSocket`'s, and neither class is in the repository, so when
  and how often they run cannot be read from the code. Two hazards record
  what would go wrong (`ConnectIPClient.cpp:84`, `:30`).
- The command-line drivers and option parsing (`main()` of both clients,
  `generateOptions`, `H3DatagramClient.cpp`), the certificate verifier, TLS
  setup and qlog.
- The HTTP client's POST upload. Its sendBody and second sendEOM after the
  EOM that connectSuccess already sent are in the model, but no run
  checks egress framing. The client with a qlog path never exits by
  construction, so no run checks that case either.
- `DatagramSessionController::createSession` and `startSession`, which
  nothing calls, and the `ConnectionManager`, of which only the timeout is
  used.
- `setRcvBuf`/`setSndBuf`. The capacities are constants; the static sharing
  across sockets is listed as a hazard.
