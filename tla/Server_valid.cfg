\* Two connections, one stream each, of clients sending well-formed requests, datagrams,
\* capsules of every kind, and ending their transactions; upstream packets
\* interleaved.  Every behaviour ends when the message bounds are used up or
\* the server aborts.
CONSTANTS
    c1 = c1
    c2 = c2
    s1 = s1
    Conns <- MCConns
    Streams <- MCStreams
    MaxIn <- MCMaxIn
    MaxUp <- MCMaxUp
    Bodies <- MCBodies
    Requests <- MCValid
SPECIFICATION Spec
INVARIANT TypeOK
INVARIANT AssignedIPConsistent
INVARIANT UpstreamWritesOwned
CHECK_DEADLOCK FALSE
