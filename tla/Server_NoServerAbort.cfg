CONSTANTS
    c1 = c1
    c2 = c2
    s1 = s1
    Conns <- MCConns
    Streams <- MCStreams
    MaxIn <- MCMaxIn
    MaxUp <- MCMaxUp
    Bodies <- MCBadBodies
    Requests <- MCIPOnly
SPECIFICATION Spec
INVARIANT NoServerAbort
CHECK_DEADLOCK FALSE
