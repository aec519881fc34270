CONSTANTS
    c1 = c1
    c2 = c2
    s1 = s1
    Conns <- MCConns
    Streams <- MCStreams
    MaxIn <- MCMaxIn
    MaxUp <- MCMaxUp
    Bodies <- MCBodies
    Requests <- MCValid
SPECIFICATION Spec
INVARIANT TunWritesFromIPStreams
CHECK_DEADLOCK FALSE
