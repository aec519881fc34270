\* The capsules the server sends, and a client's ADDRESS_REQUEST, over one
\* stream body delivered frame by frame.
CONSTANTS
    Sendable <- MCServerCapsules
    MaxSends = 3
    HostLittleEndian = TRUE
SPECIFICATION Spec
INVARIANT TypeOK
INVARIANT ParsedAsSent
\* The body ends when MaxSends capsules have been sent and delivered.
CHECK_DEADLOCK FALSE
