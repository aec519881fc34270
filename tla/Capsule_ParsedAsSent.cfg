\* A ROUTE_ADVERTISEMENT of a range whose addresses are not byte palindromes.
CONSTANTS
    Sendable <- MCSubnetRoute
    MaxSends = 1
    HostLittleEndian = TRUE
SPECIFICATION Spec
INVARIANT ParsedAsSent
