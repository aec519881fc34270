\* Registrations on two workers interleaved with TUN packets.
CONSTANTS
    w1 = w1
    w2 = w2
    Workers <- MCWorkers
    SubnetSize <- MCSubnetSize
    MaxRegs <- MCMaxRegs
    MaxPackets <- MCMaxPackets
SYMMETRY MCSymmetry
SPECIFICATION Spec
INVARIANT TypeOK
INVARIANT AssignedIPsRouteToOwner
\* Every behaviour ends when the registration and packet bounds are used up.
CHECK_DEADLOCK FALSE
