\* One worker registering 129 CONNECT-IP streams on a /24 TUN subnet.
CONSTANTS
    w1 = w1
    w2 = w2
    Workers <- MCOneWorker
    SubnetSize <- MCSubnetSize
    MaxRegs <- MCSubnetRegs
    MaxPackets = 0
SPECIFICATION Spec
INVARIANT AssignedInSubnet
CHECK_DEADLOCK FALSE
