------------------------------ MODULE MC_SharedTun ------------------------------
(* Bounds for SharedTun.  Two workers registering three streams between   *)
(* them reach every interleaving of the two increments of one             *)
(* registration with those of another; two TUN packets to destinations    *)
(* around the assigned ones.  The subnet is the default /24.              *)
EXTENDS SharedTun

CONSTANTS w1, w2

MCWorkers == {w1, w2}
MCSubnetSize == 256
MCMaxRegs == 3
MCMaxPackets == 2
MCSymmetry == Permutations(MCWorkers)

(* A /24 and one worker: registrations one after another until the         *)
(* counter leaves the subnet.                                              *)
MCOneWorker == {w1}
MCSubnetRegs == 129
=============================================================================
