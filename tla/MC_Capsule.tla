------------------------------- MODULE MC_Capsule -------------------------------
(***************************************************************************)
(* Capsules as the server builds them (MasqueServer.cpp): the assigned    *)
(* IP is 10.0.0.1, written through IPAddress::createNetwork(ip.str()),    *)
(* whose prefix length is 32.                                              *)
(***************************************************************************)
EXTENDS Capsule

Assigned == <<10, 0, 0, 1>>

Entry(id) == [requestID |-> id, ip |-> Assigned, prefix |-> 32]

\* onHeadersComplete: ADDRESS_ASSIGN with request id 0.
MCAssignOnAccept == [NoCapsule EXCEPT !.type = "ADDRESS_ASSIGN", !.addresses = <<Entry(0)>>]

\* onBody's answer to an ADDRESS_REQUEST with the request ids 1, and 64
\* and 2 (64 takes a two-byte varint).
MCAssignReply1 == [NoCapsule EXCEPT !.type = "ADDRESS_ASSIGN", !.addresses = <<Entry(1)>>]
MCAssignReply2 == [NoCapsule EXCEPT !.type = "ADDRESS_ASSIGN",
                                    !.addresses = <<Entry(64), Entry(2)>>]

\* onBody's ROUTE_ADVERTISEMENT of 0.0.0.0-255.255.255.255.
MCRouteAll == [NoCapsule EXCEPT !.type = "ROUTE_ADVERTISEMENT",
                 !.ranges = <<[startIP |-> <<0, 0, 0, 0>>, endIP |-> <<255, 255, 255, 255>>]>>]

\* A client's ADDRESS_REQUEST for any IPv4 address, request id 1.
MCRequest == [NoCapsule EXCEPT !.type = "ADDRESS_REQUEST",
                !.addresses = <<[requestID |-> 1, ip |-> <<0, 0, 0, 0>>, prefix |-> 32]>>]

MCServerCapsules == {MCAssignOnAccept, MCAssignReply1, MCAssignReply2, MCRouteAll, MCRequest}

\* A ROUTE_ADVERTISEMENT of the subnet 10.0.0.0-10.0.0.255, which the
\* codec can build and the server could advertise in place of the full range.
MCRouteSubnet == [NoCapsule EXCEPT !.type = "ROUTE_ADVERTISEMENT",
                    !.ranges = <<[startIP |-> <<10, 0, 0, 0>>, endIP |-> <<10, 0, 0, 255>>]>>]

MCSubnetRoute == {MCRouteSubnet}
====
