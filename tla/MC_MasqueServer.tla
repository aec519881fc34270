----------------------------- MODULE MC_MasqueServer -----------------------------
(* Bounds for MasqueServer: two connections, each with the one stream id *)
(* s1, so that the same id is live on two connections at once and both    *)
(* share the TUN; two client messages and two upstream packets, so that   *)
(* two packets can be queued for one stream.                              *)
EXTENDS MasqueServer

CONSTANTS c1, c2, s1

MCConns == {c1, c2}
MCStreams == {s1}

Req(method, protocol, path, segments, target) ==
    [method |-> method, protocol |-> protocol, host |-> TRUE, path |-> path,
     capsule |-> TRUE, segments |-> segments, target |-> target]

(* A valid CONNECT-UDP request, a valid CONNECT-IP request, and a plain GET. *)
MCValid ==
    { Req("CONNECT_UDP", "connect-udp", "udp", 6, "ok"),
      Req("CONNECT_IP", "connect-ip", "ip", 0, "ok"),
      Req("GET", "none", "other", 0, "ok") }

(* CONNECT-IP clients and plain GETs only: no stream whose uninitialised   *)
(* type could be misread.                                                   *)
MCIPOnly ==
    { Req("CONNECT_IP", "connect-ip", "ip", 0, "ok"),
      Req("GET", "none", "other", 0, "ok") }

(* Bodies of well-formed client capsules: an ADDRESS_REQUEST (request id *)
(* 1, any IPv4 address), a DATA capsule (context id 0, one payload byte), *)
(* a capsule of the unregistered type 0x21, and a body cut inside its     *)
(* first varint.                                                           *)
MCRequestBody ==
    Codec!CapsuleToBuffer([Codec!NoCapsule EXCEPT !.type = "ADDRESS_REQUEST",
        !.addresses = <<[requestID |-> 1, ip |-> <<0, 0, 0, 0>>, prefix |-> 32]>>])
MCBodies ==
    { MCRequestBody, Codec!ToBuffer(<<0, 69>>, 0), Codec!ToBuffer(<<>>, 33), <<64>> }

(* An ADDRESS_REQUEST with request id 0, which parseCapsule CHECKs.        *)
MCBadBodies ==
    MCBodies \cup
    { Codec!CapsuleToBuffer([Codec!NoCapsule EXCEPT !.type = "ADDRESS_REQUEST",
        !.addresses = <<[requestID |-> 0, ip |-> <<0, 0, 0, 0>>, prefix |-> 32]>>]) }

MCMaxIn == 2
MCMaxUp == 2
=============================================================================
