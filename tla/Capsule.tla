-------------------------------- MODULE Capsule --------------------------------
(***************************************************************************)
(* One stream's body carrying capsules (Capsule.{h,cpp} through the        *)
(* codec of CapsuleCodec.tla): the sender serialises capsules with        *)
(* sendBody, the peer's onBody parses each body chunk it is handed.        *)
(***************************************************************************)
EXTENDS CapsuleCodec

CONSTANTS
    Sendable,   \* the capsules the sender may build
    MaxSends    \* bound on sendBody calls

(* Every sendBody call is one HTTP/3 DATA frame, and the peer's onBody is *)
(* handed one frame per call.                                              *)

VARIABLES
    sent,     \* the capsules serialised by sendBody, in order
    wire,     \* the frames sent and not yet delivered
    parsed    \* what parseCapsule returned for each frame delivered

vars == <<sent, wire, parsed>>

Init ==
    /\ sent = <<>>
    /\ wire = <<>>
    /\ parsed = <<>>

(* httpTransaction->sendBody(capsule.toBuffer()): the server's            *)
(* ADDRESS_ASSIGN on acceptance, and its ADDRESS_ASSIGN and                *)
(* ROUTE_ADVERTISEMENT in answer to an ADDRESS_REQUEST.                    *)
SendBody(c) ==
    /\ Len(sent) < MaxSends
    /\ sent' = Append(sent, c)
    /\ wire' = Append(wire, CapsuleToBuffer(c))
    /\ UNCHANGED parsed

(* The peer's onBody with the next frame: parseCapsule on it.  An abort   *)
(* ends the process, so nothing is delivered after it.                     *)
OnBody ==
    /\ wire # <<>>
    /\ \A i \in DOMAIN parsed : parsed[i].result # "abort"
    /\ parsed' = Append(parsed, ParseCapsule(Head(wire)))
    /\ wire' = Tail(wire)
    /\ UNCHANGED sent

Next ==
    \/ \E c \in Sendable : SendBody(c)
    \/ OnBody

Spec == Init /\ [][Next]_vars

-----------------------------------------------------------------------------
IPAddr == {ip \in Seq(Byte) : Len(ip) \in {4, 16}}

TypeOK ==
    /\ Len(parsed) + Len(wire) = Len(sent)
    /\ \A i \in DOMAIN parsed :
         /\ parsed[i].result \in {"capsule", "null", "abort"}
         /\ \A j \in DOMAIN parsed[i].capsule.addresses :
              parsed[i].capsule.addresses[j].ip \in IPAddr
         /\ \A j \in DOMAIN parsed[i].capsule.ranges :
              /\ parsed[i].capsule.ranges[j].startIP \in IPAddr
              /\ parsed[i].capsule.ranges[j].endIP \in IPAddr

(* Every frame the peer receives parses to the capsule that was           *)
(* serialised into it: toBuffer and parseCapsule agree on the varints,    *)
(* the address and range layouts and the byte order of the addresses      *)
(* (spec 7.1: parse(serialize(c)) = c for every kind; UNKNOWN by its type *)
(* tag).                                                                   *)
ParsedAsSent ==
    \A i \in DOMAIN parsed : parsed[i] = Parsed(sent[i])
====
