-------------------------------- MODULE CapsuleCodec -----------------------------
(***************************************************************************)
(* The capsule codec of src/proxygen/proxygen/httpserver/samples/masque/   *)
(* Capsule.{h,cpp}: the toBuffer of every capsule kind and                 *)
(* Capsule::parseCapsule, as operators over byte sequences.  Capsule.tla  *)
(* runs them over a stream body; MasqueServer.tla parses with them.        *)
(*                                                                         *)
(* A capsule is a record with every field of every kind; the fields its   *)
(* kind does not own stay empty.  An IP address is its bytes in network    *)
(* order (4 for IPv4, 16 for IPv6).                                        *)
(***************************************************************************)
EXTENDS Integers, Sequences, SequencesExt

CONSTANT HostLittleEndian   \* the build's byte order (x86-64 and arm64: TRUE)

Byte == 0..255

\* Capsule::Type, whose UNKNOWN enumerator has the value 4.
TypeCode == [DATA |-> 0, ADDRESS_ASSIGN |-> 1, ADDRESS_REQUEST |-> 2,
             ROUTE_ADVERTISEMENT |-> 3, UNKNOWN |-> 4]

NoCapsule == [type |-> "NONE", data |-> <<>>, addresses |-> <<>>,
              ranges |-> <<>>, capsuleType |-> 0]

-----------------------------------------------------------------------------
(* QUIC variable-length integers (quic::encodeQuicInteger and             *)
(* decodeQuicInteger, RFC 9000 section 16): the two top bits of the first *)
(* byte give the length 1, 2, 4 or 8, the rest is the value big-endian.   *)
(* TLC's integers have 32 bits, so a decoded value of 2^30 or more is      *)
(* kept as VarIntCap: the codec only compares such values with small      *)
(* constants, which none of them equals.                                   *)
VarIntCap == 2^30

RECURSIVE BigEndian(_, _)
BigEndian(v, n) == IF n = 0 THEN <<>> ELSE BigEndian(v \div 256, n - 1) \o <<v % 256>>

FromBigEndian(s) ==
    FoldLeft(LAMBDA acc, b : IF acc >= 2^22 THEN VarIntCap ELSE acc * 256 + b, 0, s)

\* Values below 2^30: the encodings of one, two and four bytes.
EncodeQuicInteger(v) ==
    LET code == IF v < 2^6 THEN 0 ELSE IF v < 2^14 THEN 1 ELSE 2
        bytes == BigEndian(v, 2^code)
    IN [bytes EXCEPT ![1] = @ + 64 * code]

\* [ok, value, len]: ok is FALSE when the buffer ends inside the integer.
\* n is the length the first byte announces.
DecodeQuicIntegerN(s, n) ==
    IF Len(s) < n THEN [ok |-> FALSE, value |-> 0, len |-> 0]
    ELSE [ok |-> TRUE, len |-> n, value |-> FromBigEndian(<<s[1] % 64>> \o SubSeq(s, 2, n))]

DecodeQuicInteger(s) ==
    IF s = <<>> THEN [ok |-> FALSE, value |-> 0, len |-> 0]
    ELSE DecodeQuicIntegerN(s, 2^(s[1] \div 64))

Drop(s, k) == SubSeq(s, k + 1, Len(s))

-----------------------------------------------------------------------------
(* Serialisation.                                                          *)

\* toBuffer(data, type): type and payload length as varints, then the data.
ToBuffer(data, type) == EncodeQuicInteger(type) \o EncodeQuicInteger(Len(data)) \o data

IPVersion(ip) == IF Len(ip) = 4 THEN 4 ELSE 6

\* BufAppender::writeBE(IPAddressV4::toLong()): toLong() is the address in
\* network byte order held in a uint32, whose value on a little-endian host
\* is the byte-reversed address; writeBE writes that value's bytes most
\* significant first.  (The uint32 itself exceeds TLC's integers, so the
\* composition is modelled by its effect on the bytes.)
WriteBELong(ip) == IF HostLittleEndian THEN Reverse(ip) ELSE ip

\* Seeded fault for AddressToBuffer: the address written through toLong()
\* as AddressRange::toBuffer writes it, in place of toLongHBO().
AddressToBufferLong(a) ==
    EncodeQuicInteger(a.requestID) \o <<IPVersion(a.ip)>> \o WriteBELong(a.ip) \o <<a.prefix>>

\* Address::toBuffer: request id, version byte, toLongHBO() written
\* big-endian (the network-order bytes), prefix length.  IPv4 only.
AddressToBuffer(a) ==
    EncodeQuicInteger(a.requestID) \o <<IPVersion(a.ip)>> \o a.ip \o <<a.prefix>>

\* AddressRange::toBuffer: version, start and end written through toLong()
\* and writeBE, then the end's version as the protocol byte.
RangeToBuffer(r) ==
    <<IPVersion(r.startIP)>> \o WriteBELong(r.startIP) \o WriteBELong(r.endIP)
        \o <<IPVersion(r.endIP)>>

\* The virtual toBuffer of each capsule kind.  DatagramCapsule writes its
\* data as it is; UnknownCapsule writes the enumerator UNKNOWN as its type.
CapsuleToBuffer(c) ==
    CASE c.type = "DATA" -> ToBuffer(c.data, TypeCode.DATA)
      [] c.type \in {"ADDRESS_ASSIGN", "ADDRESS_REQUEST"} ->
            ToBuffer(FoldLeft(LAMBDA acc, a : acc \o AddressToBuffer(a), <<>>, c.addresses),
                     TypeCode[c.type])
      [] c.type = "ROUTE_ADVERTISEMENT" ->
            ToBuffer(FoldLeft(LAMBDA acc, r : acc \o RangeToBuffer(r), <<>>, c.ranges),
                     TypeCode.ROUTE_ADVERTISEMENT)
      [] c.type = "UNKNOWN" -> ToBuffer(<<>>, TypeCode.UNKNOWN)

-----------------------------------------------------------------------------
(* Parsing.  A CHECK that fails, a cursor read or pull past the end       *)
(* (std::out_of_range) and the dereference of an empty decode result all  *)
(* end the process: parseCapsule is called from the noexcept onBody.  All  *)
(* of them are the outcome "abort", so the order of the checks within one *)
(* entry does not matter.                                                  *)

\* The operators below take what an earlier read returned as a parameter
\* (the request id, the version's address length, the entry just parsed):
\* each read happens once, in the order the cursor makes it.
Fail == [ok |-> FALSE, entry |-> <<>>, rest |-> <<>>]

\* Address length announced by a version byte: 4 for 4, otherwise 16.
IPLen(r) == IF r # <<>> /\ r[1] = 4 THEN 4 ELSE 16

\* Seeded fault for AddressEntry: the address pulled one byte short.
AddressEntryShortIP(rid, r, n) ==
    IF ~rid.ok \/ r = <<>> \/ r[1] \notin {4, 6} \/ Len(r) < n + 2 THEN Fail
    ELSE [ok |-> TRUE, rest |-> Drop(r, n + 2),
          entry |-> [requestID |-> rid.value, ip |-> SubSeq(r, 2, n), prefix |-> r[n + 2]]]

\* parseAddress after the request id rid, on the rest r: version in {4, 6},
\* n = 4 or 16 address bytes, prefix length.  [ok, entry, rest]; ok = FALSE
\* aborts.
AddressEntry(rid, r, n) ==
    IF ~rid.ok \/ r = <<>> \/ r[1] \notin {4, 6} \/ Len(r) < n + 2 THEN Fail
    ELSE [ok |-> TRUE, rest |-> Drop(r, n + 2),
          entry |-> [requestID |-> rid.value, ip |-> SubSeq(r, 2, n + 1), prefix |-> r[n + 2]]]

AddressAfterID(rid, s) == AddressEntry(rid, Drop(s, rid.len), IPLen(Drop(s, rid.len)))

ParseAddress(s) == AddressAfterID(DecodeQuicInteger(s), s)

\* The ROUTE_ADVERTISEMENT loop body with n address bytes per version:
\* version in {4, 6}, start and end address, protocol in {4, 6}.
RangeEntry(s, n) ==
    IF s = <<>> \/ s[1] \notin {4, 6} \/ Len(s) < 2 * n + 2 \/ s[2 * n + 2] \notin {4, 6}
    THEN Fail
    ELSE [ok |-> TRUE, rest |-> Drop(s, 2 * n + 2),
          entry |-> [startIP |-> SubSeq(s, 2, n + 1), endIP |-> SubSeq(s, n + 2, 2 * n + 1)]]

ParseRange(s) == RangeEntry(s, IPLen(s))

\* push_back of the entry e in front of the entries parsed after it.
WithEntry(e, r) == IF r.ok THEN [ok |-> TRUE, list |-> Cons(e, r.list)] ELSE [ok |-> FALSE, list |-> <<>>]

\* while (!cursor.isAtEnd()) parse one entry: [ok, list].
RECURSIVE ParseAddresses(_), AddressesAfter(_)
AddressesAfter(a) == IF a.ok THEN WithEntry(a.entry, ParseAddresses(a.rest)) ELSE [ok |-> FALSE, list |-> <<>>]
ParseAddresses(s) == IF s = <<>> THEN [ok |-> TRUE, list |-> <<>>] ELSE AddressesAfter(ParseAddress(s))

RECURSIVE ParseRanges(_), RangesAfter(_)
RangesAfter(a) == IF a.ok THEN WithEntry(a.entry, ParseRanges(a.rest)) ELSE [ok |-> FALSE, list |-> <<>>]
ParseRanges(s) == IF s = <<>> THEN [ok |-> TRUE, list |-> <<>>] ELSE RangesAfter(ParseRange(s))

\* IPAddress::operator< within one family: the bytes compared in order.
IPLess(a, b) == \E i \in DOMAIN a : a[i] < b[i] /\ \A j \in 1..(i - 1) : a[j] = b[j]

\* The comparator given to is_sorted.
RangeBefore(a, b) ==
    IF IPVersion(a.startIP) # IPVersion(b.startIP) THEN IPVersion(a.startIP) = 4
    ELSE IPLess(a.endIP, b.startIP)

\* std::is_sorted(first, last, comp): no element is comp-less than the one
\* before it.
RangesSorted(rs) == \A i \in 1..(Len(rs) - 1) : ~RangeBefore(rs[i + 1], rs[i])

Parsed(c) == [result |-> "capsule", capsule |-> c]
NotParseable == [result |-> "null", capsule |-> NoCapsule]
Abort == [result |-> "abort", capsule |-> NoCapsule]

(* Capsule::parseCapsule.  The capsule length is decoded and then        *)
(* ignored: each kind consumes the chunk to its end.                       *)

\* case Type::DATA: the context id, then the rest is the payload.
DataCapsule(ctx, body) ==
    IF ~ctx.ok THEN NotParseable
    ELSE Parsed([NoCapsule EXCEPT !.type = "DATA", !.data = Drop(body, ctx.len)])

\* case Type::ADDRESS_ASSIGN: every entry is taken.
AssignCapsule(as) ==
    IF ~as.ok THEN Abort ELSE Parsed([NoCapsule EXCEPT !.type = "ADDRESS_ASSIGN", !.addresses = as.list])

\* case Type::ADDRESS_REQUEST: CHECK(requestID != 0) per entry and
\* CHECK(!addresses.empty()).
RequestCapsule(as) ==
    IF ~as.ok \/ as.list = <<>> \/ \E i \in DOMAIN as.list : as.list[i].requestID = 0
    THEN Abort
    ELSE Parsed([NoCapsule EXCEPT !.type = "ADDRESS_REQUEST", !.addresses = as.list])

\* case Type::ROUTE_ADVERTISEMENT: CHECK(is_sorted(...)) after the loop.
RouteCapsule(rs) ==
    IF ~rs.ok \/ ~RangesSorted(rs.list) THEN Abort
    ELSE Parsed([NoCapsule EXCEPT !.type = "ROUTE_ADVERTISEMENT", !.ranges = rs.list])

\* The switch on the type, with body the chunk after type and length.
CapsuleOfType(type, body) ==
    CASE type = TypeCode.DATA -> DataCapsule(DecodeQuicInteger(body), body)
      [] type = TypeCode.ADDRESS_ASSIGN -> AssignCapsule(ParseAddresses(body))
      [] type = TypeCode.ADDRESS_REQUEST -> RequestCapsule(ParseAddresses(body))
      [] type = TypeCode.ROUTE_ADVERTISEMENT -> RouteCapsule(ParseRanges(body))
      [] OTHER -> Parsed([NoCapsule EXCEPT !.type = "UNKNOWN", !.capsuleType = type])

\* Type t decoded; the length l decoded from the rest r.
CapsuleAfterLength(t, l, r) ==
    IF ~l.ok THEN NotParseable ELSE CapsuleOfType(t.value, Drop(r, l.len))

CapsuleAfterType(t, s) ==
    IF ~t.ok THEN NotParseable
    ELSE CapsuleAfterLength(t, DecodeQuicInteger(Drop(s, t.len)), Drop(s, t.len))

ParseCapsule(s) == CapsuleAfterType(DecodeQuicInteger(s), s)
====
