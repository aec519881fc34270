------------------------------- MODULE SharedTun -------------------------------
(***************************************************************************)
(* The server's SharedTun (src/proxygen/proxygen/httpserver/samples/       *)
(* masque/MasqueUpstream.h): one TUN device shared by every CONNECT-IP     *)
(* stream of every connection, an atomic subnetCounter and a concurrent   *)
(* map from assigned IP to the stream's TUN read callback.                 *)
(*                                                                         *)
(* registerTransaction runs on the worker thread of the connection whose  *)
(* stream is being accepted; several workers register at once.  It is      *)
(* modelled as the three steps the code takes on the shared state: the    *)
(* first subnetCounter++, the second subnetCounter++ whose old value is   *)
(* the host part, and the CHECK-then-insert into streamMap.  onPacket runs *)
(* on the TUN's reader thread.                                              *)
(*                                                                         *)
(* An IP is its host part: its offset from the subnet's base address.     *)
(* A callback is the number of the registration that created it.          *)
(***************************************************************************)
EXTENDS Integers, FiniteSets, TLC

CONSTANTS
    Workers,      \* worker threads (event bases) accepting CONNECT-IP streams
    SubnetSize,   \* addresses in the TUN subnet: 2^(32 - prefix length)
    MaxRegs,      \* bound on registerTransaction calls
    MaxPackets    \* bound on packets read from the TUN

ASSUME SubnetSize \in Nat \ {0} /\ MaxRegs \in Nat /\ MaxPackets \in Nat

NoIP == -1                   \* dstIP(): not an IPv4 packet
Callbacks == 1..MaxRegs
Dests == (0..(2 * MaxRegs + 1)) \cup {NoIP}   \* destinations of TUN packets

VARIABLES
    subnetCounter,   \* SharedTun::subnetCounter
    streamMap,       \* SharedTun::streamMap: IP -> callback
    reg,             \* registerTransaction in progress on each worker
    assigned,        \* the IP registerTransaction returned for each callback
    nextCb,          \* next callback (stream) to be registered
    dispatched,      \* <<callback, destination>> of every packet dispatched
    packets,         \* packets read from the TUN so far
    fault            \* CHECK failures that have aborted the server

vars == <<subnetCounter, streamMap, reg, assigned, nextCb, dispatched,
          packets, fault>>

Idle == [pc |-> "idle", cb |-> 0, ip |-> NoIP]

Alive == fault = {}

Init ==
    /\ subnetCounter = 0
    /\ streamMap = <<>>
    /\ reg = [w \in Workers |-> Idle]
    /\ assigned = <<>>
    /\ nextCb = 1
    /\ dispatched = {}
    /\ packets = 0
    /\ fault = {}

-----------------------------------------------------------------------------
(* Seeded fault for RegisterBegin: the first step adds two to the counter *)
(* (subnetCounter += 2) while the second still increments it.              *)
RegisterBeginStepTwo(w) ==
    /\ Alive
    /\ reg[w].pc = "idle"
    /\ nextCb <= MaxRegs
    /\ reg' = [reg EXCEPT ![w] = [pc |-> "second", cb |-> nextCb, ip |-> NoIP]]
    /\ subnetCounter' = subnetCounter + 2
    /\ nextCb' = nextCb + 1
    /\ UNCHANGED <<streamMap, assigned, dispatched, packets, fault>>

(* DatagramTransactionHandler::onHeadersComplete creates the stream's     *)
(* ConnectIPCallback and calls registerTransaction; its first statement   *)
(* is the first subnetCounter++.                                           *)
RegisterBegin(w) ==
    /\ Alive
    /\ reg[w].pc = "idle"
    /\ nextCb <= MaxRegs
    /\ reg' = [reg EXCEPT ![w] = [pc |-> "second", cb |-> nextCb, ip |-> NoIP]]
    /\ subnetCounter' = subnetCounter + 1
    /\ nextCb' = nextCb + 1
    /\ UNCHANGED <<streamMap, assigned, dispatched, packets, fault>>

(* Seeded fault for RegisterSecondIncrement: the counter is loaded and    *)
(* then incremented in a separate step (currentCounter = subnetCounter;    *)
(* with no atomic read-modify-write), here with the increment lost.        *)
RegisterLoadOnly(w) ==
    /\ Alive
    /\ reg[w].pc = "second"
    /\ reg' = [reg EXCEPT ![w].pc = "insert", ![w].ip = subnetCounter]
    /\ UNCHANGED <<subnetCounter, streamMap, nextCb, assigned, dispatched,
                   packets, fault>>

(* currentCounter = subnetCounter++; currentIP = base + currentCounter.    *)
RegisterSecondIncrement(w) ==
    /\ Alive
    /\ reg[w].pc = "second"
    /\ reg' = [reg EXCEPT ![w].pc = "insert", ![w].ip = subnetCounter]
    /\ subnetCounter' = subnetCounter + 1
    /\ UNCHANGED <<streamMap, nextCb, assigned, dispatched, packets, fault>>

(* CHECK that the IP is not mapped yet, insert it, and return it.          *)
RegisterInsert(w) ==
    LET ip == reg[w].ip IN
    /\ Alive
    /\ reg[w].pc = "insert"
    /\ IF ip \in DOMAIN streamMap
       THEN /\ fault' = fault \cup {"duplicate_ip"}
            /\ UNCHANGED <<streamMap, assigned, reg>>
       ELSE /\ streamMap' = streamMap @@ (ip :> reg[w].cb)
            /\ assigned' = assigned @@ (reg[w].cb :> ip)
            /\ reg' = [reg EXCEPT ![w] = Idle]
            /\ UNCHANGED fault
    /\ UNCHANGED <<subnetCounter, nextCb, dispatched, packets>>

(* SharedTun::onPacket: a packet read from the TUN goes to the callback   *)
(* registered under its destination IP, and is dropped when it has no     *)
(* IPv4 destination or the destination is not mapped.                      *)
OnPacket ==
    /\ Alive
    /\ packets < MaxPackets
    /\ packets' = packets + 1
    /\ \E dst \in Dests :
         dispatched' = IF dst # NoIP /\ dst \in DOMAIN streamMap
                       THEN dispatched \cup {<<streamMap[dst], dst>>}
                       ELSE dispatched
    /\ UNCHANGED <<subnetCounter, streamMap, reg, assigned, nextCb, fault>>

Next ==
    \/ \E w \in Workers :
         \/ RegisterBegin(w)
         \/ RegisterSecondIncrement(w)
         \/ RegisterInsert(w)
    \/ OnPacket

Spec == Init /\ [][Next]_vars

-----------------------------------------------------------------------------
TypeOK ==
    /\ subnetCounter \in 0..(2 * MaxRegs)
    /\ reg \in [Workers -> [pc : {"idle", "second", "insert"},
                           cb : {0} \cup Callbacks, ip : {NoIP} \cup Nat]]
    /\ DOMAIN assigned \subseteq Callbacks
    /\ nextCb \in 1..(MaxRegs + 1)
    /\ fault \subseteq {"duplicate_ip"}

(* The IP registerTransaction returns to each stream is the key its        *)
(* callback is stored under and no other stream's: the CHECK before the   *)
(* insert never fails and packets addressed to a stream's assigned IP      *)
(* reach that stream, however registrations on different workers         *)
(* interleave between the two increments.                                  *)
AssignedIPsRouteToOwner ==
    /\ fault = {}
    /\ \A cb \in DOMAIN assigned : streamMap[assigned[cb]] = cb
    /\ \A p \in dispatched : assigned[p[1]] = p[2]

(* Every IP registerTransaction assigns lies in the TUN subnet and is not *)
(* its network address (spec 7.2: the assigned IP lies in the configured   *)
(* subnet; 4.4: the counter is the host part of a subnet of at most /24).  *)
AssignedInSubnet ==
    \A cb \in DOMAIN assigned : assigned[cb] \in 1..(SubnetSize - 1)

=============================================================================
