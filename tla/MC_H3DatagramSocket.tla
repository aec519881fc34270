------------------------- MODULE MC_H3DatagramSocket -------------------------
(* Bounds for H3DatagramSocket: two transactions (so that the first can   *)
(* fail after or before the second, and a default stream differs from the *)
(* others), buffers of one datagram with two application writes and two   *)
(* peer datagrams or body chunks (so that a buffered datagram can be      *)
(* overtaken, a full buffer refuses the second, and a buffer one over its  *)
(* capacity is reachable by a faulty bound).                               *)
EXTENDS H3DatagramSocket

MCNumTxns == 2
MCSndBuf == 1
MCRcvBuf == 1
MCMaxWrites == 2
MCMaxIn == 2
=============================================================================
