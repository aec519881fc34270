--------------------------- MODULE MC_MasqueHttpClient ---------------------------
(* Bounds for MasqueHttpClient: three transactions, so that one can have  *)
(* finished, one be answered and one be still waiting when an error or   *)
(* the last EOM comes, and connectSuccess can skip one of them while the  *)
(* others run.                                                            *)
EXTENDS MasqueHttpClient

MCTxns == 1..3
====
