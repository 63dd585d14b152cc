---------------------------- MODULE MCPeerSession ----------------------------
(* An id and a stop token, both of which would also pass for a count,      *)
(* budgets of one to three chosen independently, a gather whose halves are *)
(* one and two words (smaller than the final exchange, so that its words   *)
(* can pass for a whole shard), buffers of two words and two connection    *)
(* attempts, which can both be waiting at once.                            *)
EXTENDS PeerSession
=============================================================================
