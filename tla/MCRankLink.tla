------------------------------ MODULE MCRankLink ------------------------------
(* Three gathers of five rows in shards of two and three, two cells to a   *)
(* value so that a value can arrive in parts, buffers of three cells,      *)
(* smaller than either shard, so that senders block; a report of one id    *)
(* and no drafts (tp2) or two (dflash).                                    *)
EXTENDS RankLink
=============================================================================
