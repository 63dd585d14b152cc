------------------------- MODULE MCCheckpointBinding -------------------------
(* Two expected tensors, one that is not, three shard names of which one   *)
(* is unsafe, and headers of up to two entries, right or wrong.            *)
EXTENDS CheckpointBinding

MCExpected == [name \in {"weight", "scale"} |-> "right"]
MCShardOrder == <<"../shard", "shard-1", "shard-2">>
Entries == {[name |-> "weight", layout |-> "right"], [name |-> "weight", layout |-> "wrong"],
            [name |-> "scale", layout |-> "right"], [name |-> "other", layout |-> "right"]}
MCHeaders == {<< >>} \cup {<<a>> : a \in Entries} \cup {<<a, b>> : a \in Entries, b \in Entries}
MCReceipts ==
  {NoReceipt, [config |-> "same", index |-> "same", count |-> 2],
   [config |-> "same", index |-> "other", count |-> -1],
   [config |-> "other", index |-> "none", count |-> 3]}
=============================================================================
