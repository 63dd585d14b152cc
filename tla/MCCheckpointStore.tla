-------------------------- MODULE MCCheckpointStore --------------------------
(* Two expected tensors, one that is not, three shard names of which one   *)
(* is unsafe, and headers of up to two entries, right, wrong or of a       *)
(* layout that the store does not support.                                 *)
EXTENDS CheckpointStore

MCExpected == [name \in {"weight", "scale"} |-> "right"]
MCShardOrder == <<"../shard", "model", "shard-2">>
Entries == [name : {"weight"}, layout : {"right", "wrong", "foreign"}]
           \cup [name : {"scale", "other"}, layout : {"right"}]
MCHeaders == {<< >>} \cup {<<a>> : a \in Entries} \cup {<<a, b>> : a \in Entries, b \in Entries}
MCReceipts ==
  {NoReceipt, [config |-> "same", index |-> "same", count |-> 2],
   [config |-> "same", index |-> "other", count |-> -1],
   [config |-> "other", index |-> "none", count |-> 3]}
=============================================================================
