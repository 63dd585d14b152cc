SPECIFICATION Spec
CONSTANTS
  Name = {"weight", "scale", "other"}
  Layout = {"right", "wrong"}
  Expected <- MCExpected
  ShardOrder <- MCShardOrder
  Unsafe = {"../shard"}
  Headers <- MCHeaders
  Receipts <- MCReceipts
  NamesOnly = TRUE
INVARIANT
  CompleteNeedsHeaders
