SPECIFICATION StoreSpec
CONSTANTS
  Name = {"weight", "scale", "other"}
  Layout = {"right", "wrong", "foreign"}
  Expected <- MCExpected
  ShardOrder <- MCShardOrder
  Unsafe = {"../shard"}
  Headers <- MCHeaders
  Receipts <- MCReceipts
  NamesOnly = FALSE
  Single = "model"
  Unsupported = {"foreign"}
INVARIANTS
  VerdictIsExact
  CompleteIsServed
