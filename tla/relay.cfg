CONSTANTS
  e1 = e1 e2 = e2 e3 = e3 r1 = r1 r2 = r2
  NoLeader = NoLeader
  Rows <- MCRows
  OccurredAt <- MCOccurredAt
  Hash <- MCHash
  Relays <- MCRelays
  ShardCount = 1
  ShardId <- OneShard
  UseLock = TRUE
  BatchSize = 2
  MaxAttempts = 2
  MaxFaults = 2
SPECIFICATION FairSpec
INVARIANTS DisjointBatches DuplicatesAccounted
PROPERTIES ImplementsDelivery EventuallyPublished
