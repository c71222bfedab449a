SPECIFICATION FairSpec
CONSTANTS
  p1 = p1
  p2 = p2
  Partitions = {p1, p2}
  Topics <- HopelessTopics
  OrderIds = {"1001", "1002"}
  MaxAttempts = 2
  FlakyAttempts = 2
  OutboxLimit = 1
  MaxFaults = 3
  Tombstone = Tombstone
  Undecodable = Undecodable
  NoMessage = NoMessage
PROPERTY DeliversEverything
