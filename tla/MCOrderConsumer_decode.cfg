SPECIFICATION FairSpec
CONSTANTS
  p1 = p1
  p2 = p2
  Partitions = {p1, p2}
  Topics <- UndecodableTopic
  OrderIds = {"1001", "1002"}
  MaxAttempts = 3
  FlakyAttempts = 2
  OutboxLimit = 1
  MaxFaults = 1
  Tombstone = Tombstone
  Undecodable = Undecodable
  NoMessage = NoMessage
PROPERTY DecodeFailuresReachDlq
