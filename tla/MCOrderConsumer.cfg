SPECIFICATION Spec
CONSTANTS
  p1 = p1
  p2 = p2
  Partitions = {p1, p2}
  Topics <- MixedTopics
  OrderIds = {"1001", "1002"}
  MaxAttempts = 3
  FlakyAttempts = 2
  OutboxLimit = 1
  MaxFaults = 3
  Tombstone = Tombstone
  Undecodable = Undecodable
  NoMessage = NoMessage
INVARIANTS
  TypeOK
  NoRecordSkipped
  RedeliveryWindow
  SessionAccounting
  RetryCountHonest
  OnlyHopelessRouted
  ReportFidelity
  GracefulStop
  CleanExitKeepsReports
PROPERTIES
  CommittedMonotone
  ImplementsDelivery
