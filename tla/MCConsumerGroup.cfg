SPECIFICATION FairSpec
CONSTANTS
  p1 = p1
  p2 = p2
  Partitions = {p1, p2}
  Members = {m1, m2}
  Topics <- TwoTopics
  NoMessage = NoMessage
  MaxFaults = 3
\* Once everything is committed the consumers wait for more.
CHECK_DEADLOCK FALSE
INVARIANTS
  NoRecordSkipped
  HandledInStep
  OwnerInStep
PROPERTIES
  CommittedMonotone
  DeliversEverything
