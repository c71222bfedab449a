SPECIFICATION FairSpec
CONSTANTS
  TopicNames = {"orders", "other", "orders.DLQ"}
  Shells <- SomeShells
  DotEnvs <- SomeDotEnvs
  Unset = Unset
  MaxFaults = 1
  AdminRuns = {"a1", "a2"}
  Arguments <- SomeArguments
  ProducerRuns = 2
  BufferLimit = 2
  Scale = 2
  NaN = NaN
  MaxStarts = 3
  KnownTopics <- SomeClusters
\* The model stops after the last run.
CHECK_DEADLOCK FALSE
INVARIANTS
  TypeOK
  AdminSuccessMeansTopics
  AdminIdempotent
  ExitZeroAccounts
  DoneLineHonest
  SameKeyInOrder
  RatesHonoured
PROPERTIES
  NoneUnknownAfterCreate
  ProducerEnds
