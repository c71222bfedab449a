SPECIFICATION FairSpec
CONSTANTS
  Arguments <- SomeArguments
  NaN = NaN
  Infinity = Infinity
  Reports = 4
  MaxFaults = 3
\* The reader stops.
CHECK_DEADLOCK FALSE
INVARIANTS
  ShownInOrder
  TotalHonest
  FullUnlessLate
  GivesUpAfterSilence
PROPERTY ReaderEnds
