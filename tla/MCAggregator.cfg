SPECIFICATION AggregatorSpec
CONSTANTS
  Products = {"Item1", "Item2"}
  Prices <- SomePrices
  NaN = NaN
  None = None
  All = "ALL"
  MaxOrders = 4
  Scale = 12
\* The program stops after an interrupt, and the model after the last order.
CHECK_DEADLOCK FALSE
INVARIANTS
  AggregatorTypeOK
  MeansAreBatchMeans
  ExtremesAreKept
  RowsAddUp
