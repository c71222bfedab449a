SPECIFICATION Spec
CONSTANTS
  Arguments <- DefaultArguments
  NaN = NaN
  Infinity = Infinity
  Reports = 1
  MaxFaults = 0
CHECK_DEADLOCK FALSE
INVARIANT AlwaysFull
