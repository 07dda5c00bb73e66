SPECIFICATION Spec
CONSTANTS
  NRows = 1
  RowsPerHour = 1
  HoursPerDay = 1
  Lookback = 1
  MaxParts = 2
  Compactors = {c1, c2}
  MaxFaults = 1
INVARIANT Exclusive
CHECK_DEADLOCK FALSE
