SPECIFICATION FairSpec
CONSTANTS
  NRows = 3
  RowsPerHour = 2
  HoursPerDay = 1
  Lookback = 1
  MaxParts = 2
  Compactors = {c1, c2}
  MaxFaults = 1
INVARIANTS NothingLost TapeWhole OneCompactor
PROPERTY ClosedHourMerges
CHECK_DEADLOCK FALSE
