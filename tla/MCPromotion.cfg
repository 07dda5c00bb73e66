CONSTANTS
  StatusProcs = {cadence, tk}
  Scheduled = {cadence}
  Confirmers = {owner}
  WindowLen = 1
  LastSeries = 2
  CleanSeries = 1
  MinGraded = 1
  MinTotal = 2
  Equity = 10
  Grades <- MCGrades
  None = None
  MaxTime = 4
  MaxGrades = 2
  MaxViolations = 2
  MaxConfirms = 2
SPECIFICATION FairSpec
INVARIANT LiveIsEarned
INVARIANT ClosedStands
INVARIANT DemotedForCause
PROPERTY ViolationDemotes
