CONSTANTS
  Theses = {t1, t2, t3}
  LimitTheses = {t3}
  Procs = {cadence, cli}
  Kinds = {"paper", "live", "advisory"}
  DailyPaper = 3
  DailyLive = 1
  Budget = 1
  BreakerPct = 10
  Window = 1
  DayLen = 2
  Equity = 20
  Pnls <- MCPnls
  None = None
  MaxTime = 2
  MaxGrades = 2
  MaxFills = 3
  MaxManual = 2
  MaxConfirms = 1
SPECIFICATION Spec
SYMMETRY Symmetry
INVARIANT EntriesBounded
INVARIANT GateBounded
INVARIANT BreakerIsWorstFall
INVARIANT LockoutShows
