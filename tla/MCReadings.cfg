SPECIFICATION Spec
CONSTANTS
  \* MarketData
  Callers = {c1, c2}
  Width = 2
  Lookback = 3
  PageSize = 1
  MaxPages = 3
  MaxAttempts = 2
  Capacity = 1
  MaxTime = 8
  MaxTrouble = 2
  \* RegimeModel
  StaleAfter = 0
  MaxDay = 1
  MaxKills = 1
  \* Funnel
  Universe = 2
  DialEquity = 8
  Equities = {4, 8}
  Vols = {1, 2, 3}
  MaxPosition = 4
  Tolerance = 10
  \* Scanner
  FilterSets = {{}, {"bb_position"}, {"macd_signal", "atr_percentile"}, {"ema_above", "rsi", "bb_inside"}, {"rsi", "rsi_band", "volume_spike"}}
  MaxPairs = 2
  \* Venue
  OrderIds = {o1, o2}
  None = None
  MaxDeaths = 1
SYMMETRY Symmetry
INVARIANTS AnalysisIsCurrent ScansEarned VerdictsSound VenueReconciled ProjectionsAgree
CHECK_DEADLOCK FALSE
