CONSTANTS
  Theses = {t1}
  Structural = {t1}
  Procs = {cli, cadence, hud}
  NoThesis = NoThesis
  RedraftAllowed = FALSE
  MaxGraded = 2
  BarLen = 2
  DayLen = 3
  Contracts <- MCContracts
  Activation = 1
  Horizon = 5
  MaxTime = 7
SPECIFICATION MCSpec
INVARIANT FromActivation
