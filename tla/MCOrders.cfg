CONSTANTS
  Theses = {t1, t2}
  LimitTheses = {t2}
  Procs = {cadence, cli}
  OrderIds = {1, 2, 3}
  RacedOrders = 2
  EntryQty = 3
  Withheld = 1
  MaxCrashes = 1
  None = None
SPECIFICATION MCSpec
INVARIANT NeverRefused
INVARIANT HaltBounded
INVARIANT ActiveIsBought
PROPERTY ImplementsMoney
PROPERTY MarketActivates
