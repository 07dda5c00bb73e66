CONSTANTS
  Theses = {t1}
  LimitTheses = {t1}
  Procs = {cli}
  OrderIds = {1}
  RacedOrders = 1
  EntryQty = 3
  Withheld = 1
  MaxCrashes = 0
  None = None
SPECIFICATION MCSpec
PROPERTY FilledActivates
