SPECIFICATION FairSpec
CONSTANTS
  Symbols = {"a", "b"}
  MaxTheses = 2
  MaxFaults = 1
INVARIANTS StandsOnce FlatWhenGraded NothingUnreported
PROPERTIES EnteredIsGraded
CHECK_DEADLOCK FALSE
