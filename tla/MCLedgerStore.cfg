CONSTANTS
  Events = {e1, e2, e3}
  Procs = {cadence, cli, hud}
  Rebuilders = {cadence, cli}
  MaxAttempts = 2
  None = None
SPECIFICATION FairSpec
INVARIANT ChainIntact
INVARIANT StoredOnce
PROPERTY OnlyGrow
PROPERTY CallsEnd
