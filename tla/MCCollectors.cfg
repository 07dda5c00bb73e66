SPECIFICATION CollectSpec
CONSTANTS
  \* Feed
  Deadline = 9
  OpenTimeout = 2
  MaxDelay = 4
  Heartbeat = 2
  Patience = 4
  Keepalive = 2
  FlushEvery = 2
  MaxAge = 3
  Hour = 6
  \* Replay
  MaxPrice = 3
  Depth = 1
  OkxLevels = 2
  Interval = 2
  MaxWire = 2
  MaxTrades = 2
  ReplayTime = 3
  \* Perps
  Coins = {a, b, c}
  UniverseSize = 2
  MaxGenerations = 3
  MaxDrops = 1
  \* TapePoller
  NTrades = 6
  TapePerHour = 1
  TapeHoursPerDay = 2
  TapePage = 2
  TapeDeaths = 2
  \* BinanceArchive
  Periods = {p1, p2}
  Chunks = {c1, c2}
  Refused = {}
  Workers = {w1, w2}
  MaxKills = 1
  ArchiveNoise = 1
  \* ChdPull
  ChdHours = {h1, h2}
  MaxRetries = 3
  MaxTokens = 5
  MaxRevokes = 1
  ChdNoise = 2
  \* GapFill
  GapLast = 4
  PerHour = 2
  PageLimit = 5
  Anchor = 1
  MaxDeaths = 1
  \* Repair
  RepairRows = {1, 2}
  Places = {0, 1, 2, 3, 4}
  RepairHoursPerDay = 2
  FirstOpen = 4
  Early = 1
  Wholes = {3}
  Parts = {1, 4}
  Tools = {t1, t2}
SYMMETRY Symmetry
INVARIANTS CollectorsFollow BackfillsWhole 
CHECK_DEADLOCK FALSE
