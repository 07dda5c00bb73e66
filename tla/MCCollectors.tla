---------------------------- MODULE MCCollectors ----------------------------
(***************************************************************************)
(* TLC instance of what fills the tick archive and repairs it: the         *)
(* collectors' sessions, the books and tapes they read, the backfills and  *)
(* the repair tools.  They share files but no state: a behaviour is one of *)
(* one of them, the part it starts with; the part gives v1 ... their       *)
(* meaning, in the order of that module's VARIABLES.                       *)
(***************************************************************************)
EXTENDS Naturals, TLC

CONSTANTS
  Deadline, OpenTimeout, MaxDelay, Heartbeat, Patience, Keepalive,
  FlushEvery, MaxAge, Hour, MaxPrice, Depth, OkxLevels, Interval, MaxWire, MaxTrades,
  ReplayTime, Coins, UniverseSize, MaxGenerations, MaxDrops, NTrades,
  TapePerHour, TapeHoursPerDay, TapePage, TapeDeaths, Periods, Chunks, Refused,
  Workers, MaxKills, ArchiveNoise, ChdHours, MaxRetries, MaxTokens,
  MaxRevokes, ChdNoise, GapLast, PerHour, PageLimit, Anchor, MaxDeaths, RepairRows,
  Places, RepairHoursPerDay, FirstOpen, Early, Wholes, Parts, Tools

(* Times, ages and bounds are counts; a wait lasts, a page holds something *)
(* and an hour a trade; and there is something to pull.                    *)
ASSUME CollectorsAssumption ==
  /\ {Deadline, OpenTimeout, Keepalive, FlushEvery} \subseteq Nat
  /\ {MaxDelay, Heartbeat, Patience, MaxAge} \subseteq Nat \ {0}
  /\ {MaxPrice, MaxTrades, ReplayTime, Interval} \subseteq Nat /\ MaxWire \in Nat \ {0}
  /\ {Depth, OkxLevels} \subseteq Nat /\ Depth <= OkxLevels
  /\ {UniverseSize, MaxGenerations, MaxDrops} \subseteq Nat
  /\ {NTrades, TapeDeaths} \subseteq Nat
  /\ {TapePerHour, TapeHoursPerDay, TapePage} \subseteq Nat \ {0}
  /\ Periods # {} /\ Chunks # {} /\ {MaxKills, ArchiveNoise} \subseteq Nat
  /\ ChdHours # {} /\ {MaxRetries, MaxTokens, MaxRevokes, ChdNoise} \subseteq Nat
  /\ {GapLast, MaxDeaths} \subseteq Nat /\ {PerHour, PageLimit} \subseteq Nat \ {0}

VARIABLES part, v1, v2, v3, v4, v5, v6, v7, v8, v9, v10, v11, v12, v13

collectVars == <<part, v1, v2, v3, v4, v5, v6, v7, v8, v9, v10, v11, v12, v13>>

-----------------------------------------------------------------------------
Feed == INSTANCE Feed WITH
  session <- v1, now <- v2, link <- v3, attempt <- v4, due <- v5,
  lastMsg <- v6, lastKeep <- v7, lastFlush <- v8, lastFrame <- v9,
  oldest <- v10

Replay == INSTANCE Replay WITH
  MaxTime <- ReplayTime, feed <- v1, now <- v2, link <- v3, venue <- v4,
  made <- v5, wire <- v6, local <- v7, last <- v8, row <- v9, written <- v10,
  out <- v11

Perps == INSTANCE Perps WITH
  coins <- v1, generation <- v2, link <- v3, subscribed <- v4,
  applied <- v5, phase <- v6, target <- v7, half <- v8, venue <- v9,
  drops <- v10, raced <- v11

Tape == INSTANCE TapePoller WITH
  PerHour <- TapePerHour, PageLimit <- TapePage, MaxDeaths <- TapeDeaths,
  HoursPerDay <- TapeHoursPerDay, made <- v1, dirs <- v2, copies <- v3,
  step <- v4, cursor <- v5, batch <- v6, deaths <- v7, husk <- v8

Binance == INSTANCE BinanceArchive WITH
  MaxNoise <- ArchiveNoise, zips <- v1, sums <- v2, todo <- v3, work <- v4,
  copies <- v5, marker <- v6, kills <- v7, noise <- v8, torn <- v9,
  damaged <- v10, unsummed <- v11

Chd == INSTANCE ChdPull WITH
  MaxNoise <- ChdNoise, Hours <- ChdHours, published <- v1, files <- v2,
  todo <- v3, work <- v4, brought <- v5, absent <- v6, run <- v7, jwt <- v8,
  lapsed <- v9, issued <- v10, revoked <- v11, revokes <- v12, noise <- v13

GapHours == 0 .. GapLast

Gap == INSTANCE GapFill WITH
  Hours <- GapHours, collected <- v1, held <- v2, filled <- v3, torn <- v4, step <- v5,
  todo <- v6, span <- v7, next <- v8, pending <- v9, target <- v10,
  deaths <- v11, overtaken <- v12, overshot <- v13

Repair == INSTANCE Repair WITH
  Rows <- RepairRows, HoursPerDay <- RepairHoursPerDay, own <- v1,
  where <- v2, bad <- v3, disk <- v4, torn <- v5, tool <- v6, lock <- v7,
  comp <- v8, kills <- v9, cut <- v10, thinned <- v11, crossed <- v12,
  refiled <- v13

(* Rows and hours are numbered in a row, the cutoff is a midnight, and a    *)
(* process is not a word of the lock file.                                 *)
ASSUME RepairAssumption ==
  /\ \A r \in RepairRows : r \in Nat \ {0} /\ 1 .. r \subseteq RepairRows
  /\ Repair!Unknown \in Nat \ {0} /\ Places = 0 .. Repair!Unknown - 1
  /\ RepairHoursPerDay \in Nat \ {0}
  /\ FirstOpen \in 0 .. Repair!Unknown /\ FirstOpen % RepairHoursPerDay = 0
  /\ Tools \intersect {"free", "stale"} = {}

-----------------------------------------------------------------------------
CollectInit ==
  \/ /\ part = "feed" /\ Feed!Init
     /\ v11 = 0 /\ v12 = 0 /\ v13 = 0
  \/ /\ part = "replay" /\ Replay!Init
     /\ v12 = 0 /\ v13 = 0
  \/ /\ part = "perps" /\ Perps!Init
     /\ v12 = 0 /\ v13 = 0
  \/ /\ part = "tape" /\ Tape!Init
     /\ v9 = 0 /\ v10 = 0 /\ v11 = 0 /\ v12 = 0 /\ v13 = 0
  \/ /\ part = "archive" /\ Binance!Init
     /\ v12 = 0 /\ v13 = 0
  \/ /\ part = "chd" /\ Chd!Init
  \/ /\ part = "gap" /\ Gap!Init
  \/ /\ part = "repair" /\ Repair!Init

CollectNext ==
  /\ UNCHANGED part
  /\ \/ part = "feed" /\ Feed!Next
        /\ UNCHANGED <<v11, v12, v13>>
     \/ part = "replay" /\ Replay!Next
        /\ UNCHANGED <<v12, v13>>
     \/ part = "perps" /\ Perps!Next
        /\ UNCHANGED <<v12, v13>>
     \/ part = "tape" /\ Tape!Next
        /\ UNCHANGED <<v9, v10, v11, v12, v13>>
     \/ part = "archive" /\ Binance!Next
        /\ UNCHANGED <<v12, v13>>
     \/ part = "chd" /\ Chd!Next
     \/ part = "gap" /\ Gap!Next
     \/ part = "repair" /\ Repair!Next

CollectSpec == CollectInit /\ [][CollectNext]_collectVars

-----------------------------------------------------------------------------
(* Processes of one kind are interchangeable.                              *)
Symmetry == Permutations(Workers) \union Permutations(Tools)

(* Each property of a part comes with the part's type invariant.           *)

(* A collector hears the silence of its feed, keeps its keepalive, holds   *)
(* no row past its age while frames come, and writes the book and the      *)
(* trades the venue sent, as far as it says what leaves the book; and one  *)
(* whose list of streams or whose cursor is kept between passes covers the *)
(* universe, and the tape, it says it covers.                              *)
CollectorsFollow ==
  /\ part = "feed" => Feed!TypeOK /\ Feed!Timely
  /\ part = "replay" => Replay!TypeOK /\ Replay!ArchiveIsTrue
  /\ part = "perps" => Perps!TypeOK /\ Perps!UniverseFollowed
  /\ part = "tape" => Tape!TypeOK /\ Tape!TapeFollowed

(* A backfill brings what it was asked for, all of it by the time it says  *)
(* so, and twice only what a pull that failed or was killed half way had   *)
(* filed, whatever is refused or published while it runs.                  *)
BackfillsWhole ==
  /\ part = "archive" => Binance!TypeOK /\ Binance!PulledOnce
  /\ part = "chd" => Chd!TypeOK /\ Chd!PulledWhole
  /\ part = "gap" => Gap!TypeOK /\ Gap!FilledWhole

(* The repair tools lose no row of the archive, but for those that one     *)
(* which died had in no file, and leave every one in the hour it is of.    *)
ArchiveRepaired == part = "repair" => Repair!TypeOK /\ Repair!RepairedWhole
=============================================================================
