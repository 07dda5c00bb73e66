----------------------------- MODULE MCReadings -----------------------------
(***************************************************************************)
(* TLC instance of what the desk reads and is read from it: the bars, the  *)
(* regime and the scans, the live venue, and the tables made of the log.   *)
(* They share no state: a behaviour is one of one of them, the part it     *)
(* starts with; the part gives v1 ... their meaning, in the order of that  *)
(* module's VARIABLES.                                                     *)
(***************************************************************************)
EXTENDS Integers, TLC

CONSTANTS
  Callers, Width, Lookback, PageSize, MaxPages, MaxAttempts, Capacity,
  MaxTime, MaxTrouble, StaleAfter, MaxDay, MaxKills, Universe, DialEquity,
  Equities, Vols, MaxPosition, Tolerance, FilterSets, MaxPairs, OrderIds,
  None, MaxDeaths

(* A missing order or thesis is none; timeframes, lookbacks, pages and the *)
(* provider's bucket are of some size, and the clock reaches a first call. *)
ASSUME ReadingsAssumption ==
  /\ None \notin [state : {"open", "filled", "ended"}, trades : 0 .. 2] /\ None # "x"
  /\ {Width, Lookback, PageSize, MaxPages, MaxAttempts, Capacity} \subseteq Nat \ {0}
  /\ {MaxTime, MaxTrouble, StaleAfter, MaxDay, MaxKills} \subseteq Nat
  /\ Lookback * Width < MaxTime

(* Money, lots and percents are of no sign, and a stop is some way off.    *)
ASSUME FunnelAssumption ==
  /\ {Universe, DialEquity, MaxPosition, Tolerance} \subseteq Nat
  /\ Equities \subseteq Nat /\ Vols \subseteq Nat \ {0}

VARIABLES part, v1, v2, v3, v4, v5, v6, v7, v8, v9, v10, v11, v12, v13, v14, v15, v16

vars == <<part, v1, v2, v3, v4, v5, v6, v7, v8, v9, v10, v11, v12, v13, v14, v15, v16>>

-----------------------------------------------------------------------------
Market == INSTANCE MarketData WITH
  source <- v1, now <- v2, drift <- v3, cache <- v4, call <- v5,
  trouble <- v6, fast <- v7

Regime == INSTANCE RegimeModel WITH
  day <- v1, pkl <- v2, json <- v3, call <- v4, kills <- v5

FunnelPart == INSTANCE Funnel WITH
  equity <- v1, audit <- v2, positions <- v3, at <- v4, symbol <- v5,
  def <- v6, leg <- v7, prefilter <- v8, heard <- v9, kept <- v10, last <- v11,
  tickets <- v12, report <- v13, sized <- v14, log <- v15

ScannerPart == INSTANCE Scanner WITH
  Sets <- FilterSets, symbols <- v1, timeframes <- v2, present <- v3,
  gate <- v4, audit <- v5, symbol <- v6, timeframe <- v7, regimes <- v8,
  asked <- v9, given <- v10, matches <- v11, warnings <- v12,
  attrition <- v13, trace <- v14, outcome <- v15

(* Filters are of the scanner's checks.                                    *)
ASSUME FiltersAssumption == FilterSets \subseteq SUBSET DOMAIN ScannerPart!CHECKS /\ MaxPairs \in Nat

(* An account of any size; two processes and one order, and one process     *)
(* and two orders.                                                         *)
Venue(size) == INSTANCE Venue WITH
  Theses <- size.theses, OrderIds <- size.orders, Callers <- size.callers,
  Page <- 2, MaxHalts <- size.halts, live <- v1, enabled <- v2, book <- v3,
  submitted <- v4, fills <- v5, active <- v6, halted <- v7, lastLive <- v8,
  call <- v9, deaths <- v10, halts <- v11, raced <- v12, seen <- v13,
  flagged <- v14, owed <- v15, slipped <- v16

OneOrder == [theses |-> {"x"}, orders |-> {"o"}, callers |-> Callers, halts |-> 1]

TwoOrders == [theses |-> {"x"}, orders |-> OrderIds, callers |-> {"p"}, halts |-> 0]

(* Three theses in two accounts, one of them graded before, over three     *)
(* windows; and two processes at any verb of one thesis and its account.   *)
WindowsPart == INSTANCE Projections WITH
  Theses <- {"x", "y", "z"}, Accounts <- {"A", "B"}, Writers <- {"p"},
  Stages <- {[t \in {"x", "y", "z"} |-> IF t = "x" THEN 6 ELSE 5]},
  Verbs <- {"ThesisGraded", "GateViolationDetected"},
  Outcomes <- {"PASS"}, Win <- 2, Loss <- 1, Unmeasured <- {},
  Principals <- {}, Equity <- 5, WindowLen <- 1, MinGraded <- 1,
  MaxTime <- 3, MaxAppends <- 3, now <- v1, log <- v2, pending <- v3,
  before <- v4, raced <- v5

WritersPart == INSTANCE Projections WITH
  Theses <- {"x"}, Accounts <- {"A"}, Writers <- Callers,
  Stages <- [{"x"} -> {1, 4}], Outcomes <- {"PASS", "VOID"}, Win <- 2, Loss <- 1,
  Verbs <- {"ThesisSubmitted", "ReviewCompleted", "ThesisApproved",
            "ThesisRejected", "ThesisActivated", "ThesisGraded",
            "AccountCreated", "PromotionConfirmed", "Demoted"},
  Unmeasured <- {None}, Principals <- {100, 200}, Equity <- 5,
  WindowLen <- 1, MinGraded <- 1, MaxTime <- 2, MaxAppends <- 3,
  now <- v1, log <- v2, pending <- v3, before <- v4, raced <- v5

(* The rules over any orders, sizes, accounts and results.                 *)
Rules(desk) == INSTANCE Rules WITH
  Refs <- {"default", "paper", "advisory", "live"}, Notionals <- desk.notionals,
  Sizes <- desk.sizes, Configs <- desk.configs, Pnls <- desk.pnls,
  DailyTrades <- desk.trades, VoidWindow <- desk.voids, Window <- desk.window,
  MaxDay <- desk.days, MaxGrades <- desk.grades, ref <- v1, log <- v2

SmallDesk ==
  [notionals |-> {20, 50}, sizes |-> {20}, configs |-> {[principal |-> 400, daily |-> 5, lifetime |-> 10]},
   pnls |-> {-30, 20}, trades |-> 1, voids |-> 2, window |-> 0, days |-> 1, grades |-> 2]

-----------------------------------------------------------------------------
Init ==
  \/ /\ part = "market" /\ Market!Init
     /\ v8 = 0 /\ v9 = 0 /\ v10 = 0 /\ v11 = 0 /\ v12 = 0 /\ v13 = 0
     /\ v14 = 0 /\ v15 = 0 /\ v16 = 0
  \/ /\ part = "regime" /\ Regime!Init
     /\ v6 = 0 /\ v7 = 0 /\ v8 = 0 /\ v9 = 0 /\ v10 = 0 /\ v11 = 0
     /\ v12 = 0 /\ v13 = 0 /\ v14 = 0 /\ v15 = 0 /\ v16 = 0
  \/ /\ part = "funnel" /\ FunnelPart!Init
     /\ v16 = 0
  \/ /\ part = "scanner" /\ ScannerPart!Init
     /\ v16 = 0
  \/ /\ part = "venue" /\ Venue(OneOrder)!Init
  \/ /\ part = "two orders" /\ Venue(TwoOrders)!Init
  \/ /\ part = "windows" /\ WindowsPart!Init
     /\ v6 = 0 /\ v7 = 0 /\ v8 = 0 /\ v9 = 0 /\ v10 = 0 /\ v11 = 0
     /\ v12 = 0 /\ v13 = 0 /\ v14 = 0 /\ v15 = 0 /\ v16 = 0
  \/ /\ part = "writers" /\ WritersPart!Init
     /\ v6 = 0 /\ v7 = 0 /\ v8 = 0 /\ v9 = 0 /\ v10 = 0 /\ v11 = 0
     /\ v12 = 0 /\ v13 = 0 /\ v14 = 0 /\ v15 = 0 /\ v16 = 0
  \/ /\ part = "rules" /\ Rules(SmallDesk)!Init
     /\ v3 = 0 /\ v4 = 0 /\ v5 = 0 /\ v6 = 0 /\ v7 = 0 /\ v8 = 0 /\ v9 = 0
     /\ v10 = 0 /\ v11 = 0 /\ v12 = 0 /\ v13 = 0 /\ v14 = 0 /\ v15 = 0 /\ v16 = 0

Next ==
  /\ UNCHANGED part
  /\ \/ part = "market" /\ Market!Next
        /\ UNCHANGED <<v8, v9, v10, v11, v12, v13, v14, v15, v16>>
     \/ part = "regime" /\ Regime!Next
        /\ UNCHANGED <<v6, v7, v8, v9, v10, v11, v12, v13, v14, v15, v16>>
     \/ part = "funnel" /\ FunnelPart!Next
        /\ UNCHANGED v16
     \/ part = "scanner" /\ ScannerPart!Next
        /\ UNCHANGED v16
     \/ part = "venue" /\ Venue(OneOrder)!Next
     \/ part = "two orders" /\ Venue(TwoOrders)!Next
     \/ part = "windows" /\ WindowsPart!Next
        /\ UNCHANGED <<v6, v7, v8, v9, v10, v11, v12, v13, v14, v15, v16>>
     \/ part = "writers" /\ WritersPart!Next
        /\ UNCHANGED <<v6, v7, v8, v9, v10, v11, v12, v13, v14, v15, v16>>
     \/ part = "rules" /\ Rules(SmallDesk)!Next
        /\ UNCHANGED <<v3, v4, v5, v6, v7, v8, v9, v10, v11, v12, v13, v14, v15, v16>>

Spec == Init /\ [][Next]_vars

-----------------------------------------------------------------------------
(* Processes of one kind are interchangeable, and so are order ids.        *)
Symmetry == Permutations(Callers) \union Permutations(OrderIds)

(* Each property of a part comes with the part's type invariant.           *)

(* A bar an analysis reads is closed and is the bar the venue ended with,  *)
(* the pages of a fetch keep to the provider's rate and end, and a regime  *)
(* a model answers is of a model fit lately for that question.             *)
AnalysisIsCurrent ==
  /\ part = "market" => /\ Market!TypeOK
                        /\ Market!BarsAreFinal /\ Market!PagesArePolite
  /\ part = "regime" => Regime!TypeOK /\ Regime!RegimeIsCurrent

(* A scan answers by its filters and the one regime it read of a symbol,   *)
(* audited or not, the trace tells the same, a ticket is earned at every   *)
(* gate, and the size it shows is the size the order is held to.           *)
ScansEarned ==
  /\ part = "scanner" => ScannerPart!TypeOK /\ ScannerPart!ScanIsItsFilters /\ ScannerPart!TraceTells
  /\ part = "funnel" => /\ FunnelPart!TypeOK /\ FunnelPart!TicketsEarned
                        /\ FunnelPart!PreviewMatchesBinding

(* The verdict on an action: what is not on record never helps it, and a   *)
(* loss or a void never opens what was closed.                             *)
VerdictsSound == part = "rules" => Rules(SmallDesk)!TypeOK /\ Rules(SmallDesk)!VerdictsSound

(* What a reconcile was shown, the ledger recorded, or it says so          *)
(* and stops the desk, and a stop of the live path is signed off by hand.  *)
VenueReconciled ==
  /\ part = "venue" => Venue(OneOrder)!TypeOK /\ Venue(OneOrder)!VenueReconciled
  /\ part = "two orders" => Venue(TwoOrders)!TypeOK /\ Venue(TwoOrders)!VenueReconciled

(* What a rebuild makes of the log is what the live verbs make of it.      *)
ProjectionsAgree ==
  /\ part = "windows" => WindowsPart!TypeOK /\ WindowsPart!ProjectionsAgree
  /\ part = "writers" => WritersPart!TypeOK /\ WritersPart!ProjectionsAgree
=============================================================================
