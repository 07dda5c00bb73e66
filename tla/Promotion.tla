------------------------------ MODULE Promotion ------------------------------
(***************************************************************************)
(* The promotion ladder of one account (policy/_series.py, and             *)
(* promotion_status and confirm_promotion in policy/__init__.py): theses   *)
(* are graded into fixed windows, promotion_status() turns clean windows   *)
(* into a grant and later gate violations into a demotion, and the owner   *)
(* confirms a grant.                                                       *)
(*                                                                         *)
(* Time is in ticks.  An event is stamped and appended in one tick, so     *)
(* `graded` is in time order; a call of promotion_status() may span ticks. *)
(* Its SeriesClosed appends are one step: a window's stats do not change   *)
(* once it is complete, so a partial or repeated closing tells no more.  A *)
(* process that dies is one that takes no further step.                    *)
(***************************************************************************)
EXTENDS Integers, Sequences, FiniteSetsExt

CONSTANTS
  StatusProcs,   \* processes calling promotion_status(): cadence, tk, report
  Scheduled,     \* those that do so hourly: cadence
  Confirmers,    \* processes calling confirm_promotion()
  WindowLen,     \* ticks per series window (30 days)
  LastSeries,    \* series looked back on (4)
  CleanSeries,   \* of them clean (3)
  MinGraded,     \* non-void theses that complete a series (10)
  MinTotal,      \* non-void theses over the series looked back on (30)
  Equity,        \* paper_starting_equity_usd
  Grades,        \* what a ThesisGraded may carry: set of [outcome, pnl]
  None,          \* no pnl_usd, no confirmation yet
  MaxTime,       \* bound: last tick modelled
  MaxGrades,     \* bound: theses graded
  MaxViolations, \* bound: gate violations
  MaxConfirms    \* bound: confirmations

ASSUME PromotionAssumption ==
  /\ StatusProcs \cap Confirmers = {} /\ Scheduled \subseteq StatusProcs
  /\ WindowLen \in Nat \ {0} /\ LastSeries \in Nat \ {0}
  /\ CleanSeries \in 1 .. LastSeries
  /\ MinGraded \in Nat \ {0} /\ MinTotal \in Nat /\ Equity \in Nat \ {0}
  /\ MaxTime \in Nat /\ MaxGrades \in Nat /\ MaxViolations \in Nat /\ MaxConfirms \in Nat
  /\ None \notin Int
  /\ Grades \subseteq [outcome : {"PASS", "FAIL", "VOID"}, pnl : Int \cup {None}]

Procs == StatusProcs \cup Confirmers

VARIABLES
  now,        \* policy._context.clock()
  graded,     \* the account's ThesisGraded events: Seq([ts, grade])
  violations, \* ticks of its GateViolationDetected events
  grants,     \* PromotionGranted events: the series each was earned on
  confirms,   \* PromotionConfirmed events: Seq([grant, ts])
  demotes,    \* ticks of its Demoted events
  closed,     \* SeriesClosed events: set of [series, clean]
  call        \* where each process is

vars == <<now, graded, violations, grants, confirms, demotes, closed, call>>

Ticks == 0 .. MaxTime

(* From the one before the epoch, which an account without a grading is     *)
(* evaluated on in the first.                                               *)
Series == -1 .. MaxTime \div WindowLen

Call == [step : {"idle", "close", "tier", "grants", "grant", "trigger", "demote", "confirm"},
         at : Ticks, series : Series, eligible : BOOLEAN,
         since : Ticks \cup {None}, grant : Nat \cup {None}]

Idle == [step |-> "idle", at |-> 0, series |-> 0, eligible |-> FALSE,
         since |-> None, grant |-> None]

TypeOK == /\ now \in Ticks
          /\ graded \in Seq([ts : Ticks, grade : Grades])
          /\ violations \subseteq Ticks
          /\ grants \in Seq(Series)
          /\ confirms \in Seq([grant : 1 .. Len(grants), ts : Ticks])
          /\ demotes \subseteq Ticks
          /\ closed \subseteq [series : Series, clean : BOOLEAN]
          /\ call \in [Procs -> Call]

Init == /\ now = 0
        /\ graded = <<>>
        /\ violations = {}
        /\ grants = <<>>
        /\ confirms = <<>>
        /\ demotes = {}
        /\ closed = {}
        /\ call = [p \in Procs |-> Idle]
-----------------------------------------------------------------------------
(* Series statistics, derived from the log at every read.                  *)
SeriesIndex(ts) == ts \div WindowLen

WindowEnd(s) == (s + 1) * WindowLen

InWindow(s) == {i \in 1 .. Len(graded) : SeriesIndex(graded[i].ts) = s}

NonVoid(s) == {i \in InWindow(s) : graded[i].grade.outcome # "VOID"}

GradedCount(s) == Cardinality(NonVoid(s))

(* Expectancy over the non-void theses whose pnl is known; none known is    *)
(* not vacuously clean.                                                     *)
PositiveExpectancy(s) ==
  LET measured == {i \in NonVoid(s) : graded[i].grade.pnl # None}
  IN SumFunction([i \in measured |-> graded[i].grade.pnl]) > 0

(* The account's equity after its first n gradings, voids included. *)
EquityAfter(n) ==
  Equity + SumFunction([i \in 1 .. n |-> IF graded[i].grade.pnl = None THEN 0
                                         ELSE graded[i].grade.pnl])

(* The drawdown inside the window stays below 15%, from what the account    *)
(* entered it with on.                                                      *)
SmallDrawdown(s) ==
  LET walk == InWindow(s) \cup {i - 1 : i \in InWindow(s)}
  IN \A i, j \in walk : i < j /\ EquityAfter(i) > 0 =>
       (EquityAfter(i) - EquityAfter(j)) * 100 < 15 * EquityAfter(i)

NoViolation(s) == \A v \in violations : SeriesIndex(v) # s

(* Faulty: a window with enough theses is complete before it closes. *)
CompleteEarly(s, at) == GradedCount(s) >= MinGraded

Complete(s, at) == at > WindowEnd(s) /\ GradedCount(s) >= MinGraded

Clean(s, at) == /\ Complete(s, at)
                /\ NoViolation(s)
                /\ PositiveExpectancy(s)
                /\ SmallDrawdown(s)

(* The series of the latest grading; of the last closed window without one. *)
EvaluationSeries == IF graded = <<>> THEN SeriesIndex(now) - 1
                    ELSE SeriesIndex(graded[Len(graded)].ts)

LookedBack(s) == s - LastSeries + 1 .. s

Eligible(s, at) ==
  /\ Cardinality({w \in LookedBack(s) : Clean(w, at)}) >= CleanSeries
  /\ Clean(s, at)
  /\ SumFunction([w \in LookedBack(s) |-> GradedCount(w)]) >= MinTotal
-----------------------------------------------------------------------------
(* The tier, from the log.                                                 *)
LastConfirm == confirms[Len(confirms)]

(* T2 iff the latest confirmation has no strictly later demotion. *)
Tier == IF confirms # <<>> /\ \A d \in demotes : d <= LastConfirm.ts THEN "T2" ELSE "T1"

Unconsumed == {g \in 1 .. Len(grants) : \A i \in 1 .. Len(confirms) : confirms[i].grant # g}
-----------------------------------------------------------------------------
(* The market's and the other verbs' part of the log.                      *)
Tick == /\ now < MaxTime
        /\ now' = now + 1
        /\ UNCHANGED <<graded, violations, grants, confirms, demotes, closed, call>>

Grade == /\ Len(graded) < MaxGrades
         /\ \E grade \in Grades : graded' = Append(graded, [ts |-> now, grade |-> grade])
         /\ UNCHANGED <<now, violations, grants, confirms, demotes, closed, call>>

Violate == /\ Cardinality(violations) < MaxViolations
           /\ violations' = violations \cup {now}
           /\ UNCHANGED <<now, graded, grants, confirms, demotes, closed, call>>
-----------------------------------------------------------------------------
At(p, step) == call[p].step = step

Set(p, c) == call' = [call EXCEPT ![p] = c]

Goto(p, step) == Set(p, [call[p] EXCEPT !.step = step])

(* promotion_status(): the clock, the stats and R-016's verdict. *)
ReadStats(p) ==
  /\ At(p, "idle")
  /\ \E r016 \in BOOLEAN :
       Set(p, [Idle EXCEPT !.step = "close", !.at = now, !.series = EvaluationSeries,
                           !.eligible = Eligible(EvaluationSeries, now) /\ r016])
  /\ UNCHANGED <<now, graded, violations, grants, confirms, demotes, closed>>

(* maybe_close_series over the windows looked back on. *)
CloseSeries(p) ==
  LET c == call[p]
      due == {s \in LookedBack(c.series) : Complete(s, c.at) /\ \A r \in closed : r.series # s}
  IN /\ At(p, "close")
     /\ closed' = closed \cup {[series |-> s, clean |-> Clean(s, c.at)] : s \in due}
     /\ Set(p, [Idle EXCEPT !.step = "tier", !.series = IF c.eligible THEN c.series ELSE 0,
                            !.eligible = c.eligible])
     /\ UNCHANGED <<now, graded, violations, grants, confirms, demotes>>

ReadTier(p) ==
  /\ At(p, "tier")
  /\ IF Tier = "T2" THEN Set(p, [Idle EXCEPT !.step = "trigger", !.since = LastConfirm.ts])
     ELSE IF call[p].eligible THEN Goto(p, "grants") ELSE Set(p, Idle)
  /\ UNCHANGED <<now, graded, violations, grants, confirms, demotes, closed>>

CheckGrants(p) == /\ At(p, "grants")
                  /\ IF Unconsumed = {} THEN Goto(p, "grant") ELSE Set(p, Idle)
                  /\ UNCHANGED <<now, graded, violations, grants, confirms, demotes, closed>>

AppendGranted(p) == /\ At(p, "grant")
                    /\ grants' = Append(grants, call[p].series)
                    /\ Set(p, Idle)
                    /\ UNCHANGED <<now, graded, violations, confirms, demotes, closed>>

(* Faulty: a violation of long before counts; an account is demoted once.   *)
TriggerEver(since) == violations # {}

TriggerOnce(since) == demotes = {} /\ \E v \in violations : v > since

(* _demotion_trigger *)
Trigger(since) == \E v \in violations : v > since

CheckTrigger(p) == /\ At(p, "trigger")
                   /\ IF Trigger(call[p].since) THEN Goto(p, "demote") ELSE Set(p, Idle)
                   /\ UNCHANGED <<now, graded, violations, grants, confirms, demotes, closed>>

AppendDemoted(p) == /\ At(p, "demote")
                    /\ demotes' = demotes \cup {now}
                    /\ Set(p, Idle)
                    /\ UNCHANGED <<now, graded, violations, grants, confirms, closed>>

(* confirm_promotion(): the latest unconsumed grant, refused without one. *)
ReadGrants(p) == /\ At(p, "idle")
                 /\ Len(confirms) < MaxConfirms
                 /\ \E g \in Unconsumed :
                      /\ \A other \in Unconsumed : other <= g
                      /\ Set(p, [Idle EXCEPT !.step = "confirm", !.grant = g])
                 /\ UNCHANGED <<now, graded, violations, grants, confirms, demotes, closed>>

AppendConfirmed(p) == /\ At(p, "confirm")
                      /\ confirms' = Append(confirms, [grant |-> call[p].grant, ts |-> now])
                      /\ Set(p, Idle)
                      /\ UNCHANGED <<now, graded, violations, grants, demotes, closed>>
-----------------------------------------------------------------------------
Status(p) == \/ ReadStats(p)
             \/ CloseSeries(p)
             \/ ReadTier(p)
             \/ CheckGrants(p)
             \/ AppendGranted(p)
             \/ CheckTrigger(p)
             \/ AppendDemoted(p)

Confirm(p) == ReadGrants(p) \/ AppendConfirmed(p)

Next == \/ Tick \/ Grade \/ Violate
        \/ \E p \in StatusProcs : Status(p)
        \/ \E p \in Confirmers : Confirm(p)

Spec == Init /\ [][Next]_vars

(* The scheduled runs call promotion_status() again and again and finish    *)
(* it; any other process may stop for ever wherever it is.                  *)
FairSpec == Spec /\ \A p \in Scheduled : WF_vars(Status(p))
-----------------------------------------------------------------------------
(* Properties. *)

(* A live tier rests on a grant whose series still make the account         *)
(* eligible: nothing that is graded or violated after promotion_status()    *)
(* read a window changes what the window was (series_stats' `complete`).    *)
LiveIsEarned == Tier = "T2" => Eligible(grants[LastConfirm.grant], now)

(* A ledgered SeriesClosed says of its window what every later reading of   *)
(* the window says (maybe_close_series, "mirror SeriesStats exactly").      *)
ClosedStands ==
  /\ TypeOK
  /\ \A r \in closed : Complete(r.series, now) /\ r.clean = Clean(r.series, now)

(* Every demotion answers a violation that came after a confirmation, also  *)
(* when two callers of promotion_status() demote for the same one.          *)
DemotedForCause == \A d \in demotes : \E v \in violations, i \in 1 .. Len(confirms) :
  confirms[i].ts < v /\ v <= d

Overdue == Tier = "T2" /\ \E v \in violations : v > LastConfirm.ts

(* A gate violation after the confirmation takes the live tier away, as     *)
(* long as promotion_status() keeps being called, in every cycle of         *)
(* promotion and demotion.                                                  *)
ViolationDemotes == Overdue ~> ~Overdue
=============================================================================
