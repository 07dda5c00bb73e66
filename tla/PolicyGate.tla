----------------------------- MODULE PolicyGate -----------------------------
(***************************************************************************)
(* The gate every order of one account passes: policy.evaluate             *)
(* (policy/__init__.py, _evaluate.py, _rules.py) over the context          *)
(* assembled from the ledger (_context.py), called by execute_order and    *)
(* execute_exit of several processes, and record_manual_fill               *)
(* (broker/_manual.py), which no gate refuses.                             *)
(*                                                                         *)
(* The rules kept are those that count what earlier calls did: R-002 the   *)
(* tier, R-007 the entries of the day, R-009 the trailing drawdown, R-011  *)
(* the live budget.  What the other rules say is an input: Deny is always  *)
(* possible.  A call counts, then decides, and acts later, so another      *)
(* process acts on the same count.                                         *)
(*                                                                         *)
(* The theses were approved before; each trades a symbol of its own.       *)
(***************************************************************************)
EXTENDS Integers, Sequences, FiniteSetsExt, SequencesExt

CONSTANTS
  Theses,       \* approved theses of the account
  LimitTheses,  \* those whose entry is a limit order
  Procs,        \* processes sharing the ledger file
  Kinds,        \* account kinds to consider, of "paper", "live", "advisory"
  DailyPaper,   \* dial max_daily_trades_paper
  DailyLive,    \* dial max_daily_trades_live
  Budget,       \* dial live_sequence_budget
  BreakerPct,   \* dial drawdown_breaker_pct, in percent
  Window,       \* ticks the drawdown looks back (30 days)
  DayLen,       \* ticks of a UTC day
  Equity,       \* dial paper_starting_equity_usd
  Pnls,         \* realized results of a graded thesis
  None,         \* "no day", "no time"
  MaxTime,      \* bound: ticks modelled
  MaxGrades,    \* bound: theses graded
  MaxFills,     \* bound: fills, recorded or still possible
  MaxManual,    \* bound: fills of an account filled by hand
  MaxConfirms   \* bound: promotions confirmed

Ticks == 0 .. MaxTime

Day(tick) == tick \div DayLen

Days == {Day(tick) : tick \in Ticks}

ASSUME GateAssumption ==
  /\ LimitTheses \subseteq Theses
  /\ IsFiniteSet(Procs) /\ Procs # {} /\ IsFiniteSet(Theses)
  /\ Kinds \subseteq {"paper", "live", "advisory"}
  /\ DailyPaper \in Nat \ {0} /\ DailyLive \in Nat \ {0} /\ Budget \in Nat \ {0}
  /\ BreakerPct \in 1 .. 100 /\ Equity \in Nat \ {0} /\ Pnls \subseteq Int
  /\ Window \in Nat /\ DayLen \in Nat \ {0} /\ MaxTime \in Nat
  /\ None \notin Int /\ None \notin Theses
  /\ MaxGrades \in Nat /\ MaxFills \in Nat /\ MaxManual \in Nat /\ MaxConfirms \in Nat

VARIABLES
  kind,       \* prefix of the account_ref
  now,        \* the clock
  stage,      \* [Theses -> "approved", "active" or "graded"]
  entered,    \* [Theses -> day of its first OrderSubmitted, or None]
  resting,    \* [Orders -> Nat], orders submitted and not filled
  held,       \* theses with an open position
  fills,      \* the FillRecorded events, in append order
  graded,     \* the ThesisGraded events, in append order
  confirmed,  \* ts of the latest PromotionConfirmed, or None
  demoted,    \* a Demoted came after it
  confirms,   \* PromotionConfirmed events so far
  late,       \* orders submitted since a rule kept here last began to deny
  due,        \* fills recorded by hand while the drawdown was at the breaker
  flagged,    \* fills a GateViolationDetected for R-009 was appended for
  call        \* [Procs -> Calls], where each process is

vars == <<kind, now, stage, entered, resting, held, fills, graded, confirmed, demoted,
          confirms, late, due, flagged, call>>

ladder == <<confirmed, demoted, confirms>>
manual == <<due, flagged>>

Sides == {"buy", "sell"}

Idle == [step |-> "idle", thesis |-> None, side |-> "buy", at |-> 0, fill |-> 0]

Steps == {"evaluate", "submit", "fill", "activate", "manual.activate", "manual.check"}

Calls == {Idle} \cup
         [step : Steps, thesis : Theses, side : Sides, at : Ticks, fill : Nat]

(* A thesis's order of one side and time. *)
Orders == Theses \X Sides \X Ticks

Fill == [thesis : Theses, side : Sides, ts : Ticks]

TypeOK == /\ kind \in Kinds
          /\ now \in Ticks
          /\ stage \in [Theses -> {"approved", "active", "graded"}]
          /\ entered \in [Theses -> Days \cup {None}]
          /\ resting \in [Orders -> Nat]
          /\ held \subseteq Theses
          /\ fills \in Seq(Fill)
          /\ graded \in Seq([ts : Ticks, pnl : Pnls])
          /\ confirmed \in Ticks \cup {None}
          /\ demoted \in BOOLEAN
          /\ confirms \in Nat
          /\ late \in Nat
          /\ due \subseteq 1 .. Len(fills)
          /\ flagged \subseteq 1 .. Len(fills)
          /\ call \in [Procs -> Calls]

Init == /\ kind \in Kinds
        /\ now = 0
        /\ stage = [t \in Theses |-> "approved"]
        /\ entered = [t \in Theses |-> None]
        /\ resting = [o \in Orders |-> 0]
        /\ held = {}
        /\ fills = <<>>
        /\ graded = <<>>
        /\ confirmed = None
        /\ demoted = FALSE
        /\ confirms = 0
        /\ late = 0
        /\ due = {}
        /\ flagged = {}
        /\ call = [p \in Procs |-> Idle]
-----------------------------------------------------------------------------
(* The context a rule reads, from the log.                                 *)

(* R-007: _trades_today_count, first orders of a thesis only. *)
EnteredOn(day) == {t \in Theses : entered[t] = day}

DailyLimit == IF kind = "live" THEN DailyLive ELSE DailyPaper

(* _current_tier *)
LiveTier == confirmed # None /\ ~demoted

(* R-011: _live_trades_remaining, every fill since the confirmation counts. *)
FillsSince(ts) == {i \in 1 .. Len(fills) : fills[i].ts >= ts}

Remaining == Budget - Cardinality(FillsSince(confirmed))

(* _trailing_drawdown_pct against the breaker: the equity curve over the    *)
(* gradings of the window, from the starting equity on.                     *)
InWindow(g, at) == at - Window <= g.ts /\ g.ts <= at

Reaches(peak, equity) == peak > 0 /\ (peak - equity) * 100 >= BreakerPct * peak

(* Faulty: measures every fall from the starting equity. *)
WalkFromStart(curve, g) ==
  LET equity == curve.equity + g.pnl
  IN [curve EXCEPT !.equity = equity, !.tripped = @ \/ Reaches(curve.peak, equity)]

Walk(curve, g) ==
  LET equity == curve.equity + g.pnl
      peak == Max({curve.peak, equity})
  IN [equity |-> equity, peak |-> peak, tripped |-> curve.tripped \/ Reaches(peak, equity)]

Curve(log, at) ==
  LET curve[n \in 0 .. Len(log)] ==
        IF n = 0 THEN [equity |-> Equity, peak |-> Equity, tripped |-> FALSE]
        ELSE IF InWindow(log[n], at) THEN Walk(curve[n - 1], log[n]) ELSE curve[n - 1]
  IN curve

Tripped(log, at) == Curve(log, at)[Len(log)].tripped
-----------------------------------------------------------------------------
(* The rules.                                                              *)
R002 == kind = "live" => LiveTier

(* Faulty: lets one more pass. *)
R007Late == Cardinality(EnteredOn(Day(now))) <= DailyLimit

R007 == Cardinality(EnteredOn(Day(now))) < DailyLimit

R009 == ~Tripped(graded, now)

R011 == kind = "live" => LiveTier /\ Remaining > 0
-----------------------------------------------------------------------------
At(p, step) == call[p].step = step

Set(p, c) == call' = [call EXCEPT ![p] = c]

Goto(p, step) == Set(p, [call[p] EXCEPT !.step = step])

(* Bound: every call and every resting order may still record a fill. *)
Room == Len(fills) + Cardinality({p \in Procs : call[p] # Idle})
          + MapThenSumSet(LAMBDA o : resting[o], {o \in Orders : resting[o] > 0}) < MaxFills

(* The live budget is spent or was never granted, or the day is full. *)
Spent == \/ kind = "live" /\ (~LiveTier \/ Cardinality(FillsSince(confirmed)) >= Budget)
         \/ Cardinality(EnteredOn(Day(now))) >= DailyLimit

(* The orders submitted while the limits or the breaker are reached. *)
CountLate(n) == late' = IF Spent' \/ Tripped(graded', now') THEN late + n ELSE 0

(* A FillRecorded of the thesis. *)
RecordFill(t, side, ts) ==
  /\ fills' = Append(fills, [thesis |-> t, side |-> side, ts |-> ts])
  /\ held' = IF side = "buy" THEN held \cup {t} ELSE held \ {t}

(* A paper broker stamps the fill with its clock, a venue with the time it  *)
(* filled the order of time "at".                                           *)
FillTimes(at) == IF kind = "live" THEN at .. now ELSE {now}

(* _activate_on_fill, from approved only. *)
ActivateThesis(t) ==
  stage' = IF stage[t] = "approved" THEN [stage EXCEPT ![t] = "active"] ELSE stage
-----------------------------------------------------------------------------
(* execute_order and execute_exit.                                         *)
Begin(p, t, side) == /\ At(p, "idle")
                     /\ Room
                     /\ Set(p, [step |-> "evaluate", thesis |-> t, side |-> side,
                                at |-> 0, fill |-> 0])
                     /\ UNCHANGED <<kind, now, stage, entered, resting, held, fills, graded,
                                    ladder, late, manual>>

BeginEntry(p, t) == stage[t] = "approved" /\ Begin(p, t, "buy")

BeginExit(p, t) == stage[t] = "active" /\ t \in held /\ Begin(p, t, "sell")

(* Faulty: evaluates the tier and not the budget. *)
AllowUnbudgeted(p) == /\ At(p, "evaluate")
                      /\ R002 /\ R007 /\ R009
                      /\ Goto(p, "submit")
                      /\ UNCHANGED <<kind, now, stage, entered, resting, held, fills, graded,
                                     ladder, late, manual>>

(* policy.evaluate() read the log and no rule denies. *)
Allow(p) == /\ At(p, "evaluate")
            /\ R002 /\ R007 /\ R009 /\ R011
            /\ Goto(p, "submit")
            /\ UNCHANGED <<kind, now, stage, entered, resting, held, fills, graded,
                           ladder, late, manual>>

(* One of these rules or another one denies: PipelineDenied. *)
Deny(p) == /\ At(p, "evaluate")
           /\ Set(p, Idle)
           /\ UNCHANGED <<kind, now, stage, entered, resting, held, fills, graded,
                          ladder, late, manual>>

(* verify_token, the quote or the venue refuses, or the account is advisory *)
(* (AdvisoryOnly): nothing is appended.                                     *)
SubmitFails(p) == /\ At(p, "submit")
                  /\ Set(p, Idle)
                  /\ UNCHANGED <<kind, now, stage, entered, resting, held, fills, graded,
                                 ladder, late, manual>>

(* OrderSubmitted, stamped now. *)
OrderSubmitted(p) ==
  LET t == call[p].thesis
  IN /\ At(p, "submit")
     /\ kind # "advisory"
     /\ entered' = [entered EXCEPT ![t] = IF @ = None THEN Day(now) ELSE @]
     /\ UNCHANGED <<kind, now, stage, held, fills, graded, ladder, manual>>
     /\ CountLate(1)

Limit(p) == call[p].side = "buy" /\ call[p].thesis \in LimitTheses

(* A limit entry on paper and any order a venue has not filled yet rest     *)
(* when execute_order polls once; execute_exit does not poll.               *)
SubmitRests(p) == /\ OrderSubmitted(p)
                  /\ kind = "live" \/ Limit(p)
                  /\ resting' = [resting EXCEPT ![<<call[p].thesis, call[p].side, now>>] = @ + 1]
                  /\ Set(p, Idle)

Submit(p) == /\ OrderSubmitted(p)
             /\ IF kind = "live" THEN call[p].side = "buy" ELSE ~Limit(p)
             /\ Set(p, [step |-> "fill", thesis |-> call[p].thesis, side |-> call[p].side,
                        at |-> now, fill |-> 0])
             /\ UNCHANGED resting

FillOrder(p) == /\ At(p, "fill")
                /\ \E ts \in FillTimes(call[p].at) : RecordFill(call[p].thesis, call[p].side, ts)
                /\ IF call[p].side = "buy" THEN Goto(p, "activate") ELSE Set(p, Idle)
                /\ UNCHANGED <<kind, now, stage, entered, resting, graded, ladder, manual>>
                /\ CountLate(0)

Activate(p) == /\ At(p, "activate")
               /\ ActivateThesis(call[p].thesis)
               /\ Set(p, Idle)
               /\ UNCHANGED <<kind, now, entered, resting, held, fills, graded,
                              ladder, late, manual>>

(* A later order_status finds the order filled; no gate, no activation. *)
Poll(t, side, at) ==
  /\ resting[<<t, side, at>>] > 0
  /\ \E ts \in FillTimes(at) : RecordFill(t, side, ts)
  /\ resting' = [resting EXCEPT ![<<t, side, at>>] = @ - 1]
  /\ UNCHANGED <<kind, now, stage, entered, graded, ladder, manual, call>>
  /\ CountLate(0)
-----------------------------------------------------------------------------
(* record_manual_fill: the fill, the activation, then the check.           *)
ManualFill(p, t, side) ==
  LET i == Len(fills) + 1
  IN /\ kind = "advisory"
     /\ At(p, "idle")
     /\ Room /\ Len(fills) < MaxManual
     /\ RecordFill(t, side, now)
     /\ due' = IF Tripped(graded, now) THEN due \cup {i} ELSE due
     /\ Set(p, [step |-> "manual.activate", thesis |-> t, side |-> side, at |-> now, fill |-> i])
     /\ UNCHANGED <<kind, now, stage, entered, resting, graded, ladder, flagged>>
     /\ CountLate(0)

(* Faulty: IllegalTransition of a thesis that is not approved ends the call. *)
ManualActivateRaises(p) ==
  /\ At(p, "manual.activate")
  /\ ActivateThesis(call[p].thesis)
  /\ IF stage[call[p].thesis] = "approved" THEN Goto(p, "manual.check") ELSE Set(p, Idle)
  /\ UNCHANGED <<kind, now, entered, resting, held, fills, graded, ladder, late, manual>>

(* A thesis that is not approved is left alone and the call goes on. *)
ManualActivate(p) ==
  /\ At(p, "manual.activate")
  /\ ActivateThesis(call[p].thesis)
  /\ Goto(p, "manual.check")
  /\ UNCHANGED <<kind, now, entered, resting, held, fills, graded, ladder, late, manual>>

(* The drawdown at the time the call began, over the log as it is now. *)
ManualCheck(p) ==
  /\ At(p, "manual.check")
  /\ flagged' = IF Tripped(graded, call[p].at) THEN flagged \cup {call[p].fill} ELSE flagged
  /\ Set(p, Idle)
  /\ UNCHANGED <<kind, now, stage, entered, resting, held, fills, graded, ladder, late, due>>
-----------------------------------------------------------------------------
(* What the rest of the system does to the log.                            *)
Grade(t) == /\ stage[t] = "active"
            /\ Len(graded) < MaxGrades
            /\ \E pnl \in Pnls : graded' = Append(graded, [ts |-> now, pnl |-> pnl])
            /\ stage' = [stage EXCEPT ![t] = "graded"]
            /\ UNCHANGED <<kind, now, entered, resting, held, fills, ladder, manual, call>>
            /\ CountLate(0)

Confirm == /\ kind = "live" /\ ~LiveTier
           /\ confirms < MaxConfirms
           /\ confirmed' = now /\ demoted' = FALSE /\ confirms' = confirms + 1
           /\ UNCHANGED <<kind, now, stage, entered, resting, held, fills, graded, manual, call>>
           /\ CountLate(0)

Demote == /\ LiveTier
          /\ demoted' = TRUE
          /\ UNCHANGED <<kind, now, stage, entered, resting, held, fills, graded, confirmed,
                         confirms, manual, call>>
          /\ CountLate(0)

Tick == /\ now < MaxTime
        /\ now' = now + 1
        /\ UNCHANGED <<kind, stage, entered, resting, held, fills, graded, ladder, manual, call>>
        /\ CountLate(0)

(* The modelled time is over and nobody is inside a call. *)
Done == /\ now = MaxTime
        /\ \A p \in Procs : call[p] = Idle
        /\ UNCHANGED vars

(* What a process inside a call does next. *)
Continue(p) == \/ Allow(p) \/ Deny(p)
               \/ SubmitFails(p) \/ SubmitRests(p) \/ Submit(p)
               \/ FillOrder(p) \/ Activate(p)
               \/ ManualActivate(p) \/ ManualCheck(p)

Next == \/ \E p \in Procs : Continue(p)
        \/ \E p \in Procs, t \in Theses :
             \/ BeginEntry(p, t) \/ BeginExit(p, t)
             \/ \E side \in Sides : ManualFill(p, t, side)
        \/ \E t \in Theses, side \in Sides, at \in Ticks : Poll(t, side, at)
        \/ \E t \in Theses : Grade(t)
        \/ Confirm \/ Demote \/ Tick \/ Done

Spec == Init /\ [][Next]_vars
-----------------------------------------------------------------------------
(* Properties. *)

(* R-007's limit holds of the entries of every day up to the calls that     *)
(* counted before the limit was reached: each process adds at most one, and *)
(* one that counted yesterday may submit today (_trades_today_count).       *)
EntriesBounded ==
  \A day \in Days : Cardinality(EnteredOn(day)) <= DailyLimit - 1 + Cardinality(Procs)

(* A rule that begins to deny stops the account: while the live tier is     *)
(* lost, the budget spent, the day full or the drawdown at the breaker, each *)
(* process submits at most the one order it was allowed before (evaluate,    *)
(* _check_r002, r007, r009, r011).                                           *)
GateBounded == late <= Cardinality(Procs)

(* The equity after each grading, of the results in the window alone.       *)
Equities(log, at) ==
  LET equity[n \in 0 .. Len(log)] ==
        IF n = 0 THEN Equity
        ELSE equity[n - 1] + IF InWindow(log[n], at) THEN log[n].pnl ELSE 0
  IN equity

(* The running-peak computation of _trailing_drawdown_pct trips exactly     *)
(* when the equity fell, from some earlier value of the window, by the      *)
(* breaker's share of that value.                                           *)
BreakerIsWorstFall ==
  LET equity == Equities(graded, now)
  IN Tripped(graded, now) <=>
       \E i, j \in 0 .. Len(graded) : i < j /\ Reaches(equity[i], equity[j])

(* A fill recorded by hand during the lockout has its violation once the    *)
(* call that recorded it is over, whatever became of its thesis and whoever *)
(* was graded in between (record_manual_fill, "visibility").                *)
LockoutShows == \A i \in due \ flagged : \E p \in Procs : call[p].fill = i
=============================================================================
