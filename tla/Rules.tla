-------------------------------- MODULE Rules --------------------------------
(***************************************************************************)
(* The rules catalog (policy/_rules.py), the context it reads out of the   *)
(* ledger (policy/_context.py, assemble) and the verdict it adds up to     *)
(* (policy/_evaluate.py), for one account and one thesis of it.            *)
(*                                                                         *)
(* Money is whole dollars, a dial a percentage, the clock counts days.     *)
(* What mae makes of a trade log is whether it earned.  PolicyGate has the *)
(* same gate between processes that race for it, with the rules that count.*)
(***************************************************************************)
EXTENDS Integers, Sequences, FiniteSetsExt

CONSTANTS
  Refs,        \* accounts to consider: "default" is paper:alpha
  Notionals,   \* what orders are worth; a market order has no notional
  Sizes,       \* recommended_size_usd of the thesis
  Configs,     \* AccountConfigs: principal, daily and lifetime dial
  Pnls,        \* realized results of a graded thesis
  DailyTrades, \* max_daily_trades of the account
  VoidWindow,  \* void_rate_window
  Window,      \* days the drawdown looks back
  MaxDay, MaxGrades, \* bounds: days, gradings modelled
  None

VARIABLES
  ref, \* account_ref
  log  \* the events of the account, as what the queries of assemble find

vars == <<ref, log>>

Outcomes == {"PASS", "FAIL", "VOID"}

Dials == [position_live |-> 5, position_paper |-> 10, exposure |-> 20, min_notional |-> 10, breaker |-> 10,
          sizing_tolerance |-> 1, correlation |-> 75, cooling_off |-> 40, cooling_off_days |-> 1, void_rate |-> 20,
          starting_equity |-> 500, budget |-> 3]

NoThesis == [submitted |-> None, sized |-> None, reviewed |-> FALSE]

Theses == [submitted : 0 .. MaxDay \union {None}, sized : Sizes \union {None}, reviewed : BOOLEAN]

Gradings == Seq([day : 0 .. MaxDay, outcome : Outcomes, pnl : Pnls])

TypeOK ==
  /\ ref \in Refs
  /\ log \in [halted : BOOLEAN, tier2 : BOOLEAN, fills : 0 .. Dials.budget, config : Configs \union {None},
               thesis : Theses, day : 0 .. MaxDay, entries : 0 .. DailyTrades, graded : Gradings]

Init ==
  /\ ref \in Refs
  /\ log = [halted |-> FALSE, tier2 |-> FALSE, fills |-> 0, config |-> None, thesis |-> NoThesis,
            day |-> 0, entries |-> 0, graded |-> << >>]

-----------------------------------------------------------------------------
(* assemble: each helper over the events l of the account.                 *)
Paper == ref \in {"default", "paper"}

(* A live account counts as one while its promotion is confirmed.          *)
Tier(l) == CASE Paper -> 1 [] ref = "advisory" -> 0 [] ref = "live" /\ l.tier2 -> 2 [] OTHER -> None

Equity(l) == IF Paper \/ Tier(l) = 2 THEN Dials.starting_equity ELSE None

Remaining(l) == IF Tier(l) = 2 THEN Dials.budget - l.fills ELSE None

(* Of the account's config, or the dial's for the default account and a    *)
(* confirmed live one.                                                     *)
Principal(l) ==
  IF l.config # None THEN l.config.principal
  ELSE IF ref = "default" \/ Tier(l) = 2 THEN Dials.starting_equity ELSE None

Dial(l, field) == IF l.config = None THEN None ELSE l.config[field]

Earned(gradings, day) ==
  LET upTo[n \in 0 .. Len(gradings)] ==
        IF n = 0 THEN 0 ELSE upTo[n - 1] + IF gradings[n].day = day THEN gradings[n].pnl ELSE 0
  IN upTo

DayPnl(l) == Earned(l.graded, l.day)[Len(l.graded)]

Gain(at, g) ==
  LET equity == at.equity + g.pnl IN
    [equity |-> equity, peak |-> IF equity > at.peak THEN equity ELSE at.peak]

(* The equity and its peak, after each grading of a day or later.          *)
Curve(start, since, gradings) ==
  LET upTo[n \in 0 .. Len(gradings)] ==
        IF n = 0 THEN [equity |-> start, peak |-> start]
        ELSE IF gradings[n].day < since THEN upTo[n - 1] ELSE Gain(upTo[n - 1], gradings[n])
  IN upTo

Fall(at) == [lost |-> at.peak - at.equity, peak |-> at.peak]

(* The falls from the peak so far, after each of those.                    *)
Falls(start, since, gradings) ==
  {Fall(Curve(start, since, gradings)[n]) : n \in {k \in DOMAIN gradings : gradings[k].day >= since}}

(* The breaker looks at the curve from the dial's equity over the last     *)
(* days, the lifetime dial at the one from the principal.                  *)
TrailingFalls(l) == Falls(Dials.starting_equity, l.day - Window, l.graded)

LifetimeFalls(l) == IF Principal(l) = None THEN None ELSE Falls(Principal(l), 0, l.graded)

(* review artifact, market snapshot, and the EV that a submit proves.      *)
Prerequisites(l) == l.thesis.reviewed /\ l.thesis.submitted # None

Recorded(l) == l.thesis.sized

Age(l) == IF l.thesis.submitted = None THEN None ELSE l.day - l.thesis.submitted

(* Which gradings the share of voids is taken of: the last VoidWindow.     *)
Trailing(gradings) == {k \in DOMAIN gradings : k > Len(gradings) - VoidWindow}

Voids(gradings) == {k \in Trailing(gradings) : gradings[k].outcome = "VOID"}

(* Nothing graded, nothing to measure.                                     *)
Measured(gradings) ==
  LET decided == {k \in DOMAIN gradings : gradings[k].outcome # "VOID"} IN
    IF decided = {} THEN None ELSE MapThenSumSet(LAMBDA k : gradings[k].pnl, decided) > 0

Metrics(l) == Measured(l.graded)

(* P2 ships no live exposure and no correlations.                          *)
Exposure == 0

Correlations == {}

-----------------------------------------------------------------------------
(* The rules: "pass", "fail" or "not_configured" on action a.              *)
Pass(ok) == IF ok THEN "pass" ELSE "fail"

GivenOrUnknown(fields, ok) == Pass(None \in fields \/ ok)

(* A rule whose fields are not all known denies.                           *)
Given(fields, ok) == Pass(None \notin fields /\ ok)

RequiredTier == CASE ref = "live" -> 2 [] Paper -> 1 [] OTHER -> 0

R001(a, l) == Pass(~l.halted)

R002(a, l) == Given({Tier(l)}, Tier(l) >= RequiredTier)

R003(a, l) == Given({a.notional, Equity(l)}, Equity(l) >= a.notional)

R004(a, l) == Pass(ref = "live" => a.listed)

R005(a, l) ==
  IF Paper THEN Given({a.notional, Equity(l)}, a.notional * 100 <= Dials.position_paper * Equity(l))
  ELSE Given({a.notional, Principal(l)}, a.notional * 100 <= Dials.position_live * Principal(l))

R006(a, l) ==
  Given({a.notional, Principal(l)}, (Exposure + a.notional) * 100 <= Dials.exposure * Principal(l))

R007(a, l) == Pass(l.entries < DailyTrades)

R008(a, l) == Given({a.notional}, a.notional >= Dials.min_notional)

R009(a, l) == Pass(\A f \in TrailingFalls(l) : f.lost * 100 < Dials.breaker * f.peak)

R010(a, l) == Pass(Prerequisites(l))

R011(a, l) == IF ref # "live" THEN "pass" ELSE Given({Remaining(l)}, Remaining(l) > 0)

R012(a, l) ==
  Given({a.notional, Recorded(l)},
        /\ Recorded(l) # 0
        /\ LET off == a.notional - Recorded(l) IN
             (IF off < 0 THEN -off ELSE off) * 100 <= Dials.sizing_tolerance * Recorded(l))

R013(a, l) == Pass(\A r \in Correlations : r <= Dials.correlation)

R014(a, l) ==
  IF ref # "advisory" THEN "pass"
  ELSE Given({a.notional, Principal(l)},
             \/ a.notional * 100 <= Dials.cooling_off * Principal(l)
             \/ (Age(l) # None /\ Age(l) >= Dials.cooling_off_days))

R015(a, l) ==
  Pass(Cardinality(Voids(l.graded)) * 100 <= Dials.void_rate * Cardinality(Trailing(l.graded)))

R016(a, l) == Given({Metrics(l)}, Metrics(l))

(* A dial nobody set is told as such, and denies nothing.                  *)
R017EitherWay(a, l) ==
  LET pnl == DayPnl(l) IN
  IF Dial(l, "daily") = None THEN "not_configured"
  ELSE Given({Principal(l)}, (IF pnl < 0 THEN -pnl ELSE pnl) * 100 <= Dial(l, "daily") * Principal(l))

R017(a, l) ==
  IF Dial(l, "daily") = None THEN "not_configured"
  ELSE Given({Principal(l)}, -DayPnl(l) * 100 <= Dial(l, "daily") * Principal(l))

R018(a, l) ==
  IF Dial(l, "lifetime") = None THEN "not_configured"
  ELSE Given({Principal(l)},
             \A f \in LifetimeFalls(l) : f.lost * 100 <= Dial(l, "lifetime") * Principal(l))

(* Every kind of action is under the kill switch, an order under all but   *)
(* the gates of a promotion.                                               *)
RULES(a, l) ==
  CASE a.kind = "submit_order" ->
         {R001(a, l), R002(a, l), R003(a, l), R004(a, l), R005(a, l), R006(a, l), R007(a, l), R008(a, l), R009(a, l),
          R010(a, l), R011(a, l), R012(a, l), R013(a, l), R014(a, l), R015(a, l), R017(a, l), R018(a, l)}
    [] a.kind = "promote" -> {R001(a, l), R016(a, l)}
    [] OTHER -> {R001(a, l)}

(* evaluate_pure: an allowlist of outcomes.                                *)
Allowed(a, l) == RULES(a, l) \subseteq {"pass", "not_configured"}

Order(n, listed) == [kind |-> "submit_order", notional |-> n, listed |-> listed]

Orders == {Order(n, listed) : n \in Notionals \union {None}, listed \in BOOLEAN}

Actions == Orders \union {[kind |-> k, notional |-> None, listed |-> FALSE] : k \in {"cancel", "promote", "void"}}

-----------------------------------------------------------------------------
(* What the rest of the system appends.                                    *)
Appends(l) == log' = l /\ UNCHANGED ref

(* thesis.submit: the marker and the sizing; one to nothing is recorded.   *)
Submit(size) == /\ log.thesis = NoThesis
                /\ Appends([log EXCEPT !.thesis = [@ EXCEPT !.submitted = log.day, !.sized = size]])

Review == log.thesis.submitted # None /\ Appends([log EXCEPT !.thesis.reviewed = TRUE])

(* Only an allowed order enters; a live entry fills from the budget.       *)
Enter(a) == /\ Allowed(a, log)
            /\ Appends([log EXCEPT !.entries = @ + 1, !.fills = IF ref = "live" THEN @ + 1 ELSE @])

Graded(l, outcome, pnl) ==
  [l EXCEPT !.graded = Append(@, [day |-> l.day, outcome |-> outcome, pnl |-> pnl])]

(* The rules tell only a void from the other outcomes.                     *)
Grade(outcome, pnl) == Len(log.graded) < MaxGrades /\ Appends(Graded(log, outcome, pnl))

AccountCreated(config) == log.config = None /\ Appends([log EXCEPT !.config = config])

Halt == Appends([log EXCEPT !.halted = ~@])

Confirm == ref = "live" /\ ~log.tier2 /\ Appends([log EXCEPT !.tier2 = TRUE, !.fills = 0])

Demote == log.tier2 /\ Appends([log EXCEPT !.tier2 = FALSE])

NextDay == log.day < MaxDay /\ Appends([log EXCEPT !.day = @ + 1, !.entries = 0])

Next ==
  \/ \E size \in Sizes : Submit(size)
  \/ Review
  \/ \E a \in Orders : Enter(a)
  \/ \E pnl \in Pnls : Grade(IF pnl > 0 THEN "PASS" ELSE "FAIL", pnl) \/ Grade("VOID", pnl)
  \/ \E config \in Configs : AccountCreated(config)
  \/ Halt \/ Confirm \/ Demote \/ NextDay

Spec == Init /\ [][Next]_vars

-----------------------------------------------------------------------------
(* The logs that lack one piece of evidence of log: of the thesis, of the  *)
(* promotion, or of the account, but for the default and the live account, *)
(* whose principal then is the dial's.                                     *)
Forgetful ==
  {[log EXCEPT !.thesis = NoThesis], [log EXCEPT !.thesis.sized = None],
   [log EXCEPT !.thesis.reviewed = FALSE], [log EXCEPT !.thesis.submitted = None], [log EXCEPT !.tier2 = FALSE]}
  \union (IF ref \in {"default", "live"} THEN {} ELSE {[log EXCEPT !.config = None]})

(* What is not on record never helps ("a rule whose needed context field   *)
(* is None denies"): an action allowed without a piece of evidence is      *)
(* allowed with it.                                                        *)
FailsClosed == \A a \in Actions, l \in Forgetful : Allowed(a, l) => Allowed(a, log)

(* Losing never opens the gate of an account, unless it is the share of    *)
(* voids that closed it, which a loss dilutes; winning never closes it,    *)
(* and a void that wins nothing never opens it.                            *)
LossesNeverOpen ==
  \A a \in Orders, pnl \in Pnls :
    /\ (pnl < 0 /\ Allowed(a, Graded(log, "FAIL", pnl))) => (Allowed(a, log) \/ R015(a, log) = "fail")
    /\ (pnl > 0 /\ Allowed(a, log)) => Allowed(a, Graded(log, "PASS", pnl))
    /\ (pnl < 0 /\ Allowed(a, Graded(log, "VOID", pnl))) => Allowed(a, log)

VerdictsSound == FailsClosed /\ LossesNeverOpen
=============================================================================
