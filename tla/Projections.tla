----------------------------- MODULE Projections -----------------------------
(***************************************************************************)
(* What Ledger.rebuild() makes of the log (ledger/_projections.py) and     *)
(* what is read of it (ledger/_models.py), beside what the live verbs      *)
(* derive from the same events on every call: the lifecycle of a thesis    *)
(* (ThesisMachine), the series of an account (Promotion), the tier, the    *)
(* results and the principal (policy/_context.py, broker/_paper.py).       *)
(*                                                                         *)
(* A verb looks at the log and stamps its event in one step and appends it *)
(* in the next, so that events of several writers may stand in the log     *)
(* out of the order of their stamps, and two verbs may both have looked    *)
(* before either appends.  A read of a table is of some earlier rebuild.   *)
(* Times are ticks, and a tick is a day.                                   *)
(***************************************************************************)
EXTENDS Integers, SequencesExt, FiniteSetsExt

CONSTANTS
  Theses, Accounts,
  Writers,      \* processes appending to the log
  Stages,       \* bound: how far each thesis may have come before: [Theses -> 1 .. 6]
  Verbs,        \* bound: the events appended from here on
  Outcomes, Win, Loss, \* what a grading may say and measure
  Unmeasured,   \* {None} when a grading may measure nothing
  Principals,   \* what an account may be created with
  Equity,       \* paper_starting_equity_usd
  WindowLen, MinGraded,
  MaxTime, MaxAppends, \* bounds
  None

VARIABLES
  now,
  log,
  pending, \* the event each writer is about to append, or None
  before,  \* how many events of the log came before
  raced    \* accounts of which two verbs were under way at once

vars == <<now, log, pending, before, raced>>

M == INSTANCE ThesisMachine

(* An event, cut down to what is read of it.                               *)
Ev(type) == [type |-> type, ts |-> now, of |-> None, account |-> None, kind |-> None,
             outcome |-> None, pnl |-> None, graded |-> now, tier |-> None, principal |-> None]

OfThesis(type, t) == [Ev(type) EXCEPT !.of = t]

OfAccount(type, a) == [Ev(type) EXCEPT !.account = a]

Graded(t, outcome, pnl) == [OfThesis("ThesisGraded", t) EXCEPT !.outcome = outcome, !.pnl = pnl]

Lifecycle(t, account) ==
  << [OfThesis("ThesisDrafted", t) EXCEPT !.account = account],
     OfThesis("ThesisSubmitted", t),
     [OfThesis("ReviewCompleted", t) EXCEPT !.kind = "thesis_review"],
     OfThesis("ThesisApproved", t), OfThesis("ThesisActivated", t), Graded(t, "PASS", Win) >>

Init ==
  /\ now = 0
  /\ \E stage \in Stages, owner \in [Theses -> Accounts] :
       log = FoldLeft(LAMBDA s, t : s \o SubSeq(Lifecycle(t, owner[t]), 1, stage[t]), << >>, SetToSeq(Theses))
  /\ before = Len(log) /\ pending = [w \in Writers |-> None] /\ raced = {}

-----------------------------------------------------------------------------
(* rebuild: the theses table.  A row is None until the thesis is drafted.  *)
TransitionFrom ==
  [ThesisSubmitted |-> <<"draft", "submitted">>, ThesisApproved |-> <<"reviewed", "approved">>,
   ThesisRejected |-> <<"reviewed", "rejected">>, ThesisActivated |-> <<"approved", "active">>]

(* Faulty: any review moves the row.                                       *)
MovedByAnyReview(state, e) ==
  IF e.type \in DOMAIN TransitionFrom /\ state = TransitionFrom[e.type][1] THEN TransitionFrom[e.type][2]
  ELSE IF e.type = "ReviewCompleted" THEN "reviewed"
  ELSE IF e.type = "ThesisGraded" /\ state = "active" THEN e.outcome
  ELSE state

Moved(state, e) ==
  IF e.type \in DOMAIN TransitionFrom /\ state = TransitionFrom[e.type][1] THEN TransitionFrom[e.type][2]
  ELSE IF e.type = "ReviewCompleted" /\ e.kind = "thesis_review" /\ state = "submitted" THEN "reviewed"
  ELSE IF e.type = "ThesisGraded" /\ state = "active" THEN e.outcome
  ELSE state

Applied(row, e) ==
  IF e.type = "ThesisDrafted"
  THEN [account |-> e.account, state |-> "draft", outcome |-> None, graded_ts |-> None]
  ELSE IF row = None THEN row
  ELSE LET to == Moved(row.state, e) IN
    IF e.type = "ThesisGraded" /\ row.state = "active"
    THEN [row EXCEPT !.state = to, !.outcome = e.outcome, !.graded_ts = e.ts]
    ELSE [row EXCEPT !.state = to]

(* The fold of a sequence, from its left.                                  *)
Fold(Step(_, _), base, events) ==
  LET upTo[k \in 0 .. Len(events)] == IF k = 0 THEN base ELSE Step(upTo[k - 1], events[k])
  IN upTo[Len(events)]

Row(events, t) == Fold(Applied, None, SelectSeq(events, LAMBDA e : e.of = t))

(* The account of a thesis is its draft's.                                 *)
Owned(events, a) ==
  {events[k].of : k \in {j \in DOMAIN events : events[j].type = "ThesisDrafted" /\ events[j].account = a}}

(* pnl_daily counts every grading of a thesis with a row, also one the row *)
(* ignores.                                                                *)
Gradings(events, a) ==
  SelectSeq(events, LAMBDA e : e.type = "ThesisGraded" /\ e.of \in Owned(events, a))

Cash(e) == IF e.pnl = None THEN 0 ELSE e.pnl

Total(gradings) == MapThenSumSet(LAMBDA k : Cash(gradings[k]), DOMAIN gradings)

-----------------------------------------------------------------------------
(* rebuild: the series table, from the log alone: the clock is the latest  *)
(* stamp there is.                                                         *)
LogClockLast(events) == events[Len(events)].ts

LogClock(events) == Max({events[k].ts : k \in DOMAIN events})

Index(ts) == ts \div WindowLen

ByTime(gradings) == SortSeq(gradings, LAMBDA e, f : e.graded < f.graded)

InSeries(events, a, s) == ByTime(SelectSeq(Gradings(events, a), LAMBDA e : Index(e.graded) = s))

Counted(gradings) == SelectSeq(gradings, LAMBDA e : e.outcome # "VOID")

(* Faulty: the equity entering a window is every account's.                *)
EnteringPooled(events, a, s) ==
  Equity + Total(SelectSeq(events, LAMBDA e : e.type = "ThesisGraded" /\ Index(e.graded) < s))

Entering(events, a, s) ==
  Equity + Total(SelectSeq(Gradings(events, a), LAMBDA e : Index(e.graded) < s))

(* The walk over the window: equity, its peak, and a fall of 15 % so far.  *)
Walk(start, gradings) ==
  Fold(LAMBDA at, e :
         LET equity == at.equity + Cash(e)
             peak == IF equity > at.peak THEN equity ELSE at.peak IN
           [equity |-> equity, peak |-> peak,
            fell |-> at.fell \/ (peak > 0 /\ (peak - equity) * 100 >= 15 * peak)],
       [equity |-> start, peak |-> start, fell |-> FALSE], gradings)

SeriesComplete(events, a, s) ==
  /\ (s + 1) * WindowLen <= LogClock(events)
  /\ Len(Counted(InSeries(events, a, s))) >= MinGraded

SeriesClean(events, a, s) ==
  LET graded == InSeries(events, a, s) IN
    /\ SeriesComplete(events, a, s)
    /\ \A k \in DOMAIN events :
         ~(events[k].type = "GateViolationDetected" /\ events[k].account = a /\ Index(events[k].ts) = s)
    /\ Total(Counted(graded)) > 0
    /\ ~Walk(Entering(events, a, s), graded).fell

SeriesRows(events) ==
  UNION {{<<a, Index(Gradings(events, a)[k].graded)>> : k \in DOMAIN Gradings(events, a)} : a \in Accounts}

(* rebuild: promotion_state, the last event of the log for the account;    *)
(* and accounts, where a later row replaces an earlier.                    *)
OfPromotion(events, a) ==
  SelectSeq(events, LAMBDA e : e.type \in {"PromotionConfirmed", "Demoted"} /\ e.account = a)

PromotionState(events, a) ==
  LET history == OfPromotion(events, a) IN IF history = << >> THEN "none" ELSE Last(history).tier

Created(events, a) == SelectSeq(events, LAMBDA e : e.type = "AccountCreated" /\ e.account = a)

AccountRow(events, a) == Last(Created(events, a)).principal

-----------------------------------------------------------------------------
(* models.latest_grades: the rows of the last rebuild, the pnl of the      *)
(* first grading the log has by now.                                       *)
LatestGrade(built, t) ==
  LET row == Row(SubSeq(log, 1, built), t)
      gradings == SelectSeq(log, LAMBDA e : e.type = "ThesisGraded" /\ e.of = t) IN
    IF row = None \/ row.graded_ts = None THEN None
    ELSE [outcome |-> row.outcome, pnl |-> gradings[1].pnl, graded_ts |-> row.graded_ts]

ActiveTheses(built) ==
  {t \in Theses : LET row == Row(SubSeq(log, 1, built), t) IN row # None /\ row.state = "active"}

-----------------------------------------------------------------------------
(* The live side.  derive_state folds the machine over a thesis's events.  *)
LiveState(events, t) ==
  Fold(M!NextState, M!NoState, SelectSeq(events, LAMBDA e : e.of = t))

(* series_stats, the operators of Promotion over the account's gradings in *)
(* the order of their times.                                               *)
Policy(history, faults) == INSTANCE Promotion WITH
  StatusProcs <- {}, Scheduled <- {}, Confirmers <- {}, LastSeries <- 4, CleanSeries <- 3,
  MinTotal <- 0, Grades <- {}, MaxGrades <- 0, MaxViolations <- 0, MaxConfirms <- 0,
  graded <- history, violations <- faults, grants <- << >>, confirms <- << >>, demotes <- {}, closed <- {}, call <- << >>

History(a) ==
  LET gradings == ByTime(Gradings(log, a)) IN
    [k \in DOMAIN gradings |->
       [ts |-> gradings[k].graded, grade |-> [outcome |-> gradings[k].outcome, pnl |-> gradings[k].pnl]]]

Violations(a) ==
  {log[k].ts : k \in {j \in DOMAIN log : log[j].type = "GateViolationDetected" /\ log[j].account = a}}

(* _current_tier: the latest confirmation by stamp, unless a demotion has  *)
(* a strictly later one.                                                   *)
CurrentTier(a) ==
  LET confirmed == SelectSeq(OfPromotion(log, a), LAMBDA e : e.type = "PromotionConfirmed")
      latest == Max({confirmed[k].ts : k \in DOMAIN confirmed}) IN
    IF confirmed = << >> THEN "none"
    ELSE IF \E k \in DOMAIN log : log[k].type = "Demoted" /\ log[k].account = a /\ log[k].ts > latest
    THEN "T1" ELSE "T2"

(* The paper broker takes the first AccountCreated, policy the last.       *)
BrokerPrincipal(a) == Created(log, a)[1].principal

PolicyPrincipal(a) == Last(Created(log, a)).principal

-----------------------------------------------------------------------------
(* The verbs: the state each requires of the thesis, and what each asks of *)
(* the account, before it stamps its event.  void() is let in to approved  *)
(* theses too, and its grading is one nothing follows.                     *)
Requires ==
  [ThesisSubmitted |-> "draft", ThesisApproved |-> "reviewed", ThesisRejected |-> "reviewed",
   ThesisActivated |-> "approved", ThesisGraded |-> "active"]

Reviewed(t, kind) == [OfThesis("ReviewCompleted", t) EXCEPT !.kind = kind]

ThesisVerbs(t) ==
  LET state == LiveState(log, t) IN
    {OfThesis(type, t) : type \in {v \in DOMAIN Requires \ {"ThesisGraded"} : Requires[v] = state}}
    \union (IF state = "submitted" THEN {Reviewed(t, "thesis_review")} ELSE {})
    \union (IF state \in {"approved", "active"} THEN {Reviewed(t, "void_signoff")} ELSE {})
    \union (IF state = "approved" THEN {Graded(t, "VOID", v) : v \in {Win} \union Unmeasured} ELSE {})
    \union (IF state = Requires.ThesisGraded
            THEN {Graded(t, o, v) : o \in Outcomes, v \in {Win, -Loss} \union Unmeasured} ELSE {})

AccountVerbs(a) ==
  {OfAccount("GateViolationDetected", a), [OfAccount("PromotionConfirmed", a) EXCEPT !.tier = "T2"]}
  \union (IF CurrentTier(a) = "T2" THEN {[OfAccount("Demoted", a) EXCEPT !.tier = "T1"]} ELSE {})
  \union (IF Created(log, a) = << >>
          THEN {[OfAccount("AccountCreated", a) EXCEPT !.principal = v] : v \in Principals} ELSE {})

Writing == {w \in Writers : pending[w] # None}

Look(w, e) ==
  /\ e.type \in Verbs
  /\ pending[w] = None /\ Len(log) - before + Cardinality(Writing) < MaxAppends
  /\ pending' = [pending EXCEPT ![w] = e]
  /\ raced' = raced \union {a \in Accounts : e.account = a /\ \E v \in Writing : pending[v].account = a}
  /\ UNCHANGED <<now, log, before>>

(* The append, whatever was appended since the verb looked.                *)
Appends(w) ==
  /\ pending[w] # None
  /\ log' = Append(log, pending[w])
  /\ pending' = [pending EXCEPT ![w] = None]
  /\ UNCHANGED <<now, before, raced>>

(* The process dies before its append.                                     *)
Die(w) ==
  /\ pending[w] # None /\ pending' = [pending EXCEPT ![w] = None]
  /\ UNCHANGED <<now, log, before, raced>>

Tick == now < MaxTime /\ now' = now + 1 /\ UNCHANGED <<log, pending, before, raced>>

Next ==
  \/ Tick
  \/ \E w \in Writers :
       \/ \E t \in Theses : \E e \in ThesisVerbs(t) : Look(w, e)
       \/ \E a \in Accounts : \E e \in AccountVerbs(a) : Look(w, e)
       \/ Appends(w) \/ Die(w)

Spec == Init /\ [][Next]_vars

-----------------------------------------------------------------------------
(* Gradings the lifecycle ignores: void's of an approved thesis, and the   *)
(* second of two.                                                          *)
Ignored(t) ==
  {k \in DOMAIN log : /\ log[k].type = "ThesisGraded" /\ log[k].of = t
                      /\ LiveState(SubSeq(log, 1, k - 1), t) # "active"}

TypeOK ==
  /\ now \in 0 .. MaxTime /\ before <= Len(log) /\ raced \subseteq Accounts
  /\ \A w \in Writers : pending[w] # None => pending[w].of \in Theses \/ pending[w].account \in Accounts

(* The row of a thesis is where the live machine has it, in any log; a     *)
(* thesis active in a table of any earlier rebuild is active, or graded    *)
(* since; and a grade read of such a table is the grade the thesis has,    *)
(* its result the one that grading measured, unless an ignored one came    *)
(* before it.                                                              *)
ThesesAgree ==
  /\ \A t \in Theses : Row(log, t).state = LiveState(log, t)
  /\ \A built \in before .. Len(log) :
       /\ \A t \in ActiveTheses(built) : LiveState(log, t) \in {"active"} \union Outcomes
       /\ \A t \in Theses : LET grade == LatestGrade(built, t) IN
            grade # None =>
              /\ grade.outcome = LiveState(log, t)
              /\ \E k \in DOMAIN log : /\ log[k].type = "ThesisGraded" /\ log[k].of = t
                                       /\ log[k].outcome = grade.outcome
                                       /\ log[k].ts = grade.graded_ts
                                       /\ log[k].pnl = grade.pnl \/ \E i \in Ignored(t) : i < k

(* A series reads complete, and clean, as policy reads it at the log's own *)
(* clock, but for the instant its window closes, where the two differ.     *)
SeriesAgree ==
  \A row \in SeriesRows(log) :
    LET a == row[1]
        s == row[2] IN
      now # (s + 1) * WindowLen =>
        /\ SeriesComplete(log, a, s) = Policy(History(a), Violations(a))!Complete(s, now)
        /\ SeriesClean(log, a, s) = Policy(History(a), Violations(a))!Clean(s, now)

(* The results of all days add up to the grades the theses have, one each, *)
(* unless the row of a thesis ignored one.                                 *)
DailyPnlAgrees ==
  \A a \in Accounts :
    (\A t \in Owned(log, a) : Ignored(t) = {}) =>
      Total(Gradings(log, a)) =
        MapThenSumSet(LAMBDA t : LET grade == LatestGrade(Len(log), t) IN IF grade = None THEN 0 ELSE Cash(grade),
                      Owned(log, a))

(* The tier of the read model is policy's, unless a demotion is stamped no *)
(* later than the confirmation before it; and the broker's principal is    *)
(* policy's, unless the account was created twice at once.                 *)
AccountsAgree ==
  \A a \in Accounts :
    LET history == OfPromotion(log, a) IN
      /\ (\A j, k \in DOMAIN history : j < k => history[j].ts < history[k].ts) =>
           PromotionState(log, a) = CurrentTier(a)
      /\ a \notin raced /\ Created(log, a) # << >> =>
           BrokerPrincipal(a) = PolicyPrincipal(a) /\ AccountRow(log, a) = PolicyPrincipal(a)

(* What a rebuild makes of the log is what the live verbs make of it.  The *)
(* log alone tells, so it is looked at when none of it is under way and no *)
(* time has passed since its last stamp.                                   *)
ProjectionsAgree ==
  Writing = {} /\ (\E k \in DOMAIN log : log[k].ts = now) =>
    ThesesAgree /\ SeriesAgree /\ DailyPnlAgrees /\ AccountsAgree
=============================================================================
