------------------------------- MODULE Grading -------------------------------
(***************************************************************************)
(* Grading one active thesis against the market (thesis/_grading.py,       *)
(* thesis/_grade_wiring.py, mae/_runtime.get_closed_bars) while time       *)
(* passes, bars open, move and close, and grade() is called at moments     *)
(* nobody fixes.  Time is in ticks; the clock and the bar series are the   *)
(* market's, the verdict is the ledger's.                                  *)
(*                                                                         *)
(* Bar i opens at i * BarLen and closes at (i + 1) * BarLen.  Prices are   *)
(* abstracted to which price predicates a bar satisfies so far; a bar that *)
(* has not closed may still change (a price_close may come and go).        *)
(***************************************************************************)
EXTENDS Integers

CONSTANTS
  BarLen,      \* ticks per bar of the thesis's timeframe
  DayLen,      \* ticks per day, the unit of the fetched window
  Contracts,   \* the criteria a thesis may carry: sets of Predicate
  Activation,  \* activation_ts
  Horizon,     \* horizon_end
  MaxTime      \* bound: last tick modelled

Categories == {"failure", "invalidation", "success"}

(* A price predicate is live up to its deadline, an expiry from it on. *)
Predicate == [category : Categories, kind : {"price", "expiry"}, by : Nat]

ASSUME GradingAssumption ==
  /\ BarLen \in Nat \ {0}
  /\ DayLen \in Nat \ {0}
  /\ Contracts \subseteq SUBSET Predicate
  /\ Activation \in Nat /\ Horizon \in Nat /\ MaxTime \in Nat
  /\ Activation < Horizon /\ Horizon < MaxTime

VARIABLES
  contract,  \* the thesis's criteria
  now,       \* mae._runtime.clock()
  bars,      \* [0 .. last -> SUBSET contract], bars opened so far
  verdict    \* outcome of the ThesisGraded event, "PENDING" before it

gvars == <<contract, now, bars, verdict>>

Open(i) == i * BarLen

Close(i) == (i + 1) * BarLen

(* What a bar may satisfy: any of the contract's price predicates. *)
Moves == SUBSET {p \in contract : p.kind = "price"}

GTypeOK == /\ contract \in Contracts
           /\ now \in 0 .. MaxTime
           /\ bars \in [0 .. now \div BarLen -> SUBSET contract]
           /\ verdict \in {"PENDING", "PASS", "FAIL", "VOID"}

GInit == /\ contract \in Contracts
         /\ now = 0
         /\ \E hits \in Moves : bars = [i \in {0} |-> hits]
         /\ verdict = "PENDING"
-----------------------------------------------------------------------------
(* The core.                                                               *)

(* evaluate_criteria's deadline tests, on the time a bar closes: a price    *)
(* predicate past its deadline never resurrects.                            *)
Live(p, i) == IF p.kind = "expiry" THEN Close(i) >= p.by ELSE Close(i) <= p.by

(* The categories bar i triggers. *)
Hits(i) == {p.category : p \in {q \in contract : Live(q, i) /\ (q.kind = "expiry" \/ q \in bars[i])}}

(* Faulty: a bar that hits a target and a stop counts for the agent. *)
WinnerSuccessFirst(hits) == IF "success" \in hits THEN "PASS"
                            ELSE IF "failure" \in hits THEN "FAIL" ELSE "VOID"

(* Within one bar: failure before invalidation before success. *)
Winner(hits) == IF "failure" \in hits THEN "FAIL"
                ELSE IF "invalidation" \in hits THEN "VOID" ELSE "PASS"

(* Faulty: a horizon nothing happened by leaves the thesis open. *)
AtHorizonPending == "PENDING"

AtHorizon == IF now >= Horizon THEN "FAIL" ELSE "PENDING"

First(indexes) == CHOOSE i \in indexes : \A j \in indexes : i <= j

(* The loop over a series of bars, broken off at the first one still open   *)
(* and left at the first one that triggers anything.                        *)
Evaluate(series) ==
  LET read     == {i \in series : \A j \in series : j <= i => Close(j) <= now}
      deciding == {i \in read : Hits(i) # {}}
  IN IF deciding = {} THEN AtHorizon ELSE Winner(Hits(First(deciding)))

(* Faulty: rounded down. *)
LookbackDaysFloor == (now - Activation) \div DayLen

(* lookback_days_covering: whole days, rounded up. *)
LookbackDays == (now - Activation + DayLen - 1) \div DayLen

(* get_closed_bars over the lookback: bars that opened since and have       *)
(* closed.                                                                  *)
WindowStart == now - LookbackDays * DayLen

Fetched == {i \in DOMAIN bars : Open(i) >= WindowStart /\ Close(i) <= now}

Graded == Evaluate(Fetched)
-----------------------------------------------------------------------------
(* Time. *)
Last == CHOOSE i \in DOMAIN bars : \A j \in DOMAIN bars : j <= i

(* A tick: the open bar moves, or closes and the next one opens. *)
Tick == /\ now < MaxTime
        /\ now' = now + 1
        /\ IF now + 1 < Close(Last)
           THEN \E hits \in Moves : bars' = [bars EXCEPT ![Last] = hits]
           ELSE \E hits \in Moves :
                  bars' = [i \in 0 .. Last + 1 |-> IF i = Last + 1 THEN hits ELSE bars[i]]
        /\ UNCHANGED <<contract, verdict>>

(* grade(): legal while active; a PENDING outcome raises and appends        *)
(* nothing.                                                                 *)
GradeNow == /\ now >= Activation
            /\ verdict = "PENDING"
            /\ Graded # "PENDING"
            /\ verdict' = Graded
            /\ UNCHANGED <<contract, now, bars>>

(* The bound on time is reached. *)
Done == /\ now = MaxTime
        /\ UNCHANGED gvars

GNext == Tick \/ GradeNow \/ Done

GSpec == GInit /\ [][GNext]_gvars

(* Time passes, and the hourly run grades what it can. *)
GFairSpec == GSpec /\ WF_gvars(Tick) /\ WF_gvars(GradeNow)
-----------------------------------------------------------------------------
(* Properties. *)

(* Looking back from now: the closed bars that triggered anything, of those  *)
(* opened at `start` or after, and what the first of them decides, resolved  *)
(* against the agent.                                                       *)
Since(start) == {i \in DOMAIN bars : Open(i) >= start /\ Close(i) <= now /\ Hits(i) # {}}

Resolved(i) == IF \E p \in contract : p.category = "failure" /\ Live(p, i)
                     /\ (p.kind = "price" => p \in bars[i])
               THEN "FAIL"
               ELSE IF "invalidation" \in Hits(i) THEN "VOID" ELSE "PASS"

(* What hindsight allows for bars opened since `start`.  A trigger by the    *)
(* horizon is the only outcome; past it, a call before the first late bar    *)
(* that triggers (an expiry between two closes) found the horizon expired.   *)
Hindsight(start) ==
  LET triggers == Since(start)
      decided  == IF triggers = {} THEN {} ELSE {Resolved(First(triggers))}
  IN IF now < Horizon \/ \E i \in triggers : Close(i) <= Horizon
     THEN decided ELSE decided \cup {"FAIL"}

(* A verdict is one hindsight gives for the bars since some instant less     *)
(* than a day before the activation, and stays so whatever the market does   *)
(* after it.  How much of that day is looked at depends on the time of day   *)
(* grade() ran: whole days are fetched back from now, and nothing drops the  *)
(* bars before the activation (lookback_days_covering, evaluate).            *)
VerdictStands == verdict # "PENDING" =>
  \E start \in (Activation - DayLen) + 1 .. Activation : verdict \in Hindsight(start)

(* Not a property of the code.  docs/DESIGN.md, section 10.2: a grade is     *)
(* computed from the bars "from thesis activation" on.  A bar that opened    *)
(* before the activation may decide, or not, by the time grade() is called.  *)
FromActivation == verdict # "PENDING" => verdict \in Hindsight(Activation)

(* Whole days fetched back from now reach every bar since activation, at    *)
(* any time of day grade() runs (lookback_days_covering).                   *)
WindowCovers ==
  /\ GTypeOK
  /\ now >= Activation =>
       \A i \in DOMAIN bars : Open(i) >= Activation /\ Close(i) <= now => i \in Fetched

(* Every active thesis is graded in the end: once the horizon has passed no  *)
(* call of grade() finds it pending.                                        *)
EventuallyGraded == <>(verdict # "PENDING")
=============================================================================
