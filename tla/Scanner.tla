------------------------------- MODULE Scanner -------------------------------
(***************************************************************************)
(* scan_markets (mae/_scanner.py): every symbol on every timeframe goes    *)
(* through the filters in the pinned order and then the regime gate; and   *)
(* the gate lines of the audit trace (mae/_scan_trace.py).                 *)
(*                                                                         *)
(* An indicator is what a filter makes of it: short of bars, passing or    *)
(* failing; a tag is its family.  What asks the market may raise, which    *)
(* ends the scan with no result and no trace.                              *)
(***************************************************************************)
EXTENDS Integers, Sequences

CONSTANTS
  Sets,    \* sets of filters a scan may be given
  MaxPairs \* bound: symbols times timeframes

(* The order of the checks; rsi_max and rsi_min are one check, and         *)
(* bb_position is one by either name.                                      *)
CHECKS ==
  [ema_above |-> 1, rsi |-> 2, rsi_band |-> 3, macd_signal |-> 4, bb_position |-> 5, bb_inside |-> 6,
   volume_spike |-> 7, atr_percentile |-> 8]

(* _TAG_STRATEGY. *)
Family ==
  [ema_above |-> "momentum", rsi |-> "mean_reversion", rsi_band |-> "momentum", macd_signal |-> "momentum",
   bb_position |-> "mean_reversion", bb_inside |-> "none", volume_spike |-> "breakout",
   atr_percentile |-> "breakout"]

(* What a regime recommends.                                               *)
Recommends == { {"momentum", "breakout"}, {"mean_reversion"}, {} }

Unasked == {"unasked"}

VARIABLES
  symbols, timeframes, present, gate, audit, \* the arguments: how many, which filters
  symbol, timeframe, \* the pair at hand
  regimes,   \* the regime cache
  asked,     \* compute_regime calls made for each symbol
  given,     \* what each filter made of each pair so far
  matches, warnings, attrition,
  trace,     \* the verdicts the trace shows, per pair
  outcome

vars == <<symbols, timeframes, present, gate, audit, symbol, timeframe, regimes, asked, given, matches,
          warnings, attrition, trace, outcome>>

args == <<symbols, timeframes, present, gate, audit>>

results == <<regimes, asked, given, matches, warnings, attrition, trace>>

Modes == {"off", "on", "exhaustive"}

Init ==
  /\ symbols \in 1 .. MaxPairs /\ timeframes \in 1 .. MaxPairs /\ symbols * timeframes <= MaxPairs
  /\ present \in Sets /\ gate \in BOOLEAN /\ audit \in Modes /\ symbol = 1 /\ timeframe = 1
  /\ regimes = [s \in 1 .. MaxPairs |-> Unasked] /\ asked = [s \in 1 .. MaxPairs |-> 0]
  /\ given = << >> /\ matches = << >> /\ warnings = << >> /\ attrition = << >> /\ trace = << >>
  /\ outcome = "running"

-----------------------------------------------------------------------------
First(filters) == CHOOSE f \in filters : \A g \in filters : CHECKS[f] <= CHECKS[g]

Last(filters) == CHOOSE f \in filters : \A g \in filters : CHECKS[g] <= CHECKS[f]

(* What kills: the first filter short of bars, whatever the checks say;    *)
(* else the first that fails.                                              *)
Short(verdicts) == {f \in present : verdicts[f] = "short"}

Failing(verdicts) == {f \in present : verdicts[f] = "fail"}

(* Faulty: the last failure of an exhaustive scan is the killer.           *)
KillerLast(verdicts) ==
  IF Short(verdicts) # {} THEN "bars"
  ELSE IF Failing(verdicts) = {} THEN "none"
  ELSE IF audit = "exhaustive" THEN Last(Failing(verdicts)) ELSE First(Failing(verdicts))

Killer(verdicts) ==
  IF Short(verdicts) # {} THEN "bars"
  ELSE IF Failing(verdicts) = {} THEN "none" ELSE First(Failing(verdicts))

(* The candidate was dead before the check.                                *)
Dead(verdicts, f) == Killer(verdicts) # "none" /\ CHECKS[Killer(verdicts)] < CHECKS[f]

(* Up to the killer, or all of them when the scan is exhaustive.           *)
Evaluated(verdicts, f) ==
  Killer(verdicts) # "bars" /\ f \in present /\ (audit = "exhaustive" \/ ~Dead(verdicts, f))

(* What a stage shows: its outcome, marked once the candidate was dead.    *)
Mark(ok, dead) == IF dead THEN IF ok THEN "would pass" ELSE "would fail" ELSE IF ok THEN "PASS" ELSE "FAIL"

Names == DOMAIN CHECKS \union {"bars", "regime_gate"}

(* The stages of a candidate, the regime gate among them if it got there.  *)
Stages(verdicts, gated, taken) ==
  [name \in Names |->
     CASE name = "bars" -> Mark(Killer(verdicts) # "bars", FALSE)
       [] name = "regime_gate" -> IF gated THEN Mark(~taken, FALSE) ELSE "absent"
       [] OTHER -> IF Evaluated(verdicts, name) THEN Mark(verdicts[name] = "pass", Dead(verdicts, name))
                   ELSE "absent"]

(* _apply_regime_gate: a tag of no family survives.                        *)
Pruned(tags, regime) == {t \in tags : Family[t] = "none" \/ Family[t] \in regime}

(* Faulty: the first regime of the scan serves every symbol.               *)
CachedForScan(s) == IF \E u \in DOMAIN regimes : regimes[u] # Unasked
                    THEN regimes[CHOOSE u \in DOMAIN regimes : regimes[u] # Unasked] ELSE Unasked

Cached(s) == regimes[s]

-----------------------------------------------------------------------------
(* The trace has a line for every gate it knows, whatever the filters; it  *)
(* knows neither ema_above nor rsi_band.                                   *)
GATE_ORDER ==
  {"bars", "rsi", "macd_signal", "bb_position", "bb_inside", "volume_spike", "atr_percentile", "regime_gate"}

Line(name, stages) ==
  IF stages[name] # "absent" THEN stages[name]
  ELSE IF name = "regime_gate" /\ gate THEN "not reached" ELSE "no filter"

Lines(stages) == [name \in GATE_ORDER |-> Line(name, stages)]

-----------------------------------------------------------------------------
Match(tags) == [symbol |-> symbol, timeframe |-> timeframe, tags |-> tags]

Entry(stages, killer) ==
  [symbol |-> symbol, timeframe |-> timeframe, stages |-> stages, killed_by |-> killer]

(* One pair, done: its bars, its filters, and for a match the regime gate, *)
(* whose regime is asked once for the symbol.                              *)
Pair(verdicts, answer) ==
  LET killer == Killer(verdicts)
      gated == killer = "none" /\ gate
      regime == IF Cached(symbol) = Unasked THEN answer ELSE Cached(symbol)
      kept == IF gated THEN Pruned(present, regime) ELSE present
      taken == gated /\ present # {} /\ kept = {}
      stages == Stages(verdicts, gated, taken) IN
    /\ outcome = "running" /\ symbol <= symbols
    /\ IF timeframe < timeframes THEN timeframe' = timeframe + 1 /\ UNCHANGED symbol
                                 ELSE timeframe' = 1 /\ symbol' = symbol + 1
    /\ given' = Append(given, verdicts)
    /\ IF gated
       THEN /\ regimes' = [regimes EXCEPT ![symbol] = regime]
            /\ asked' = IF Cached(symbol) = Unasked THEN [asked EXCEPT ![symbol] = @ + 1] ELSE asked
       ELSE UNCHANGED <<regimes, asked>>
    /\ warnings' = IF killer # "bars" THEN warnings
                   ELSE Append(warnings, [symbol |-> symbol, timeframe |-> timeframe, filter |-> First(Short(verdicts))])
    /\ matches' = IF killer = "none" THEN Append(matches, Match(kept)) ELSE matches
    /\ attrition' = Append(attrition, Entry(stages, IF taken THEN "regime_gate" ELSE killer))
    /\ trace' = IF audit = "off" THEN trace ELSE Append(trace, Lines(stages))
    /\ UNCHANGED <<args, outcome>>

(* The bars or the regime of the pair cannot be had.                       *)
Raise ==
  /\ outcome = "running" /\ symbol <= symbols
  /\ outcome' = "raised" /\ UNCHANGED <<args, symbol, timeframe, results>>

Return ==
  /\ outcome = "running" /\ symbol > symbols
  /\ outcome' = "returned" /\ UNCHANGED <<args, symbol, timeframe, results>>

(* The rsi and the rsi band are of one indicator.                          *)
Verdicts ==
  {v \in [present -> {"short", "pass", "fail"}] :
     {"rsi", "rsi_band"} \subseteq present => (v["rsi"] = "short") = (v["rsi_band"] = "short")}

Next ==
  \/ \E verdicts \in Verdicts, answer \in Recommends : Pair(verdicts, answer)
  \/ Raise
  \/ Return

Spec == Init /\ [][Next]_vars

-----------------------------------------------------------------------------
Marks == {"PASS", "FAIL", "would pass", "would fail"}

TypeOK ==
  /\ symbols \in 1 .. MaxPairs /\ timeframes \in 1 .. MaxPairs
  /\ present \in Sets /\ gate \in BOOLEAN /\ audit \in Modes
  /\ symbol \in 1 .. symbols + 1 /\ timeframe \in 1 .. timeframes
  /\ regimes \in [1 .. MaxPairs -> Recommends \union {Unasked}] /\ asked \in [1 .. MaxPairs -> Nat]
  /\ given \in Seq(Verdicts)
  /\ matches \in Seq([symbol : 1 .. symbols, timeframe : 1 .. timeframes, tags : SUBSET present])
  /\ warnings \in Seq([symbol : 1 .. symbols, timeframe : 1 .. timeframes, filter : present])
  /\ attrition \in Seq([symbol : 1 .. symbols, timeframe : 1 .. timeframes, stages : [Names -> Marks \union {"absent"}],
                        killed_by : Names \union {"none"}])
  /\ trace \in Seq([GATE_ORDER -> Marks \union {"not reached", "no filter"}])
  /\ outcome \in {"running", "raised", "returned"}

(* What was found of the pair of the kth line of the attrition.            *)
Of(found, k) ==
  {n \in DOMAIN found : found[n].symbol = attrition[k].symbol /\ found[n].timeframe = attrition[k].timeframe}

Accounted(k) ==
  LET entry == attrition[k]
      fails == {f \in present : given[k][f] # "pass"}
      short == \E f \in present : given[k][f] = "short" IN
    /\ k = (entry.symbol - 1) * timeframes + entry.timeframe
    /\ (Of(matches, k) = {}) = (fails # {}) /\ \A m, n \in Of(matches, k) : m = n
    /\ short = (Of(warnings, k) # {})
    /\ fails # {} => IF short THEN entry.killed_by = "bars"
                     ELSE entry.killed_by \in fails /\ \A f \in fails : CHECKS[entry.killed_by] <= CHECKS[f]
    /\ \A m \in Of(matches, k) :
         /\ matches[m].tags = {f \in present : gate => Family[f] = "none" \/ Family[f] \in regimes[entry.symbol]}
         /\ entry.killed_by = IF matches[m].tags = {} /\ present # {} THEN "regime_gate" ELSE "none"

AskedOnce(s) == asked[s] <= 1 /\ (asked[s] = 0) = (regimes[s] = Unasked)

(* The answer of a scan is that of its arguments and of the market, and    *)
(* not of its audit: a pair matches just when no filter is short or        *)
(* fails; its tags are those of its filters the one regime read of its     *)
(* symbol recommends; the first failing filter is its killer, or the gate  *)
(* that left a match no tag, which stays in the matches all the same; the  *)
(* pairs short of bars are the warnings; and each pair is accounted for    *)
(* once, in order.                                                         *)
ScanIsItsFilters ==
  /\ \A s \in 1 .. symbols : AskedOnce(s)
  /\ Len(attrition) = Len(given)
  /\ \A k \in DOMAIN given : Accounted(k)

Told(k) ==
  LET killer == attrition[k].killed_by IN
    /\ {name \in GATE_ORDER : trace[k][name] = "FAIL"} = GATE_ORDER \intersect {killer}
    /\ audit = "exhaustive" /\ killer # "bars" =>
         \A name \in GATE_ORDER \intersect present : trace[k][name] # "no filter"

(* A trace shows for each pair that was killed the one gate that killed    *)
(* it, when it knows that gate, and marks what only an exhaustive scan     *)
(* looked at; an exhaustive one has a verdict on every filter it knows     *)
(* that was given, unless the pair was short of bars.                      *)
TraceTells == \A k \in DOMAIN trace : Told(k)

-----------------------------------------------------------------------------
(* The inductive invariant.  The pair at hand is the next in the order,    *)
(* and what was found is of pairs before it.                               *)
Place(pair) == (pair.symbol - 1) * timeframes + pair.timeframe

InOrder ==
  /\ Len(given) + 1 = (symbol - 1) * timeframes + timeframe
  /\ Len(trace) = IF audit = "off" THEN 0 ELSE Len(given)
  /\ \A n \in DOMAIN matches : Place(matches[n]) \in DOMAIN given
  /\ \A n \in DOMAIN warnings : Place(warnings[n]) \in DOMAIN given

(* The regime of a match was asked for, and stays.                         *)
RegimeRead ==
  gate => \A k \in DOMAIN given : given[k] = [f \in present |-> "pass"] => regimes[attrition[k].symbol] # Unasked

ScannerInv == TypeOK /\ InOrder /\ RegimeRead /\ ScanIsItsFilters /\ TraceTells
=============================================================================
