----------------------------- MODULE RegimeModel -----------------------------
(***************************************************************************)
(* The regime of a symbol (mae/_regime.py, compute_regime): a hidden       *)
(* Markov model is fitted on the closed daily bars, kept in two files, the *)
(* pickled model and its JSON sidecar, and used again for a week.  The     *)
(* scan and the callers of get_regime run in processes of their own over   *)
(* the same two files, ask for different numbers of states, and can be     *)
(* killed between any two writes; a file is cut to nothing before it is    *)
(* written.                                                                *)
(***************************************************************************)
EXTENDS Integers

CONSTANTS
  Callers,    \* processes
  StaleAfter, \* _STALE_AFTER_DAYS
  MaxDay,     \* bound: the calendar
  MaxKills    \* bound: calls killed

States == {2, 3}   \* n_states; anything else is refused

VARIABLES
  day,
  pkl, json, \* the two files: the fit they are of, or Missing or Torn
  call,      \* [Callers -> the call under way, or the last one]
  kills

vars == <<day, pkl, json, call, kills>>

Fit(n, d) == [n |-> n, day |-> d]

Missing == Fit(0, 0)

Torn == Fit(0, 1)

Whole(f) == f.n # 0

Fits == {Missing, Torn} \union [n : States, day : 0 .. MaxDay]

Idle == [step |-> "idle", n |-> 2, now |-> 0, model |-> Missing, mixed |-> FALSE, method |-> "none"]

Steps == {"idle", "model", "sidecar", "fit", "cut pkl", "write pkl", "cut json", "write json", "use", "done"}

TypeOK ==
  /\ day \in 0 .. MaxDay /\ pkl \in Fits /\ json \in Fits
  /\ call \in [Callers -> [step : Steps, n : States, now : 0 .. MaxDay, model : Fits, mixed : BOOLEAN,
                           method : {"none", "rules", "hmm", "ewma_override"}]]
  /\ kills \in 0 .. MaxKills

Init == /\ day = 0 /\ pkl = Missing /\ json = Missing
        /\ call = [c \in Callers |-> Idle] /\ kills = 0

At(c, step) == call[c].step = step

Goes(c, step) == call' = [call EXCEPT ![c].step = step]

NextDay == /\ day < MaxDay /\ day' = day + 1
           /\ UNCHANGED <<pkl, json, call, kills>>

-----------------------------------------------------------------------------
(* _rules_fallback: volatility percentile and ADX of the bars at hand, no  *)
(* model and no number of states.                                          *)
ByRules == [Idle EXCEPT !.step = "done", !.method = "rules"]

(* Fewer than 60 closed bars: the rules answer, the files are not looked   *)
(* at.                                                                     *)
Ask(c, n, enough) ==
  /\ call[c].step \in {"idle", "done"}
  /\ LET asked == [Idle EXCEPT !.step = "model", !.n = n, !.now = day] IN
       call' = [call EXCEPT ![c] = IF enough THEN asked ELSE ByRules]
  /\ UNCHANGED <<day, pkl, json, kills>>

(* _load_artifact: both files are there, then the model and then the       *)
(* sidecar are read; one that makes no sense is as good as none.           *)
LoadModel(c) ==
  /\ At(c, "model")
  /\ IF Missing \in {pkl, json} \/ ~Whole(pkl)
     THEN Goes(c, "fit")
     ELSE call' = [call EXCEPT ![c].step = "sidecar", ![c].model = pkl]
  /\ UNCHANGED <<day, pkl, json, kills>>

IsStaleNever(fitted, now) == FALSE

IsStale(fitted, now) == now - fitted > StaleAfter

LoadSidecar(c) ==
  /\ At(c, "sidecar")
  /\ LET usable == Whole(json) /\ json.n = call[c].n /\ ~IsStale(json.day, call[c].now) IN
       call' = [call EXCEPT ![c].step = IF usable THEN "use" ELSE "fit",
                            ![c].mixed = usable /\ json # call[c].model]
  /\ UNCHANGED <<day, pkl, json, kills>>

(* _fit_hmm: one that raises or does not converge leaves the rules to      *)
(* answer, and the files as they are.                                      *)
Refit(c, converges) ==
  /\ At(c, "fit")
  /\ call' = [call EXCEPT ![c] =
       IF converges THEN [call[c] EXCEPT !.step = "cut pkl", !.model = Fit(call[c].n, call[c].now)]
                    ELSE ByRules]
  /\ UNCHANGED <<day, pkl, json, kills>>

(* _persist_artifact: write_bytes, then write_text.                        *)
PersistModel(c) ==
  \/ /\ At(c, "cut pkl") /\ pkl' = Torn
     /\ Goes(c, "write pkl")
     /\ UNCHANGED <<day, json, kills>>
  \/ /\ At(c, "write pkl") /\ pkl' = call[c].model
     /\ Goes(c, "cut json")
     /\ UNCHANGED <<day, json, kills>>

PersistSidecar(c) ==
  \/ /\ At(c, "cut json") /\ json' = Torn
     /\ Goes(c, "write json")
     /\ UNCHANGED <<day, pkl, kills>>
  \/ /\ At(c, "write json") /\ json' = Fit(call[c].n, call[c].now)
     /\ Goes(c, "use")
     /\ UNCHANGED <<day, pkl, kills>>

(* Of the state the model decodes: its label and its tags, unless the      *)
(* moving volatility of the last 30 days is beyond three deviations of the *)
(* model's calm state, which is looked at on every call.                   *)
ByModel(answer, override) ==
  [answer EXCEPT !.step = "done", !.method = IF override THEN "ewma_override" ELSE "hmm"]

Use(c, override) ==
  /\ At(c, "use")
  /\ call' = [call EXCEPT ![c] = ByModel(call[c], override)]
  /\ UNCHANGED <<day, pkl, json, kills>>

Kill(c) ==
  /\ call[c].step \notin {"idle", "done"} /\ kills < MaxKills
  /\ kills' = kills + 1
  /\ call' = [call EXCEPT ![c] = Idle]
  /\ UNCHANGED <<day, pkl, json>>

Next ==
  \/ NextDay
  \/ \E c \in Callers :
       \/ \E n \in States, enough \in BOOLEAN : Ask(c, n, enough)
       \/ LoadModel(c) \/ LoadSidecar(c)
       \/ \E converges \in BOOLEAN : Refit(c, converges)
       \/ PersistModel(c) \/ PersistSidecar(c)
       \/ \E override \in BOOLEAN : Use(c, override)
       \/ Kill(c)

Spec == Init /\ [][Next]_vars

-----------------------------------------------------------------------------
(* Whoever wrote the files and whoever was killed while writing them, an   *)
(* answer of the model comes from a model of the number of states asked    *)
(* for that is a week old at most, unless the call read the model of one   *)
(* fit with the sidecar of another.                                        *)
RegimeIsCurrent ==
  \A c \in Callers :
    At(c, "done") /\ call[c].method # "rules" =>
      \/ call[c].mixed
      \/ /\ call[c].model.n = call[c].n
         /\ call[c].now - call[c].model.day <= StaleAfter

(* What RegimeIsCurrent rests on: so is the model a call is about to use or *)
(* to keep, and nothing is mixed before the sidecar was read.               *)
Fresh(c) ==
  \/ call[c].mixed
  \/ call[c].model.n = call[c].n /\ call[c].now - call[c].model.day <= StaleAfter

IInv ==
  /\ TypeOK
  /\ \A c \in Callers :
       /\ call[c].step \in {"cut pkl", "write pkl", "cut json", "write json", "use"} => Fresh(c)
       /\ At(c, "done") /\ call[c].method # "rules" => Fresh(c)
=============================================================================
