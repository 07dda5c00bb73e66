----------------------------- MODULE DeskProofs -----------------------------
(***************************************************************************)
(* Theorems about Desk, for any pairs, any number of theses and of faults: *)
(* type correctness, StandsOnce, FlatWhenGraded and NothingUnreported.     *)
(***************************************************************************)
EXTENDS Desk, FiniteSetTheorems, TLAPS

Stands(t) == state[t] = "active" \/ t \in held[symbol[t]]

(* StandsOnce without the count. *)
StandsAlone == \A t, u \in entered :
  symbol[t] = symbol[u] /\ Stands(t) /\ Stands(u) => t = u

(* Who drafted a thesis is known, and the cadence bought only its own. *)
Owned == /\ \A t \in Ids : origin[t] = "nobody" <=> state[t] = NoState
         /\ \A t \in entered : origin[t] = "cadence"

Confirming == {"submit", "review", "binding", "reject", "approve", "execute"}

(* States no buy starts from and none comes back from. *)
Past == {"active"} \cup Outcomes

(* What a run knows of the pairs: at the scan the projection shows every    *)
(* active thesis it bought; past it, every thesis it bought that stands,    *)
(* but the one in hand, has its pair in the skip set; the thesis in hand    *)
(* has not, and is bought only by the last step.                            *)
EntriesCarried ==
  /\ run.step = "scan" => \A t \in entered : state[t] = "active" => t \in run.active
  /\ run.step \in Confirming \cup {"entries", "activate"} =>
       \A t \in entered : t # run.thesis /\ Stands(t) => symbol[t] \in run.skip
  /\ run.step \in Confirming \cup {"activate"} =>
       origin[run.thesis] = "cadence" /\ symbol[run.thesis] \notin run.skip
  /\ run.step \in Confirming => run.thesis \notin entered

(* What it knows of the exits: a thesis it looks at is past its buy, one    *)
(* whose pair showed no position holds nothing, nor does one it grades.     *)
ExitsCarried ==
  /\ \A t \in run.active : state[t] \in Past
  /\ run.step \notin {"idle", "scan"} =>
       \A t \in run.active \cap entered : symbol[t] \notin run.open => t \notin held[symbol[t]]
  /\ run.step = "grade" =>
       /\ state[run.thesis] \in Past
       /\ run.thesis \in entered => run.thesis \notin held[symbol[run.thesis]]

IInv == /\ TypeOK /\ Owned /\ EntriesCarried /\ ExitsCarried
        /\ StandsAlone /\ FlatWhenGraded /\ NothingUnreported
-----------------------------------------------------------------------------
(* The table of ThesisMachine, with its CHOOSE resolved. *)
LEMMA SimpleTargetsAre ==
  ASSUME NEW s \in States, NEW type \in SimpleMarkers
  PROVE  SimpleTargets(s, type) =
           CASE type = "ThesisSubmitted" -> IF s = "draft" THEN {"submitted"} ELSE {}
             [] type = "ThesisApproved" -> IF s = "reviewed" THEN {"approved"} ELSE {}
             [] type = "ThesisRejected" -> IF s = "reviewed" THEN {"rejected"} ELSE {}
             [] type = "ThesisActivated" -> IF s = "approved" THEN {"active"} ELSE {}
BY DEF SimpleTargets, SimpleTransitions, SimpleMarkers, States, Terminal, Outcomes, NoState

LEMMA NextStates ==
  ASSUME NEW s \in States
  PROVE  /\ NextState(s, Marker("ThesisDrafted")) = "draft"
         /\ NextState(s, Marker("ThesisSubmitted")) = IF s = "draft" THEN "submitted" ELSE s
         /\ NextState(s, Marker("ThesisApproved")) = IF s = "reviewed" THEN "approved" ELSE s
         /\ NextState(s, Marker("ThesisRejected")) = IF s = "reviewed" THEN "rejected" ELSE s
         /\ NextState(s, Marker("ThesisActivated")) = IF s = "approved" THEN "active" ELSE s
         /\ NextState(s, Review("thesis_review")) = IF s = "submitted" THEN "reviewed" ELSE s
         /\ NextState(s, Grading("PASS")) = IF s = "active" THEN "PASS" ELSE s
<1>1. NextState(s, Marker("ThesisSubmitted")) = IF s = "draft" THEN "submitted" ELSE s
  BY SimpleTargetsAre DEF NextState, Marker, SimpleMarkers, States
<1>2. NextState(s, Marker("ThesisApproved")) = IF s = "reviewed" THEN "approved" ELSE s
  BY SimpleTargetsAre DEF NextState, Marker, SimpleMarkers, States
<1>3. NextState(s, Marker("ThesisRejected")) = IF s = "reviewed" THEN "rejected" ELSE s
  BY SimpleTargetsAre DEF NextState, Marker, SimpleMarkers, States
<1>4. NextState(s, Marker("ThesisActivated")) = IF s = "approved" THEN "active" ELSE s
  BY SimpleTargetsAre DEF NextState, Marker, SimpleMarkers, States
<1>5. NextState(s, Marker("ThesisDrafted")) = "draft"
  BY DEF NextState, Marker, SimpleMarkers
<1>6. NextState(s, Review("thesis_review")) = IF s = "submitted" THEN "reviewed" ELSE s
  BY DEF NextState, Review, SimpleMarkers
<1>7. NextState(s, Grading("PASS")) = IF s = "active" THEN "PASS" ELSE s
  BY DEF NextState, Grading, SimpleMarkers
<1> QED BY <1>1, <1>2, <1>3, <1>4, <1>5, <1>6, <1>7
-----------------------------------------------------------------------------
(* Steps of the cadence process alone: theses, money and digest stay, and   *)
(* the thesis in hand goes nowhere unless a warning names it.               *)
LEMMA RunMoves ==
  ASSUME IInv, UNCHANGED <<theses, due, money, swept, digest>>,
         TypeOK', EntriesCarried', ExitsCarried', InRun \subseteq InRun'
  PROVE  IInv'
BY DEF IInv, theses, money, digest, Owned, StandsAlone, Stands, FlatWhenGraded, NothingUnreported

LEMMA IdsAreNot0 == 0 \notin Ids
BY DEF Ids

LEMMA InductiveStep == IInv /\ [Next]_vars => IInv'
<1> SUFFICES ASSUME IInv, [Next]_vars PROVE IInv'
  OBVIOUS
<1> USE DeskAssumption DEF None
<1>1. CASE Begin
  <2>1. /\ UNCHANGED <<theses, due, money, swept, digest>> /\ TypeOK'
        /\ EntriesCarried' /\ ExitsCarried' /\ InRun \subseteq InRun'
    BY <1>1 DEF Begin, At, IInv, TypeOK, theses, money, digest, EntriesCarried, ExitsCarried,
         InRun, Stands, Active, Past, RunSteps, Confirming, Ids
  <2> QED BY <2>1, RunMoves
<1>2. CASE Scan
  <2>1. PICK tickets \in SUBSET Walkable :
          run' = [run EXCEPT !.step = "entries", !.todo = tickets,
                             !.skip = Open \cup SymbolsOf(run.active), !.open = Open]
    BY <1>2 DEF Scan
  <2>2. run.step = "scan" /\ UNCHANGED <<theses, due, money, swept, digest, faults>>
    BY <1>2 DEF Scan, At
  <2>3. Open \subseteq Symbols /\ tickets \subseteq Symbols
    BY <2>1 DEF Open, Walkable
  <2>4. SymbolsOf(run.active) \subseteq Symbols
    BY DEF IInv, TypeOK, ExitsCarried, Past, Outcomes, NoState, SymbolsOf
  <2>5. TypeOK'
    BY <2>1, <2>2, <2>3, <2>4 DEF IInv, TypeOK, theses, money, digest, RunSteps
  <2>6. ASSUME NEW t \in entered, Stands(t) PROVE symbol[t] \in Open \cup SymbolsOf(run.active)
    <3>1. CASE state[t] = "active"
      BY <3>1, <2>2 DEF IInv, EntriesCarried, SymbolsOf
    <3>2. CASE t \in held[symbol[t]]
      <4>1. t \in Ids /\ symbol[t] \in Symbols
        BY DEF IInv, TypeOK, Owned
      <4> QED BY <3>2, <4>1 DEF Open
    <3> QED BY <2>6, <3>1, <3>2 DEF Stands
  <2>7. EntriesCarried'
    BY <2>1, <2>2, <2>6 DEF IInv, TypeOK, theses, money, EntriesCarried, Stands, Confirming
  <2>8. ASSUME NEW t \in run.active, symbol[t] \notin Open PROVE t \notin held[symbol[t]]
    <3>1. symbol[t] \in Symbols
      BY DEF IInv, TypeOK, ExitsCarried, Past, Outcomes, NoState
    <3> QED BY <2>8, <3>1 DEF Open
  <2>9. ExitsCarried' /\ InRun \subseteq InRun'
    BY <2>1, <2>2, <2>8 DEF IInv, TypeOK, theses, money, ExitsCarried, InRun
  <2> QED BY <2>2, <2>5, <2>7, <2>9, RunMoves
<1>3. ASSUME NEW s \in Symbols, SkipTicket(s) PROVE IInv'
  <2>1. /\ UNCHANGED <<theses, due, money, swept, digest>> /\ TypeOK'
        /\ EntriesCarried' /\ ExitsCarried' /\ InRun \subseteq InRun'
    BY <1>3 DEF SkipTicket, At, IInv, TypeOK, theses, money, digest, EntriesCarried, ExitsCarried,
         InRun, Stands, RunSteps, Confirming
  <2> QED BY <2>1, RunMoves
<1>4. ASSUME NEW s \in Symbols, NEW t \in Ids, DraftEntry(s, t) PROVE IInv'
  <2>1. state[t] = NoState /\ NoState \in States
    BY <1>4 DEF DraftEntry, Draft, Unused, States
  <2>2. /\ state' = [state EXCEPT ![t] = "draft"]
        /\ symbol' = [symbol EXCEPT ![t] = s] /\ origin' = [origin EXCEPT ![t] = "cadence"]
    BY <1>4, <2>1, NextStates DEF DraftEntry, Draft
  <2>3. /\ run.step = "entries" /\ s \in run.todo /\ s \notin run.skip /\ run.thesis = 0
        /\ run' = [run EXCEPT !.step = "submit", !.thesis = t, !.todo = @ \ {s}]
        /\ UNCHANGED <<due, money, swept, digest, faults>>
    BY <1>4 DEF DraftEntry, At, IInv, TypeOK, None
  <2>4. t \notin entered /\ t \notin run.active
    BY <2>1 DEF IInv, Owned, ExitsCarried, Past, Outcomes, NoState, TypeOK
  <2>5. TypeOK'
    <3>1. /\ run'.step = "submit" /\ run'.thesis # 0
          /\ run' \in [step : RunSteps, active : SUBSET Ids, todo : SUBSET Symbols,
                       skip : SUBSET Symbols, open : SUBSET Symbols, thesis : Ids \cup {0},
                       warned : SUBSET Ids]
      BY <2>3, IdsAreNot0 DEF IInv, TypeOK, RunSteps
    <3> QED BY <2>1, <2>2, <2>3, <3>1 DEF IInv, TypeOK, money, digest, States, NoState
  <2>6. Owned'
    BY <2>1, <2>2, <2>3, <2>4 DEF IInv, TypeOK, money, Owned, NoState
  <2>7. EntriesCarried'
    BY <2>1, <2>2, <2>3, <2>4 DEF IInv, TypeOK, money, EntriesCarried, Stands, Confirming, Ids
  <2>8. ExitsCarried'
    BY <2>1, <2>2, <2>3, <2>4 DEF IInv, TypeOK, money, ExitsCarried, Past, Outcomes
  <2>9. StandsAlone' /\ FlatWhenGraded'
    BY <2>1, <2>2, <2>3, <2>4 DEF IInv, TypeOK, money, StandsAlone, Stands, FlatWhenGraded
  <2>10. NothingUnreported'
    BY <2>1, <2>2, <2>3, <2>4, IdsAreNot0 DEF IInv, TypeOK, digest, NothingUnreported, InRun
  <2> QED BY <2>5, <2>6, <2>7, <2>8, <2>9, <2>10 DEF IInv
<1>5. CASE SubmitFails \/ ExecuteDenied
  <2>1. /\ run' = [run EXCEPT !.step = "entries", !.thesis = 0, !.warned = @ \cup {run.thesis}]
        /\ run.step \in {"submit", "execute"} /\ run.thesis \in Ids
        /\ UNCHANGED <<theses, due, money, swept, digest, faults>>
    BY <1>5 DEF SubmitFails, ExecuteDenied, Warn, At, IInv, TypeOK
  <2>2. TypeOK'
    BY <2>1 DEF IInv, TypeOK, theses, money, digest, RunSteps
  <2>3. EntriesCarried' /\ ExitsCarried' /\ InRun \subseteq InRun'
    BY <2>1 DEF IInv, TypeOK, theses, money, EntriesCarried, ExitsCarried, InRun, Stands, Confirming
  <2> QED BY <2>1, <2>2, <2>3, RunMoves
<1>6. CASE Binding
  <2>1. /\ UNCHANGED <<theses, due, money, swept, digest>> /\ TypeOK'
        /\ EntriesCarried' /\ ExitsCarried' /\ InRun \subseteq InRun'
    BY <1>6 DEF Binding, Goto, At, IInv, TypeOK, theses, money, digest,
         EntriesCarried, ExitsCarried, InRun, Stands, RunSteps, Confirming
  <2> QED BY <2>1, RunMoves
<1>7. CASE EntriesDone
  <2>1. /\ UNCHANGED <<theses, due, money, swept, digest>> /\ TypeOK'
        /\ EntriesCarried' /\ ExitsCarried' /\ InRun \subseteq InRun'
    BY <1>7 DEF EntriesDone, Goto, At, IInv, TypeOK, theses, money, digest,
         EntriesCarried, ExitsCarried, InRun, Stands, RunSteps, Confirming
  <2> QED BY <2>1, RunMoves
<1>8. ASSUME NEW t \in Ids, NoExit(t) \/ ExitNothing(t) \/ ExitRefused(t) PROVE IInv'
  <2>0. faults' \in 0 .. MaxFaults
    <3>1. faults' = faults \/ (faults < MaxFaults /\ faults' = faults + 1)
      BY <1>8 DEF NoExit, ExitNothing, ExitRefused, Fault
    <3> QED BY <3>1 DEF IInv, TypeOK
  <2>1. /\ run' = [run EXCEPT !.active = @ \ {t}] /\ run.step = "exits"
        /\ UNCHANGED <<theses, due, money, swept, digest>> /\ faults' \in 0 .. MaxFaults
    BY <1>8, <2>0 DEF NoExit, ExitNothing, ExitRefused, Looked, At
  <2>2. TypeOK'
    BY <2>1 DEF IInv, TypeOK, theses, money, digest, RunSteps
  <2>3. EntriesCarried' /\ ExitsCarried' /\ InRun \subseteq InRun'
    BY <2>1 DEF IInv, TypeOK, theses, money, EntriesCarried, ExitsCarried, InRun, Stands, Confirming
  <2> QED BY <2>1, <2>2, <2>3, RunMoves
<1>9. ASSUME NEW t \in Ids, Recover(t) PROVE IInv'
  <2>1. /\ run' = [run EXCEPT !.step = "grade", !.thesis = t, !.active = @ \ {t}]
        /\ run.step = "exits" /\ run.thesis = 0 /\ t \in run.active /\ symbol[t] \notin run.open
        /\ UNCHANGED <<theses, due, money, swept, digest, faults>>
    BY <1>9 DEF Recover, Looked, At, IInv, TypeOK
  <2>2. TypeOK'
    <3>1. /\ run'.step = "grade" /\ run'.thesis # 0
          /\ run' \in [step : RunSteps, active : SUBSET Ids, todo : SUBSET Symbols,
                       skip : SUBSET Symbols, open : SUBSET Symbols, thesis : Ids \cup {0},
                       warned : SUBSET Ids]
      BY <2>1, IdsAreNot0 DEF IInv, TypeOK, RunSteps
    <3> QED BY <2>1, <3>1 DEF IInv, TypeOK, theses, money, digest
  <2>3. EntriesCarried' /\ ExitsCarried' /\ InRun \subseteq InRun'
    BY <2>1 DEF IInv, TypeOK, theses, money, EntriesCarried, ExitsCarried, InRun, Stands, Confirming
  <2> QED BY <2>1, <2>2, <2>3, RunMoves
<1>10. CASE SubmitEntry \/ ReviewEntry
  <2> DEFINE t == run.thesis
  <2>1. t \in Ids /\ state[t] \in States
    BY <1>10 DEF SubmitEntry, ReviewEntry, At, IInv, TypeOK
  <2>2. PICK new \in {"submitted", "reviewed"}, next \in {"review", "binding"} :
          /\ state' = [state EXCEPT ![t] = IF @ = (IF new = "submitted" THEN "draft" ELSE "submitted")
                                           THEN new ELSE @]
          /\ run' = [run EXCEPT !.step = next]
    BY <1>10, <2>1, NextStates DEF SubmitEntry, ReviewEntry, Append, Goto
  <2>3. /\ UNCHANGED <<symbol, origin, due, money, swept, digest, faults>>
        /\ run.step \in {"submit", "review"}
    BY <1>10 DEF SubmitEntry, ReviewEntry, Append, At
  <2>4. TypeOK' /\ Owned'
    BY <2>1, <2>2, <2>3 DEF IInv, TypeOK, Owned, money, digest, RunSteps, States, NoState
  <2>5. EntriesCarried' /\ ExitsCarried'
    BY <2>1, <2>2, <2>3 DEF IInv, TypeOK, money, EntriesCarried, ExitsCarried, Stands,
         Confirming, Past, Outcomes
  <2>6. StandsAlone' /\ FlatWhenGraded' /\ NothingUnreported'
    BY <2>1, <2>2, <2>3 DEF IInv, TypeOK, money, digest, StandsAlone, Stands, FlatWhenGraded,
         NothingUnreported, InRun, Outcomes
  <2> QED BY <2>4, <2>5, <2>6 DEF IInv
<1>11. CASE RejectEntry
  <2> DEFINE t == run.thesis
  <2>1. /\ t \in Ids /\ state[t] = "reviewed" /\ run.step = "reject"
        /\ run' = [run EXCEPT !.step = "entries", !.thesis = 0, !.warned = @ \cup {t}]
        /\ UNCHANGED <<symbol, origin, due, money, swept, digest, faults>>
    BY <1>11 DEF RejectEntry, Append, Warn, At, IInv, TypeOK
  <2>2. state' = [state EXCEPT ![t] = "rejected"]
    BY <1>11, <2>1, NextStates DEF RejectEntry, Append, IInv, TypeOK
  <2>3. TypeOK' /\ Owned'
    BY <2>1, <2>2 DEF IInv, TypeOK, Owned, money, digest, RunSteps, States, Terminal, NoState
  <2>4. EntriesCarried' /\ ExitsCarried'
    BY <2>1, <2>2 DEF IInv, TypeOK, money, EntriesCarried, ExitsCarried, Stands,
         Confirming, Past, Outcomes
  <2>5. StandsAlone' /\ FlatWhenGraded' /\ NothingUnreported'
    BY <2>1, <2>2 DEF IInv, TypeOK, money, digest, StandsAlone, Stands, FlatWhenGraded,
         NothingUnreported, InRun, Outcomes
  <2> QED BY <2>3, <2>4, <2>5 DEF IInv
<1>12. CASE ApproveEntry
  <2> DEFINE t == run.thesis
  <2>1. /\ t \in Ids /\ state[t] = "reviewed" /\ run.step = "approve"
        /\ run' = [run EXCEPT !.step = "execute"]
        /\ UNCHANGED <<symbol, origin, due, money, swept, digest, faults>>
    BY <1>12 DEF ApproveEntry, Append, Goto, At, IInv, TypeOK
  <2>2. state' = [state EXCEPT ![t] = "approved"]
    BY <1>12, <2>1, NextStates DEF ApproveEntry, Append, IInv, TypeOK
  <2>3. TypeOK' /\ Owned'
    BY <2>1, <2>2 DEF IInv, TypeOK, Owned, money, digest, RunSteps, States, NoState
  <2>4. EntriesCarried' /\ ExitsCarried'
    BY <2>1, <2>2 DEF IInv, TypeOK, money, EntriesCarried, ExitsCarried, Stands,
         Confirming, Past, Outcomes
  <2>5. StandsAlone' /\ FlatWhenGraded' /\ NothingUnreported'
    BY <2>1, <2>2 DEF IInv, TypeOK, money, digest, StandsAlone, Stands, FlatWhenGraded,
         NothingUnreported, InRun, Outcomes
  <2> QED BY <2>3, <2>4, <2>5 DEF IInv
<1>13. CASE ExecuteFills
  <2> DEFINE t == run.thesis
  <2>1. /\ t \in Ids /\ state[t] = "approved" /\ run.step = "execute"
        /\ run' = [run EXCEPT !.step = "activate"]
        /\ held' = [held EXCEPT ![symbol[t]] = @ \cup {t}]
        /\ entered' = entered \cup {t}
        /\ UNCHANGED <<state, symbol, origin, due, polled, swept, digest, faults>>
    BY <1>13 DEF ExecuteFills, Buy, Goto, At, IInv, TypeOK, theses
  <2>2. symbol[t] \in Symbols
    BY <2>1 DEF IInv, TypeOK, NoState
  <2>3. TypeOK' /\ Owned'
    BY <2>1, <2>2 DEF IInv, TypeOK, Owned, EntriesCarried, Confirming, digest, RunSteps
  <2>4. EntriesCarried' /\ ExitsCarried'
    BY <2>1, <2>2 DEF IInv, TypeOK, EntriesCarried, ExitsCarried, Stands,
         Confirming, Past, Outcomes
  <2>5. StandsAlone'
    BY <2>1, <2>2 DEF IInv, TypeOK, StandsAlone, Stands, EntriesCarried, Confirming
  <2>6. FlatWhenGraded' /\ NothingUnreported'
    BY <2>1, <2>2 DEF IInv, TypeOK, digest, FlatWhenGraded, NothingUnreported, InRun, Outcomes
  <2> QED BY <2>3, <2>4, <2>5, <2>6 DEF IInv
<1>14. CASE ActivateEntry
  <2> DEFINE t == run.thesis
  <2>1. /\ t \in Ids /\ state[t] = "approved" /\ run.step = "activate"
        /\ run' = [run EXCEPT !.step = "entries", !.thesis = 0, !.skip = @ \cup {symbol[t]}]
        /\ UNCHANGED <<symbol, origin, due, money, swept, digest, faults>>
    BY <1>14 DEF ActivateEntry, Append, At, IInv, TypeOK
  <2>2. state' = [state EXCEPT ![t] = "active"]
    BY <1>14, <2>1, NextStates DEF ActivateEntry, Append, IInv, TypeOK
  <2>3. symbol[t] \in Symbols
    BY <2>1 DEF IInv, TypeOK, NoState
  <2>4. TypeOK' /\ Owned'
    BY <2>1, <2>2, <2>3 DEF IInv, TypeOK, Owned, money, digest, RunSteps, States, NoState
  <2>5. EntriesCarried' /\ ExitsCarried'
    BY <2>1, <2>2, <2>3 DEF IInv, TypeOK, money, EntriesCarried, ExitsCarried, Stands,
         Confirming, Past, Outcomes
  <2>6. StandsAlone'
    BY <2>1, <2>2 DEF IInv, TypeOK, money, StandsAlone, Stands, EntriesCarried
  <2>7. FlatWhenGraded' /\ NothingUnreported'
    BY <2>1, <2>2 DEF IInv, TypeOK, money, digest, FlatWhenGraded, NothingUnreported, InRun, Outcomes
  <2> QED BY <2>4, <2>5, <2>6, <2>7 DEF IInv
<1>15. ASSUME NEW t \in Ids, Exit(t) PROVE IInv'
  <2>1. /\ t \in run.active /\ symbol[t] \in run.open /\ run.step = "exits" /\ state[t] = "active"
        /\ held' = [held EXCEPT ![symbol[t]] = {}]
        /\ run' = [run EXCEPT !.step = "grade", !.thesis = t, !.active = @ \ {t}]
        /\ UNCHANGED <<state, symbol, origin, due, entered, polled, swept, digest, faults>>
    BY <1>15 DEF Exit, Sell, Looked, At, IInv, TypeOK, theses
  <2>2. TypeOK' /\ Owned'
    <3>1. /\ run'.step = "grade" /\ run'.thesis # 0
          /\ run' \in [step : RunSteps, active : SUBSET Ids, todo : SUBSET Symbols,
                       skip : SUBSET Symbols, open : SUBSET Symbols, thesis : Ids \cup {0},
                       warned : SUBSET Ids]
      BY <2>1, IdsAreNot0 DEF IInv, TypeOK, RunSteps
    <3> QED BY <2>1, <3>1 DEF IInv, TypeOK, Owned, digest
  <2>3. EntriesCarried' /\ ExitsCarried'
    BY <2>1 DEF IInv, TypeOK, EntriesCarried, ExitsCarried, Stands, Confirming, Past, Outcomes
  <2>4. StandsAlone' /\ FlatWhenGraded'
    BY <2>1 DEF IInv, TypeOK, StandsAlone, Stands, FlatWhenGraded, Outcomes
  <2>5. NothingUnreported'
    BY <2>1 DEF IInv, TypeOK, NothingUnreported, InRun, digest
  <2> QED BY <2>2, <2>3, <2>4, <2>5 DEF IInv
<1>16. CASE GradeExit
  <2> DEFINE t == run.thesis
  <2>1. /\ t \in Ids /\ state[t] = "active" /\ run.step = "grade"
        /\ run' = [run EXCEPT !.step = "exits", !.thesis = 0]
        /\ UNCHANGED <<symbol, origin, due, money, swept, digest, faults>>
    BY <1>16 DEF GradeExit, Append, At, IInv, TypeOK
  <2>2. state' = [state EXCEPT ![t] = "PASS"]
    BY <1>16, <2>1, NextStates DEF GradeExit, Append, IInv, TypeOK
  <2>3. TypeOK' /\ Owned'
    BY <2>1, <2>2 DEF IInv, TypeOK, Owned, money, digest, RunSteps, States, Terminal, Outcomes, NoState
  <2>4. EntriesCarried' /\ ExitsCarried'
    BY <2>1, <2>2 DEF IInv, TypeOK, money, EntriesCarried, ExitsCarried, Stands,
         Confirming, Past, Outcomes
  <2>5. StandsAlone' /\ FlatWhenGraded'
    BY <2>1, <2>2 DEF IInv, TypeOK, money, StandsAlone, Stands, FlatWhenGraded, ExitsCarried
  <2>6. NothingUnreported'
    BY <2>1, <2>2 DEF IInv, TypeOK, digest, NothingUnreported, InRun
  <2> QED BY <2>3, <2>4, <2>5, <2>6 DEF IInv
<1>17. CASE GradePending
  <2>1. /\ UNCHANGED <<theses, due, money, swept, digest, faults>> /\ run.step = "grade"
        /\ run.thesis \in Ids /\ state[run.thesis] = "active"
        /\ run' = [run EXCEPT !.step = "exits", !.thesis = 0]
    BY <1>17 DEF GradePending, At, IInv, TypeOK
  <2>2. TypeOK' /\ EntriesCarried' /\ ExitsCarried'
    BY <2>1 DEF IInv, TypeOK, theses, money, digest, EntriesCarried, ExitsCarried, Stands,
         RunSteps, Confirming, Past
  <2>3. Owned' /\ StandsAlone' /\ FlatWhenGraded' /\ NothingUnreported'
    BY <2>1 DEF IInv, TypeOK, theses, money, digest, Owned, StandsAlone, Stands, FlatWhenGraded,
         NothingUnreported, InRun
  <2> QED BY <2>2, <2>3 DEF IInv
<1>18. CASE Finish
  <2>1. /\ UNCHANGED <<theses, due, money, swept, lost, faults>> /\ run.step = "exits"
        /\ run.thesis = 0 /\ named' = named \cup run.warned /\ run' = NoRun
    BY <1>18 DEF Finish, At, IInv, TypeOK
  <2>2. TypeOK' /\ EntriesCarried' /\ ExitsCarried'
    BY <2>1 DEF IInv, TypeOK, theses, money, EntriesCarried, ExitsCarried, NoRun, RunSteps, Confirming
  <2>3. Owned' /\ StandsAlone' /\ FlatWhenGraded' /\ NothingUnreported'
    BY <2>1 DEF IInv, TypeOK, theses, money, Owned, StandsAlone, Stands, FlatWhenGraded,
         NothingUnreported, InRun
  <2> QED BY <2>2, <2>3 DEF IInv
<1>19. CASE RefuseEntry \/ RunFails \/ RunDies \/ \E t \in Ids : ExitFails(t)
  <2>1. /\ UNCHANGED <<theses, due, money, swept, named>> /\ faults' \in 0 .. MaxFaults
        /\ run' = NoRun /\ lost' = lost \cup InRun
    BY <1>19 DEF RefuseEntry, RunFails, RunDies, ExitFails, Abandon, Fault, IInv, TypeOK
  <2>2. TypeOK' /\ EntriesCarried' /\ ExitsCarried'
    BY <2>1 DEF IInv, TypeOK, theses, money, EntriesCarried, ExitsCarried, NoRun, RunSteps,
         Confirming, InRun
  <2>3. Owned' /\ StandsAlone' /\ FlatWhenGraded' /\ NothingUnreported'
    BY <2>1 DEF IInv, TypeOK, theses, money, Owned, StandsAlone, Stands, FlatWhenGraded,
         NothingUnreported
  <2> QED BY <2>2, <2>3 DEF IInv
<1>20. ASSUME NEW s \in Symbols, NEW t \in Ids, Confirm(s, t) PROVE IInv'
  <2>1. PICK last \in ConfirmChain : state' = [state EXCEPT ![t] = last]
    BY <1>20 DEF Confirm
  <2>2. /\ state[t] = NoState
        /\ symbol' = [symbol EXCEPT ![t] = s] /\ origin' = [origin EXCEPT ![t] = "hud"]
        /\ UNCHANGED <<due, money, swept, digest, run, faults>>
    BY <1>20 DEF Confirm, Unused
  <2>3. t \notin entered /\ t \notin run.active
    BY <2>2 DEF IInv, Owned, ExitsCarried, Past, Outcomes, NoState, TypeOK
  <2>4. TypeOK' /\ Owned'
    BY <2>1, <2>2, <2>3 DEF IInv, TypeOK, Owned, money, digest, ConfirmChain, States, NoState
  <2>5. run.step \in Confirming \cup {"activate"} => run.thesis # t
    BY <2>2 DEF IInv, Owned, EntriesCarried, TypeOK
  <2>6. EntriesCarried' /\ ExitsCarried'
    BY <2>1, <2>2, <2>3, <2>5 DEF IInv, TypeOK, money, EntriesCarried, ExitsCarried, Stands,
         ConfirmChain, Confirming, Past, Outcomes, NoState
  <2>7. StandsAlone' /\ FlatWhenGraded' /\ NothingUnreported'
    BY <2>1, <2>2, <2>3 DEF IInv, TypeOK, money, digest, StandsAlone, Stands, FlatWhenGraded,
         NothingUnreported, InRun
  <2> QED BY <2>4, <2>6, <2>7 DEF IInv
<1>21. ASSUME NEW t \in Ids, OperatorPolls(t) PROVE IInv'
  <2>1. /\ state[t] = "approved" /\ origin[t] = "hud"
        /\ held' = [held EXCEPT ![symbol[t]] = @ \cup {t}] /\ polled' = polled \cup {t}
        /\ UNCHANGED <<state, symbol, origin, due, entered, swept, digest, run, faults>>
    BY <1>21 DEF OperatorPolls, Buy, theses
  <2>2. t \notin entered /\ t \notin run.active
    BY <2>1 DEF IInv, Owned, ExitsCarried, Past, Outcomes
  <2>3. symbol[t] \in Symbols
    BY <2>1 DEF IInv, TypeOK, NoState
  <2>4. TypeOK' /\ Owned'
    BY <2>1, <2>3 DEF IInv, TypeOK, Owned, digest
  <2>5. EntriesCarried' /\ ExitsCarried'
    BY <2>1, <2>2, <2>3 DEF IInv, TypeOK, EntriesCarried, ExitsCarried, Stands, Confirming,
         Past, Outcomes
  <2>6. StandsAlone' /\ FlatWhenGraded' /\ NothingUnreported'
    BY <2>1, <2>2 DEF IInv, TypeOK, digest, StandsAlone, Stands, FlatWhenGraded,
         NothingUnreported, InRun
  <2> QED BY <2>4, <2>5, <2>6 DEF IInv
<1>22. ASSUME NEW t \in Ids, OperatorBuys(t) PROVE IInv'
  <2>1. /\ state[t] = "approved" /\ origin[t] = "cadence"
        /\ held' = [held EXCEPT ![symbol[t]] = @ \cup {t}] /\ entered' = entered \ {t}
        /\ UNCHANGED <<symbol, origin, due, polled, swept, digest, run, faults>>
    BY <1>22 DEF OperatorBuys, Buy, Append
  <2>2. state' = [state EXCEPT ![t] = "active"]
    BY <1>22, <2>1, NextStates DEF OperatorBuys, Append, IInv, TypeOK
  <2>3. symbol[t] \in Symbols
    BY <2>1 DEF IInv, TypeOK, NoState
  <2>4. TypeOK' /\ Owned'
    BY <2>1, <2>2, <2>3 DEF IInv, TypeOK, Owned, digest, States, NoState
  <2>5. EntriesCarried' /\ ExitsCarried'
    BY <2>1, <2>2, <2>3 DEF IInv, TypeOK, EntriesCarried, ExitsCarried, Stands, Confirming,
         Past, Outcomes
  <2>6. StandsAlone' /\ FlatWhenGraded' /\ NothingUnreported'
    BY <2>1, <2>2 DEF IInv, TypeOK, digest, StandsAlone, Stands, FlatWhenGraded,
         NothingUnreported, InRun, Outcomes
  <2> QED BY <2>4, <2>5, <2>6 DEF IInv
<1>23. ASSUME NEW t \in Ids, ManualFill(t) PROVE IInv'
  <2>1. /\ state[t] = "approved" /\ origin[t] = "hud"
        /\ UNCHANGED <<symbol, origin, due, money, swept, digest, run, faults>>
    BY <1>23 DEF ManualFill, Append
  <2>2. state' = [state EXCEPT ![t] = "active"]
    BY <1>23, <2>1, NextStates DEF ManualFill, Append, IInv, TypeOK
  <2>3. t \notin entered
    BY <2>1 DEF IInv, Owned
  <2>4. TypeOK' /\ Owned'
    BY <2>1, <2>2 DEF IInv, TypeOK, Owned, money, digest, States, NoState
  <2>5. EntriesCarried' /\ ExitsCarried'
    BY <2>1, <2>2, <2>3 DEF IInv, TypeOK, money, EntriesCarried, ExitsCarried, Stands, Confirming,
         Past, Outcomes
  <2>6. StandsAlone' /\ FlatWhenGraded' /\ NothingUnreported'
    BY <2>1, <2>2, <2>3 DEF IInv, TypeOK, money, digest, StandsAlone, Stands, FlatWhenGraded,
         NothingUnreported, InRun, Outcomes
  <2> QED BY <2>4, <2>5, <2>6 DEF IInv
<1>24. ASSUME NEW t \in Ids, Sweep(t) PROVE IInv'
  <2>1. /\ state[t] = "active" /\ swept' = swept \cup {t}
        /\ UNCHANGED <<symbol, origin, due, money, digest, run, faults>>
    BY <1>24 DEF Sweep, Append
  <2>2. state' = [state EXCEPT ![t] = "PASS"]
    BY <1>24, <2>1, NextStates DEF Sweep, Append, IInv, TypeOK
  <2>3. TypeOK' /\ Owned'
    BY <2>1, <2>2 DEF IInv, TypeOK, Owned, money, digest, States, Terminal, Outcomes, NoState
  <2>4. EntriesCarried' /\ ExitsCarried'
    BY <2>1, <2>2 DEF IInv, TypeOK, money, EntriesCarried, ExitsCarried, Stands, Confirming,
         Past, Outcomes
  <2>5. StandsAlone' /\ FlatWhenGraded' /\ NothingUnreported'
    BY <2>1, <2>2 DEF IInv, TypeOK, money, digest, StandsAlone, Stands, FlatWhenGraded,
         NothingUnreported, InRun
  <2> QED BY <2>3, <2>4, <2>5 DEF IInv
<1>25. ASSUME NEW t \in Ids, Expire(t) PROVE IInv'
  <2>1. due' = due \cup {t} /\ UNCHANGED <<theses, money, swept, digest, run, faults>>
    BY <1>25 DEF Expire
  <2> QED BY <2>1 DEF IInv, TypeOK, theses, money, digest, Owned, EntriesCarried, ExitsCarried,
            StandsAlone, Stands, FlatWhenGraded, NothingUnreported, InRun
<1>26. CASE UNCHANGED vars
  BY <1>26 DEF vars, IInv, TypeOK, theses, money, digest, Owned, EntriesCarried, ExitsCarried,
            StandsAlone, Stands, FlatWhenGraded, NothingUnreported, InRun
<1> QED
  BY <1>1, <1>2, <1>3, <1>4, <1>5, <1>6, <1>7, <1>8, <1>9, <1>10, <1>11, <1>12, <1>13, <1>14,
     <1>15, <1>16, <1>17, <1>18, <1>19, <1>20, <1>21, <1>22, <1>23, <1>24, <1>25, <1>26
  DEF Next, RunStep, Others
-----------------------------------------------------------------------------
LEMMA InitHolds == Init => IInv
BY DeskAssumption DEF Init, IInv, TypeOK, Owned, EntriesCarried, ExitsCarried, StandsAlone,
   FlatWhenGraded, NothingUnreported, NoRun, RunSteps, States, NoState, None, Confirming, Past,
   Outcomes

THEOREM Invariance == Spec => []IInv
BY InitHolds, InductiveStep, PTL DEF Spec

(* The step counter, the projection's rows and the sets the run carries     *)
(* keep their types.                                                        *)
THEOREM TypeCorrect == Spec => []TypeOK
<1>1. IInv => TypeOK
  BY DEF IInv
<1> QED BY <1>1, Invariance, PTL

(* The cadence never stands twice in one pair, whatever dies and whoever    *)
(* buys and sells in between (run_once's skip set).                         *)
THEOREM StandsOnceHolds == Spec => []StandsOnce
<1>1. ASSUME IInv, NEW s \in Symbols
      PROVE  Cardinality({t \in entered : symbol[t] = s /\ (state[t] = "active" \/ t \in held[s])}) <= 1
  <2> DEFINE S == {t \in entered : symbol[t] = s /\ (state[t] = "active" \/ t \in held[s])}
  <2>1. \A t, u \in S : t = u
    BY <1>1 DEF IInv, StandsAlone, Stands
  <2>2. CASE S = {}
    BY <2>2, FS_EmptySet
  <2>3. CASE S # {}
    <3>1. PICK t \in S : TRUE
      BY <2>3
    <3>2. S = {t}
      BY <2>1, <3>1
    <3>3. Cardinality({t}) = 1
      BY FS_Singleton
    <3> QED BY <3>2, <3>3
  <2> QED BY <2>2, <2>3
<1>2. IInv => StandsOnce
  BY <1>1 DEF IInv, StandsOnce
<1> QED BY <1>2, Invariance, PTL

(* What the cadence bought it grades only once it is sold, unless it was    *)
(* graded by hand (_run_exits, execute_exit before grade).                  *)
THEOREM FlatWhenGradedHolds == Spec => []FlatWhenGraded
<1>1. IInv => FlatWhenGraded
  BY DEF IInv
<1> QED BY <1>1, Invariance, PTL

(* Every entry the cadence drafted and did not buy is in the warnings of a  *)
(* digest, unless its run ended without writing one.                        *)
THEOREM NothingUnreportedHolds == Spec => []NothingUnreported
<1>1. IInv => NothingUnreported
  BY DEF IInv
<1> QED BY <1>1, Invariance, PTL
=============================================================================
