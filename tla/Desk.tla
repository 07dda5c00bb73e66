-------------------------------- MODULE Desk --------------------------------
(***************************************************************************)
(* The programs that drive the thesis verbs and the money path of one      *)
(* paper account: the hourly cadence (cadence/__init__.py run_once), the   *)
(* HUD server's POST /ack (hud/_serve.py) and an operator at the tk CLI    *)
(* (cli/main.py).  Each is a long sequence of verbs over the shared        *)
(* ledger; any of them dies between two, and the others run in between.    *)
(*                                                                         *)
(* The verbs are taken at the grain of ThesisLifecycle's last append and   *)
(* of OrderPipeline's fill; what happens inside one of them is the matter  *)
(* of those modules.  An answer of the market, of the policy engine or of  *)
(* the scan is an input.  Every thesis is long; a position is the set of   *)
(* theses whose buys are in it.                                            *)
(***************************************************************************)
EXTENDS ThesisMachine, Naturals, FiniteSets, FiniteSetsExt

CONSTANTS
  Symbols,     \* pairs of hud.DEFAULT_SYMBOLS
  MaxTheses,   \* bound: theses drafted
  MaxFaults    \* bound: deaths of the cadence process and refused exits

Ids == 1 .. MaxTheses

None == 0

NoSymbol == "no symbol"

ASSUME DeskAssumption == MaxTheses \in Nat /\ MaxFaults \in Nat /\ NoSymbol \notin Symbols

VARIABLES
  state,      \* [Ids -> States], the fold of each thesis's events
  symbol,     \* [Ids -> Symbols or NoSymbol], of its ThesisDrafted contract
  origin,     \* [Ids -> who drafted it]
  due,        \* active theses whose horizon_end has passed
  held,       \* [Symbols -> SUBSET Ids], the paper account's positions
  entered,    \* theses the cadence bought, since nobody else did
  polled,     \* HUD theses whose resting order has filled (one order a thesis)
  swept,      \* theses graded by hand (tk grade sweep)
  named,      \* theses whose entry a digest warns about, by their pair
  lost,       \* theses in the hands of a run that ended without its section
  run,        \* the cadence process
  faults      \* deaths of the cadence process and refused exits so far

theses == <<state, symbol, origin>>
money == <<held, entered, polled>>
digest == <<named, lost>>
vars == <<theses, due, money, swept, digest, run, faults>>

(* run.active: the active rows of the projection rebuild() left, less those *)
(* looked at; run.todo: tickets left; run.skip: entered_symbols; run.open:  *)
(* open_symbols; run.warned: theses whose pair a warning about an entry     *)
(* names.                                                                   *)
NoRun == [step |-> "idle", active |-> {}, todo |-> {}, skip |-> {}, open |-> {},
          thesis |-> None, warned |-> {}]

RunSteps == {"idle", "scan", "entries", "submit", "review", "binding", "reject", "approve",
             "execute", "activate", "exits", "grade"}

TypeOK ==
  /\ state \in [Ids -> States]
  /\ symbol \in [Ids -> Symbols \cup {NoSymbol}]
  /\ origin \in [Ids -> {"nobody", "cadence", "hud"}]
  /\ held \in [Symbols -> SUBSET Ids]
  /\ \A S \in {due, entered, polled, swept, named, lost} : S \subseteq Ids
  /\ \A t \in Ids : (state[t] = NoState) = (symbol[t] = NoSymbol)
  /\ (run.thesis = None) = (run.step \in {"idle", "scan", "entries", "exits"})
  /\ run \in [step : RunSteps, active : SUBSET Ids, todo : SUBSET Symbols,
              skip : SUBSET Symbols, open : SUBSET Symbols, thesis : Ids \cup {None},
              warned : SUBSET Ids]
  /\ faults \in 0 .. MaxFaults

Init ==
  /\ state = [t \in Ids |-> NoState]
  /\ symbol = [t \in Ids |-> NoSymbol]
  /\ origin = [t \in Ids |-> "nobody"]
  /\ held = [s \in Symbols |-> {}]
  /\ due = {} /\ entered = {} /\ polled = {} /\ swept = {} /\ named = {} /\ lost = {}
  /\ run = NoRun
  /\ faults = 0
-----------------------------------------------------------------------------
(* Helpers. *)

Active == {t \in Ids : state[t] = "active"}

Unused == {t \in Ids : state[t] = NoState}

Open == {s \in Symbols : held[s] # {}}

SymbolsOf(S) == {symbol[t] : t \in S}

(* Events e of thesis t joins the log. *)
Append(t, e) == /\ state' = [state EXCEPT ![t] = NextState(@, e)]
                /\ UNCHANGED <<symbol, origin>>

(* thesis.draft of a contract for pair s, under a fresh ULID. *)
Draft(t, s, who) == /\ t \in Unused /\ \A u \in Unused : t <= u
                    /\ state' = [state EXCEPT ![t] = NextState(@, Marker("ThesisDrafted"))]
                    /\ symbol' = [symbol EXCEPT ![t] = s]
                    /\ origin' = [origin EXCEPT ![t] = who]

(* A market buy for t fills. *)
Buy(t) == held' = [held EXCEPT ![symbol[t]] = @ \cup {t}]

(* execute_exit of t sells the account's net position of its symbol. *)
Sell(t) == held' = [held EXCEPT ![symbol[t]] = {}] /\ UNCHANGED <<entered, polled>>

Fault == faults < MaxFaults /\ faults' = faults + 1
-----------------------------------------------------------------------------
(* The cadence. *)

At(step) == run.step = step

Goto(step) == run' = [run EXCEPT !.step = step]

(* The theses a run has drafted and not bought. *)
InRun == run.warned \cup ({run.thesis} \ {None})

(* The thesis in hand is left where it is, with a warning. *)
Warn(step) == run' = [run EXCEPT !.step = step, !.thesis = None, !.warned = @ \cup {run.thesis}]

(* run_once past its guard: the projections are rebuilt, the positions      *)
(* marked for the equity.                                                   *)
Begin == /\ At("idle")
         /\ run' = [run EXCEPT !.step = "scan", !.active = Active]
         /\ UNCHANGED <<theses, due, money, swept, digest, faults>>

(* The tickets build_state can assemble: no pair with an active thesis in   *)
(* the projection is walked past its open_position gate.                    *)
Walkable == Symbols \ SymbolsOf(run.active)

(* Faulty: the pairs with a position are not skipped; nor are those with an *)
(* active thesis.                                                           *)
ScanActiveOnly == /\ At("scan")
                  /\ \E tickets \in SUBSET Walkable :
                       run' = [run EXCEPT !.step = "entries", !.todo = tickets,
                                          !.skip = SymbolsOf(run.active), !.open = Open]
                  /\ UNCHANGED <<theses, due, money, swept, digest, faults>>

(* build_state, then the reads the rest of the run works on: open_symbols   *)
(* and the active theses.  No ticket when a scan arms nothing or the        *)
(* account's equity is not positive.                                        *)
Scan == /\ At("scan")
        /\ \E tickets \in SUBSET Walkable :
             run' = [run EXCEPT !.step = "entries", !.todo = tickets,
                                !.skip = Open \cup SymbolsOf(run.active), !.open = Open]
        /\ UNCHANGED <<theses, due, money, swept, digest, faults>>

(* The next ticket: its symbol is already open or entered in this run (or   *)
(* the bound on theses is reached).                                         *)
SkipTicket(s) == /\ At("entries") /\ s \in run.todo
                 /\ s \in run.skip \/ Unused = {}
                 /\ run' = [run EXCEPT !.todo = @ \ {s}]
                 /\ UNCHANGED <<theses, due, money, swept, digest, faults>>

(* _confirm_entry: the contract is built under the dials as they are now.   *)
DraftEntry(s, t) == /\ At("entries") /\ s \in run.todo \ run.skip
                    /\ Draft(t, s, "cadence")
                    /\ run' = [run EXCEPT !.step = "submit", !.thesis = t, !.todo = @ \ {s}]
                    /\ UNCHANGED <<due, money, swept, digest, faults>>

(* CadenceAccountRefused out of _confirm_entry: it ends the run, its exits  *)
(* and its digest section with it.                                          *)
RefuseEntry == /\ At("entries") /\ run.todo \ run.skip # {} /\ Unused # {}
               /\ Fault
               /\ lost' = lost \cup InRun
               /\ run' = NoRun
               /\ UNCHANGED <<theses, due, money, swept, named>>

(* submit's payload building raised a ValueError before any append. *)
SubmitFails == /\ At("submit")
               /\ Warn("entries")
               /\ UNCHANGED <<theses, due, money, swept, digest, faults>>

SubmitEntry == /\ At("submit")
               /\ Append(run.thesis, Marker("ThesisSubmitted"))
               /\ Goto("review")
               /\ UNCHANGED <<due, money, swept, digest, faults>>

ReviewEntry == /\ At("review")
               /\ Append(run.thesis, Review("thesis_review"))
               /\ Goto("binding")
               /\ UNCHANGED <<due, money, swept, digest, faults>>

(* The binding evaluate, at `reviewed`: a deny leads to reject. *)
Binding == /\ At("binding")
           /\ \E next \in {"approve", "reject"} : Goto(next)
           /\ UNCHANGED <<theses, due, money, swept, digest, faults>>

RejectEntry == /\ At("reject")
               /\ state[run.thesis] = "reviewed"
               /\ Append(run.thesis, Marker("ThesisRejected"))
               /\ Warn("entries")
               /\ UNCHANGED <<due, money, swept, digest, faults>>

ApproveEntry == /\ At("approve")
                /\ state[run.thesis] = "reviewed"
                /\ Append(run.thesis, Marker("ThesisApproved"))
                /\ Goto("execute")
                /\ UNCHANGED <<due, money, swept, digest, faults>>

(* Faulty: the orphan a denied execution leaves is not mentioned. *)
ExecuteDeniedQuietly ==
  /\ At("execute")
  /\ run' = [run EXCEPT !.step = "entries", !.thesis = None]
  /\ UNCHANGED <<theses, due, money, swept, digest, faults>>

(* execute_order's own evaluate denies: the thesis stays approved. *)
ExecuteDenied == /\ At("execute")
                 /\ Warn("entries")
                 /\ UNCHANGED <<theses, due, money, swept, digest, faults>>

(* The market order fills ... *)
ExecuteFills == /\ At("execute")
                /\ state[run.thesis] = "approved"
                /\ Buy(run.thesis)
                /\ entered' = entered \cup {run.thesis}
                /\ Goto("activate")
                /\ UNCHANGED <<theses, due, polled, swept, digest, faults>>

(* ... and the fill activates the thesis; its pair joins the skip set. *)
ActivateEntry ==
  /\ At("activate")
  /\ state[run.thesis] = "approved"
  /\ Append(run.thesis, Marker("ThesisActivated"))
  /\ run' = [run EXCEPT !.step = "entries", !.thesis = None,
                        !.skip = @ \cup {symbol[run.thesis]}]
  /\ UNCHANGED <<due, money, swept, digest, faults>>

EntriesDone == /\ At("entries") /\ run.todo = {}
               /\ Goto("exits")
               /\ UNCHANGED <<theses, due, money, swept, digest, faults>>

(* Faulty: only the price triggers an exit. *)
TriggersOnPrice(t) == IF t \in Ids THEN BOOLEAN ELSE {}

(* exit_trigger fired: the stop and the target are the market's, the        *)
(* horizon is not.                                                          *)
Triggers(t) == IF t \in due THEN {TRUE} ELSE BOOLEAN

Looked(t) == [run EXCEPT !.active = @ \ {t}]

(* No trigger on this thesis's last closed bar. *)
NoExit(t) == /\ At("exits") /\ t \in run.active
             /\ FALSE \in Triggers(t)
             /\ run' = Looked(t)
             /\ UNCHANGED <<theses, due, money, swept, digest, faults>>

(* Faulty: every triggered thesis is graded directly. *)
RecoverAny(t) == /\ At("exits") /\ t \in run.active
                 /\ run' = [Looked(t) EXCEPT !.step = "grade", !.thesis = t]
                 /\ UNCHANGED <<theses, due, money, swept, digest, faults>>

(* A flat thesis is graded directly. *)
Recover(t) == /\ At("exits") /\ t \in run.active
              /\ symbol[t] \notin run.open
              /\ run' = [Looked(t) EXCEPT !.step = "grade", !.thesis = t]
              /\ UNCHANGED <<theses, due, money, swept, digest, faults>>

(* execute_exit of a thesis that is still active, on a position that is     *)
(* still there.                                                             *)
Exit(t) == /\ At("exits") /\ t \in run.active
           /\ symbol[t] \in run.open
           /\ state[t] = "active" /\ held[symbol[t]] # {}
           /\ Sell(t)
           /\ run' = [Looked(t) EXCEPT !.step = "grade", !.thesis = t]
           /\ UNCHANGED <<theses, due, swept, digest, faults>>

(* ExitNothingToClose: the position was sold since open_symbols was read. *)
ExitNothing(t) == /\ At("exits") /\ t \in run.active
                  /\ symbol[t] \in run.open
                  /\ state[t] = "active" /\ held[symbol[t]] = {}
                  /\ run' = Looked(t)
                  /\ UNCHANGED <<theses, due, money, swept, digest, faults>>

(* A bar is missing, the policy denies the exit or the token is outdated:   *)
(* a warning.                                                               *)
ExitRefused(t) == /\ At("exits") /\ t \in run.active
                  /\ Fault
                  /\ run' = Looked(t)
                  /\ UNCHANGED <<theses, due, money, swept, digest>>

(* The grade: PENDING is a warning, and only before the horizon. *)
GradeExit == /\ At("grade")
             /\ state[run.thesis] = "active"
             /\ Append(run.thesis, Grading("PASS"))
             /\ run' = [run EXCEPT !.step = "exits", !.thesis = None]
             /\ UNCHANGED <<due, money, swept, digest, faults>>

GradePending == /\ At("grade")
                /\ state[run.thesis] = "active" /\ run.thesis \notin due
                /\ run' = [run EXCEPT !.step = "exits", !.thesis = None]
                /\ UNCHANGED <<theses, due, money, swept, digest, faults>>

(* The projections once more, and the section of the digest. *)
Finish == /\ At("exits") /\ run.active = {}
          /\ named' = named \cup run.warned
          /\ run' = NoRun
          /\ UNCHANGED <<theses, due, money, swept, lost, faults>>

(* What ends the run although no fault is counted: a verb finds the thesis  *)
(* moved by somebody else, and its IllegalTransition is not caught.         *)
Moved == /\ run.thesis # None
         /\ \/ At("reject") /\ state[run.thesis] # "reviewed"
            \/ At("approve") /\ state[run.thesis] # "reviewed"
            \/ At("execute") /\ state[run.thesis] # "approved"
            \/ At("activate") /\ state[run.thesis] # "approved"
            \/ At("grade") /\ state[run.thesis] # "active"

MovedExit(t) == At("exits") /\ t \in run.active /\ symbol[t] \in run.open /\ state[t] # "active"

(* Any exception that is not contained, and the death of the process: the   *)
(* first leaves a Run FAILED section that names no thesis, the second none. *)
Abandon == /\ lost' = lost \cup InRun
           /\ run' = NoRun
           /\ UNCHANGED <<theses, due, money, swept, named>>

RunFails == Moved /\ Abandon /\ UNCHANGED faults

ExitFails(t) == MovedExit(t) /\ Abandon /\ UNCHANGED faults

RunDies == run # NoRun /\ Abandon /\ Fault
-----------------------------------------------------------------------------
(* POST /ack of the HUD server. *)

(* _confirm_chain: where it leaves the thesis, approved if no verb raises   *)
(* and the server lives.                                                    *)
ConfirmChain == {"draft", "submitted", "reviewed", "approved"}

(* A confirmed ticket: the whole confirm chain, then the binding evaluate   *)
(* and, on an allow, AdvisoryTicketAcked.  The chain ends where a guard     *)
(* raises or the server dies; nobody else acts on a thesis before it is     *)
(* approved, and a deny leaves it approved as an allow does: one step.      *)
(* The bound keeps an id for each ticket of the cadence's run.              *)
Confirm(s, t) ==
  /\ Cardinality(Unused) > Cardinality(run.todo)
  /\ \A u \in Unused : t <= u
  /\ t \in Unused
  /\ \E last \in ConfirmChain :
        state' = [state EXCEPT ![t] = last]
  /\ symbol' = [symbol EXCEPT ![t] = s]
  /\ origin' = [origin EXCEPT ![t] = "hud"]
  /\ UNCHANGED <<due, money, swept, digest, run, faults>>
-----------------------------------------------------------------------------
(* The operator and the world. *)

(* tk order submit of a HUD thesis, whose limit order rests, and a later    *)
(* tk order status that finds a bar trading through: the fill activates     *)
(* nothing.                                                                 *)
OperatorPolls(t) == /\ state[t] = "approved" /\ origin[t] = "hud" /\ t \notin polled
                    /\ Buy(t)
                    /\ polled' = polled \cup {t}
                    /\ UNCHANGED <<theses, due, entered, swept, digest, run, faults>>

(* tk order submit of an orphan of the cadence: bought and activated. *)
OperatorBuys(t) == /\ state[t] = "approved" /\ origin[t] = "cadence"
                   /\ Buy(t)
                   /\ entered' = entered \ {t}
                   /\ Append(t, Marker("ThesisActivated"))
                   /\ UNCHANGED <<due, polled, swept, digest, run, faults>>

(* tk fill record for a ticket filled at an outside venue: the thesis       *)
(* becomes active, the paper account does not change.                       *)
ManualFill(t) == /\ state[t] = "approved" /\ origin[t] = "hud"
                 /\ Append(t, Marker("ThesisActivated"))
                 /\ UNCHANGED <<due, money, swept, digest, run, faults>>

(* tk grade sweep: no exit goes before the grade. *)
Sweep(t) == /\ state[t] = "active"
            /\ Append(t, Grading("PASS"))
            /\ swept' = swept \cup {t}
            /\ UNCHANGED <<due, money, digest, run, faults>>

(* The horizon of an active thesis passes. *)
Expire(t) == /\ state[t] = "active" /\ t \notin due
             /\ due' = due \cup {t}
             /\ UNCHANGED <<theses, money, swept, digest, run, faults>>
-----------------------------------------------------------------------------
(* The steps a running cadence process takes. *)
RunStep == \/ Begin \/ Scan \/ EntriesDone
           \/ \E s \in Symbols : SkipTicket(s) \/ \E t \in Ids : DraftEntry(s, t)
           \/ SubmitFails \/ SubmitEntry \/ ReviewEntry \/ Binding \/ RejectEntry
           \/ ApproveEntry \/ ExecuteDenied \/ ExecuteFills \/ ActivateEntry
           \/ \E t \in Ids : NoExit(t) \/ Recover(t) \/ Exit(t) \/ ExitNothing(t) \/ ExitFails(t)
           \/ GradeExit \/ GradePending \/ Finish \/ RunFails

Others == \/ RunDies \/ RefuseEntry
          \/ \E t \in Ids : ExitRefused(t)
          \/ \E s \in Symbols, t \in Ids : Confirm(s, t)
          \/ \E t \in Ids : \/ OperatorPolls(t) \/ OperatorBuys(t)
                            \/ ManualFill(t) \/ Sweep(t) \/ Expire(t)

Next == RunStep \/ Others

Spec == Init /\ [][Next]_vars

(* The scheduled task fires every hour and a run keeps running. *)
FairSpec == Spec /\ WF_vars(RunStep)
-----------------------------------------------------------------------------
(* Properties. *)

(* The cadence never stands twice in one pair: of the theses it bought, at  *)
(* most one per pair is active or still held, whatever crashes and retries  *)
(* came before (the skip set of run_once, read once per run).               *)
StandsOnce ==
  /\ TypeOK
  /\ \A s \in Symbols :
       Cardinality({t \in entered : symbol[t] = s /\ (state[t] = "active" \/ t \in held[s])}) <= 1

(* A grade of the cadence's comes after the exit: a thesis it bought that   *)
(* has an outcome holds nothing any more, unless it was graded by hand.     *)
FlatWhenGraded == \A t \in entered \ swept :
  state[t] \in Outcomes => t \notin held[symbol[t]]

(* A thesis the cadence drafted and left unbought is named in a digest, or  *)
(* its run did not live to write one.                                       *)
NothingUnreported == \A t \in Ids \ (InRun \cup named \cup lost) :
  origin[t] = "cadence" => state[t] \notin {"draft", "submitted", "reviewed", "approved"}

(* Once its horizon has passed, an active thesis is graded, whatever        *)
(* triggers, other actors and sales of its units by other exits come in     *)
(* between; refused exits and failed runs only delay it: again and again    *)
(* none is overdue.                                                         *)
EnteredIsGraded == []<>(\A t \in due : state[t] # "active")
=============================================================================
