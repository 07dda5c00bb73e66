--------------------------- MODULE ThesisLifecycle ---------------------------
(***************************************************************************)
(* The thesis verbs (tradekit.thesis) and the reviewer (tradekit.review)   *)
(* as several operating-system processes run them against one ledger: the  *)
(* tk CLI, the hourly cadence and the HUD server.  Every verb reads the    *)
(* log first (require_state) and appends later, each append its own        *)
(* transaction, so other processes run in between and a process may die    *)
(* between any two of its steps.                                           *)
(*                                                                         *)
(* The log itself is not a variable.  The code derives a thesis's state by *)
(* folding NextState over its events on every read; `state` is that fold,  *)
(* carried along as events are appended, in the order they are stored.     *)
(* The other variables record which events the log holds, as far as a verb *)
(* ever asks.                                                              *)
(***************************************************************************)
EXTENDS ThesisMachine, Naturals

CONSTANTS
  Theses,         \* thesis ids (ULIDs the caller puts in the contract)
  Structural,     \* those whose contract carries a structural invalidation
  Procs,          \* processes sharing the ledger file
  NoThesis,       \* what an idle process works on
  RedraftAllowed, \* TRUE: a caller may draft() a second contract under a used id
  MaxGraded       \* bound: ThesisGraded events modelled per thesis

ASSUME LifecycleAssumption ==
  /\ Structural \subseteq Theses
  /\ NoThesis \notin Theses
  /\ RedraftAllowed \in BOOLEAN
  /\ MaxGraded \in Nat \ {0}

VARIABLES
  state,     \* [Theses -> States], the fold of the thesis's events
  sized,     \* [Theses -> States], the state at the thesis's last SizingComputed
  reviews,   \* [Theses -> SUBSET BOOLEAN], `passed` of the review that moved it
             \* out of submitted, since it was last drafted
  attested,  \* theses with an InvalidationAttested event
  signoffs,  \* [Theses -> SUBSET BOOLEAN], `passed` of its void_signoff events
  graded,    \* [Theses -> Nat], its ThesisGraded events
  voided,    \* theses for which a void() call returned normally
  call       \* [Procs -> Calls], where each process is

vars == <<state, sized, reviews, attested, signoffs, graded, voided, call>>

facts == <<sized, reviews, attested, signoffs, graded, voided>>

(* "verb" steps have passed require_state and not appended yet; submit and  *)
(* void append more than once.                                              *)
Steps == {"idle", "submit", "submit.sizing", "submit.marker", "approve", "reject",
          "activate", "grade", "void", "void.signoff", "void.grade", "review", "signoff"}

Idle == [step |-> "idle", thesis |-> NoThesis]

Calls == {Idle} \cup [step : Steps \ {"idle"}, thesis : Theses]

TypeOK == /\ state \in [Theses -> States]
          /\ sized \in [Theses -> States]
          /\ reviews \in [Theses -> SUBSET BOOLEAN]
          /\ attested \subseteq Theses
          /\ signoffs \in [Theses -> SUBSET BOOLEAN]
          /\ graded \in [Theses -> Nat]
          /\ voided \subseteq Theses
          /\ call \in [Procs -> Calls]

Init == /\ state = [t \in Theses |-> NoState]
        /\ sized = [t \in Theses |-> NoState]
        /\ reviews = [t \in Theses |-> {}]
        /\ attested = {}
        /\ signoffs = [t \in Theses |-> {}]
        /\ graded = [t \in Theses |-> 0]
        /\ voided = {}
        /\ call = [p \in Procs |-> Idle]
-----------------------------------------------------------------------------
(* Helpers. *)

(* One append: thesis t's event e joins the log. *)
Append(t, e) == state' = [state EXCEPT ![t] = NextState(@, e)]

At(p, step, t) == call[p].step = step /\ call[p].thesis = t

Enter(p, step, t) == call' = [call EXCEPT ![p] = [step |-> step, thesis |-> t]]

Return(p) == call' = [call EXCEPT ![p] = Idle]

(* What require_state of each verb accepts. *)
Allowed == [submit |-> {"draft"}, approve |-> {"reviewed"}, reject |-> {"reviewed"},
            activate |-> {"approved"}, grade |-> {"active"}, void |-> {"approved", "active"}]

Verbs == DOMAIN Allowed
-----------------------------------------------------------------------------
(* Drafting reads nothing: one append, in any state of the id. *)
Draft(t) == /\ state[t] = NoState \/ RedraftAllowed
            /\ Append(t, Marker("ThesisDrafted"))
            /\ reviews' = [reviews EXCEPT ![t] = {}]
            /\ UNCHANGED <<sized, attested, signoffs, graded, voided, call>>

(* A verb is called and its guard holds.  A guard that fails raises         *)
(* IllegalTransition (or VoidRefused) and changes nothing.                  *)
Begin(p, step, t) == /\ call[p] = Idle
                     /\ state[t] \in Allowed[step]
                     /\ step = "void" => t \in Structural
                     /\ Enter(p, step, t)
                     /\ UNCHANGED <<state, facts>>

(* run_review asks only that the thesis was drafted and sized. *)
BeginReview(p, t) == /\ call[p] = Idle
                     /\ state[t] # NoState
                     /\ sized[t] # NoState
                     /\ Enter(p, "review", t)
                     /\ UNCHANGED <<state, facts>>

(* verify_claim(void_signoff) asks for a standing attestation. *)
BeginSignoff(p, t) == /\ call[p] = Idle
                      /\ state[t] # NoState
                      /\ t \in attested
                      /\ Enter(p, "signoff", t)
                      /\ UNCHANGED <<state, facts>>

(* submit's payload building raised: EV off by more than a cent, no bars.   *)
(* grade found the thesis PENDING.  Nothing was appended.                   *)
Refuse(p, t) == /\ At(p, "submit", t) \/ At(p, "grade", t)
                /\ Return(p)
                /\ UNCHANGED <<state, facts>>

(* submit: MarketSnapshotTaken, then SizingComputed, the marker last. *)
SubmitSnapshot(p, t) == /\ At(p, "submit", t)
                        /\ Enter(p, "submit.sizing", t)
                        /\ UNCHANGED <<state, facts>>

SubmitSizing(p, t) == /\ At(p, "submit.sizing", t)
                      /\ sized' = [sized EXCEPT ![t] = state[t]]
                      /\ Enter(p, "submit.marker", t)
                      /\ UNCHANGED <<state, reviews, attested, signoffs, graded, voided>>

SubmitMarker(p, t) == /\ At(p, "submit.marker", t)
                      /\ Append(t, Marker("ThesisSubmitted"))
                      /\ Return(p)
                      /\ UNCHANGED facts

(* The reviewer's verdict is ledgered whether it passed or not: an auto-    *)
(* fail, a timeout and unresolved attacks all leave passed = FALSE.         *)
RecordReview(p, t, passed) ==
  /\ At(p, "review", t)
  /\ Append(t, Review("thesis_review"))
  /\ reviews' = [reviews EXCEPT ![t] = IF state[t] = "submitted" THEN @ \cup {passed} ELSE @]
  /\ Return(p)
  /\ UNCHANGED <<sized, attested, signoffs, graded, voided>>

RecordSignoff(p, t, passed) ==
  /\ At(p, "signoff", t)
  /\ Append(t, Review("void_signoff"))
  /\ signoffs' = [signoffs EXCEPT ![t] = @ \cup {passed}]
  /\ Return(p)
  /\ UNCHANGED <<sized, reviews, attested, graded, voided>>

Approve(p, t) == /\ At(p, "approve", t)
                 /\ Append(t, Marker("ThesisApproved"))
                 /\ Return(p)
                 /\ UNCHANGED facts

Reject(p, t) == /\ At(p, "reject", t)
                /\ Append(t, Marker("ThesisRejected"))
                /\ Return(p)
                /\ UNCHANGED facts

(* The broker pipeline's seam: called once a fill was observed. *)
ActivateOnFill(p, t) == /\ At(p, "activate", t)
                        /\ Append(t, Marker("ThesisActivated"))
                        /\ Return(p)
                        /\ UNCHANGED facts

(* The arithmetic grades VOID only through a measurable invalidation. *)
GradeOutcomes(t) == IF t \in Structural THEN {"PASS", "FAIL"} ELSE Outcomes

AppendGraded(t, outcome) == /\ graded[t] < MaxGraded
                            /\ Append(t, Grading(outcome))
                            /\ graded' = [graded EXCEPT ![t] = @ + 1]

Grade(p, t) == /\ At(p, "grade", t)
               /\ \E outcome \in GradeOutcomes(t) : AppendGraded(t, outcome)
               /\ Return(p)
               /\ UNCHANGED <<sized, reviews, attested, signoffs, voided>>

(* void attests first, whatever follows. *)
VoidAttest(p, t) == /\ At(p, "void", t)
                    /\ attested' = attested \cup {t}
                    /\ Enter(p, "void.signoff", t)
                    /\ UNCHANGED <<state, sized, reviews, signoffs, graded, voided>>

(* Faulty: a failed sign-off counts. *)
HasAnySignoff(t) == signoffs[t] # {}

HasVoidSignoff(t) == TRUE \in signoffs[t]

(* No passing sign-off: VoidRefused, the attestation stands. *)
VoidRefuse(p, t) == /\ At(p, "void.signoff", t)
                    /\ ~HasVoidSignoff(t)
                    /\ Return(p)
                    /\ UNCHANGED <<state, facts>>

VoidProceed(p, t) == /\ At(p, "void.signoff", t)
                     /\ HasVoidSignoff(t)
                     /\ Enter(p, "void.grade", t)
                     /\ UNCHANGED <<state, facts>>

VoidGrade(p, t) == /\ At(p, "void.grade", t)
                   /\ AppendGraded(t, "VOID")
                   /\ voided' = voided \cup {t}
                   /\ Return(p)
                   /\ UNCHANGED <<sized, reviews, attested, signoffs>>

(* The process dies; what it appended stays. *)
Crash(p) == /\ call[p] # Idle
            /\ Return(p)
            /\ UNCHANGED <<state, facts>>
-----------------------------------------------------------------------------
Step(p, t) == \/ \E step \in Verbs : Begin(p, step, t)
              \/ BeginReview(p, t)
              \/ BeginSignoff(p, t)
              \/ Refuse(p, t)
              \/ SubmitSnapshot(p, t)
              \/ SubmitSizing(p, t)
              \/ SubmitMarker(p, t)
              \/ \E passed \in BOOLEAN : RecordReview(p, t, passed)
              \/ \E passed \in BOOLEAN : RecordSignoff(p, t, passed)
              \/ Approve(p, t)
              \/ Reject(p, t)
              \/ ActivateOnFill(p, t)
              \/ Grade(p, t)
              \/ VoidAttest(p, t)
              \/ VoidRefuse(p, t)
              \/ VoidProceed(p, t)
              \/ VoidGrade(p, t)

Next == \/ \E t \in Theses : Draft(t)
        \/ \E p \in Procs, t \in Theses : Step(p, t)
        \/ \E p \in Procs : Crash(p)

Spec == Init /\ [][Next]_vars
-----------------------------------------------------------------------------
(* Properties. *)

(* No process, however late its append, gets a thesis past review without a *)
(* thesis_review event ledgered since it was drafted: the guard that counts *)
(* is NextState's, applied when the events are read.                        *)
ReviewedFirst == \A t \in Theses :
  state[t] \in {"reviewed", "approved", "active"} \cup Terminal => reviews[t] # {}

(* A structural thesis is VOID only behind an attestation and a passing     *)
(* sign-off: a failed or missing sign-off, or a stale void() call racing a  *)
(* grade(), never produces one (section 10.4's anti-gaming guards).         *)
VoidIsSigned == \A t \in Structural :
  state[t] = "VOID" => t \in attested /\ TRUE \in signoffs[t]

(* The lifecycle as its callers may rely on it. *)
Contract == INSTANCE ThesisContract
              WITH phase <- state, cleared <- {t \in Theses : TRUE \in signoffs[t]}

(* Every interleaving of the verbs walks the diagram, one edge at a time,   *)
(* and a decided thesis stays decided.                                      *)
ImplementsContract == Contract!CSpec
=============================================================================
