---------------------------- MODULE ThesisProofs ----------------------------
(***************************************************************************)
(* Theorems about the thesis package.  ThesisLifecycle, for any set of     *)
(* theses and any number of processes: type correctness, the two safety    *)
(* invariants by way of one inductive invariant, and the step-by-step      *)
(* implementation of ThesisContract when no thesis id is drafted twice.    *)
(* Grading, for any bars, days, contracts and horizon: type correctness,   *)
(* WindowCovers and VerdictStands.                                         *)
(***************************************************************************)
EXTENDS ThesisLifecycle, Grading, NaturalsInduction, WellFoundedInduction, TLAPS

-----------------------------------------------------------------------------
(* The table.                                                              *)

(* Each one-shot marker has exactly one legal source state. *)
LEMMA SimpleTargetsIs ==
  ASSUME NEW s \in States,
         NEW type \in SimpleMarkers
  PROVE  SimpleTargets(s, type) =
           CASE type = "ThesisSubmitted" -> IF s = "draft" THEN {"submitted"} ELSE {}
             [] type = "ThesisApproved" -> IF s = "reviewed" THEN {"approved"} ELSE {}
             [] type = "ThesisRejected" -> IF s = "reviewed" THEN {"rejected"} ELSE {}
             [] type = "ThesisActivated" -> IF s = "approved" THEN {"active"} ELSE {}
BY DEF SimpleTargets, SimpleTransitions, SimpleMarkers, States, Terminal, Outcomes, NoState

(* What each event does to a thesis, with the CHOOSE of the table resolved. *)
LEMMA NextStateIs ==
  ASSUME NEW s \in States
  PROVE  /\ NextState(s, Marker("ThesisDrafted")) = "draft"
         /\ NextState(s, Marker("ThesisSubmitted")) = IF s = "draft" THEN "submitted" ELSE s
         /\ NextState(s, Marker("ThesisApproved")) = IF s = "reviewed" THEN "approved" ELSE s
         /\ NextState(s, Marker("ThesisRejected")) = IF s = "reviewed" THEN "rejected" ELSE s
         /\ NextState(s, Marker("ThesisActivated")) = IF s = "approved" THEN "active" ELSE s
         /\ NextState(s, Review("thesis_review")) = IF s = "submitted" THEN "reviewed" ELSE s
         /\ NextState(s, Review("void_signoff")) = s
         /\ \A outcome \in Outcomes :
              NextState(s, Grading(outcome)) = IF s = "active" THEN outcome ELSE s
<1> DEFINE Simple(type, from, to) ==
             NextState(s, Marker(type)) = IF s = from THEN to ELSE s
<1>1. Simple("ThesisSubmitted", "draft", "submitted")
  BY SimpleTargetsIs DEF NextState, Marker, SimpleMarkers, States
<1>2. Simple("ThesisApproved", "reviewed", "approved")
  BY SimpleTargetsIs DEF NextState, Marker, SimpleMarkers, States
<1>3. Simple("ThesisRejected", "reviewed", "rejected")
  BY SimpleTargetsIs DEF NextState, Marker, SimpleMarkers, States
<1>4. Simple("ThesisActivated", "approved", "active")
  BY SimpleTargetsIs DEF NextState, Marker, SimpleMarkers, States
<1>5. NextState(s, Marker("ThesisDrafted")) = "draft"
  BY DEF NextState, Marker, SimpleMarkers
<1>6. /\ NextState(s, Review("thesis_review")) = IF s = "submitted" THEN "reviewed" ELSE s
      /\ NextState(s, Review("void_signoff")) = s
  BY DEF NextState, Review, SimpleMarkers
<1>7. \A outcome \in Outcomes :
        NextState(s, Grading(outcome)) = IF s = "active" THEN outcome ELSE s
  BY DEF NextState, Grading, SimpleMarkers, Outcomes
<1> QED BY <1>1, <1>2, <1>3, <1>4, <1>5, <1>6, <1>7
-----------------------------------------------------------------------------
(* Types.                                                                  *)

(* The events the verbs append. *)
Appended == {Marker(type) : type \in {"ThesisDrafted"} \cup SimpleMarkers}
              \cup {Review(kind) : kind \in {"thesis_review", "void_signoff"}}
              \cup {Grading(outcome) : outcome \in Outcomes}

LEMMA AppendedIs ==
  /\ \A type \in {"ThesisDrafted"} \cup SimpleMarkers : Marker(type) \in Appended
  /\ \A kind \in {"thesis_review", "void_signoff"} : Review(kind) \in Appended
  /\ \A outcome \in Outcomes : Grading(outcome) \in Appended
BY DEF Appended

LEMMA NextStateType ==
  ASSUME NEW s \in States, NEW e \in Appended
  PROVE  NextState(s, e) \in States
<1>1. \A type \in {"ThesisDrafted"} \cup SimpleMarkers : NextState(s, Marker(type)) \in States
  BY NextStateIs DEF SimpleMarkers, States, Terminal
<1>2. \A kind \in {"thesis_review", "void_signoff"} : NextState(s, Review(kind)) \in States
  BY NextStateIs DEF States
<1>3. \A outcome \in Outcomes : NextState(s, Grading(outcome)) \in States
  BY NextStateIs DEF States, Terminal, Outcomes
<1> QED BY <1>1, <1>2, <1>3 DEF Appended

(* One append moves one thesis, by the table. *)
LEMMA AppendIs ==
  ASSUME TypeOK, NEW t \in Theses, NEW e \in Appended, Append(t, e)
  PROVE  /\ state' \in [Theses -> States]
         /\ state'[t] = NextState(state[t], e)
         /\ \A u \in Theses : u # t => state'[u] = state[u]
BY NextStateType DEF TypeOK, Append

LEMMA EnterReturn ==
  ASSUME TypeOK, NEW p \in Procs
  PROVE  /\ \A t \in Theses, step \in Steps \ {"idle"} :
              Enter(p, step, t) => call' \in [Procs -> Calls]
         /\ Return(p) => call' \in [Procs -> Calls]
BY DEF TypeOK, Enter, Return, Calls, Idle

LEMMA TypeStep == TypeOK /\ [Next]_vars => TypeOK'
<1> SUFFICES ASSUME TypeOK, [Next]_vars PROVE TypeOK'
  OBVIOUS
<1>1. ASSUME NEW t \in Theses, Draft(t) PROVE TypeOK'
  <2>1. state' \in [Theses -> States]
    BY <1>1, AppendIs, AppendedIs DEF Draft
  <2> QED BY <1>1, <2>1 DEF Draft, TypeOK
<1>2. ASSUME NEW p \in Procs, NEW t \in Theses, Step(p, t) PROVE TypeOK'
  <2>1. ASSUME NEW step \in Verbs, Begin(p, step, t) PROVE TypeOK'
    BY <2>1, EnterReturn DEF Begin, Verbs, Allowed, Steps, facts, TypeOK
  <2>2. CASE BeginReview(p, t)
    BY <2>2, EnterReturn DEF BeginReview, Steps, facts, TypeOK
  <2>3. CASE BeginSignoff(p, t)
    BY <2>3, EnterReturn DEF BeginSignoff, Steps, facts, TypeOK
  <2>4. CASE Refuse(p, t)
    BY <2>4, EnterReturn DEF Refuse, facts, TypeOK
  <2>5. CASE SubmitSnapshot(p, t)
    BY <2>5, EnterReturn DEF SubmitSnapshot, Steps, facts, TypeOK
  <2>6. CASE SubmitSizing(p, t)
    BY <2>6, EnterReturn DEF SubmitSizing, Steps, TypeOK
  <2>7. CASE SubmitMarker(p, t)
    BY <2>7, AppendIs, AppendedIs, EnterReturn DEF SubmitMarker, SimpleMarkers, facts, TypeOK
  <2>8. ASSUME NEW passed \in BOOLEAN, RecordReview(p, t, passed) PROVE TypeOK'
    <3>1. state' \in [Theses -> States] /\ call' \in [Procs -> Calls]
      BY <2>8, AppendIs, AppendedIs, EnterReturn DEF RecordReview
    <3> QED BY <2>8, <3>1 DEF RecordReview, TypeOK
  <2>9. ASSUME NEW passed \in BOOLEAN, RecordSignoff(p, t, passed) PROVE TypeOK'
    <3>1. state' \in [Theses -> States] /\ call' \in [Procs -> Calls]
      BY <2>9, AppendIs, AppendedIs, EnterReturn DEF RecordSignoff
    <3> QED BY <2>9, <3>1 DEF RecordSignoff, TypeOK
  <2>10. CASE Approve(p, t)
    BY <2>10, AppendIs, AppendedIs, EnterReturn DEF Approve, SimpleMarkers, facts, TypeOK
  <2>11. CASE Reject(p, t)
    BY <2>11, AppendIs, AppendedIs, EnterReturn DEF Reject, SimpleMarkers, facts, TypeOK
  <2>12. CASE ActivateOnFill(p, t)
    BY <2>12, AppendIs, AppendedIs, EnterReturn DEF ActivateOnFill, SimpleMarkers, facts, TypeOK
  <2>13. CASE Grade(p, t)
    <3>1. PICK outcome \in Outcomes : AppendGraded(t, outcome)
      BY <2>13 DEF Grade, GradeOutcomes, Outcomes
    <3>2. state' \in [Theses -> States] /\ call' \in [Procs -> Calls]
      BY <2>13, <3>1, AppendIs, AppendedIs, EnterReturn DEF Grade, AppendGraded
    <3>3. graded' \in [Theses -> Nat]
      <4>1. graded' = [graded EXCEPT ![t] = @ + 1]
        BY <3>1 DEF AppendGraded
      <4>2. graded[t] + 1 \in Nat
        BY DEF TypeOK
      <4> QED BY <4>1, <4>2 DEF TypeOK
    <3> QED BY <2>13, <3>1, <3>2, <3>3 DEF Grade, TypeOK
  <2>14. CASE VoidAttest(p, t)
    BY <2>14, EnterReturn DEF VoidAttest, Steps, TypeOK
  <2>15. CASE VoidRefuse(p, t)
    BY <2>15, EnterReturn DEF VoidRefuse, facts, TypeOK
  <2>16. CASE VoidProceed(p, t)
    BY <2>16, EnterReturn DEF VoidProceed, Steps, facts, TypeOK
  <2>17. CASE VoidGrade(p, t)
    <3>1. state' \in [Theses -> States] /\ call' \in [Procs -> Calls]
      BY <2>17, AppendIs, AppendedIs, EnterReturn DEF VoidGrade, AppendGraded, Outcomes
    <3>2. graded' \in [Theses -> Nat]
      <4>1. graded' = [graded EXCEPT ![t] = @ + 1]
        BY <2>17 DEF VoidGrade, AppendGraded
      <4>2. graded[t] + 1 \in Nat
        BY DEF TypeOK
      <4> QED BY <4>1, <4>2 DEF TypeOK
    <3> QED BY <2>17, <3>1, <3>2 DEF VoidGrade, TypeOK
  <2> QED BY <1>2, <2>1, <2>2, <2>3, <2>4, <2>5, <2>6, <2>7, <2>8, <2>9, <2>10, <2>11,
             <2>12, <2>13, <2>14, <2>15, <2>16, <2>17 DEF Step
<1>3. ASSUME NEW p \in Procs, Crash(p) PROVE TypeOK'
  BY <1>3, EnterReturn DEF Crash, facts, TypeOK
<1>4. CASE UNCHANGED vars
  BY <1>4 DEF vars, TypeOK
<1> QED BY <1>1, <1>2, <1>3, <1>4 DEF Next

(* Every reachable state is well typed. *)
THEOREM TypeCorrect == Spec => []TypeOK
<1>1. Init => TypeOK
  BY DEF Init, TypeOK, States, Calls
<1> QED BY <1>1, TypeStep, PTL DEF Spec
-----------------------------------------------------------------------------
(* Safety.                                                                 *)

(* What a verb has checked is still so at its append: attestations and      *)
(* sign-offs are never taken back.                                          *)
InFlightHolds == \A p \in Procs :
  LET t == call[p].thesis IN
  /\ call[p].step \in {"void", "void.signoff", "void.grade"} => t \in Structural
  /\ call[p].step \in {"signoff", "void.signoff", "void.grade"} => t \in attested
  /\ call[p].step = "void.grade" => TRUE \in signoffs[t]

(* A passing sign-off answers an attestation that came before it. *)
SignoffAttested == \A t \in Theses : TRUE \in signoffs[t] => t \in attested

(* ReviewedFirst and VoidIsSigned are not inductive alone: a process about *)
(* to append VOID carries the guards it checked some appends ago.          *)
IInv == /\ TypeOK
        /\ ReviewedFirst
        /\ VoidIsSigned
        /\ InFlightHolds
        /\ SignoffAttested

(* The conjuncts about `call` and the append-only facts, apart from state. *)
LEMMA FactsStep ==
  TypeOK /\ InFlightHolds /\ SignoffAttested /\ [Next]_vars => InFlightHolds' /\ SignoffAttested'
<1> SUFFICES ASSUME TypeOK, InFlightHolds, SignoffAttested, [Next]_vars
             PROVE  InFlightHolds' /\ SignoffAttested'
  OBVIOUS
<1> USE LifecycleAssumption DEF TypeOK, InFlightHolds, SignoffAttested, At, Enter, Return, Idle
<1>1. ASSUME NEW t \in Theses, Draft(t) PROVE InFlightHolds' /\ SignoffAttested'
  BY <1>1 DEF Draft
<1>2. ASSUME NEW p \in Procs, NEW t \in Theses, Step(p, t)
      PROVE  InFlightHolds' /\ SignoffAttested'
  <2>1. ASSUME NEW step \in Verbs, Begin(p, step, t) PROVE InFlightHolds' /\ SignoffAttested'
    <3>1. step \in {"submit", "approve", "reject", "activate", "grade", "void"}
      BY DEF Verbs, Allowed
    <3> QED BY <2>1, <3>1 DEF Begin, facts
  <2>2. CASE BeginReview(p, t)
    BY <2>2 DEF BeginReview, facts
  <2>3. CASE BeginSignoff(p, t)
    BY <2>3 DEF BeginSignoff, facts
  <2>4. CASE Refuse(p, t)
    BY <2>4 DEF Refuse, facts
  <2>5. CASE SubmitSnapshot(p, t)
    BY <2>5 DEF SubmitSnapshot, facts
  <2>6. CASE SubmitSizing(p, t)
    BY <2>6 DEF SubmitSizing
  <2>7. CASE SubmitMarker(p, t)
    BY <2>7 DEF SubmitMarker, facts
  <2>8. ASSUME NEW passed \in BOOLEAN, RecordReview(p, t, passed)
        PROVE  InFlightHolds' /\ SignoffAttested'
    BY <2>8 DEF RecordReview
  <2>9. ASSUME NEW passed \in BOOLEAN, RecordSignoff(p, t, passed)
        PROVE  InFlightHolds' /\ SignoffAttested'
    BY <2>9 DEF RecordSignoff
  <2>10. CASE Approve(p, t)
    BY <2>10 DEF Approve, facts
  <2>11. CASE Reject(p, t)
    BY <2>11 DEF Reject, facts
  <2>12. CASE ActivateOnFill(p, t)
    BY <2>12 DEF ActivateOnFill, facts
  <2>13. CASE Grade(p, t)
    BY <2>13 DEF Grade
  <2>14. CASE VoidAttest(p, t)
    BY <2>14 DEF VoidAttest
  <2>15. CASE VoidRefuse(p, t)
    BY <2>15 DEF VoidRefuse, facts
  <2>16. CASE VoidProceed(p, t)
    BY <2>16 DEF VoidProceed, HasVoidSignoff, facts
  <2>17. CASE VoidGrade(p, t)
    BY <2>17 DEF VoidGrade
  <2> QED BY <1>2, <2>1, <2>2, <2>3, <2>4, <2>5, <2>6, <2>7, <2>8, <2>9, <2>10, <2>11,
             <2>12, <2>13, <2>14, <2>15, <2>16, <2>17 DEF Step
<1>3. ASSUME NEW p \in Procs, Crash(p) PROVE InFlightHolds' /\ SignoffAttested'
  BY <1>3 DEF Crash, facts
<1>4. CASE UNCHANGED vars
  BY <1>4 DEF vars
<1> QED BY <1>1, <1>2, <1>3, <1>4 DEF Next

(* The lifecycle conjuncts, from the effect of one append on one thesis. *)
LEMMA LifecycleStep ==
  IInv /\ [Next]_vars => ReviewedFirst' /\ VoidIsSigned'
<1> SUFFICES ASSUME IInv, [Next]_vars PROVE ReviewedFirst' /\ VoidIsSigned'
  OBVIOUS
<1>t. TypeOK
  BY DEF IInv
<1>f. Structural \subseteq Theses
  BY LifecycleAssumption
<1> DEFINE Kept == /\ \A t \in Theses : reviews'[t] = reviews[t]
                   /\ attested \subseteq attested'
                   /\ \A t \in Theses : signoffs[t] \subseteq signoffs'[t]
<1>s. ASSUME Kept, \A t \in Theses : state'[t] = state[t]
      PROVE  ReviewedFirst' /\ VoidIsSigned'
  BY <1>s, <1>f DEF IInv, ReviewedFirst, VoidIsSigned
<1>m. ASSUME Kept, NEW t \in Theses, \A u \in Theses : u # t => state'[u] = state[u],
             \/ state'[t] = state[t]
             \/ state'[t] = "submitted"
             \/ state'[t] \in States \ {"VOID"} /\ state[t] \in {"reviewed", "approved", "active"}
             \/ /\ state'[t] = "VOID" /\ state[t] = "active"
                /\ t \in Structural => t \in attested /\ TRUE \in signoffs[t]
      PROVE  ReviewedFirst' /\ VoidIsSigned'
  BY <1>m, <1>f DEF IInv, ReviewedFirst, VoidIsSigned, Terminal, Outcomes
<1> HIDE DEF Kept
<1>k. facts' = facts => Kept
  BY DEF facts, Kept
<1>1. ASSUME NEW t \in Theses, Draft(t) PROVE ReviewedFirst' /\ VoidIsSigned'
  <2>1. /\ state'[t] = "draft"
        /\ \A u \in Theses : u # t => state'[u] = state[u]
    BY <1>1, <1>t, AppendIs, AppendedIs, NextStateIs DEF Draft, TypeOK
  <2>2. \A u \in Theses : u # t => reviews'[u] = reviews[u]
    BY <1>1, <1>t DEF Draft, TypeOK
  <2> QED BY <1>1, <1>f, <2>1, <2>2 DEF Draft, IInv, ReviewedFirst, VoidIsSigned, Terminal, Outcomes
<1>2. ASSUME NEW p \in Procs, NEW t \in Theses, Step(p, t)
      PROVE  ReviewedFirst' /\ VoidIsSigned'
  <2> DEFINE Goal == ReviewedFirst' /\ VoidIsSigned'
  <2>1. ASSUME UNCHANGED <<state, reviews, attested, signoffs>> PROVE Goal
    BY <2>1, <1>s DEF Kept
  <2>2. ASSUME NEW passed \in BOOLEAN, RecordReview(p, t, passed) PROVE Goal
    <3>1. /\ state'[t] = IF state[t] = "submitted" THEN "reviewed" ELSE state[t]
          /\ \A u \in Theses : u # t => state'[u] = state[u]
      BY <2>2, <1>t, AppendIs, AppendedIs, NextStateIs DEF RecordReview, TypeOK
    <3>2. /\ \A u \in Theses : reviews[u] \subseteq reviews'[u]
          /\ state[t] = "submitted" => passed \in reviews'[t]
      BY <2>2, <1>t DEF RecordReview, TypeOK
    <3> QED BY <2>2, <1>f, <3>1, <3>2
            DEF RecordReview, IInv, ReviewedFirst, VoidIsSigned, Terminal, Outcomes
  <2>3. ASSUME NEW passed \in BOOLEAN, RecordSignoff(p, t, passed) PROVE Goal
    <3>1. \A u \in Theses : state'[u] = state[u]
      BY <2>3, <1>t, AppendIs, AppendedIs, NextStateIs DEF RecordSignoff, TypeOK
    <3>2. Kept
      BY <2>3, <1>t DEF RecordSignoff, TypeOK, Kept
    <3> QED BY <3>1, <3>2, <1>s
  <2>4. ASSUME UNCHANGED facts, NEW type \in SimpleMarkers, Append(t, Marker(type)) PROVE Goal
    <3>1. /\ \/ state'[t] = state[t]
             \/ state'[t] = "submitted"
             \/ /\ state[t] \in {"reviewed", "approved"}
                /\ state'[t] \in {"approved", "rejected", "active"}
          /\ \A u \in Theses : u # t => state'[u] = state[u]
      BY <2>4, <1>t, AppendIs, AppendedIs, NextStateIs DEF SimpleMarkers, TypeOK
    <3> QED BY <2>4, <3>1, <1>k, <1>m DEF States, Terminal
  <2>5. ASSUME NEW outcome \in Outcomes, AppendGraded(t, outcome),
               outcome = "VOID" /\ t \in Structural => t \in attested /\ TRUE \in signoffs[t],
               Kept
        PROVE  Goal
    <3>1. /\ state'[t] = IF state[t] = "active" THEN outcome ELSE state[t]
          /\ \A u \in Theses : u # t => state'[u] = state[u]
      BY <2>5, <1>t, AppendIs, AppendedIs, NextStateIs DEF AppendGraded, TypeOK
    <3> QED BY <2>5, <3>1, <1>m DEF States, Terminal
  <2>6. CASE Grade(p, t)
    <3>1. PICK outcome \in GradeOutcomes(t) : AppendGraded(t, outcome)
      BY <2>6 DEF Grade
    <3>2. outcome \in Outcomes /\ (t \in Structural => outcome # "VOID")
      BY DEF GradeOutcomes, Outcomes
    <3>3. Kept
      BY <2>6 DEF Grade, Kept
    <3> QED BY <3>1, <3>2, <3>3, <2>5
  <2>7. CASE VoidGrade(p, t)
    <3>1. t \in attested /\ TRUE \in signoffs[t]
      BY <2>7 DEF VoidGrade, At, IInv, InFlightHolds
    <3>2. Kept
      BY <2>7 DEF VoidGrade, Kept
    <3> QED BY <2>7, <3>1, <3>2, <2>5 DEF VoidGrade, Outcomes
  <2>8. CASE VoidAttest(p, t)
    <3>1. Kept /\ \A u \in Theses : state'[u] = state[u]
      BY <2>8 DEF VoidAttest, Kept
    <3> QED BY <3>1, <1>s
  <2>9. CASE SubmitMarker(p, t) \/ Approve(p, t) \/ Reject(p, t) \/ ActivateOnFill(p, t)
    BY <2>9, <2>4 DEF SubmitMarker, Approve, Reject, ActivateOnFill, SimpleMarkers
  <2>10. CASE \/ \E step \in Verbs : Begin(p, step, t)
              \/ BeginReview(p, t) \/ BeginSignoff(p, t) \/ Refuse(p, t)
              \/ SubmitSnapshot(p, t) \/ SubmitSizing(p, t)
              \/ VoidRefuse(p, t) \/ VoidProceed(p, t)
    BY <2>10, <2>1 DEF Begin, BeginReview, BeginSignoff, Refuse, SubmitSnapshot, SubmitSizing,
                       VoidRefuse, VoidProceed, facts
  <2> QED BY <1>2, <2>2, <2>3, <2>6, <2>7, <2>8, <2>9, <2>10 DEF Step
<1>3. ASSUME NEW p \in Procs, Crash(p) PROVE ReviewedFirst' /\ VoidIsSigned'
  BY <1>3, <1>k, <1>s DEF Crash, facts
<1>4. CASE UNCHANGED vars
  BY <1>4, <1>s DEF vars, Kept
<1> QED BY <1>1, <1>2, <1>3, <1>4 DEF Next

THEOREM Invariance == Spec => []IInv
<1>1. Init => IInv
  <2>1. Init => TypeOK
    BY DEF Init, TypeOK, States, Calls
  <2>2. Init => ReviewedFirst /\ VoidIsSigned
    BY LifecycleAssumption DEF Init, ReviewedFirst, VoidIsSigned, NoState, Terminal, Outcomes
  <2>3. Init => InFlightHolds
    <3>1. Init => \A p \in Procs : call[p].step = "idle"
      BY DEF Init, Idle
    <3> QED BY <3>1 DEF InFlightHolds
  <2>4. Init => SignoffAttested
    BY DEF Init, SignoffAttested
  <2> QED BY <2>1, <2>2, <2>3, <2>4 DEF IInv
<1>2. IInv /\ [Next]_vars => IInv'
  BY TypeStep, FactsStep, LifecycleStep DEF IInv
<1> QED BY <1>1, <1>2, PTL DEF Spec

(* No thesis gets past review unreviewed. *)
THEOREM ReviewedFirstHolds == Spec => []ReviewedFirst
<1>1. IInv => ReviewedFirst
  BY DEF IInv
<1> QED BY <1>1, Invariance, PTL

(* No structural thesis is VOID without attestation and passing sign-off. *)
THEOREM VoidIsSignedHolds == Spec => []VoidIsSigned
<1>1. IInv => VoidIsSigned
  BY DEF IInv
<1> QED BY <1>1, Invariance, PTL
-----------------------------------------------------------------------------
(* Refinement.                                                             *)

(* An append that moves thesis t along one edge is an Advance. *)
LEMMA AdvanceIs ==
  ASSUME TypeOK, NEW t \in Theses, NEW from, NEW to, state[t] = from, state'[t] = to,
         state' \in [Theses -> States],
         \A u \in Theses : u # t => state'[u] = state[u], UNCHANGED signoffs
  PROVE  Contract!Advance(t, from, to)
<1>1. state' = [state EXCEPT ![t] = to]
  BY DEF TypeOK
<1> QED BY <1>1 DEF Contract!Advance

(* With ids used once, every step of the lifecycle is a step of the        *)
(* contract or changes neither a thesis's phase nor a clearance.           *)
LEMMA ContractStep ==
  ~RedraftAllowed /\ IInv /\ [Next]_vars => [Contract!CNext]_(Contract!cvars)
<1> SUFFICES ASSUME ~RedraftAllowed, IInv, [Next]_vars
             PROVE  [Contract!CNext]_(Contract!cvars)
  OBVIOUS
<1>t. TypeOK
  BY DEF IInv
<1>s. ASSUME UNCHANGED <<state, signoffs>> PROVE UNCHANGED Contract!cvars
  BY <1>s DEF Contract!cvars
<1>e. ASSUME state' \in [Theses -> States], \A u \in Theses : state'[u] = state[u],
             UNCHANGED signoffs
      PROVE  UNCHANGED Contract!cvars
  <2>1. state' = state
    BY <1>e, <1>t DEF TypeOK
  <2> QED BY <2>1, <1>e, <1>s
<1>1. ASSUME NEW t \in Theses, Draft(t) PROVE Contract!CNext
  <2>1. /\ state[t] = NoState /\ state'[t] = "draft" /\ state' \in [Theses -> States]
        /\ \A u \in Theses : u # t => state'[u] = state[u]
    BY <1>1, <1>t, AppendIs, AppendedIs, NextStateIs DEF Draft, TypeOK
  <2>2. Contract!Advance(t, NoState, "draft")
    BY <1>1, <1>t, <2>1, AdvanceIs DEF Draft
  <2> QED BY <2>2 DEF Contract!CNext, Contract!NoState, NoState
<1>2. ASSUME NEW p \in Procs, NEW t \in Theses, Step(p, t)
      PROVE  Contract!CNext \/ UNCHANGED Contract!cvars
  <2> DEFINE Goal == Contract!CNext \/ UNCHANGED Contract!cvars
  <2>1. ASSUME NEW e \in Appended, Append(t, e), NextState(state[t], e) = state[t],
               UNCHANGED signoffs
        PROVE  Goal
    <3>1. state' \in [Theses -> States] /\ \A u \in Theses : state'[u] = state[u]
      BY <2>1, <1>t, AppendIs
    <3> QED BY <2>1, <3>1, <1>e
  <2>2. ASSUME NEW e \in Appended, Append(t, e), UNCHANGED signoffs
        PROVE  Contract!Advance(t, state[t], NextState(state[t], e))
    <3>1. /\ state' \in [Theses -> States] /\ state'[t] = NextState(state[t], e)
          /\ \A u \in Theses : u # t => state'[u] = state[u]
      BY <2>2, <1>t, AppendIs
    <3> QED BY <2>2, <1>t, <3>1, AdvanceIs
  <2>s. state[t] \in States
    BY <1>t DEF TypeOK
  <2>3. CASE SubmitMarker(p, t)
    <3>1. Append(t, Marker("ThesisSubmitted")) /\ UNCHANGED signoffs
      BY <2>3 DEF SubmitMarker, facts
    <3>2. Marker("ThesisSubmitted") \in Appended
      BY AppendedIs DEF SimpleMarkers
    <3>3. CASE state[t] = "draft"
      <4>1. Contract!Advance(t, "draft", "submitted")
        BY <3>1, <3>2, <3>3, <2>2, <2>s, NextStateIs
      <4> QED BY <4>1 DEF Contract!CNext
    <3> QED BY <3>1, <3>2, <3>3, <2>1, <2>s, NextStateIs
  <2>4. CASE Approve(p, t)
    <3>1. Append(t, Marker("ThesisApproved")) /\ UNCHANGED signoffs
      BY <2>4 DEF Approve, facts
    <3>2. Marker("ThesisApproved") \in Appended
      BY AppendedIs DEF SimpleMarkers
    <3>3. CASE state[t] = "reviewed"
      <4>1. Contract!Advance(t, "reviewed", "approved")
        BY <3>1, <3>2, <3>3, <2>2, <2>s, NextStateIs
      <4> QED BY <4>1 DEF Contract!CNext, Contract!Decide
    <3> QED BY <3>1, <3>2, <3>3, <2>1, <2>s, NextStateIs
  <2>5. CASE Reject(p, t)
    <3>1. Append(t, Marker("ThesisRejected")) /\ UNCHANGED signoffs
      BY <2>5 DEF Reject, facts
    <3>2. Marker("ThesisRejected") \in Appended
      BY AppendedIs DEF SimpleMarkers
    <3>3. CASE state[t] = "reviewed"
      <4>1. Contract!Advance(t, "reviewed", "rejected")
        BY <3>1, <3>2, <3>3, <2>2, <2>s, NextStateIs
      <4> QED BY <4>1 DEF Contract!CNext, Contract!Decide
    <3> QED BY <3>1, <3>2, <3>3, <2>1, <2>s, NextStateIs
  <2>6. CASE ActivateOnFill(p, t)
    <3>1. Append(t, Marker("ThesisActivated")) /\ UNCHANGED signoffs
      BY <2>6 DEF ActivateOnFill, facts
    <3>2. Marker("ThesisActivated") \in Appended
      BY AppendedIs DEF SimpleMarkers
    <3>3. CASE state[t] = "approved"
      <4>1. Contract!Advance(t, "approved", "active")
        BY <3>1, <3>2, <3>3, <2>2, <2>s, NextStateIs
      <4> QED BY <4>1 DEF Contract!CNext
    <3> QED BY <3>1, <3>2, <3>3, <2>1, <2>s, NextStateIs
  <2>7. ASSUME NEW passed \in BOOLEAN, RecordReview(p, t, passed) PROVE Goal
    <3>1. Append(t, Review("thesis_review")) /\ UNCHANGED signoffs
      BY <2>7 DEF RecordReview
    <3>2. Review("thesis_review") \in Appended
      BY AppendedIs
    <3>3. CASE state[t] = "submitted"
      <4>1. Contract!Advance(t, "submitted", "reviewed")
        BY <3>1, <3>2, <3>3, <2>2, <2>s, NextStateIs
      <4> QED BY <4>1 DEF Contract!CNext
    <3> QED BY <3>1, <3>2, <3>3, <2>1, <2>s, NextStateIs
  <2>8. ASSUME NEW passed \in BOOLEAN, RecordSignoff(p, t, passed) PROVE Goal
    <3>1. state' = state
      <4>1. state' \in [Theses -> States] /\ \A u \in Theses : state'[u] = state[u]
        BY <2>8, <1>t, <2>s, AppendIs, AppendedIs, NextStateIs DEF RecordSignoff
      <4> QED BY <4>1, <1>t DEF TypeOK
    <3>2. signoffs' = [signoffs EXCEPT ![t] = @ \cup {passed}]
      BY <2>8 DEF RecordSignoff
    <3>3. CASE passed
      <4>1. {u \in Theses : TRUE \in signoffs'[u]} = {u \in Theses : TRUE \in signoffs[u]} \cup {t}
        BY <3>2, <3>3, <1>t DEF TypeOK
      <4>2. Contract!Clear(t)
        BY <3>1, <4>1 DEF Contract!Clear
      <4> QED BY <4>2 DEF Contract!CNext
    <3>4. CASE ~passed
      <4>1. {u \in Theses : TRUE \in signoffs'[u]} = {u \in Theses : TRUE \in signoffs[u]}
        BY <3>2, <3>4, <1>t DEF TypeOK
      <4> QED BY <3>1, <4>1 DEF Contract!cvars
    <3> QED BY <3>3, <3>4
  <2>9. ASSUME NEW outcome \in Outcomes, AppendGraded(t, outcome), UNCHANGED signoffs,
               outcome = "VOID" /\ t \in Structural => TRUE \in signoffs[t]
        PROVE  Goal
    <3>1. Append(t, Grading(outcome)) /\ Grading(outcome) \in Appended
      BY <2>9, AppendedIs DEF AppendGraded
    <3>2. CASE state[t] = "active"
      <4>1. Contract!Advance(t, "active", outcome)
        BY <2>9, <3>1, <3>2, <2>2, <2>s, NextStateIs
      <4>2. Contract!Settle(t)
        BY <4>1, <2>9 DEF Contract!Settle, Contract!Outcomes, Outcomes
      <4> QED BY <4>2 DEF Contract!CNext
    <3> QED BY <2>9, <3>1, <3>2, <2>1, <2>s, NextStateIs
  <2>10. CASE Grade(p, t)
    <3>1. PICK outcome \in GradeOutcomes(t) : AppendGraded(t, outcome)
      BY <2>10 DEF Grade
    <3>2. outcome \in Outcomes /\ (t \in Structural => outcome # "VOID")
      BY DEF GradeOutcomes, Outcomes
    <3> QED BY <2>10, <3>1, <3>2, <2>9 DEF Grade
  <2>11. CASE VoidGrade(p, t)
    <3>1. TRUE \in signoffs[t]
      BY <2>11 DEF VoidGrade, At, IInv, InFlightHolds
    <3> QED BY <2>11, <3>1, <2>9 DEF VoidGrade, Outcomes
  <2>12. CASE \/ \E step \in Verbs : Begin(p, step, t)
              \/ BeginReview(p, t) \/ BeginSignoff(p, t) \/ Refuse(p, t)
              \/ SubmitSnapshot(p, t) \/ SubmitSizing(p, t)
              \/ VoidAttest(p, t) \/ VoidRefuse(p, t) \/ VoidProceed(p, t)
    BY <2>12, <1>s DEF Begin, BeginReview, BeginSignoff, Refuse, SubmitSnapshot, SubmitSizing,
                       VoidAttest, VoidRefuse, VoidProceed, facts
  <2> QED BY <1>2, <2>3, <2>4, <2>5, <2>6, <2>7, <2>8, <2>10, <2>11, <2>12 DEF Step
<1>3. ASSUME NEW p \in Procs, Crash(p) PROVE UNCHANGED Contract!cvars
  BY <1>3, <1>s DEF Crash, facts
<1>4. CASE UNCHANGED vars
  BY <1>4, <1>s DEF vars
<1> QED BY <1>1, <1>2, <1>3, <1>4 DEF Next

(* The verbs, however interleaved, implement the lifecycle contract when   *)
(* no id is drafted twice.                                                 *)
THEOREM LifecycleRefines == ~RedraftAllowed => (Spec => ImplementsContract)
<1>1. Init => Contract!CInit
  BY DEF Init, Contract!CInit, NoState, Contract!NoState
<1>2. ASSUME ~RedraftAllowed PROVE IInv /\ [Next]_vars => [Contract!CNext]_(Contract!cvars)
  BY <1>2, ContractStep
<1> SUFFICES ASSUME ~RedraftAllowed PROVE Spec => ImplementsContract
  OBVIOUS
<1>3. IInv /\ [Next]_vars => [Contract!CNext]_(Contract!cvars)
  BY <1>2
<1> QED BY <1>1, <1>3, Invariance, PTL DEF Spec, ImplementsContract, Contract!CSpec
-----------------------------------------------------------------------------
(* Grading. *)
GIInv == GTypeOK /\ VerdictStands
-----------------------------------------------------------------------------
(* A set of numbers that is not empty has a least one. *)
LEMMA LeastOf ==
  ASSUME NEW S \in SUBSET Nat, S # {}
  PROVE  \E n \in S : \A m \in S : n <= m
<1> DEFINE R == {ss \in Nat \X Nat : ss[1] < ss[2]}
<1>1. IsWellFoundedOn(R, Nat)
  BY ONLY NatLessThanWellFounded, Zenon DEF OpToRel
<1>2. S \subseteq Nat
  OBVIOUS
<1>3. \A x, y \in Nat : (<<y, x>> \in R) <=> y < x
  OBVIOUS
<1> HIDE DEF R
<1>4. \E x \in S : \A y \in S : ~ (<<y, x>> \in R)
  BY ONLY <1>1, <1>2, S # {}, WFMin, Zenon
<1>5. PICK x \in S : \A y \in S : ~ (<<y, x>> \in R)
  BY <1>4
<1>6. ASSUME NEW y \in S PROVE x <= y
  <2>1. ~ (y < x)
    BY <1>2, <1>3, <1>5
  <2> QED BY <2>1, <1>2
<1> QED BY <1>6

LEMMA FirstOf ==
  ASSUME NEW S \in SUBSET Nat, NEW i \in S, \A j \in S : i <= j
  PROVE  First(S) = i
<1>1. First(S) \in S /\ \A j \in S : First(S) <= j
  BY DEF First
<1>2. First(S) \in Nat /\ i \in Nat /\ First(S) <= i /\ i <= First(S)
  BY <1>1
<1> QED BY <1>2

LEMMA BarTimes ==
  /\ \A i \in Nat : Open(i) \in Nat /\ Close(i) \in Nat /\ Close(i) = Open(i) + BarLen
  /\ \A i, j \in Nat : i <= j => Open(i) <= Open(j) /\ Close(i) <= Close(j)
  /\ \A i, j \in Nat : i < j => Close(i) < Close(j)
BY GradingAssumption DEF Open, Close

(* The last bar is the open one. *)
LEMMA LastIsOpen ==
  ASSUME GTypeOK
  PROVE  /\ now \in Nat /\ now + 1 \in Nat
         /\ now \div BarLen \in Nat /\ DOMAIN bars = 0 .. now \div BarLen
         /\ Last = now \div BarLen
         /\ Close(Last) > now /\ \A i \in Nat : i < Last => Close(i) <= now
         /\ (now + 1) \div BarLen = IF now + 1 < Close(Last) THEN Last ELSE Last + 1
<1> USE GradingAssumption
<1> DEFINE q == now \div BarLen
<1>1. now \in Nat /\ q \in Nat /\ DOMAIN bars = 0 .. q
  BY DEF GTypeOK
<1>2. BarLen * q <= now /\ now < BarLen * q + BarLen
  BY <1>1
<1> HIDE DEF q
<1>3. Last = q
  BY <1>1 DEF Last
<1>4. Close(q) = BarLen * q + BarLen /\ Open(q) = BarLen * q
  BY <1>1 DEF Close, Open
<1>5. ASSUME NEW i \in Nat, i < q PROVE Close(i) <= now
  <2>1. i + 1 <= q
    BY <1>1, <1>5
  <2>2. (i + 1) * BarLen <= q * BarLen
    BY <1>1, <2>1
  <2> QED BY <1>1, <1>2, <2>2 DEF Close
<1>6. (now + 1) \div BarLen = IF now + 1 < Close(q) THEN q ELSE q + 1
  <2> DEFINE r == (now + 1) \div BarLen
  <2>1. r \in Nat /\ BarLen * r <= now + 1 /\ now + 1 < BarLen * r + BarLen
    BY <1>1
  <2> HIDE DEF r
  <2>2. r < q => BarLen * (r + 1) <= BarLen * q
    BY <1>1, <2>1
  <2>3. r >= q
    BY <1>1, <1>2, <2>1, <2>2
  <2>4. r > q + 1 => BarLen * (q + 2) <= BarLen * r
    BY <1>1, <2>1
  <2>5. r <= q + 1
    BY <1>1, <1>2, <2>1, <2>4
  <2>6. CASE now + 1 < Close(q)
    <3>1. r = q + 1 => BarLen * r = BarLen * q + BarLen
      BY <1>1
    <3>2. r # q + 1
      BY <1>1, <1>4, <2>1, <2>6, <3>1
    <3> QED BY <1>1, <2>1, <2>3, <2>5, <2>6, <3>2 DEF r
  <2>7. CASE ~(now + 1 < Close(q))
    <3>1. r # q
      BY <1>1, <1>4, <2>1, <2>7
    <3> QED BY <1>1, <2>1, <2>3, <2>5, <2>7, <3>1 DEF r
  <2> QED BY <2>6, <2>7
<1> QED BY <1>1, <1>2, <1>3, <1>4, <1>5, <1>6 DEF q
-----------------------------------------------------------------------------
(* Whole days back from now reach the activation, by less than a day. *)
LEMMA WindowReaches ==
  ASSUME GTypeOK, now >= Activation
  PROVE  WindowStart \in (Activation - DayLen) + 1 .. Activation
<1> USE GradingAssumption
<1> DEFINE x == now - Activation
           q == (x + DayLen - 1) \div DayLen
<1>1. now \in Nat /\ x \in Nat /\ x + DayLen - 1 \in Nat
  BY DEF GTypeOK
<1>2. q \in Nat /\ x + DayLen - 1 < DayLen * q + DayLen /\ DayLen * q <= x + DayLen - 1
  BY <1>1
<1>3. LookbackDays = q
  BY DEF LookbackDays
<1> HIDE DEF q
<1>4. DayLen * q \in Int /\ DayLen * q >= x /\ DayLen * q <= x + DayLen - 1
  BY <1>1, <1>2
<1>5. WindowStart = now - DayLen * q
  BY <1>2, <1>3 DEF WindowStart
<1> QED BY <1>1, <1>4, <1>5

LEMMA Covers ==
  ASSUME GTypeOK, now >= Activation, NEW i \in DOMAIN bars, Open(i) >= Activation, Close(i) <= now
  PROVE  i \in Fetched
<1>1. i \in Nat
  BY LastIsOpen
<1> QED BY <1>1, WindowReaches, BarTimes, GradingAssumption DEF Fetched

(* What hindsight reads are closed bars. *)
LEMMA SinceIsPast ==
  ASSUME GTypeOK, NEW start \in Int
  PROVE  Since(start) \in SUBSET Nat /\ \A i \in Since(start) : i < Last
<1>1. ASSUME NEW i \in Since(start) PROVE i \in Nat /\ i < Last
  <2>1. i \in 0 .. Last /\ Close(i) <= now /\ Last \in Nat /\ now \in Nat
    BY LastIsOpen DEF Since
  <2>2. i # Last
    BY <2>1, LastIsOpen, BarTimes
  <2> QED BY <2>1, <2>2
<1> QED BY <1>1

LEMMA WinnerIsResolved ==
  ASSUME GTypeOK, NEW i
  PROVE  Winner(Hits(i)) = Resolved(i)
<1>1. contract \subseteq Predicate
  BY GradingAssumption DEF GTypeOK
<1>2. "failure" \in Hits(i) <=> \E p \in contract : p.category = "failure" /\ Live(p, i)
                                   /\ (p.kind = "price" => p \in bars[i])
  BY <1>1 DEF Hits, Predicate
<1> QED BY <1>2 DEF Resolved, Winner

(* The loop stops at the first trigger of the bars it fetched. *)
LEMMA GradedIs ==
  ASSUME GTypeOK
  PROVE  Graded = IF Since(WindowStart) = {} THEN AtHorizon
                  ELSE Resolved(First(Since(WindowStart)))
<1> DEFINE read == {i \in Fetched : \A j \in Fetched : j <= i => Close(j) <= now}
           deciding == {i \in read : Hits(i) # {}}
<1>1. deciding = Since(WindowStart)
  BY DEF Fetched, Since
<1>2. Graded = IF deciding = {} THEN AtHorizon ELSE Winner(Hits(First(deciding)))
  BY DEF Graded, Evaluate
<1> HIDE DEF deciding
<1> QED BY <1>1, <1>2, WinnerIsResolved

(* A verdict given now is one of hindsight. *)
LEMMA GradedIsHindsight ==
  ASSUME GTypeOK, Graded # "PENDING"
  PROVE  Graded \in Hindsight(WindowStart)
<1>1. CASE Since(WindowStart) = {}
  BY <1>1, GradedIs, GradingAssumption DEF Hindsight, AtHorizon, GTypeOK
<1>2. CASE Since(WindowStart) # {}
  BY <1>2, GradedIs DEF Hindsight
<1> QED BY <1>1, <1>2
-----------------------------------------------------------------------------
LEMMA GradingInit == GInit => GIInv
<1> SUFFICES ASSUME GInit PROVE GIInv
  OBVIOUS
<1> USE GradingAssumption
<1>1. PICK hits \in Moves : bars = [i \in {0} |-> hits]
  BY DEF GInit
<1>2. 0 \div BarLen = 0 /\ 0 .. 0 = {0} /\ now = 0
  BY DEF GInit
<1>3. hits \subseteq contract
  BY <1>1 DEF Moves
<1>4. bars \in [0 .. now \div BarLen -> SUBSET contract]
  BY <1>1, <1>2, <1>3
<1> QED BY <1>2, <1>4 DEF GInit, GIInv, GTypeOK, VerdictStands

(* A tick changes no closed bar. *)
LEMMA TickIsTyped ==
  ASSUME GTypeOK, Tick
  PROVE  /\ GTypeOK'
         /\ \A i \in 0 .. Last - 1 : bars'[i] = bars[i]
         /\ DOMAIN bars' \in {0 .. Last, 0 .. Last + 1}
         /\ now + 1 >= Close(Last) => DOMAIN bars' = 0 .. Last + 1 /\ bars'[Last] = bars[Last]
<1> USE GradingAssumption
<1>1. /\ now' = now + 1 /\ now' \in 0 .. MaxTime /\ UNCHANGED <<contract, verdict>>
      /\ Last \in Nat /\ bars \in [0 .. Last -> SUBSET contract]
      /\ Close(Last) \in Nat
  <2>1. now \in Nat /\ now <= MaxTime /\ now < MaxTime /\ now' = now + 1 /\ UNCHANGED <<contract, verdict>>
    BY DEF Tick, GTypeOK
  <2>2. Last \in Nat /\ bars \in [0 .. Last -> SUBSET contract]
    BY LastIsOpen DEF GTypeOK
  <2>3. Close(Last) \in Nat
    BY <2>2, BarTimes
  <2> QED BY <2>1, <2>2, <2>3
<1>2. \A hits \in Moves : hits \subseteq contract
  BY DEF Moves
<1>3. CASE now + 1 < Close(Last)
  <2>1. PICK hits \in Moves : bars' = [bars EXCEPT ![Last] = hits]
    BY <1>3 DEF Tick
  <2>2. now' \div BarLen = Last
    BY <1>1, <1>3, LastIsOpen
  <2>3. bars' \in [0 .. Last -> SUBSET contract] /\ bars'[Last] = hits
          /\ \A i \in 0 .. Last : i # Last => bars'[i] = bars[i]
    BY <1>1, <1>2, <2>1
  <2>4. GTypeOK'
    BY <1>1, <2>2, <2>3 DEF GTypeOK
  <2> QED BY <1>1, <1>3, <2>3, <2>4, LastIsOpen
<1>4. CASE ~(now + 1 < Close(Last))
  <2>1. PICK hits \in Moves :
          bars' = [i \in 0 .. Last + 1 |-> IF i = Last + 1 THEN hits ELSE bars[i]]
    BY <1>4 DEF Tick
  <2>2. now' \div BarLen = Last + 1
    BY <1>1, <1>4, LastIsOpen
  <2>3. bars' \in [0 .. Last + 1 -> SUBSET contract] /\ bars'[Last + 1] = hits
          /\ \A i \in 0 .. Last : bars'[i] = bars[i]
    <3>1. \A i \in 0 .. Last + 1 : i # Last + 1 => i \in 0 .. Last
      BY <1>1
    <3> QED BY <1>1, <1>2, <2>1, <3>1
  <2>4. GTypeOK'
    BY <1>1, <2>2, <2>3 DEF GTypeOK
  <2> QED BY <1>1, <2>3, <2>4
<1> QED BY <1>3, <1>4

(* An outcome of hindsight stays one. *)
LEMMA HindsightStands ==
  ASSUME GTypeOK, Tick, NEW start \in Int, NEW v \in Hindsight(start)
  PROVE  v \in Hindsight(start)'
<1> USE GradingAssumption
<1>1. /\ now \in Nat /\ Last \in Nat /\ now' = now + 1 /\ contract' = contract
      /\ Close(Last) \in Nat /\ Close(Last) > now /\ Close(Last + 1) = Close(Last) + BarLen
  <2>1. now \in Nat /\ Last \in Nat /\ Close(Last) > now
    BY LastIsOpen
  <2>2. Close(Last) \in Nat /\ Close(Last + 1) = Close(Last) + BarLen
    BY <2>1 DEF Close
  <2> QED BY <2>1, <2>2 DEF GTypeOK, Tick
<1>2. ASSUME NEW i \in Nat, i < Last
      PROVE  i \in DOMAIN bars /\ i \in DOMAIN bars' /\ bars'[i] = bars[i] /\ Hits(i)' = Hits(i)
               /\ Close(i) <= now
  <2>1. i \in 0 .. Last - 1 /\ i \in 0 .. Last /\ i \in 0 .. Last + 1
    BY <1>1, <1>2
  <2>2. i \in DOMAIN bars /\ i \in DOMAIN bars' /\ bars'[i] = bars[i]
    BY <2>1, TickIsTyped, LastIsOpen
  <2>3. Hits(i)' = Hits(i)
    BY <1>1, <2>2 DEF Hits, Live, Close
  <2>4. Close(i) <= now
    BY <1>2, LastIsOpen
  <2> QED BY <2>2, <2>3, <2>4
<1>3. ASSUME NEW i \in Since(start) PROVE i \in Since(start)' /\ i \in Nat /\ i < Last
  <2>1. i \in Nat /\ i < Last /\ Open(i) >= start /\ Hits(i) # {}
    BY SinceIsPast DEF Since
  <2>2. i \in DOMAIN bars' /\ Hits(i)' # {} /\ Close(i) <= now
    BY <1>2, <2>1
  <2>3. Close(i) \in Nat
    BY <2>1, BarTimes
  <2> QED BY <1>1, <2>1, <2>2, <2>3 DEF Since, Open, Close
<1>4. ASSUME NEW i \in Since(start)' PROVE i \in Nat /\ (i \in Since(start) \/ i = Last)
  <2>1. /\ i \in DOMAIN bars' /\ Open(i) >= start /\ Close(i) <= now + 1 /\ Hits(i)' # {}
    BY <1>1 DEF Since, Open, Close
  <2>2. i \in Nat /\ i <= Last + 1
    BY <1>1, <2>1, TickIsTyped
  <2>3. i # Last + 1
    BY <1>1, <2>1
  <2>4. i < Last => i \in Since(start)
    BY <1>2, <2>1, <2>2 DEF Since
  <2> QED BY <1>1, <2>2, <2>3, <2>4
<1>5. (now < Horizon \/ \E i \in Since(start) : Close(i) <= Horizon) \/
        ~(now' < Horizon \/ \E i \in Since(start)' : Close(i)' <= Horizon)
  <2> SUFFICES ASSUME ~(now < Horizon), NEW i \in Since(start)', Close(i) <= Horizon
               PROVE  i \in Since(start)
    BY <1>1 DEF Close
  <2> QED BY <1>1, <1>4
<1>6. CASE Since(start) # {}
  <2>1. PICK i \in Since(start) : \A j \in Since(start) : i <= j
    BY <1>6, SinceIsPast, LeastOf
  <2>2. First(Since(start)) = i
    BY <2>1, SinceIsPast, FirstOf
  <2>3. First(Since(start)') = i
    <3>1. Since(start)' \in SUBSET Nat /\ i \in Since(start)' /\ \A j \in Since(start)' : i <= j
      BY <1>1, <1>3, <1>4, <2>1
    <3> QED BY <3>1, FirstOf
  <2>4. Since(start)' # {} /\ bars'[i] = bars[i] /\ Hits(i)' = Hits(i)
    BY <1>2, <1>3, <2>1
  <2>5. Resolved(i)' = Resolved(i)
    BY <1>1, <2>4 DEF Resolved, Live, Close
  <2>6. v = Resolved(i) \/ (v = "FAIL" /\ ~(now < Horizon \/ \E j \in Since(start) : Close(j) <= Horizon))
    BY <1>6, <2>2 DEF Hindsight
  <2>7. First(Since(start))' = i
    BY <2>3 DEF First
  <2>8. /\ Resolved(i)' \in Hindsight(start)'
        /\ ~(now' < Horizon \/ \E j \in Since(start)' : Close(j)' <= Horizon) => "FAIL" \in Hindsight(start)'
    BY <2>4, <2>7 DEF Hindsight
  <2> QED BY <1>5, <2>5, <2>6, <2>8
<1>7. CASE Since(start) = {}
  <2>1. v = "FAIL" /\ ~(now < Horizon)
    BY <1>7 DEF Hindsight
  <2>2. ~(now' < Horizon \/ \E j \in Since(start)' : Close(j)' <= Horizon)
    BY <1>5, <1>7, <2>1
  <2> QED BY <2>1, <2>2 DEF Hindsight
<1> QED BY <1>6, <1>7

LEMMA GradingStep == GIInv /\ [GNext]_gvars => GIInv'
<1> SUFFICES ASSUME GIInv, [GNext]_gvars PROVE GIInv'
  OBVIOUS
<1>1. CASE Tick
  <2>1. GTypeOK' /\ verdict' = verdict
    BY <1>1, TickIsTyped DEF GIInv, Tick
  <2>2. ASSUME verdict # "PENDING"
        PROVE  \E start \in (Activation - DayLen) + 1 .. Activation : verdict \in Hindsight(start)'
    <3>1. PICK start \in (Activation - DayLen) + 1 .. Activation : verdict \in Hindsight(start)
      BY <2>2 DEF GIInv, VerdictStands
    <3>2. start \in Int
      BY <3>1, GradingAssumption
    <3>3. verdict \in Hindsight(start)'
      BY <1>1, <3>1, <3>2, HindsightStands DEF GIInv
    <3> QED BY <3>1, <3>3
  <2> QED BY <2>1, <2>2 DEF GIInv, VerdictStands
<1>2. CASE GradeNow
  <2>1. /\ now >= Activation /\ verdict' = Graded /\ Graded # "PENDING"
        /\ UNCHANGED <<contract, now, bars>>
    BY <1>2 DEF GradeNow
  <2>2. GTypeOK'
    <3>1. Graded \in {"PENDING", "PASS", "FAIL", "VOID"}
      BY DEF Graded, Evaluate, AtHorizon, Winner
    <3> QED BY <2>1, <3>1 DEF GIInv, GTypeOK
  <2>3. PICK start \in (Activation - DayLen) + 1 .. Activation : Graded \in Hindsight(start)
    BY <2>1, WindowReaches, GradedIsHindsight DEF GIInv
  <2>4. Hindsight(start)' = Hindsight(start)
    BY <2>1 DEF Hindsight, Since, Resolved, Hits
  <2>5. VerdictStands'
    BY <2>1, <2>3, <2>4 DEF VerdictStands
  <2> QED BY <2>2, <2>5 DEF GIInv
<1>3. CASE UNCHANGED gvars
  <2>1. GTypeOK' /\ verdict' = verdict
    BY <1>3 DEF gvars, GIInv, GTypeOK
  <2>2. \A start : Hindsight(start)' = Hindsight(start)
    BY <1>3 DEF gvars, Hindsight, Since, Resolved, Hits
  <2> QED BY <2>1, <2>2 DEF GIInv, VerdictStands
<1> QED BY <1>1, <1>2, <1>3 DEF GNext, Done

THEOREM GradingInvariance == GSpec => []GIInv
BY GradingInit, GradingStep, PTL DEF GSpec

(* Clock, bars and verdict keep their types.                                *)
THEOREM GradingTypeCorrect == GSpec => []GTypeOK
<1>1. GIInv => GTypeOK
  BY DEF GIInv
<1> QED BY <1>1, GradingInvariance, PTL
-----------------------------------------------------------------------------
(* Whole days fetched back from now reach every bar since the activation,   *)
(* whatever the lengths of bars and days and the time of the call.          *)
THEOREM WindowCoversHolds == GSpec => []WindowCovers
<1>1. GIInv => WindowCovers
  BY Covers DEF GIInv, WindowCovers
<1> QED BY <1>1, GradingInvariance, PTL

(* A verdict is an outcome of the bars since some instant less than a day   *)
(* before the activation, and no later bar takes that from it.              *)
THEOREM VerdictStandsHolds == GSpec => []VerdictStands
<1>1. GIInv => VerdictStands
  BY DEF GIInv
<1> QED BY <1>1, GradingInvariance, PTL
=============================================================================
