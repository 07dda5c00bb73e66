--------------------------- MODULE ThesisMachine ---------------------------
(***************************************************************************)
(* The guarded (state, event) -> state table of the thesis lifecycle,      *)
(* shared by every module that replays lifecycle events.  In the code it   *)
(* exists twice: _next_state in thesis/_machine.py folds a thesis's own    *)
(* events on every read, and _apply in ledger/_projections.py does the     *)
(* same to the `theses` table on a rebuild.                                *)
(***************************************************************************)

NoState == "none"

Outcomes == {"PASS", "FAIL", "VOID"}

Terminal == Outcomes \cup {"rejected"}

States == {NoState, "draft", "submitted", "reviewed", "approved", "active"} \cup Terminal

EventTypes == {"ThesisDrafted", "ThesisSubmitted", "ReviewCompleted", "ThesisApproved",
               "ThesisRejected", "ThesisActivated", "ThesisGraded"}

(* A lifecycle event, cut down to what the table reads.  `kind` is read of  *)
(* a ReviewCompleted only and `outcome` of a ThesisGraded only.             *)
Event == [type : EventTypes, kind : {"thesis_review", "void_signoff"}, outcome : Outcomes]

Marker(type) == [type |-> type, kind |-> "thesis_review", outcome |-> "VOID"]

Review(kind) == [type |-> "ReviewCompleted", kind |-> kind, outcome |-> "VOID"]

Grading(outcome) == [type |-> "ThesisGraded", kind |-> "thesis_review", outcome |-> outcome]

(* The one-shot markers, each legal from a single source state. *)
SimpleTransitions == {<<"draft", "ThesisSubmitted", "submitted">>,
                      <<"reviewed", "ThesisApproved", "approved">>,
                      <<"reviewed", "ThesisRejected", "rejected">>,
                      <<"approved", "ThesisActivated", "active">>}

SimpleMarkers == {"ThesisSubmitted", "ThesisApproved", "ThesisRejected", "ThesisActivated"}

SimpleTargets(current, type) == {to \in States : <<current, type, to>> \in SimpleTransitions}

(* Faulty variants of the table, for the runs that show what each guard is  *)
(* for: a review that counts in any state, a grade that counts in any       *)
(* state.                                                                   *)
NextStateReviewAnywhere(current, e) ==
  CASE e.type = "ThesisDrafted" -> "draft"
    [] e.type = "ReviewCompleted" -> IF e.kind = "thesis_review" THEN "reviewed" ELSE current
    [] e.type = "ThesisGraded" -> IF current = "active" THEN e.outcome ELSE current
    [] e.type \in SimpleMarkers ->
         IF SimpleTargets(current, e.type) = {}
         THEN current
         ELSE CHOOSE to \in SimpleTargets(current, e.type) : TRUE

NextStateGradeAnywhere(current, e) ==
  CASE e.type = "ThesisDrafted" -> "draft"
    [] e.type = "ReviewCompleted" ->
         IF e.kind = "thesis_review" /\ current = "submitted" THEN "reviewed" ELSE current
    [] e.type = "ThesisGraded" -> e.outcome
    [] e.type \in SimpleMarkers ->
         IF SimpleTargets(current, e.type) = {}
         THEN current
         ELSE CHOOSE to \in SimpleTargets(current, e.type) : TRUE

(* One step of the table.  It is total: an event that is not legal in the   *)
(* current state leaves the state alone.                                    *)
NextState(current, e) ==
  CASE e.type = "ThesisDrafted" -> "draft"
    [] e.type = "ReviewCompleted" ->
         IF e.kind = "thesis_review" /\ current = "submitted" THEN "reviewed" ELSE current
    [] e.type = "ThesisGraded" -> IF current = "active" THEN e.outcome ELSE current
    [] e.type \in SimpleMarkers ->
         IF SimpleTargets(current, e.type) = {}
         THEN current
         ELSE CHOOSE to \in SimpleTargets(current, e.type) : TRUE
=============================================================================
