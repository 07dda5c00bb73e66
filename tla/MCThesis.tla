------------------------------- MODULE MCThesis -------------------------------
(***************************************************************************)
(* TLC instance of the thesis package in two parts that share no state:    *)
(* the verbs of ThesisLifecycle, raced by several processes, and the       *)
(* grading of one thesis against the market.  A behaviour is of one part,  *)
(* the other stays as it is.                                               *)
(***************************************************************************)
EXTENDS ThesisLifecycle, Grading

VARIABLE part

Price(category, by) == [category |-> category, kind |-> "price", by |-> by]

Expiry(category, by) == [category |-> category, kind |-> "expiry", by |-> by]

(* A target and a stop, as every generated contract has them; with an early *)
(* measurable invalidation; with an expiry and deadlines apart; with an     *)
(* expiry between two closes, which the bar after the horizon triggers.     *)
MCContracts ==
  {{Price("success", 5), Price("failure", 5)},
   {Price("success", 5), Price("failure", 5), Price("invalidation", 4)},
   {Price("success", 5), Price("failure", 2), Expiry("invalidation", 4)},
   {Expiry("success", 5), Price("failure", 5)}}

MCInit == /\ part \in {"verbs", "grading"}
          /\ Init
          /\ GInit
          /\ part = "verbs" => /\ contract = CHOOSE c \in Contracts : TRUE
                               /\ bars = [i \in {0} |-> {}]

Verb == /\ part = "verbs"
        /\ Next
        /\ UNCHANGED <<part, gvars>>

Of(step) == /\ part = "grading"
            /\ step
            /\ UNCHANGED <<part, vars>>

MCNext == Verb \/ Of(Tick) \/ Of(GradeNow) \/ Of(Done)

(* Time passes, and the hourly run grades what it can (GFairSpec).          *)
MCSpec == /\ MCInit /\ [][MCNext]_<<part, vars, gvars>>
          /\ WF_<<part, vars, gvars>>(Of(Tick)) /\ WF_<<part, vars, gvars>>(Of(GradeNow))

(* An active thesis comes to a verdict (EventuallyGraded).                  *)
GradedInTheEnd == part = "grading" => EventuallyGraded
=============================================================================
