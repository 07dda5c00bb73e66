--------------------------- MODULE ThesisContract ---------------------------
(***************************************************************************)
(* What the lifecycle promises of a thesis whose id is used once: it walks *)
(* the diagram of thesis/_machine.py one edge at a time, never leaves a    *)
(* decided state, and a structural thesis becomes VOID only once a signed  *)
(* clearance stands.  Processes, races, crashes and the event log do not   *)
(* exist at this level.                                                    *)
(***************************************************************************)
EXTENDS ThesisMachine

CONSTANTS
  Theses,       \* thesis ids
  Structural    \* the theses whose invalidation is structural, not measurable

VARIABLES
  phase,        \* [Theses -> States]
  cleared       \* theses with a passing void sign-off

cvars == <<phase, cleared>>

CInit == /\ phase = [t \in Theses |-> NoState]
         /\ cleared = {}

(* One edge of the diagram for thesis t. *)
Advance(t, from, to) == /\ phase[t] = from
                        /\ phase' = [phase EXCEPT ![t] = to]
                        /\ UNCHANGED cleared

Decide(t) == \/ Advance(t, "reviewed", "approved")
             \/ Advance(t, "reviewed", "rejected")

(* Arithmetic may settle a thesis any way its contract allows; a structural *)
(* one needs the clearance to be VOID.                                      *)
Settle(t) == \E outcome \in Outcomes :
               /\ outcome = "VOID" /\ t \in Structural => t \in cleared
               /\ Advance(t, "active", outcome)

(* A reviewer signs off on an attested invalidation, whatever the phase. *)
Clear(t) == /\ cleared' = cleared \cup {t}
            /\ UNCHANGED phase

CNext == \E t \in Theses :
           \/ Advance(t, NoState, "draft")
           \/ Advance(t, "draft", "submitted")
           \/ Advance(t, "submitted", "reviewed")
           \/ Decide(t)
           \/ Advance(t, "approved", "active")
           \/ Settle(t)
           \/ Clear(t)

CSpec == CInit /\ [][CNext]_cvars
=============================================================================
