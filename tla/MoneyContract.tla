---------------------------- MODULE MoneyContract ----------------------------
(***************************************************************************)
(* What one account's money path promises, whatever orders rest, crash or  *)
(* are polled: each order moves the position once at most, nothing moves   *)
(* while the ledger is halted, an exit leaves the account flat, and a      *)
(* thesis becomes active only behind a fill of its own entry.              *)
(***************************************************************************)
EXTENDS Integers

CONSTANTS
  Theses,     \* thesis ids
  OrderIds,   \* order ids
  NetQty      \* what one filled entry adds to the position

VARIABLES
  active,     \* active theses
  halted,     \* an unresolved HaltSet stands
  filled,     \* orders that moved the position
  bought,     \* theses with a filled entry
  holdings    \* the account's net position

mvars == <<active, halted, filled, bought, holdings>>

MInit == /\ active = {}
         /\ halted = FALSE
         /\ filled = {}
         /\ bought = {}
         /\ holdings = 0

(* Order o of the account is filled, for the first and only time. *)
Fill(o) == /\ ~halted
           /\ o \notin filled
           /\ filled' = filled \cup {o}
           /\ UNCHANGED <<active, halted>>

Buy(o, t) == /\ Fill(o)
             /\ bought' = bought \cup {t}
             /\ holdings' = holdings + NetQty

SellAll(o) == /\ Fill(o)
              /\ holdings # 0
              /\ holdings' = 0
              /\ UNCHANGED bought

Activate(t) == /\ t \in bought \ active
               /\ active' = active \cup {t}
               /\ UNCHANGED <<halted, filled, bought, holdings>>

SetHalt(h) == /\ halted' = h
              /\ UNCHANGED <<active, filled, bought, holdings>>

MNext == \/ \E o \in OrderIds, t \in Theses : Buy(o, t)
         \/ \E o \in OrderIds : SellAll(o)
         \/ \E t \in Theses : Activate(t)
         \/ \E h \in BOOLEAN : SetHalt(h)

MSpec == MInit /\ [][MNext]_mvars
=============================================================================
