----------------------------- MODULE MCPromotion -----------------------------
(* TLC instance of Promotion: two series looked back on, one grading each   *)
(* completing them.                                                         *)
EXTENDS Promotion

(* A win, and a void that lost a fifth of the equity: it does not count as  *)
(* graded, but its drawdown soils the series.                               *)
MCGrades == {[outcome |-> "PASS", pnl |-> 2], [outcome |-> "VOID", pnl |-> -2]}
=============================================================================
