---------------------------- MODULE MCPolicyGate ----------------------------
(* TLC instance of PolicyGate: a loss that reaches the breaker and a gain   *)
(* that only raises the peak.                                               *)
EXTENDS PolicyGate

MCPnls == {-4, 4}

Symmetry == Permutations(Procs) \cup Permutations(Theses \ LimitTheses)
=============================================================================
