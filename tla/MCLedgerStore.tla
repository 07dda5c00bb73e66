--------------------------- MODULE MCLedgerStore ---------------------------
(* TLC instance of LedgerStore. *)
EXTENDS LedgerStore
=============================================================================
