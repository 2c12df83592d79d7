--------------------------- MODULE MCTransactions ---------------------------
(***************************************************************************)
(* Instances of Transactions for TLC: a transaction and two ordinary calls *)
(* that may be unfinished at a time.                                       *)
(***************************************************************************)
EXTENDS Transactions
=============================================================================
