--------------------------- MODULE MCTransactions ---------------------------
(* An instance of Transactions for TLC. *)
EXTENDS Transactions, TLC

Symmetry == Permutations(Save) \cup Permutations(Edit)
=============================================================================
