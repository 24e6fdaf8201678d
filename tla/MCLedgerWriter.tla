--------------------------- MODULE MCLedgerWriter ---------------------------
(* Two master programs with one ledger file. *)
EXTENDS LedgerWriter, TLC

CONSTANTS w1, w2

Symmetry == Permutations({w1, w2})
=============================================================================
