--------------------------- MODULE MCLedgerTransfer ---------------------------
(* LedgerTransfer; facts are interchangeable.                                *)
EXTENDS LedgerTransfer, TLC

Symmetry == Permutations(Fact) \cup Permutations(Claim)
=============================================================================
