--------------------------- MODULE MCShieldSpend ---------------------------
(* Instances of ShieldSpend for TLC.                                       *)
EXTENDS ShieldSpend, TLC

Symmetric == Permutations(Notes) \cup Permutations(Txs) \cup Permutations(Callers)
=============================================================================
