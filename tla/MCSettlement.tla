---------------------------- MODULE MCSettlement ----------------------------
(* Small instances of the backend's tables.                                *)
EXTENDS Settlement, TLC

Symmetry == Permutations(OrderIds) \cup Permutations(Users) \cup Permutations(MatchIds)
=============================================================================
