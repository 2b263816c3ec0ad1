----------------------------- MODULE MCSessions -----------------------------
(* Two accounts and three requests at once.                                *)
EXTENDS Sessions, TLC

CONSTANTS u1, u2, r1, r2, r3

MCSymmetry == Permutations({u1, u2}) \cup Permutations({r1, r2, r3})
=============================================================================
