------------------------------ MODULE MCLedger ------------------------------
(* Two transactions on the USDT wallets of Alice and Bob; Alice reads.     *)
EXTENDS Ledger, Seed, TLC

CONSTANTS t1, t2

MCSymmetry == Permutations({t1, t2})
=============================================================================
