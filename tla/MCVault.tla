------------------------------ MODULE MCVault ------------------------------
(* The contracts with two tokens, two users and five transactions     *)
(* other than the script's, at any point of it.                             *)
EXTENDS Vault, TLC

CONSTANTS alice, bob, admin, vault, faucet, usdt, usdc, ref1, ref2

MCTokenConfigs == <<usdt, usdc>>
MCUsers == {alice, bob}
MCSymmetry == Permutations(MCUsers) \cup Permutations({ref1, ref2})
=============================================================================
