----------------------------- MODULE MCExchange -----------------------------
(* Small instances of the exchange.                                        *)
EXTENDS Exchange, TLC

\* The engineMatchIds a behaviour can reach: a command trades with each
\* resting order at most once.
Matches == (1 .. MaxCommands) \X (0 .. 3)

Symmetry == Permutations(OrderIds) \cup Permutations(Users)
=============================================================================
