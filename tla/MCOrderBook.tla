---------------------------- MODULE MCOrderBook ----------------------------
(* A small market for the order book: the instances TLC checks.            *)
EXTENDS OrderBook
=============================================================================
