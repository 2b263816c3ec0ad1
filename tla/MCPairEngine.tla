---------------------------- MODULE MCPairEngine ----------------------------
(* Small instances of the pair engine.                                     *)
EXTENDS PairEngine

Cmd(type, o) == [type |-> type, order |-> o]

\* Two orders, the second of which may take the first; one cancel.
TwoOrders == <<Cmd("OpenMarket", 0), Cmd("PlaceOrder", 1), Cmd("PlaceOrder", 2), Cmd("CancelOrder", 1)>>
=============================================================================
