------------------------------- MODULE Market -------------------------------
(***************************************************************************)
(* The vocabulary of one market, shared by the modules about its order     *)
(* book: sides, prices and what it means for a price to be better or for   *)
(* two prices to cross.  Prices and quantities are the integers of the     *)
(* engine's fixed-point decimals (internal/fixed).                         *)
(***************************************************************************)
EXTENDS Integers

CONSTANTS
  OrderIds,   \* identifiers an order may have (UUIDs in the code)
  Price,      \* limit prices
  Qty,        \* quantities an order may be placed with
  NoOrder     \* no order is being matched

\* The backend accepts no order whose price or quantity is not positive, and
\* its price column has a fixed precision, so there is a highest price.
ASSUME PriceAssumption   == /\ Price \subseteq Nat \ {0}
                            /\ \E top \in Price : \A p \in Price : p <= top
ASSUME QtyAssumption     == Qty \subseteq Nat \ {0}
ASSUME NoOrderAssumption == NoOrder \notin OrderIds

Side == {"BUY", "SELL"}

Opposite(s) == IF s = "BUY" THEN "SELL" ELSE "BUY"

\* The order of the prices in the heap of side s: bids descend, asks ascend.
Better(s, p, q) == IF s = "BUY" THEN p > q ELSE p < q

\* Fault: orders at exactly the same price do not trade.
CrossesStrictly(s, p, q) == IF s = "BUY" THEN p > q ELSE p < q

\* Fault: the price cross check is gone.
CrossesAlways(s, p, q) == TRUE

\* An incoming order of side s limited at p may trade at a resting price q.
Crosses(s, p, q) == IF s = "BUY" THEN p >= q ELSE p <= q

\* fixed.Min
Least(a, b) == IF a <= b THEN a ELSE b

\* The smallest price, for the orders nobody placed yet.
AnyPrice == CHOOSE p \in Price : TRUE
=============================================================================
