--------------------------- MODULE PriceTimeBook ---------------------------
(***************************************************************************)
(* What the matching engine promises of one market: price-time priority.   *)
(*                                                                         *)
(* The book is no more than the set of resting orders.  An incoming order  *)
(* trades, one resting order at a time, with the opposite order that has   *)
(* the best price and, among those, arrived first; it stops when it is     *)
(* filled or when nothing crosses it, and what is left of it rests.        *)
(* There are no heaps, levels, queues or totals here: module OrderBook has *)
(* them, and is shown to implement this one.                               *)
(***************************************************************************)
EXTENDS Market

VARIABLES
  side, price, rem,   \* the fields of each order: Side, Price, RemainingQuantity
  stamp,              \* when the order was submitted (0: not yet)
  now,                \* the number of orders submitted so far
  incoming,           \* the order being matched, or NoOrder
  resting             \* the orders in the book

bookVars == <<side, price, rem, stamp, now, incoming, resting>>

-----------------------------------------------------------------------------

Init ==
  /\ side = [o \in OrderIds |-> "BUY"]
  /\ price = [o \in OrderIds |-> AnyPrice]
  /\ rem = [o \in OrderIds |-> 0]
  /\ stamp = [o \in OrderIds |-> 0]
  /\ now = 0
  /\ incoming = NoOrder
  /\ resting = {}

Submit(o, s, p, q) ==
  /\ incoming = NoOrder
  /\ stamp[o] = 0
  /\ side' = [side EXCEPT ![o] = s]
  /\ price' = [price EXCEPT ![o] = p]
  /\ rem' = [rem EXCEPT ![o] = q]
  /\ stamp' = [stamp EXCEPT ![o] = now + 1]
  /\ now' = now + 1
  /\ incoming' = o
  /\ UNCHANGED resting

\* The resting orders the incoming one may trade with.
Candidates ==
  {r \in resting : /\ side[r] = Opposite(side[incoming])
                   /\ Crosses(side[incoming], price[incoming], price[r])}

\* r goes before every other resting order of its side.
HasPriority(r) ==
  \A x \in resting \ {r} :
    side[x] = side[r] =>
      \/ Better(side[r], price[r], price[x])
      \/ price[r] = price[x] /\ stamp[r] < stamp[x]

Trade(r) ==
  LET x == Least(rem[incoming], rem[r]) IN
  /\ incoming # NoOrder
  /\ rem[incoming] > 0
  /\ r \in Candidates
  /\ HasPriority(r)
  /\ rem' = [rem EXCEPT ![incoming] = @ - x, ![r] = @ - x]
  /\ resting' = IF rem[r] = x THEN resting \ {r} ELSE resting
  /\ UNCHANGED <<side, price, stamp, now, incoming>>

Finish ==
  /\ incoming # NoOrder
  /\ rem[incoming] = 0 \/ Candidates = {}
  /\ resting' = IF rem[incoming] > 0 THEN resting \cup {incoming} ELSE resting
  /\ incoming' = NoOrder
  /\ UNCHANGED <<side, price, rem, stamp, now>>

Withdraw(o) ==
  /\ incoming = NoOrder
  /\ o \in resting
  /\ resting' = resting \ {o}
  /\ UNCHANGED <<side, price, rem, stamp, now, incoming>>

Next ==
  \/ \E o \in OrderIds, s \in Side, p \in Price, q \in Qty : Submit(o, s, p, q)
  \/ \E r \in OrderIds : Trade(r)
  \/ Finish
  \/ \E o \in OrderIds : Withdraw(o)

Spec == Init /\ [][Next]_bookVars
=============================================================================
