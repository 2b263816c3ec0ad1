----------------------------- MODULE OrderBook -----------------------------
(***************************************************************************)
(* The in-memory order book of one market and the matching loop over it    *)
(* (services/matching-engine/internal/orderbook and .../matching).         *)
(*                                                                         *)
(* Each side has a heap of price levels and a map from price to level; a   *)
(* level holds a FIFO list of orders and a running total.  The heap is     *)
(* here the set of prices in it, and Top its best price: module PriceHeap  *)
(* models the array underneath.  The engine is single-threaded, so nothing *)
(* interleaves with the matching loop, but the loop is one action per      *)
(* iteration: the invariants must hold at its head every time round.       *)
(***************************************************************************)
EXTENDS Market, Sequences, Functions

VARIABLES
  side, price, rem,  \* the Order structs, shared by the lists and ActiveOrders
  stamp, now,        \* order of submission: history, the code never reads it
  incoming,          \* the order Match is working on, or NoOrder
  heap,              \* heap[s]: the prices whose level is in the heap of side s
  levels,            \* levels[s]: the keys of the map of levels of side s
  queue,             \* queue[s][p]: the FIFO list of level p, <<>> when no such level
  total,             \* total[s][p]: TotalQuantity of level p
  active             \* the keys of ActiveOrders

vars == <<side, price, rem, stamp, now, incoming, heap, levels, queue, total, active>>

Opp == Opposite(side[incoming])

-----------------------------------------------------------------------------
(* The side books.                                                         *)

\* Fault: the max flag of PriceHeap.Less is inverted.
IsTopInverted(s, p) == p \in heap[s] /\ \A q \in heap[s] \ {p} : Better(s, q, p)

IsTop(s, p) == p \in heap[s] /\ \A q \in heap[s] \ {p} : Better(s, p, q)

\* SideBook.BestPrice
Best(s) == CHOOSE p \in heap[s] : IsTop(s, p)

\* PriceLevel.Remove and list.Remove: the list without its i-th element.
Unlink(q, i) == [j \in 1 .. Len(q) - 1 |-> IF j < i THEN q[j] ELSE q[j + 1]]

\* Fault: RemoveLevelIfEmpty deletes the map entry and forgets the heap.
ShrinkLevelKeepsHeap(s, p, q) ==
  /\ queue' = [queue EXCEPT ![s][p] = q]
  /\ levels' = [levels EXCEPT ![s] = IF q = <<>> THEN @ \ {p} ELSE @]
  /\ UNCHANGED heap

\* The list of level p of side s becomes q; an empty level leaves the map and
\* the heap together (RemoveLevelIfEmpty), and its list is dropped with it.
ShrinkLevel(s, p, q) ==
  /\ queue' = [queue EXCEPT ![s][p] = q]
  /\ levels' = [levels EXCEPT ![s] = IF q = <<>> THEN @ \ {p} ELSE @]
  /\ heap' = [heap EXCEPT ![s] = IF q = <<>> THEN @ \ {p} ELSE @]

\* Fault: an order is pushed to the front of its list.
AddOrderInFront(o) ==
  LET s == side[o]
      p == price[o]
  IN
  /\ levels' = [levels EXCEPT ![s] = @ \cup {p}]
  /\ heap' = [heap EXCEPT ![s] = @ \cup {p}]
  /\ queue' = [queue EXCEPT ![s][p] = <<o>> \o @]
  /\ total' = [total EXCEPT ![s][p] = @ + rem[o]]
  /\ active' = active \cup {o}

\* Fault: the order that rests is left out of ActiveOrders.
AddOrderNotActive(o) ==
  LET s == side[o]
      p == price[o]
  IN
  /\ levels' = [levels EXCEPT ![s] = @ \cup {p}]
  /\ heap' = [heap EXCEPT ![s] = @ \cup {p}]
  /\ queue' = [queue EXCEPT ![s][p] = Append(@, o)]
  /\ total' = [total EXCEPT ![s][p] = @ + rem[o]]
  /\ UNCHANGED active

\* AddOrder: GetOrCreateLevel, Enqueue, and the entry in ActiveOrders.  A new
\* level starts with an empty list and a zero total.
AddOrder(o) ==
  LET s == side[o]
      p == price[o]
      created == p \notin levels[s]
  IN
  /\ levels' = [levels EXCEPT ![s] = @ \cup {p}]
  /\ heap' = [heap EXCEPT ![s] = IF created THEN @ \cup {p} ELSE @]
  /\ queue' = [queue EXCEPT ![s][p] = IF created THEN <<o>> ELSE Append(@, o)]
  /\ total' = [total EXCEPT ![s][p] = (IF created THEN 0 ELSE @) + rem[o]]
  /\ active' = active \cup {o}

-----------------------------------------------------------------------------
(* The handlers.                                                           *)

Init ==
  /\ side = [o \in OrderIds |-> "BUY"]
  /\ price = [o \in OrderIds |-> AnyPrice]
  /\ rem = [o \in OrderIds |-> 0]
  /\ stamp = [o \in OrderIds |-> 0]
  /\ now = 0
  /\ incoming = NoOrder
  /\ heap = [s \in Side |-> {}]
  /\ levels = [s \in Side |-> {}]
  /\ queue = [s \in Side |-> [p \in Price |-> <<>>]]
  /\ total = [s \in Side |-> [p \in Price |-> 0]]
  /\ active = {}

\* HandlePlaceOrder builds the Order with its full quantity and calls Match.
Submit(o, s, p, q) ==
  /\ incoming = NoOrder
  /\ stamp[o] = 0
  /\ side' = [side EXCEPT ![o] = s]
  /\ price' = [price EXCEPT ![o] = p]
  /\ rem' = [rem EXCEPT ![o] = q]
  /\ stamp' = [stamp EXCEPT ![o] = now + 1]
  /\ now' = now + 1
  /\ incoming' = o
  /\ UNCHANGED <<heap, levels, queue, total, active>>

\* The loop of Match goes round again: something is left to fill, there is a
\* best opposite price, it crosses, and the map has its level.
Matching ==
  /\ incoming # NoOrder
  /\ rem[incoming] > 0
  /\ heap[Opp] # {}
  /\ Crosses(side[incoming], price[incoming], Best(Opp))
  /\ Best(Opp) \in levels[Opp]

\* Fault: a filled order is never dequeued.
RetireNever(s, p, r, x) == UNCHANGED <<heap, levels, queue, active>>

\* A resting order that was filled leaves its list (Dequeue), ActiveOrders and,
\* when it was the last one, its level; a partial fill keeps its place.
Retire(s, p, r, x) ==
  \/ /\ rem[r] = x
     /\ ShrinkLevel(s, p, Tail(queue[s][p]))
     /\ active' = active \ {r}
  \/ /\ rem[r] # x
     /\ UNCHANGED <<heap, levels, queue, active>>

\* One iteration: trade with the front of the best opposite level, at the
\* resting order's price.
MatchOne ==
  LET s == Opp
      p == Best(s)
      r == Head(queue[s][p])
      x == Least(rem[incoming], rem[r])
  IN
  /\ Matching
  /\ rem' = [rem EXCEPT ![incoming] = @ - x, ![r] = @ - x]
  /\ total' = [total EXCEPT ![s][p] = @ - x]
  /\ Retire(s, p, r, x)
  /\ UNCHANGED <<side, price, stamp, now, incoming>>

\* After the loop: what is left of the incoming order rests.
Finish ==
  /\ incoming # NoOrder
  /\ ~Matching
  /\ \/ rem[incoming] > 0 /\ AddOrder(incoming)
     \/ rem[incoming] = 0 /\ UNCHANGED <<heap, levels, queue, total, active>>
  /\ incoming' = NoOrder
  /\ UNCHANGED <<side, price, rem, stamp, now>>

\* Fault: PriceLevel.Remove does not take the order off TotalQuantity.
CancelKeepsTotal(o) ==
  LET s == side[o]
      p == price[o]
      q == queue[s][p]
  IN
  /\ incoming = NoOrder
  /\ o \in active
  /\ p \in levels[s]
  /\ \E i \in 1 .. Len(q) : q[i] = o /\ ShrinkLevel(s, p, Unlink(q, i))
  /\ active' = active \ {o}
  /\ UNCHANGED <<side, price, rem, stamp, now, incoming, total>>

\* OrderBook.RemoveOrder, which HandleCancelOrder calls for an active order:
\* nothing changes unless the level and the list have the order.
Cancel(o) ==
  LET s == side[o]
      p == price[o]
      q == queue[s][p]
  IN
  /\ incoming = NoOrder
  /\ o \in active
  /\ p \in levels[s]
  /\ \E i \in 1 .. Len(q) : q[i] = o /\ ShrinkLevel(s, p, Unlink(q, i))
  /\ total' = [total EXCEPT ![s][p] = @ - rem[o]]
  /\ active' = active \ {o}
  /\ UNCHANGED <<side, price, rem, stamp, now, incoming>>

Next ==
  \/ \E o \in OrderIds, s \in Side, p \in Price, q \in Qty : Submit(o, s, p, q)
  \/ MatchOne
  \/ Finish
  \/ \E o \in OrderIds : Cancel(o)

Spec == Init /\ [][Next]_vars

\* Match is a loop in a goroutine that nothing blocks: it keeps running.
FairSpec == Spec /\ WF_vars(MatchOne \/ Finish)
-----------------------------------------------------------------------------
(* Properties.                                                             *)

TypeOK ==
  /\ side \in [OrderIds -> Side]
  /\ price \in [OrderIds -> Price]
  /\ rem \in [OrderIds -> Nat]
  /\ stamp \in [OrderIds -> Nat]
  /\ now \in Nat
  /\ incoming \in OrderIds \cup {NoOrder}
  /\ heap \in [Side -> SUBSET Price]
  /\ levels \in [Side -> SUBSET Price]
  /\ queue \in [Side -> [Price -> Seq(OrderIds)]]
  /\ total \in [Side -> [Price -> Int]]
  /\ active \in SUBSET OrderIds

(* The heap and the map of a side hold the same levels, and no level is    *)
(* empty.  Match dereferences level.Front() without a nil check, and its   *)
(* `level == nil` break would leave a crossing order unmatched.            *)
LevelsInStep ==
  \A s \in Side :
    /\ heap[s] = levels[s]
    /\ levels[s] = {p \in Price : queue[s][p] # <<>>}

(* ActiveOrders and the lists hold the same orders: an order is in         *)
(* ActiveOrders exactly when it is in the list of its own side and price,  *)
(* once, with something left to trade.  CancelOrder looks an order up in   *)
(* the one and removes it from the other.                                  *)
Queued(o, s, p) == \E i \in 1 .. Len(queue[s][p]) : queue[s][p][i] = o

ActiveInStep ==
  /\ \A o \in active : Queued(o, side[o], price[o])
  /\ \A s \in Side, p \in Price : \A i \in 1 .. Len(queue[s][p]) :
       LET o == queue[s][p][i] IN
       /\ o \in active
       /\ side[o] = s
       /\ price[o] = p
       /\ rem[o] > 0

(* Every list is in order of submission: time priority survives partial    *)
(* fills, cancels from the middle and levels that go and come back.        *)
FifoLists ==
  \A s \in Side, p \in Price : \A i, j \in 1 .. Len(queue[s][p]) :
    i < j => stamp[queue[s][p][i]] < stamp[queue[s][p][j]]

(* No resting bid crosses a resting ask, in the middle of Match either:    *)
(* Match never leaves a trade it should have made.                         *)
Uncrossed ==
  \A b \in heap["BUY"], a \in heap["SELL"] : b < a

(* TotalQuantity is kept apart from the orders it sums (Enqueue adds,      *)
(* PartialFill and Remove subtract, Dequeue does not), and it is what the  *)
(* published depth of the market shows: it is always the sum.              *)
DepthExact ==
  \A s \in Side : \A p \in levels[s] :
    total[s][p] = SumFunction([i \in DOMAIN queue[s][p] |-> rem[queue[s][p][i]]])

(* Every order that enters Match leaves it.                                *)
MatchTerminates == (incoming # NoOrder) ~> (incoming = NoOrder)

(* The book with heaps, maps, lists and totals is the abstract book.       *)
PT == INSTANCE PriceTimeBook WITH resting <- active
PriceTime == PT!Spec
=============================================================================
