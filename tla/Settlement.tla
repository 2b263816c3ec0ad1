----------------------------- MODULE Settlement -----------------------------
(***************************************************************************)
(* The backend's side of one market: orders, wallets and trades in         *)
(* PostgreSQL, and the transactions that change them (orders.service,      *)
(* wallet-balance.service, trade-settlement.service and                    *)
(* order-cancellation.service of apps/backend/src/modules).                *)
(*                                                                         *)
(* A transaction is one action: it locks the wallet rows it reads (FOR     *)
(* UPDATE), and only one consumer applies engine events.  A transaction    *)
(* that throws changes nothing and is an action that is not enabled.       *)
(* Amounts are integers: Unit minor units make one unit of quantity, so a  *)
(* fee rate is a number of minor units per unit and every fee is exact.    *)
(*                                                                         *)
(* In this module the events come in any order, as often as they like:     *)
(* what holds here does not depend on the event stream.  Exchange feeds    *)
(* the same actions from an engine, in order.                              *)
(***************************************************************************)
EXTENDS Market, FiniteSets, Functions

CONSTANTS
  Users, Treasury,     \* owners of wallets; Treasury is TREASURY_USER_ID
  MatchIds,            \* engineMatchIds
  Unit,                \* minor units in one unit of quantity
  MakerFee, TakerFee,  \* makerFeeRate and takerFeeRate, in minor units per unit
  Funds                \* what each user starts with, available, in either asset

ASSUME OwnersAssumption == Treasury \notin Users /\ IsFiniteSet(Users)
ASSUME FeesAssumption   == /\ Unit \in Nat \ {0}
                           /\ MakerFee \in 0 .. Unit - 1
                           /\ TakerFee \in 0 .. Unit - 1
ASSUME FundsAssumption  == Funds \in Nat

VARIABLES
  orders,   \* orders[o]: the row of order o, of status NONE before it exists
  wallets,  \* wallets[u][a]: available and locked balance of u in asset a
  trades,   \* the rows of the trades table
  market    \* the status of the trading pair

dbVars == <<orders, wallets, trades, market>>

Owners == Users \cup {Treasury}
Asset == {"BASE", "QUOTE"}
Status == {"NONE", "PENDING", "OPEN", "PARTIALLY_FILLED", "FILLED",
           "CANCEL_PENDING", "CANCELLED", "REJECTED"}
Cancellable == {"PENDING", "OPEN", "PARTIALLY_FILLED"}
Exists(o) == orders[o].status # "NONE"

\* What an order locks: a buy its price in quote, a sell its quantity in base.
LockedAsset(s) == IF s = "BUY" THEN "QUOTE" ELSE "BASE"
LockedAmount(s, p, q) == IF s = "BUY" THEN p * q * Unit ELSE q * Unit

-----------------------------------------------------------------------------
(* WalletBalanceService: each returns the wallets after it; the callers    *)
(* state what makes it throw.  Both columns are moved by increments.       *)

Moved(w, u, a, available, locked) ==
  [w EXCEPT ![u][a] = [available |-> @.available + available, locked |-> @.locked + locked]]

moveAvailableToLocked(w, u, a, x) == Moved(w, u, a, -x, x)
moveLockedToAvailable(w, u, a, x) == Moved(w, u, a, x, -x)
creditAvailable(w, u, a, x) == Moved(w, u, a, x, 0)
debitLocked(w, u, a, x) == Moved(w, u, a, 0, -x)

\* Fault: moveAvailableToLocked does not compare with the available balance.
CoveredNever(u, a, x) == x > 0

\* validateAmount, and the balance check of moveAvailableToLocked.
Covered(u, a, x) == x > 0 /\ wallets[u][a].available >= x

\* The balance check of debitLocked and moveLockedToAvailable.
Held(u, a, x) == x > 0 /\ wallets[u][a].locked >= x

-----------------------------------------------------------------------------
(* Requests of users.                                                      *)

Init ==
  /\ orders = [o \in OrderIds |->
       [owner |-> Treasury, side |-> "BUY", price |-> AnyPrice, quantity |-> 0,
        filled |-> 0, remaining |-> 0, locked |-> 0, status |-> "NONE"]]
  /\ wallets = [u \in Owners |-> [a \in Asset |->
       [available |-> IF u \in Users THEN Funds ELSE 0, locked |-> 0]]]
  /\ trades = {}
  /\ market = "RECOVERING"

placeOrder(u, o, s, p, q) ==
  LET a == LockedAsset(s)
      x == LockedAmount(s, p, q)
  IN
  /\ ~Exists(o)
  /\ market = "READY"
  /\ Covered(u, a, x)
  /\ wallets' = moveAvailableToLocked(wallets, u, a, x)
  /\ orders' = [orders EXCEPT ![o] =
       [owner |-> u, side |-> s, price |-> p, quantity |-> q,
        filled |-> 0, remaining |-> q, locked |-> x, status |-> "PENDING"]]
  /\ UNCHANGED <<trades, market>>

\* The pair's status is not looked at.
cancelOrder(o) ==
  /\ orders[o].status \in Cancellable
  /\ orders' = [orders EXCEPT ![o].status = "CANCEL_PENDING"]
  /\ UNCHANGED <<wallets, trades, market>>

-----------------------------------------------------------------------------
(* Engine events.                                                          *)

setMarket(status) ==
  /\ market' = status
  /\ UNCHANGED <<orders, wallets, trades>>

\* updateMany: only a PENDING order takes the new status, and no other row is
\* an error.  A rejected order keeps what it has locked.
fromPending(o, status) ==
  /\ orders' = [orders EXCEPT ![o].status = IF @ = "PENDING" THEN status ELSE @]
  /\ UNCHANGED <<wallets, trades, market>>

\* Fault: an order trades without its trade row's quantity leaving remaining.
FilledWithoutRemaining(r, q, x) ==
  [r EXCEPT !.filled = @ + q, !.remaining = r.quantity - q, !.locked = @ - x,
            !.status = IF r.remaining = q THEN "FILLED" ELSE "PARTIALLY_FILLED"]

\* The row of an order after q of it traded, for x of what it had locked.
\* Its status is overwritten whatever it was.
Filled(r, q, x) ==
  [r EXCEPT !.filled = @ + q, !.remaining = @ - q, !.locked = @ - x,
            !.status = IF r.remaining = q THEN "FILLED" ELSE "PARTIALLY_FILLED"]

\* Fault: the fee rates of the two sides are swapped for the fee that is
\* credited and not for the fee that is withheld.
FeeSwapped(side, takerSide) == IF side # takerSide THEN TakerFee ELSE MakerFee

FeeRate(side, takerSide) == IF side = takerSide THEN TakerFee ELSE MakerFee

\* The rates in the trade's row are chosen apart from those that are charged.
RecordedMakerFee(takerSide) == IF takerSide = "BUY" THEN MakerFee ELSE TakerFee
RecordedTakerFee(takerSide) == IF takerSide = "BUY" THEN TakerFee ELSE MakerFee

\* Fault: the treasury is not credited with the fees.
CollectedNever(w, a, fee) == w

\* The treasury's wallet is only touched when there is a fee.
Collected(w, a, fee) == IF fee > 0 THEN creditAvailable(w, Treasury, a, fee) ELSE w

\* engineMatchId is unique in the trades table: an insert that repeats it throws.
Unsettled(m) == \A t \in trades : t.engineMatchId # m

\* What settleTrade and the wallet service throw for.
Settleable(m, b, s, p, q) ==
  /\ Exists(b) /\ Exists(s)
  /\ Unsettled(m)
  /\ Held(orders[b].owner, "QUOTE", q * p * Unit)
  /\ Held(orders[s].owner, "BASE", q * Unit)

settleTrade(m, b, s, takerSide, p, q) ==
  LET buyer  == orders[b].owner
      seller == orders[s].owner
      base   == q * Unit
      quote  == q * p * Unit
      buyerFee  == q * FeeRate("BUY", takerSide)
      sellerFee == q * p * FeeRate("SELL", takerSide)
      w1 == debitLocked(wallets, buyer, "QUOTE", quote)
      w2 == creditAvailable(w1, buyer, "BASE", base - buyerFee)
      w3 == debitLocked(w2, seller, "BASE", base)
      w4 == creditAvailable(w3, seller, "QUOTE", quote - sellerFee)
      w5 == Collected(w4, "BASE", buyerFee)
  IN
  /\ Settleable(m, b, s, p, q)
  /\ trades' = trades \cup
       {[engineMatchId |-> m, buy |-> b, sell |-> s, takerSide |-> takerSide,
         price |-> p, quantity |-> q,
         makerFeeRate |-> RecordedMakerFee(takerSide), takerFeeRate |-> RecordedTakerFee(takerSide)]}
  /\ orders' = [orders EXCEPT ![b] = Filled(@, q, quote), ![s] = Filled(@, q, base)]
  /\ wallets' = Collected(w5, "QUOTE", sellerFee)
  /\ UNCHANGED market

\* What handleOrderCancelled throws for.
Releasable(o) ==
  /\ Exists(o)
  /\ orders[o].locked > 0 =>
       Held(orders[o].owner, LockedAsset(orders[o].side), orders[o].locked)

\* The lock of order o goes back to its owner.
Released(o) ==
  LET r == orders[o] IN
  IF r.locked > 0
  THEN moveLockedToAvailable(wallets, r.owner, LockedAsset(r.side), r.locked)
  ELSE wallets

\* Fault: the locked amount is given back and left in the order's row.
handleOrderCancelledKeepsLock(o) ==
  /\ Releasable(o)
  /\ orders' = [orders EXCEPT ![o].status = "CANCELLED"]
  /\ wallets' = Released(o)
  /\ UNCHANGED <<trades, market>>

\* Whatever the status was, the order is cancelled and its lock released.
handleOrderCancelled(o) ==
  /\ Releasable(o)
  /\ orders' = [orders EXCEPT ![o].status = "CANCELLED", ![o].locked = 0]
  /\ wallets' = Released(o)
  /\ UNCHANGED <<trades, market>>

\* Fault: the status is reverted whatever it is.
handleCancelOrderRejectedAlways(o) ==
  /\ Exists(o)
  /\ orders' = [orders EXCEPT ![o].status =
       IF orders[o].filled > 0 THEN "PARTIALLY_FILLED" ELSE "OPEN"]
  /\ UNCHANGED <<wallets, trades, market>>

handleCancelOrderRejected(o) ==
  /\ Exists(o)
  /\ orders' = [orders EXCEPT ![o].status =
       IF @ # "CANCEL_PENDING" THEN @
       ELSE IF orders[o].filled > 0 THEN "PARTIALLY_FILLED" ELSE "OPEN"]
  /\ UNCHANGED <<wallets, trades, market>>

-----------------------------------------------------------------------------
(* An engine that may say anything an engine can say: the trade of a buy   *)
(* and a sell that cross, at the price of the one that was there first,    *)
(* for no more than either has left.                                       *)

Trade(m, b, s) ==
  /\ Exists(b) /\ Exists(s)
  /\ orders[b].side = "BUY" /\ orders[s].side = "SELL"
  /\ orders[b].price >= orders[s].price
  /\ \E q \in 1 .. Least(orders[b].remaining, orders[s].remaining), takerSide \in Side :
       settleTrade(m, b, s, takerSide,
                   IF takerSide = "BUY" THEN orders[s].price ELSE orders[b].price, q)

Next ==
  \/ \E u \in Users, o \in OrderIds, s \in Side, p \in Price, q \in Qty : placeOrder(u, o, s, p, q)
  \/ \E o \in OrderIds : cancelOrder(o)
  \/ \E status \in {"READY", "SUSPENDED"} : setMarket(status)
  \/ \E o \in OrderIds, status \in {"OPEN", "REJECTED"} : fromPending(o, status)
  \/ \E m \in MatchIds, b, s \in OrderIds : Trade(m, b, s)
  \/ \E o \in OrderIds : handleOrderCancelled(o)
  \/ \E o \in OrderIds : handleCancelOrderRejected(o)

Spec == Init /\ [][Next]_dbVars

-----------------------------------------------------------------------------
(* Properties.                                                             *)

OrderRow ==
  [owner : Owners, side : Side, price : Price, quantity : Nat, filled : Nat,
   remaining : Nat, locked : Int, status : Status]

\* Balances are naturals: no wallet is ever overdrawn (the CHECK constraints
\* of prisma/add-contrains.sql, which no migration installs).
TypeOK ==
  /\ orders \in [OrderIds -> OrderRow]
  /\ wallets \in [Owners -> [Asset -> [available : Nat, locked : Nat]]]
  /\ trades \subseteq [engineMatchId : MatchIds, buy : OrderIds, sell : OrderIds,
                       takerSide : Side, price : Price, quantity : Nat \ {0},
                       makerFeeRate : 0 .. Unit - 1, takerFeeRate : 0 .. Unit - 1]
  /\ market \in {"RECOVERING", "READY", "SUSPENDED"}

Total(a) == SumFunction([u \in Owners |-> wallets[u][a].available + wallets[u][a].locked])

(* No settlement, cancel or fee makes or loses money, whatever the order   *)
(* and the number of times the engine's events come.                       *)
Conserved ==
  \A a \in Asset : Total(a) = SumFunction([u \in Users |-> Funds])

(* What an order has filled is what its trades say, and the rest of its    *)
(* quantity remains: three tables' worth of one fact.                      *)
TradesOf(o) == {t \in trades : t.buy = o \/ t.sell = o}

FilledByTrades ==
  \A o \in OrderIds :
    /\ orders[o].filled = SumFunction([t \in TradesOf(o) |-> t.quantity])
    /\ orders[o].filled + orders[o].remaining = orders[o].quantity

(* The treasury holds the fees of every trade and nothing else: each side  *)
(* pays its maker or taker rate once, in the asset it receives.            *)
BuyerFee(t) == t.quantity * (IF t.takerSide = "BUY" THEN TakerFee ELSE MakerFee)
SellerFee(t) == t.quantity * t.price * (IF t.takerSide = "SELL" THEN TakerFee ELSE MakerFee)

FeesCollected ==
  /\ wallets[Treasury]["BASE"].available = SumFunction([t \in trades |-> BuyerFee(t)])
  /\ wallets[Treasury]["QUOTE"].available = SumFunction([t \in trades |-> SellerFee(t)])
=============================================================================
