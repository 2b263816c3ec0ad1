--------------------------- MODULE ExchangeProofs ---------------------------
(***************************************************************************)
(* The tables first, for all requests and engine events, how often they    *)
(* come and in which order: no balance goes below zero, no money is made or *)
(* lost, an order fills by its trades and the treasury gets the fees.      *)
(*                                                                         *)
(* Then users, backend, engine and book together: what the engine sends is *)
(* what the tables expect, whatever the interleaving of requests, matching *)
(* and events, for all orders, prices, quantities and fee rates.  The events *)
(* that are under way are one queue: the engine appends to it, the backend *)
(* takes from its head.  The invariant says of each entry what must hold of *)
(* book, tables and the entries behind it until it is taken.               *)
(***************************************************************************)
EXTENDS Exchange, Sums, SequenceTheorems

(* The tables: orders, wallets and trades.                                 *)


Balance == [available : Nat, locked : Nat]
Wallets == [Owners -> [Asset -> Balance]]

-----------------------------------------------------------------------------
(* Amounts: the products of a quantity, a price and a unit.                *)

(* A product of naturals is natural, and of positive ones positive.        *)
LEMMA Products ==
  ASSUME NEW x \in Nat, NEW y \in Nat
  PROVE  x * y \in Nat /\ (x > 0 /\ y > 0 => x * y > 0)
OBVIOUS

(* A fee is a natural and at most the amount it is taken from, because     *)
(* every fee rate is below one.                                            *)
LEMMA FeeBelowAmount ==
  ASSUME NEW x \in Nat, NEW way \in Side, NEW takerSide \in Side
  PROVE  /\ x * FeeRate(way, takerSide) \in Nat
         /\ x * Unit \in Nat
         /\ x * Unit - x * FeeRate(way, takerSide) \in Nat
<1>1. PICK f \in 0 .. Unit - 1 : f = FeeRate(way, takerSide)
  BY FeesAssumption DEF FeeRate
<1>2. Unit \in Nat /\ f \in Nat /\ Unit - f \in Nat
  BY <1>1, FeesAssumption
<1>3. x * Unit - x * f = x * (Unit - f)
  BY <1>2
<1>. QED  BY <1>1, <1>2, <1>3, Products

-----------------------------------------------------------------------------
(* WalletBalanceService.                                                   *)

(* What all wallets of w hold in asset a, available and locked.            *)
Worth(w, a) == Sum([u \in Owners |-> w[u][a].available + w[u][a].locked], Owners)

(* A move that keeps both columns of one wallet natural keeps them all,    *)
(* leaves every other wallet as it is, and makes or loses what it says.    *)
LEMMA MovedWallets ==
  ASSUME NEW w \in Wallets, NEW u \in Owners, NEW a \in Asset,
         NEW x \in Int, NEW y \in Int,
         w[u][a].available + x >= 0, w[u][a].locked + y >= 0
  PROVE  /\ Moved(w, u, a, x, y) \in Wallets
         /\ \A v \in Owners, b \in Asset :
              /\ Moved(w, u, a, x, y)[v][b].available =
                   w[v][b].available + (IF v = u /\ b = a THEN x ELSE 0)
              /\ Moved(w, u, a, x, y)[v][b].locked =
                   w[v][b].locked + (IF v = u /\ b = a THEN y ELSE 0)
         /\ \A b \in Asset :
              Worth(Moved(w, u, a, x, y), b) = Worth(w, b) + (IF b = a THEN x + y ELSE 0)
<1>. DEFINE r == [available |-> w[u][a].available + x, locked |-> w[u][a].locked + y]
            t == [w EXCEPT ![u] = [w[u] EXCEPT ![a] = r]]
<1>1. Moved(w, u, a, x, y) = t
  BY DEF Moved, Wallets
<1>2. w[u] \in [Asset -> Balance] /\ w[u][a] \in Balance
  BY DEF Wallets
<1>3. r \in Balance /\ r.available = w[u][a].available + x /\ r.locked = w[u][a].locked + y
  BY <1>2 DEF Balance
<1>. HIDE DEF r
<1>4. [w[u] EXCEPT ![a] = r] \in [Asset -> Balance]
  BY <1>2, <1>3
<1>5. t \in Wallets
  BY <1>4 DEF Wallets
<1>6. \A v \in Owners, b \in Asset : t[v][b] = IF v = u /\ b = a THEN r ELSE w[v][b]
  BY <1>2 DEF Wallets
<1>7. \A v \in Owners, b \in Asset : w[v][b].available \in Nat /\ w[v][b].locked \in Nat
  BY DEF Wallets, Balance
<1>. HIDE DEF t
<1>8. \A v \in Owners, b \in Asset :
        /\ t[v][b].available = w[v][b].available + (IF v = u /\ b = a THEN x ELSE 0)
        /\ t[v][b].locked = w[v][b].locked + (IF v = u /\ b = a THEN y ELSE 0)
  BY <1>3, <1>6, <1>7
<1>9. ASSUME NEW b \in Asset
      PROVE  Worth(t, b) = Worth(w, b) + (IF b = a THEN x + y ELSE 0)
  <2>. DEFINE f == [v \in Owners |-> w[v][b].available + w[v][b].locked]
              g == [v \in Owners |-> t[v][b].available + t[v][b].locked]
              d == IF b = a THEN x + y ELSE 0
  <2>1. \A v \in Owners : f[v] \in Int /\ g[v] = IF v = u THEN f[v] + d ELSE f[v]
    BY <1>7, <1>8
  <2>2. IsFiniteSet(Owners) /\ d \in Int
    BY OwnersAssumption, FS_AddElement DEF Owners
  <2>. HIDE DEF f, g, d
  <2>3. \A v \in Owners : g[v] \in Int /\ (v # u => f[v] = g[v])
    BY <2>1, <2>2
  <2>4. Sum(g, Owners) = Sum(f, Owners) + (g[u] - f[u])
    BY <2>1, <2>2, <2>3, SumUpdate
  <2>5. g[u] - f[u] = d
    BY <2>1, <2>2
  <2>. QED  BY <2>4, <2>5 DEF Worth, f, g, d
<1>. QED  BY <1>1, <1>5, <1>8, <1>9

(* A sum of balances is a number.                                          *)
LEMMA WorthType ==
  ASSUME NEW w \in Wallets, NEW a \in Asset
  PROVE  Worth(w, a) \in Int
<1>. DEFINE f == [u \in Owners |-> w[u][a].available + w[u][a].locked]
<1>1. \A u \in Owners : f[u] \in Int
  BY DEF Wallets, Balance
<1>2. IsFiniteSet(Owners)
  BY OwnersAssumption, FS_AddElement DEF Owners
<1>. HIDE DEF f
<1>3. Sum(f, Owners) \in Int
  BY <1>1, <1>2, SumType
<1>. QED  BY <1>3 DEF Worth, f

(* creditAvailable of a natural amount never fails, and locks nothing.     *)
LEMMA CreditedWallets ==
  ASSUME NEW w \in Wallets, NEW u \in Owners, NEW a \in Asset, NEW x \in Nat
  PROVE  /\ creditAvailable(w, u, a, x) \in Wallets
         /\ \A v \in Owners, b \in Asset :
              /\ creditAvailable(w, u, a, x)[v][b].available =
                   w[v][b].available + (IF v = u /\ b = a THEN x ELSE 0)
              /\ creditAvailable(w, u, a, x)[v][b].locked = w[v][b].locked
         /\ \A b \in Asset :
              Worth(creditAvailable(w, u, a, x), b) = Worth(w, b) + (IF b = a THEN x ELSE 0)
<1>1. \A v \in Owners, b \in Asset : w[v][b].available \in Nat /\ w[v][b].locked \in Nat
  BY DEF Wallets, Balance
<1>2. w[u][a].available + x >= 0 /\ w[u][a].locked + 0 >= 0 /\ x + 0 = x
  BY <1>1
<1>3. /\ Moved(w, u, a, x, 0) \in Wallets
      /\ \A v \in Owners, b \in Asset :
           /\ Moved(w, u, a, x, 0)[v][b].available = w[v][b].available + (IF v = u /\ b = a THEN x ELSE 0)
           /\ Moved(w, u, a, x, 0)[v][b].locked = w[v][b].locked + (IF v = u /\ b = a THEN 0 ELSE 0)
      /\ \A b \in Asset : Worth(Moved(w, u, a, x, 0), b) = Worth(w, b) + (IF b = a THEN x + 0 ELSE 0)
  BY <1>2, MovedWallets
<1>. QED  BY <1>1, <1>2, <1>3 DEF creditAvailable

(* debitLocked of an amount that is held; other wallets are left alone.    *)
LEMMA DebitedWallets ==
  ASSUME NEW w \in Wallets, NEW u \in Owners, NEW a \in Asset, NEW x \in Nat,
         w[u][a].locked >= x
  PROVE  /\ debitLocked(w, u, a, x) \in Wallets
         /\ \A v \in Owners, b \in Asset :
              /\ debitLocked(w, u, a, x)[v][b].available = w[v][b].available
              /\ debitLocked(w, u, a, x)[v][b].locked =
                   w[v][b].locked - (IF v = u /\ b = a THEN x ELSE 0)
         /\ \A b \in Asset :
              Worth(debitLocked(w, u, a, x), b) = Worth(w, b) - (IF b = a THEN x ELSE 0)
<1>1. \A v \in Owners, b \in Asset : w[v][b].available \in Nat /\ w[v][b].locked \in Nat
  BY DEF Wallets, Balance
<1>2. w[u][a].available + 0 >= 0 /\ w[u][a].locked + (-x) >= 0 /\ -x \in Int /\ 0 + (-x) = -x
  BY <1>1
<1>3. /\ Moved(w, u, a, 0, -x) \in Wallets
      /\ \A v \in Owners, b \in Asset :
           /\ Moved(w, u, a, 0, -x)[v][b].available = w[v][b].available + (IF v = u /\ b = a THEN 0 ELSE 0)
           /\ Moved(w, u, a, 0, -x)[v][b].locked = w[v][b].locked + (IF v = u /\ b = a THEN -x ELSE 0)
      /\ \A b \in Asset : Worth(Moved(w, u, a, 0, -x), b) = Worth(w, b) + (IF b = a THEN 0 + (-x) ELSE 0)
  BY <1>2, MovedWallets
<1>4. \A b \in Asset : Worth(w, b) \in Int
  BY WorthType
<1>. QED  BY <1>1, <1>2, <1>3, <1>4 DEF debitLocked

(* The fee goes to the treasury's wallet, when there is one.               *)
LEMMA CollectedWallets ==
  ASSUME NEW w \in Wallets, NEW a \in Asset, NEW x \in Nat
  PROVE  /\ Collected(w, a, x) \in Wallets
         /\ \A v \in Owners, b \in Asset :
              /\ Collected(w, a, x)[v][b].available =
                   w[v][b].available + (IF v = Treasury /\ b = a THEN x ELSE 0)
              /\ Collected(w, a, x)[v][b].locked = w[v][b].locked
         /\ \A b \in Asset :
              Worth(Collected(w, a, x), b) = Worth(w, b) + (IF b = a THEN x ELSE 0)
<1>1. CASE x > 0
  <2>1. Treasury \in Owners /\ Collected(w, a, x) = creditAvailable(w, Treasury, a, x)
    BY <1>1 DEF Collected, Owners
  <2>. QED  BY <2>1, CreditedWallets
<1>2. CASE ~(x > 0)
  <2>1. x = 0 /\ Collected(w, a, x) = w
    BY <1>2 DEF Collected
  <2>2. \A v \in Owners, b \in Asset : w[v][b].available \in Nat /\ w[v][b].locked \in Nat
    BY DEF Wallets, Balance
  <2>3. \A b \in Asset : Worth(w, b) \in Int
    BY WorthType
  <2>. QED  BY <2>1, <2>2, <2>3
<1>. QED  BY <1>1, <1>2

-----------------------------------------------------------------------------
(* One lemma for each transaction.                                         *)

(* What an order locks is a natural amount, and a positive one.            *)
LEMMA LockedAmounts ==
  ASSUME NEW s \in Side, NEW p \in Price, NEW q \in Qty
  PROVE  LockedAmount(s, p, q) \in Nat /\ LockedAsset(s) \in Asset
<1>1. p \in Nat /\ q \in Nat /\ Unit \in Nat
  BY PriceAssumption, QtyAssumption, FeesAssumption
<1>2. q * Unit \in Nat /\ p * q \in Nat /\ p * q * Unit \in Nat
  BY <1>1, Products
<1>. QED  BY <1>2 DEF LockedAmount, LockedAsset, Asset

LEMMA PlacedTypes ==
  ASSUME TypeOK, NEW u \in Users, NEW o \in OrderIds, NEW s \in Side, NEW p \in Price,
         NEW q \in Qty, placeOrder(u, o, s, p, q)
  PROVE  TypeOK'
<1>. DEFINE a == LockedAsset(s)
            x == LockedAmount(s, p, q)
<1>1. x \in Nat /\ a \in Asset /\ u \in Owners /\ q \in Nat
  BY LockedAmounts, QtyAssumption DEF Owners
<1>2. wallets \in Wallets /\ wallets[u][a].available >= x
  BY DEF placeOrder, Covered, TypeOK, Wallets, Balance
<1>3. wallets' \in Wallets
  <2>1. wallets[u][a].available \in Nat /\ wallets[u][a].locked \in Nat
    BY <1>1, <1>2 DEF Wallets, Balance
  <2>2. wallets[u][a].available + (-x) >= 0 /\ wallets[u][a].locked + x >= 0 /\ -x \in Int
    BY <1>1, <1>2, <2>1
  <2>3. wallets' = Moved(wallets, u, a, -x, x)
    BY DEF placeOrder, moveAvailableToLocked
  <2>. HIDE DEF a, x
  <2>. QED  BY <1>1, <1>2, <2>2, <2>3, MovedWallets
<1>4. [owner |-> u, side |-> s, price |-> p, quantity |-> q, filled |-> 0,
       remaining |-> q, locked |-> x, status |-> "PENDING"] \in OrderRow
  BY <1>1 DEF OrderRow, Status
<1>5. orders' \in [OrderIds -> OrderRow]
  BY <1>4 DEF placeOrder, TypeOK
<1>. QED  BY <1>3, <1>5 DEF placeOrder, TypeOK, Wallets, Balance

(* The requests and events that change the status of one order, and that of*)
(* the market.                                                             *)
LEMMA StatusTypes ==
  ASSUME TypeOK, NEW o \in OrderIds, NEW status \in Status,
         orders' = [orders EXCEPT ![o].status = status],
         UNCHANGED <<wallets, trades, market>>
  PROVE  TypeOK'
<1>1. [orders[o] EXCEPT !.status = status] \in OrderRow
  BY DEF TypeOK, OrderRow
<1>2. orders' = [orders EXCEPT ![o] = [orders[o] EXCEPT !.status = status]]
  BY DEF TypeOK
<1>3. orders' \in [OrderIds -> OrderRow]
  BY <1>1, <1>2 DEF TypeOK
<1>. QED  BY <1>3 DEF TypeOK

LEMMA CancelledTypes ==
  ASSUME TypeOK, NEW o \in OrderIds, handleOrderCancelled(o)
  PROVE  TypeOK'
<1>. DEFINE r == orders[o]
            a == LockedAsset(r.side)
            x == r.locked
<1>1. r \in OrderRow /\ a \in Asset /\ r.owner \in Owners /\ x \in Int
  BY DEF TypeOK, OrderRow, LockedAsset, Asset
<1>2. [r EXCEPT !.status = "CANCELLED", !.locked = 0] \in OrderRow
  <2>1. r \in OrderRow /\ "CANCELLED" \in Status /\ 0 \in Int
    BY <1>1 DEF Status
  <2>. HIDE DEF r
  <2>2. [r EXCEPT !.status = "CANCELLED"] \in OrderRow
    BY <2>1 DEF OrderRow
  <2>. QED  BY <2>1, <2>2 DEF OrderRow
<1>3. orders' = [orders EXCEPT ![o] = [r EXCEPT !.status = "CANCELLED", !.locked = 0]]
  BY DEF handleOrderCancelled, TypeOK
<1>4. orders' \in [OrderIds -> OrderRow]
  BY <1>2, <1>3 DEF TypeOK
<1>5. wallets' \in Wallets
  <2>1. CASE x > 0
    <3>1. wallets' = Moved(wallets, r.owner, a, x, -x)
      BY <2>1 DEF handleOrderCancelled, Released, moveLockedToAvailable
    <3>2. wallets \in Wallets /\ wallets[r.owner][a].locked >= x
      BY <2>1 DEF handleOrderCancelled, Releasable, Held, TypeOK, Wallets, Balance
    <3>3. wallets[r.owner][a].available \in Nat /\ wallets[r.owner][a].locked \in Nat
      BY <1>1, <3>2 DEF Wallets, Balance
    <3>4. wallets[r.owner][a].available + x >= 0 /\ wallets[r.owner][a].locked + (-x) >= 0
      BY <1>1, <2>1, <3>2, <3>3
    <3>. HIDE DEF r, a, x
    <3>. QED  BY <1>1, <3>1, <3>2, <3>4, MovedWallets
  <2>2. CASE ~(x > 0)
    BY <2>2 DEF handleOrderCancelled, Released, TypeOK, Wallets, Balance
  <2>. QED  BY <2>1, <2>2
<1>. QED  BY <1>4, <1>5 DEF handleOrderCancelled, TypeOK, Wallets, Balance

(* The wallets after a trade: each side gives what it had locked, receives *)
(* the other's less a fee that is never more than the amount, and the      *)
(* treasury receives the fees, so that nothing is made or lost.            *)
LEMMA TradeWallets ==
  ASSUME TypeOK, NEW m \in MatchIds, NEW b \in OrderIds, NEW s \in OrderIds,
         NEW takerSide \in Side, NEW p \in Price, NEW q \in Nat \ {0},
         settleTrade(m, b, s, takerSide, p, q)
  PROVE  /\ wallets' \in Wallets
         /\ q * p * Unit \in Nat /\ q * Unit \in Nat
         /\ q * FeeRate("BUY", takerSide) \in Nat /\ q * p * FeeRate("SELL", takerSide) \in Nat
         /\ \A v \in Owners :
              /\ wallets'[v]["QUOTE"].locked = wallets[v]["QUOTE"].locked
                   - (IF v = orders[b].owner THEN q * p * Unit ELSE 0)
              /\ wallets'[v]["BASE"].locked = wallets[v]["BASE"].locked
                   - (IF v = orders[s].owner THEN q * Unit ELSE 0)
         /\ orders[b].owner # Treasury /\ orders[s].owner # Treasury =>
              /\ wallets'[Treasury]["BASE"].available =
                   wallets[Treasury]["BASE"].available + q * FeeRate("BUY", takerSide)
              /\ wallets'[Treasury]["QUOTE"].available =
                   wallets[Treasury]["QUOTE"].available + q * p * FeeRate("SELL", takerSide)
         /\ \A a \in Asset : Worth(wallets', a) = Worth(wallets, a)
<1>. DEFINE buyer  == orders[b].owner
            seller == orders[s].owner
            base   == q * Unit
            quote  == q * p * Unit
            buyerFee  == q * FeeRate("BUY", takerSide)
            sellerFee == q * p * FeeRate("SELL", takerSide)
            baseNet   == base - buyerFee
            quoteNet  == quote - sellerFee
            w1 == debitLocked(wallets, buyer, "QUOTE", quote)
            w2 == creditAvailable(w1, buyer, "BASE", baseNet)
            w3 == debitLocked(w2, seller, "BASE", base)
            w4 == creditAvailable(w3, seller, "QUOTE", quoteNet)
            w5 == Collected(w4, "BASE", buyerFee)
            w6 == Collected(w5, "QUOTE", sellerFee)
<1>1. q \in Nat /\ p \in Nat /\ q * p \in Nat
  BY PriceAssumption, Products
<1>2. /\ base \in Nat /\ buyerFee \in Nat /\ baseNet \in Nat
      /\ quote \in Nat /\ sellerFee \in Nat /\ quoteNet \in Nat
      /\ baseNet = base - buyerFee /\ quoteNet = quote - sellerFee
  BY <1>1, FeeBelowAmount DEF Side
<1>3. /\ buyer \in Owners /\ seller \in Owners /\ Treasury \in Owners
      /\ "BASE" \in Asset /\ "QUOTE" \in Asset
  BY DEF TypeOK, OrderRow, Owners, Asset
<1>4. /\ wallets \in Wallets
      /\ wallets[buyer]["QUOTE"].locked >= quote /\ wallets[seller]["BASE"].locked >= base
      /\ wallets' = w6
  BY DEF settleTrade, Settleable, Held, TypeOK, Wallets, Balance
<1>. HIDE DEF buyer, seller, base, quote, buyerFee, sellerFee, baseNet, quoteNet
<1>5. /\ w1 \in Wallets
      /\ \A v \in Owners, a \in Asset :
           /\ w1[v][a].available = wallets[v][a].available
           /\ w1[v][a].locked = wallets[v][a].locked - (IF v = buyer /\ a = "QUOTE" THEN quote ELSE 0)
      /\ \A a \in Asset : Worth(w1, a) = Worth(wallets, a) - (IF a = "QUOTE" THEN quote ELSE 0)
  BY <1>2, <1>3, <1>4, DebitedWallets
<1>. HIDE DEF w1
<1>6. /\ w2 \in Wallets
      /\ \A v \in Owners, a \in Asset :
           /\ w2[v][a].available = w1[v][a].available + (IF v = buyer /\ a = "BASE" THEN baseNet ELSE 0)
           /\ w2[v][a].locked = w1[v][a].locked
      /\ \A a \in Asset : Worth(w2, a) = Worth(w1, a) + (IF a = "BASE" THEN baseNet ELSE 0)
  <2>1. w1 \in Wallets /\ buyer \in Owners /\ "BASE" \in Asset /\ baseNet \in Nat
    BY <1>2, <1>3, <1>5
  <2>. QED  BY <2>1, CreditedWallets
<1>. HIDE DEF w2
<1>7. w2[seller]["BASE"].locked >= base
  <2>1. wallets[seller]["BASE"].locked \in Nat
    BY <1>3, <1>4 DEF Wallets, Balance
  <2>2. w1[seller]["BASE"].locked = wallets[seller]["BASE"].locked
    BY <1>3, <1>5, <2>1
  <2>. QED  BY <1>3, <1>4, <1>6, <2>2
<1>8. /\ w3 \in Wallets
      /\ \A v \in Owners, a \in Asset :
           /\ w3[v][a].available = w2[v][a].available
           /\ w3[v][a].locked = w2[v][a].locked - (IF v = seller /\ a = "BASE" THEN base ELSE 0)
      /\ \A a \in Asset : Worth(w3, a) = Worth(w2, a) - (IF a = "BASE" THEN base ELSE 0)
  BY <1>2, <1>3, <1>6, <1>7, DebitedWallets
<1>. HIDE DEF w3
<1>9. /\ w4 \in Wallets
      /\ \A v \in Owners, a \in Asset :
           /\ w4[v][a].available = w3[v][a].available + (IF v = seller /\ a = "QUOTE" THEN quoteNet ELSE 0)
           /\ w4[v][a].locked = w3[v][a].locked
      /\ \A a \in Asset : Worth(w4, a) = Worth(w3, a) + (IF a = "QUOTE" THEN quoteNet ELSE 0)
  <2>1. w3 \in Wallets /\ seller \in Owners /\ "QUOTE" \in Asset /\ quoteNet \in Nat
    BY <1>2, <1>3, <1>8
  <2>. QED  BY <2>1, CreditedWallets
<1>. HIDE DEF w4
<1>10. /\ w5 \in Wallets
       /\ \A v \in Owners, a \in Asset :
            /\ w5[v][a].available = w4[v][a].available + (IF v = Treasury /\ a = "BASE" THEN buyerFee ELSE 0)
            /\ w5[v][a].locked = w4[v][a].locked
       /\ \A a \in Asset : Worth(w5, a) = Worth(w4, a) + (IF a = "BASE" THEN buyerFee ELSE 0)
  BY <1>2, <1>3, <1>9, CollectedWallets
<1>. HIDE DEF w5
<1>11. /\ w6 \in Wallets
       /\ \A v \in Owners, a \in Asset :
            /\ w6[v][a].available = w5[v][a].available + (IF v = Treasury /\ a = "QUOTE" THEN sellerFee ELSE 0)
            /\ w6[v][a].locked = w5[v][a].locked
       /\ \A a \in Asset : Worth(w6, a) = Worth(w5, a) + (IF a = "QUOTE" THEN sellerFee ELSE 0)
  BY <1>2, <1>3, <1>10, CollectedWallets
<1>. HIDE DEF w6
<1>12. \A w \in Wallets : \A v \in Owners, a \in Asset : w[v][a].available \in Nat /\ w[v][a].locked \in Nat
  BY DEF Wallets, Balance
<1>13. ASSUME NEW v \in Owners
       PROVE  /\ w6[v]["QUOTE"].locked = wallets[v]["QUOTE"].locked - (IF v = buyer THEN quote ELSE 0)
              /\ w6[v]["BASE"].locked = wallets[v]["BASE"].locked - (IF v = seller THEN base ELSE 0)
  <2>1. /\ w3[v]["QUOTE"].locked = wallets[v]["QUOTE"].locked - (IF v = buyer THEN quote ELSE 0)
        /\ w3[v]["BASE"].locked = wallets[v]["BASE"].locked - (IF v = seller THEN base ELSE 0)
    BY <1>2, <1>3, <1>4, <1>5, <1>6, <1>8, <1>12
  <2>. QED  BY <1>3, <1>9, <1>10, <1>11, <2>1
<1>14. ASSUME buyer # Treasury, seller # Treasury
       PROVE  /\ w6[Treasury]["BASE"].available = wallets[Treasury]["BASE"].available + buyerFee
              /\ w6[Treasury]["QUOTE"].available = wallets[Treasury]["QUOTE"].available + sellerFee
  <2>1. /\ w4[Treasury]["BASE"].available = wallets[Treasury]["BASE"].available
        /\ w4[Treasury]["QUOTE"].available = wallets[Treasury]["QUOTE"].available
    BY <1>3, <1>4, <1>5, <1>6, <1>8, <1>9, <1>12, <1>14
  <2>. QED  BY <1>2, <1>3, <1>4, <1>10, <1>11, <1>12, <2>1
<1>15. ASSUME NEW a \in Asset
       PROVE  Worth(w6, a) = Worth(wallets, a)
  <2>1. Worth(wallets, a) \in Int
    BY <1>4, WorthType
  <2>2. CASE a = "BASE"
    BY <1>2, <1>5, <1>6, <1>8, <1>9, <1>10, <1>11, <2>1, <2>2
  <2>3. CASE a = "QUOTE"
    BY <1>2, <1>5, <1>6, <1>8, <1>9, <1>10, <1>11, <2>1, <2>3
  <2>. QED  BY <2>2, <2>3 DEF Asset
<1>. QED
  BY <1>2, <1>4, <1>11, <1>13, <1>14, <1>15 DEF buyer, seller, base, quote, buyerFee, sellerFee

(* The two order rows of a trade, and its own.                             *)
LEMMA TradeRows ==
  ASSUME TypeOK, NEW m \in MatchIds, NEW b \in OrderIds, NEW s \in OrderIds,
         NEW takerSide \in Side, NEW p \in Price, NEW q \in Nat \ {0},
         b # s, q <= orders[b].remaining, q <= orders[s].remaining,
         settleTrade(m, b, s, takerSide, p, q)
  PROVE  /\ orders' \in [OrderIds -> OrderRow]
         /\ orders'[b] = Filled(orders[b], q, q * p * Unit)
         /\ orders'[s] = Filled(orders[s], q, q * Unit)
         /\ \A o \in OrderIds : o # b /\ o # s => orders'[o] = orders[o]
<1>. DEFINE base  == q * Unit
            quote == q * p * Unit
<1>1. base \in Nat /\ quote \in Nat
  BY TradeWallets
<1>2. ASSUME NEW r \in OrderRow, NEW x \in Nat, q <= r.remaining
      PROVE  Filled(r, q, x) \in OrderRow
  <2>1. r.filled + q \in Nat /\ r.remaining - q \in Nat /\ r.locked - x \in Int
    BY <1>2 DEF OrderRow
  <2>. QED  BY <2>1 DEF Filled, OrderRow, Status
<1>3. orders' = [orders EXCEPT ![b] = Filled(orders[b], q, quote), ![s] = Filled(orders[s], q, base)]
  BY DEF settleTrade, TypeOK
<1>4. orders \in [OrderIds -> OrderRow]
  BY DEF TypeOK
<1>5. /\ Filled(orders[b], q, quote) \in OrderRow /\ Filled(orders[s], q, base) \in OrderRow
  BY <1>1, <1>2, <1>4
<1>. HIDE DEF quote, base
<1>6. orders' \in [OrderIds -> OrderRow]
  BY <1>3, <1>4, <1>5
<1>7. orders'[b] = Filled(orders[b], q, quote) /\ orders'[s] = Filled(orders[s], q, base)
  BY <1>3, <1>4
<1>8. \A o \in OrderIds : o # b /\ o # s => orders'[o] = orders[o]
  BY <1>3, <1>4
<1>. QED  BY <1>6, <1>7, <1>8 DEF quote, base

LEMMA TradeTypes ==
  ASSUME TypeOK, NEW m \in MatchIds, NEW b \in OrderIds, NEW s \in OrderIds,
         NEW takerSide \in Side, NEW p \in Price, NEW q \in Nat \ {0},
         b # s, q <= orders[b].remaining, q <= orders[s].remaining,
         settleTrade(m, b, s, takerSide, p, q)
  PROVE  TypeOK'
<1>1. orders' \in [OrderIds -> OrderRow]
  BY TradeRows
<1>2. wallets' \in Wallets
  BY TradeWallets
<1>3. RecordedMakerFee(takerSide) \in 0 .. Unit - 1 /\ RecordedTakerFee(takerSide) \in 0 .. Unit - 1
  BY FeesAssumption DEF RecordedMakerFee, RecordedTakerFee
<1>4. trades' \subseteq [engineMatchId : MatchIds, buy : OrderIds, sell : OrderIds,
        takerSide : Side, price : Price, quantity : Nat \ {0},
        makerFeeRate : 0 .. Unit - 1, takerFeeRate : 0 .. Unit - 1]
  BY <1>3 DEF settleTrade, TypeOK
<1>5. market' \in {"RECOVERING", "READY", "SUSPENDED"}
  BY DEF settleTrade, TypeOK
<1>. QED  BY <1>1, <1>2, <1>4, <1>5 DEF TypeOK, Wallets, Balance

(* The trade of an engine: an action of Trade, with its price named.       *)
LEMMA TradeIs ==
  ASSUME TypeOK, NEW m \in MatchIds, NEW b \in OrderIds, NEW s \in OrderIds, Trade(m, b, s)
  PROVE  \E takerSide \in Side, p \in Price, q \in Nat \ {0} :
           /\ b # s /\ q <= orders[b].remaining /\ q <= orders[s].remaining
           /\ settleTrade(m, b, s, takerSide, p, q)
<1>1. /\ orders[b] \in OrderRow /\ orders[s] \in OrderRow
      /\ orders[b].side = "BUY" /\ orders[s].side = "SELL"
  BY DEF TypeOK, Trade
<1>2. PICK q \in 1 .. Least(orders[b].remaining, orders[s].remaining), takerSide \in Side :
        settleTrade(m, b, s, takerSide,
                    IF takerSide = "BUY" THEN orders[s].price ELSE orders[b].price, q)
  BY DEF Trade
<1>. DEFINE p == IF takerSide = "BUY" THEN orders[s].price ELSE orders[b].price
<1>3. p \in Price
  BY <1>1 DEF OrderRow
<1>4. q \in Nat \ {0} /\ q <= orders[b].remaining /\ q <= orders[s].remaining
  BY <1>1 DEF OrderRow, Least
<1>. HIDE DEF p
<1>5. settleTrade(m, b, s, takerSide, p, q)
  BY <1>2 DEF p
<1>. QED  BY <1>1, <1>3, <1>4, <1>5

LEMMA InitTypes == Init => TypeOK
<1>. SUFFICES ASSUME Init PROVE TypeOK
  OBVIOUS
<1>1. AnyPrice \in Price
  BY PriceAssumption DEF AnyPrice
<1>. QED
  BY <1>1, FundsAssumption DEF Init, TypeOK, OrderRow, Owners, Side, Status

LEMMA StepTypes == TypeOK /\ [Next]_dbVars => TypeOK'
<1>. SUFFICES ASSUME TypeOK, [Next]_dbVars PROVE TypeOK'
  OBVIOUS
<1>1. ASSUME NEW u \in Users, NEW o \in OrderIds, NEW s \in Side, NEW p \in Price,
             NEW q \in Qty, placeOrder(u, o, s, p, q)
      PROVE  TypeOK'
  BY <1>1, PlacedTypes
<1>2. ASSUME NEW o \in OrderIds, cancelOrder(o)
      PROVE  TypeOK'
  BY <1>2, StatusTypes DEF cancelOrder, Status
<1>3. ASSUME NEW status \in {"READY", "SUSPENDED"}, setMarket(status)
      PROVE  TypeOK'
  BY <1>3 DEF setMarket, TypeOK
<1>4. ASSUME NEW o \in OrderIds, NEW status \in {"OPEN", "REJECTED"}, fromPending(o, status)
      PROVE  TypeOK'
  <2>1. orders[o].status \in Status
    BY DEF TypeOK, OrderRow
  <2>. DEFINE new == IF orders[o].status = "PENDING" THEN status ELSE orders[o].status
  <2>2. new \in Status /\ orders' = [orders EXCEPT ![o].status = new]
    BY <1>4, <2>1 DEF fromPending, Status
  <2>. HIDE DEF new
  <2>. QED  BY <1>4, <2>2, StatusTypes DEF fromPending
<1>5. ASSUME NEW m \in MatchIds, NEW b \in OrderIds, NEW s \in OrderIds, Trade(m, b, s)
      PROVE  TypeOK'
  BY <1>5, TradeIs, TradeTypes
<1>6. ASSUME NEW o \in OrderIds, handleOrderCancelled(o)
      PROVE  TypeOK'
  BY <1>6, CancelledTypes
<1>7. ASSUME NEW o \in OrderIds, handleCancelOrderRejected(o)
      PROVE  TypeOK'
  <2>1. orders[o].status \in Status
    BY DEF TypeOK, OrderRow
  <2>. DEFINE new == IF orders[o].status # "CANCEL_PENDING" THEN orders[o].status
                     ELSE IF orders[o].filled > 0 THEN "PARTIALLY_FILLED" ELSE "OPEN"
  <2>2. new \in Status /\ orders' = [orders EXCEPT ![o].status = new]
    BY <1>7, <2>1 DEF handleCancelOrderRejected, Status
  <2>. HIDE DEF new
  <2>. QED  BY <1>7, <2>2, StatusTypes DEF handleCancelOrderRejected
<1>8. CASE UNCHANGED dbVars
  BY <1>8 DEF dbVars, TypeOK
<1>. QED  BY <1>1, <1>2, <1>3, <1>4, <1>5, <1>6, <1>7, <1>8 DEF Next

-----------------------------------------------------------------------------

(* No transaction of the backend overdraws a wallet, available or locked,  *)
(* or fills an order past its quantity, whatever the engine's events are:  *)
(* this is what the guards of WalletBalanceService are for.                *)
THEOREM BalancesNeverNegative == Spec => []TypeOK
<1>. QED  BY InitTypes, StepTypes, PTL DEF Spec

-----------------------------------------------------------------------------
(* Three tables' worth of one fact: wallets, orders and trades agree.      *)

(* Every order belongs to a user, and the treasury places none.            *)
Ownership == \A o \in OrderIds : Exists(o) => orders[o].owner \in Users

(* The trades are finitely many, of two orders each that exist.            *)
Settled ==
  /\ IsFiniteSet(trades)
  /\ \A t \in trades : t.buy # t.sell /\ Exists(t.buy) /\ Exists(t.sell)

SInv == /\ TypeOK
        /\ Ownership
        /\ Settled
        /\ Conserved
        /\ FilledByTrades
        /\ FeesCollected

Volume(T) == Sum([t \in T |-> t.quantity], T)
BuyerFees(T) == Sum([t \in T |-> BuyerFee(t)], T)
SellerFees(T) == Sum([t \in T |-> SellerFee(t)], T)

(* The properties in the terms of module Sums.                             *)
LEMMA AsSums ==
  /\ Conserved <=> \A a \in Asset : Worth(wallets, a) = Sum([u \in Users |-> Funds], Users)
  /\ FilledByTrades <=> \A o \in OrderIds :
       /\ orders[o].filled = Volume(TradesOf(o))
       /\ orders[o].filled + orders[o].remaining = orders[o].quantity
  /\ FeesCollected <=> /\ wallets[Treasury]["BASE"].available = BuyerFees(trades)
                       /\ wallets[Treasury]["QUOTE"].available = SellerFees(trades)
<1>1. \A a \in Asset : Total(a) = Worth(wallets, a)
  BY SumOfFunction DEF Total, Worth
<1>2. SumFunction([u \in Users |-> Funds]) = Sum([u \in Users |-> Funds], Users)
  BY SumOfFunction
<1>3. \A T : SumFunction([t \in T |-> t.quantity]) = Volume(T)
  BY SumOfFunction DEF Volume
<1>4. \A T : SumFunction([t \in T |-> BuyerFee(t)]) = BuyerFees(T)
  BY SumOfFunction DEF BuyerFees
<1>5. \A T : SumFunction([t \in T |-> SellerFee(t)]) = SellerFees(T)
  BY SumOfFunction DEF SellerFees
<1>. QED  BY <1>1, <1>2, <1>3, <1>4, <1>5 DEF Conserved, FilledByTrades, FeesCollected

(* A trade's row has a quantity and fees that are naturals.                *)
LEMMA TradeAmounts ==
  ASSUME TypeOK
  PROVE  \A t \in trades : t.quantity \in Nat /\ BuyerFee(t) \in Nat /\ SellerFee(t) \in Nat
<1>. SUFFICES ASSUME NEW t \in trades
     PROVE  t.quantity \in Nat /\ BuyerFee(t) \in Nat /\ SellerFee(t) \in Nat
  OBVIOUS
<1>1. t.quantity \in Nat /\ t.price \in Nat
  BY PriceAssumption DEF TypeOK
<1>2. MakerFee \in Nat /\ TakerFee \in Nat
  BY FeesAssumption
<1>3. t.quantity * t.price \in Nat
  BY <1>1, Products
<1>4. PICK x \in Nat : x = t.quantity * t.price
  BY <1>3
<1>5. x * (IF t.takerSide = "SELL" THEN TakerFee ELSE MakerFee) \in Nat
  BY <1>2, Products
<1>6. t.quantity * (IF t.takerSide = "BUY" THEN TakerFee ELSE MakerFee) \in Nat
  BY <1>1, <1>2, Products
<1>. QED  BY <1>1, <1>4, <1>5, <1>6 DEF BuyerFee, SellerFee

(* One more trade.                                                         *)
LEMMA OneMoreTrade ==
  ASSUME NEW T, IsFiniteSet(T), NEW n, n \notin T,
         \A t \in T \cup {n} : t.quantity \in Nat /\ BuyerFee(t) \in Nat /\ SellerFee(t) \in Nat
  PROVE  /\ Volume(T \cup {n}) = Volume(T) + n.quantity
         /\ BuyerFees(T \cup {n}) = BuyerFees(T) + BuyerFee(n)
         /\ SellerFees(T \cup {n}) = SellerFees(T) + SellerFee(n)
<1>. DEFINE U == T \cup {n}
<1>1. n \in U /\ (\A t \in T : t \in U) /\ U = T \cup {n}
  OBVIOUS
<1>. HIDE DEF U
<1>2. Sum([t \in U |-> t.quantity], U) = Sum([t \in T |-> t.quantity], T) + n.quantity
  <2>. DEFINE f == [t \in T |-> t.quantity]
              g == [t \in U |-> t.quantity]
  <2>1. g[n] = n.quantity /\ g[n] \in Int
    BY <1>1
  <2>2. (\A t \in T : f[t] \in Int) /\ (\A t \in T : f[t] = g[t])
    BY <1>1
  <2>. HIDE DEF f, g
  <2>3. Sum(g, U) = Sum(f, T) + g[n]
    BY <1>1, <2>1, <2>2, SumExtend
  <2>. QED  BY <2>1, <2>3 DEF f, g
<1>3. Sum([t \in U |-> BuyerFee(t)], U) = Sum([t \in T |-> BuyerFee(t)], T) + BuyerFee(n)
  <2>. DEFINE f == [t \in T |-> BuyerFee(t)]
              g == [t \in U |-> BuyerFee(t)]
  <2>1. g[n] = BuyerFee(n) /\ g[n] \in Int
    BY <1>1
  <2>2. (\A t \in T : f[t] \in Int) /\ (\A t \in T : f[t] = g[t])
    BY <1>1
  <2>. HIDE DEF f, g
  <2>3. Sum(g, U) = Sum(f, T) + g[n]
    BY <1>1, <2>1, <2>2, SumExtend
  <2>. QED  BY <2>1, <2>3 DEF f, g
<1>4. Sum([t \in U |-> SellerFee(t)], U) = Sum([t \in T |-> SellerFee(t)], T) + SellerFee(n)
  <2>. DEFINE f == [t \in T |-> SellerFee(t)]
              g == [t \in U |-> SellerFee(t)]
  <2>1. g[n] = SellerFee(n) /\ g[n] \in Int
    BY <1>1
  <2>2. (\A t \in T : f[t] \in Int) /\ (\A t \in T : f[t] = g[t])
    BY <1>1
  <2>. HIDE DEF f, g
  <2>3. Sum(g, U) = Sum(f, T) + g[n]
    BY <1>1, <2>1, <2>2, SumExtend
  <2>. QED  BY <2>1, <2>3 DEF f, g
<1>. QED  BY <1>2, <1>3, <1>4 DEF Volume, BuyerFees, SellerFees, U

(* A step that inserts no trade and fills no order leaves the rows         *)
(* agreeing with the trades.                                               *)
LEMMA RowsKept ==
  ASSUME SInv, UNCHANGED trades,
         \A o \in OrderIds :
           /\ orders'[o].status = "NONE" <=> orders[o].status = "NONE"
           /\ orders'[o].owner = orders[o].owner /\ orders'[o].quantity = orders[o].quantity
           /\ orders'[o].filled = orders[o].filled /\ orders'[o].remaining = orders[o].remaining
  PROVE  Ownership' /\ Settled' /\ FilledByTrades'
<1>1. Ownership'
  BY DEF SInv, Ownership, Exists
<1>2. Settled'
  <2>1. \A t \in trades : t.buy \in OrderIds /\ t.sell \in OrderIds
    BY DEF SInv, TypeOK
  <2>. QED  BY <2>1 DEF SInv, Settled, Exists
<1>3. FilledByTrades'
  <2>1. \A o \in OrderIds : TradesOf(o)' = TradesOf(o)
    BY DEF TradesOf
  <2>. QED  BY <2>1 DEF SInv, FilledByTrades
<1>. QED  BY <1>1, <1>2, <1>3

(* A step that moves no money.                                             *)
LEMMA WalletsKept ==
  ASSUME SInv, UNCHANGED <<trades, wallets>>
  PROVE  Conserved' /\ FeesCollected'
BY DEF SInv, Conserved, FeesCollected, Total

(* A move between the two columns of a user's balance.                     *)
LEMMA MovedWithin ==
  ASSUME SInv, UNCHANGED trades, NEW u \in Users, NEW a \in Asset, NEW x \in Int,
         wallets[u][a].available + (-x) >= 0, wallets[u][a].locked + x >= 0,
         wallets' = Moved(wallets, u, a, -x, x)
  PROVE  Conserved' /\ FeesCollected'
<1>1. wallets \in Wallets /\ u \in Owners /\ -x \in Int /\ Treasury \in Owners /\ Treasury # u
  BY OwnersAssumption DEF SInv, TypeOK, Wallets, Balance, Owners
<1>2. /\ \A v \in Owners, b \in Asset :
           wallets'[v][b].available = wallets[v][b].available + (IF v = u /\ b = a THEN -x ELSE 0)
      /\ \A b \in Asset : Worth(wallets', b) = Worth(wallets, b) + (IF b = a THEN (-x) + x ELSE 0)
  BY <1>1, MovedWallets
<1>3. Conserved'
  <2>1. \A b \in Asset : Worth(wallets', b) = Worth(wallets, b)
    BY <1>1, <1>2, WorthType
  <2>2. \A b \in Asset : Total(b)' = Worth(wallets', b) /\ Total(b) = Worth(wallets, b)
    BY SumOfFunction DEF Total, Worth
  <2>. QED  BY <2>1, <2>2 DEF SInv, Conserved
<1>4. FeesCollected'
  <2>1. \A b \in Asset : wallets[Treasury][b].available \in Nat
    BY <1>1 DEF Wallets, Balance
  <2>2. \A b \in Asset : wallets'[Treasury][b].available = wallets[Treasury][b].available
    BY <1>1, <1>2, <2>1
  <2>. QED  BY <2>2 DEF SInv, FeesCollected, Asset
<1>. QED  BY <1>3, <1>4

(* The step of a trade: the two rows fill by what the new row says, and    *)
(* the treasury receives its fees.                                         *)
LEMMA TradeSettled ==
  ASSUME SInv, NEW m \in MatchIds, NEW b \in OrderIds, NEW s \in OrderIds,
         NEW takerSide \in Side, NEW p \in Price, NEW q \in Nat \ {0},
         b # s, q <= orders[b].remaining, q <= orders[s].remaining,
         settleTrade(m, b, s, takerSide, p, q)
  PROVE  SInv'
<1>. DEFINE n == [engineMatchId |-> m, buy |-> b, sell |-> s, takerSide |-> takerSide,
                  price |-> p, quantity |-> q,
                  makerFeeRate |-> RecordedMakerFee(takerSide),
                  takerFeeRate |-> RecordedTakerFee(takerSide)]
<1>1. TypeOK /\ TypeOK'
  BY TradeTypes DEF SInv
<1>2. /\ trades' = trades \cup {n} /\ n \notin trades
      /\ Exists(b) /\ Exists(s) /\ orders[b].owner \in Users /\ orders[s].owner \in Users
  BY DEF settleTrade, Settleable, Unsettled, SInv, Ownership
<1>3. /\ n.buy = b /\ n.sell = s /\ n.quantity = q
      /\ BuyerFee(n) = q * FeeRate("BUY", takerSide)
      /\ SellerFee(n) = q * p * FeeRate("SELL", takerSide)
  BY DEF BuyerFee, SellerFee, FeeRate
<1>. HIDE DEF n
<1>4. /\ orders'[b] = Filled(orders[b], q, q * p * Unit)
      /\ orders'[s] = Filled(orders[s], q, q * Unit)
      /\ \A o \in OrderIds : o # b /\ o # s => orders'[o] = orders[o]
  BY <1>1, TradeRows
<1>5. \A o \in OrderIds :
        /\ orders'[o].owner = orders[o].owner /\ orders'[o].quantity = orders[o].quantity
        /\ orders'[o].status = "NONE" <=> orders[o].status = "NONE"
  <2>1. /\ orders[b] \in OrderRow /\ orders[s] \in OrderRow
        /\ orders[b].status # "NONE" /\ orders[s].status # "NONE"
    BY <1>1, <1>2 DEF TypeOK, Exists
  <2>2. ASSUME NEW r \in OrderRow, NEW x
        PROVE  /\ Filled(r, q, x).owner = r.owner /\ Filled(r, q, x).quantity = r.quantity
               /\ Filled(r, q, x).status # "NONE"
    BY DEF Filled, OrderRow
  <2>. QED  BY <1>4, <2>1, <2>2
<1>6. Ownership'
  BY <1>5 DEF SInv, Ownership, Exists
<1>7. Settled'
  <2>1. IsFiniteSet(trades')
    BY <1>2, FS_AddElement DEF SInv, Settled
  <2>2. \A t \in trades : t.buy \in OrderIds /\ t.sell \in OrderIds
    BY <1>1 DEF TypeOK
  <2>3. ASSUME NEW t \in trades'
        PROVE  t.buy # t.sell /\ orders'[t.buy].status # "NONE" /\ orders'[t.sell].status # "NONE"
    BY <1>2, <1>3, <1>5, <2>2 DEF SInv, Settled, Exists
  <2>. QED  BY <2>1, <2>3 DEF Settled, Exists
<1>8. \A t \in trades' : t.quantity \in Nat /\ BuyerFee(t) \in Nat /\ SellerFee(t) \in Nat
  <2>1. q \in Nat /\ q * FeeRate("BUY", takerSide) \in Nat /\ q * p * FeeRate("SELL", takerSide) \in Nat
    BY <1>1, TradeWallets
  <2>. QED  BY <1>1, <1>2, <1>3, <2>1, TradeAmounts
<1>9. FilledByTrades'
  <2>. SUFFICES ASSUME NEW o \in OrderIds
       PROVE  /\ orders'[o].filled = Volume(TradesOf(o)')
              /\ orders'[o].filled + orders'[o].remaining = orders'[o].quantity
    BY SumOfFunction DEF FilledByTrades, Volume
  <2>1. /\ orders[o].filled = Volume(TradesOf(o))
        /\ orders[o].filled + orders[o].remaining = orders[o].quantity
    BY AsSums DEF SInv
  <2>2. orders[o] \in OrderRow
    BY <1>1 DEF TypeOK
  <2>3. IsFiniteSet(TradesOf(o)) /\ n \notin TradesOf(o)
    BY <1>2, FS_Subset DEF TradesOf, SInv, Settled
  <2>4. CASE o = b \/ o = s
    <3>1. TradesOf(o)' = TradesOf(o) \cup {n}
      BY <1>2, <1>3, <2>4 DEF TradesOf
    <3>2. \A t \in TradesOf(o) \cup {n} :
            t.quantity \in Nat /\ BuyerFee(t) \in Nat /\ SellerFee(t) \in Nat
      BY <1>2, <1>8 DEF TradesOf
    <3>3. Volume(TradesOf(o) \cup {n}) = Volume(TradesOf(o)) + n.quantity
      BY <2>3, <3>2, OneMoreTrade
    <3>4. /\ orders'[o].filled = orders[o].filled + q
          /\ orders'[o].remaining = orders[o].remaining - q
          /\ orders'[o].quantity = orders[o].quantity
      <4>1. ASSUME NEW r \in OrderRow, NEW x
            PROVE  Filled(r, q, x).filled = r.filled + q /\ Filled(r, q, x).remaining = r.remaining - q
        BY DEF Filled, OrderRow
      <4>2. PICK x : orders'[o] = Filled(orders[o], q, x)
        BY <1>4, <2>4
      <4>. QED  BY <1>5, <2>2, <4>1, <4>2
    <3>. QED  BY <1>3, <2>1, <2>2, <3>1, <3>3, <3>4 DEF OrderRow
  <2>5. CASE o # b /\ o # s
    <3>1. TradesOf(o)' = TradesOf(o)
      BY <1>2, <1>3, <2>5 DEF TradesOf
    <3>. QED  BY <1>4, <2>1, <2>5, <3>1
  <2>. QED  BY <2>4, <2>5
<1>10. Conserved'
  <2>1. \A a \in Asset : Worth(wallets', a) = Worth(wallets, a)
    BY <1>1, TradeWallets
  <2>2. \A a \in Asset : Total(a)' = Worth(wallets', a) /\ Total(a) = Worth(wallets, a)
    BY SumOfFunction DEF Total, Worth
  <2>. QED  BY <2>1, <2>2 DEF SInv, Conserved
<1>11. FeesCollected'
  <2>1. orders[b].owner # Treasury /\ orders[s].owner # Treasury
    BY <1>2, OwnersAssumption
  <2>2. /\ wallets'[Treasury]["BASE"].available = wallets[Treasury]["BASE"].available + BuyerFee(n)
        /\ wallets'[Treasury]["QUOTE"].available = wallets[Treasury]["QUOTE"].available + SellerFee(n)
    BY <1>1, <1>3, <2>1, TradeWallets
  <2>3. /\ BuyerFees(trades') = BuyerFees(trades) + BuyerFee(n)
        /\ SellerFees(trades') = SellerFees(trades) + SellerFee(n)
    BY <1>2, <1>8, OneMoreTrade DEF SInv, Settled
  <2>4. /\ wallets[Treasury]["BASE"].available = BuyerFees(trades)
        /\ wallets[Treasury]["QUOTE"].available = SellerFees(trades)
    BY AsSums DEF SInv
  <2>5. /\ wallets'[Treasury]["BASE"].available = BuyerFees(trades')
        /\ wallets'[Treasury]["QUOTE"].available = SellerFees(trades')
    BY <2>2, <2>3, <2>4
  <2>. QED  BY <2>5, SumOfFunction DEF FeesCollected, BuyerFees, SellerFees
<1>. QED  BY <1>1, <1>6, <1>7, <1>9, <1>10, <1>11 DEF SInv

(* A new order has no trades, and locks what its owner has available.      *)
LEMMA PlacedSettled ==
  ASSUME SInv, NEW u \in Users, NEW o \in OrderIds, NEW s \in Side, NEW p \in Price,
         NEW q \in Qty, placeOrder(u, o, s, p, q)
  PROVE  SInv'
<1>. DEFINE a == LockedAsset(s)
            x == LockedAmount(s, p, q)
<1>1. TypeOK /\ TypeOK' /\ UNCHANGED trades
  BY PlacedTypes DEF SInv, placeOrder
<1>2. x \in Nat /\ a \in Asset /\ u \in Owners /\ q \in Nat
  BY LockedAmounts, QtyAssumption DEF Owners
<1>3. wallets[u][a].available >= x /\ wallets' = Moved(wallets, u, a, -x, x)
  BY DEF placeOrder, Covered, moveAvailableToLocked
<1>4. Conserved' /\ FeesCollected'
  <2>1. wallets[u][a].available \in Nat /\ wallets[u][a].locked \in Nat
    BY <1>1, <1>2 DEF TypeOK
  <2>2. wallets[u][a].available + (-x) >= 0 /\ wallets[u][a].locked + x >= 0
    BY <1>2, <1>3, <2>1
  <2>. HIDE DEF a, x
  <2>. QED  BY <1>1, <1>2, <1>3, <2>2, MovedWithin
<1>5. /\ orders'[o].owner = u /\ orders'[o].status = "PENDING" /\ orders[o].status = "NONE"
      /\ orders'[o].filled = 0 /\ orders'[o].remaining = q /\ orders'[o].quantity = q
      /\ \A i \in OrderIds : i # o => orders'[i] = orders[i]
  BY <1>1 DEF placeOrder, TypeOK, Exists
<1>6. \A t \in trades : t.buy \in OrderIds /\ t.sell \in OrderIds /\ t.buy # o /\ t.sell # o
  BY <1>1, <1>5 DEF SInv, Settled, Exists, TypeOK
<1>7. Ownership'
  BY <1>5 DEF SInv, Ownership, Exists
<1>8. Settled'
  BY <1>1, <1>5, <1>6 DEF SInv, Settled, Exists
<1>9. FilledByTrades'
  <2>1. TradesOf(o)' = {} /\ \A i \in OrderIds : TradesOf(i)' = TradesOf(i)
    BY <1>1, <1>6 DEF TradesOf
  <2>2. SumFunction([t \in {} |-> t.quantity]) = 0
    <3>1. DOMAIN [t \in {} |-> t.quantity] = {}
      OBVIOUS
    <3>. QED  BY <3>1, SumOfFunction, SumEmpty
  <2>3. orders'[o].filled = SumFunction([t \in TradesOf(o)' |-> t.quantity])
    BY <1>5, <2>1, <2>2
  <2>4. orders'[o].filled + orders'[o].remaining = orders'[o].quantity
    BY <1>2, <1>5
  <2>5. \A i \in OrderIds : i # o =>
          /\ orders'[i].filled = SumFunction([t \in TradesOf(i)' |-> t.quantity])
          /\ orders'[i].filled + orders'[i].remaining = orders'[i].quantity
    BY <1>5, <2>1 DEF SInv, FilledByTrades
  <2>. QED  BY <2>3, <2>4, <2>5 DEF FilledByTrades
<1>. QED  BY <1>1, <1>4, <1>7, <1>8, <1>9 DEF SInv

(* A cancelled order gives its lock back to its owner.                     *)
LEMMA CancelledSettled ==
  ASSUME SInv, NEW o \in OrderIds, handleOrderCancelled(o)
  PROVE  SInv'
<1>. DEFINE a == LockedAsset(orders[o].side)
            x == orders[o].locked
            u == orders[o].owner
<1>1. TypeOK /\ TypeOK' /\ UNCHANGED trades /\ Exists(o)
  BY CancelledTypes DEF SInv, handleOrderCancelled, Releasable
<1>2. u \in Users /\ u \in Owners /\ a \in Asset /\ x \in Int
  BY <1>1 DEF SInv, Ownership, Owners, TypeOK, OrderRow, LockedAsset, Asset
<1>3. Conserved' /\ FeesCollected'
  <2>1. CASE x > 0
    <3>1. wallets' = Moved(wallets, u, a, x, -x) /\ wallets[u][a].locked >= x
      BY <2>1 DEF handleOrderCancelled, Released, moveLockedToAvailable, Releasable, Held
    <3>2. wallets[u][a].available \in Nat /\ wallets[u][a].locked \in Nat
      BY <1>1, <1>2 DEF TypeOK
    <3>. HIDE DEF u, a, x
    <3>. DEFINE y == -x
    <3>3. /\ y \in Int /\ -y = x
          /\ wallets[u][a].available + (-y) >= 0 /\ wallets[u][a].locked + y >= 0
      BY <1>2, <2>1, <3>1, <3>2
    <3>4. wallets' = Moved(wallets, u, a, -y, y)
      BY <3>1, <3>3
    <3>. HIDE DEF y
    <3>. QED  BY <1>1, <1>2, <3>3, <3>4, MovedWithin
  <2>2. CASE ~(x > 0)
    <3>1. UNCHANGED wallets
      BY <2>2 DEF handleOrderCancelled, Released
    <3>. QED  BY <1>1, <3>1, WalletsKept
  <2>. QED  BY <2>1, <2>2
<1>4. \A i \in OrderIds :
        /\ orders'[i].status = "NONE" <=> orders[i].status = "NONE"
        /\ orders'[i].owner = orders[i].owner /\ orders'[i].quantity = orders[i].quantity
        /\ orders'[i].filled = orders[i].filled /\ orders'[i].remaining = orders[i].remaining
  <2>1. orders[o].status # "NONE" /\ orders \in [OrderIds -> OrderRow] /\ orders[o] \in OrderRow
    BY <1>1 DEF Exists, TypeOK
  <2>2. orders' = [orders EXCEPT ![o].status = "CANCELLED", ![o].locked = 0]
    BY DEF handleOrderCancelled
  <2>3. \A i \in OrderIds : i # o => orders'[i] = orders[i]
    BY <2>1, <2>2
  <2>4. orders'[o] = [orders[o] EXCEPT !.status = "CANCELLED", !.locked = 0]
    BY <2>1, <2>2
  <2>5. /\ orders'[o].status = "CANCELLED"
        /\ orders'[o].owner = orders[o].owner /\ orders'[o].quantity = orders[o].quantity
        /\ orders'[o].filled = orders[o].filled /\ orders'[o].remaining = orders[o].remaining
    BY <2>1, <2>4 DEF OrderRow
  <2>. QED  BY <2>1, <2>3, <2>5
<1>. QED  BY <1>1, <1>3, <1>4, RowsKept DEF SInv

(* The requests and events that change a status and nothing else.          *)
LEMMA StatusSettled ==
  ASSUME SInv, NEW o \in OrderIds, NEW status \in Status, status = "NONE" <=> ~Exists(o),
         orders' = [orders EXCEPT ![o].status = status], UNCHANGED <<wallets, trades, market>>
  PROVE  SInv'
<1>1. TypeOK /\ TypeOK'
  BY StatusTypes DEF SInv
<1>2. \A i \in OrderIds :
        /\ orders'[i].status = "NONE" <=> orders[i].status = "NONE"
        /\ orders'[i].owner = orders[i].owner /\ orders'[i].quantity = orders[i].quantity
        /\ orders'[i].filled = orders[i].filled /\ orders'[i].remaining = orders[i].remaining
  <2>1. orders[o] \in OrderRow
    BY <1>1 DEF TypeOK
  <2>2. \A i \in OrderIds : i # o => orders'[i] = orders[i]
    BY <1>1 DEF TypeOK
  <2>3. orders'[o] = [orders[o] EXCEPT !.status = status]
    BY <1>1 DEF TypeOK
  <2>. QED  BY <2>1, <2>2, <2>3 DEF OrderRow, Exists
<1>. QED  BY <1>1, <1>2, RowsKept, WalletsKept DEF SInv

LEMMA InitSettled == Init => SInv
<1>. SUFFICES ASSUME Init PROVE SInv
  OBVIOUS
<1>1. TypeOK
  BY InitTypes
<1>2. /\ trades = {} /\ \A o \in OrderIds : ~Exists(o)
      /\ \A o \in OrderIds : orders[o].filled = 0 /\ orders[o].remaining = 0 /\ orders[o].quantity = 0
  BY DEF Init, Exists
<1>4. FilledByTrades
  <2>1. \A o \in OrderIds : TradesOf(o) = {}
    BY <1>2 DEF TradesOf
  <2>2. Volume({}) = 0
    BY SumEmpty DEF Volume
  <2>3. ASSUME NEW o \in OrderIds
        PROVE  /\ orders[o].filled = Volume(TradesOf(o))
               /\ orders[o].filled + orders[o].remaining = orders[o].quantity
    <3>1. orders[o].filled = 0 /\ orders[o].remaining = 0 /\ orders[o].quantity = 0
      BY <1>2
    <3>2. Volume(TradesOf(o)) = 0
      BY <2>1, <2>2, Zenon
    <3>. QED  BY <3>1, <3>2
  <2>. QED  BY <2>3, AsSums
<1>5. FeesCollected
  <2>1. wallets[Treasury]["BASE"].available = 0 /\ wallets[Treasury]["QUOTE"].available = 0
    BY OwnersAssumption DEF Init, Owners, Asset
  <2>2. BuyerFees({}) = 0 /\ SellerFees({}) = 0
    BY SumEmpty DEF BuyerFees, SellerFees
  <2>. QED  BY <1>2, <2>1, <2>2, AsSums
<1>6. Conserved
  <2>. SUFFICES ASSUME NEW a \in Asset
       PROVE  Worth(wallets, a) = Sum([u \in Users |-> Funds], Users)
    BY AsSums
  <2>. DEFINE f == [u \in Users |-> Funds]
              g == [u \in Owners |-> wallets[u][a].available + wallets[u][a].locked]
  <2>1. /\ \A u \in Users : f[u] = Funds /\ g[u] = Funds
        /\ g[Treasury] = 0
    BY OwnersAssumption, FundsAssumption DEF Init, Owners
  <2>2. (\A u \in Users : f[u] \in Int) /\ (\A u \in Users : f[u] = g[u]) /\ g[Treasury] \in Int
    BY <2>1, FundsAssumption
  <2>3. IsFiniteSet(Users) /\ Treasury \notin Users /\ Owners = Users \cup {Treasury}
    BY OwnersAssumption DEF Owners
  <2>. HIDE DEF f, g
  <2>4. Sum(g, Owners) = Sum(f, Users) + g[Treasury]
    BY <2>2, <2>3, SumExtend
  <2>5. Sum(f, Users) \in Int
    BY <2>2, <2>3, SumType
  <2>6. Sum(g, Owners) = Sum(f, Users)
    BY <2>1, <2>4, <2>5
  <2>. QED  BY <2>6 DEF Worth, f, g
<1>7. Ownership /\ Settled
  BY <1>2, FS_EmptySet DEF Ownership, Settled
<1>. QED  BY <1>1, <1>4, <1>5, <1>6, <1>7 DEF SInv

LEMMA StepSettled == SInv /\ [Next]_dbVars => SInv'
<1>. SUFFICES ASSUME SInv, [Next]_dbVars PROVE SInv'
  OBVIOUS
<1>0. TypeOK
  BY DEF SInv
<1>1. ASSUME NEW u \in Users, NEW o \in OrderIds, NEW s \in Side, NEW p \in Price,
             NEW q \in Qty, placeOrder(u, o, s, p, q)
      PROVE  SInv'
  BY <1>1, PlacedSettled
<1>2. ASSUME NEW o \in OrderIds, cancelOrder(o)
      PROVE  SInv'
  <2>1. Exists(o) /\ "CANCEL_PENDING" \in Status
    BY <1>2 DEF cancelOrder, Cancellable, Exists, Status
  <2>. QED  BY <1>2, <2>1, StatusSettled DEF cancelOrder
<1>3. ASSUME NEW status \in {"READY", "SUSPENDED"}, setMarket(status)
      PROVE  SInv'
  <2>1. TypeOK'
    BY <1>0, <1>3 DEF setMarket, TypeOK
  <2>2. UNCHANGED <<orders, wallets, trades>>
    BY <1>3 DEF setMarket
  <2>. QED  BY <2>1, <2>2, RowsKept, WalletsKept DEF SInv
<1>4. ASSUME NEW o \in OrderIds, NEW status \in {"OPEN", "REJECTED"}, fromPending(o, status)
      PROVE  SInv'
  <2>1. orders[o].status \in Status
    BY <1>0 DEF TypeOK, OrderRow
  <2>. DEFINE new == IF orders[o].status = "PENDING" THEN status ELSE orders[o].status
  <2>2. /\ new \in Status /\ (new = "NONE" <=> ~Exists(o))
        /\ orders' = [orders EXCEPT ![o].status = new]
    BY <1>0, <1>4, <2>1 DEF fromPending, Status, Exists, TypeOK
  <2>. HIDE DEF new
  <2>. QED  BY <1>4, <2>2, StatusSettled DEF fromPending
<1>5. ASSUME NEW m \in MatchIds, NEW b \in OrderIds, NEW s \in OrderIds, Trade(m, b, s)
      PROVE  SInv'
  BY <1>0, <1>5, TradeIs, TradeSettled
<1>6. ASSUME NEW o \in OrderIds, handleOrderCancelled(o)
      PROVE  SInv'
  BY <1>6, CancelledSettled
<1>7. ASSUME NEW o \in OrderIds, handleCancelOrderRejected(o)
      PROVE  SInv'
  <2>1. orders[o].status \in Status /\ Exists(o)
    BY <1>0, <1>7 DEF TypeOK, OrderRow, handleCancelOrderRejected
  <2>. DEFINE new == IF orders[o].status # "CANCEL_PENDING" THEN orders[o].status
                     ELSE IF orders[o].filled > 0 THEN "PARTIALLY_FILLED" ELSE "OPEN"
  <2>2. /\ new \in Status /\ (new = "NONE" <=> ~Exists(o))
        /\ orders' = [orders EXCEPT ![o].status = new]
    BY <1>0, <1>7, <2>1 DEF handleCancelOrderRejected, Status, Exists, TypeOK
  <2>. HIDE DEF new
  <2>. QED  BY <1>7, <2>2, StatusSettled DEF handleCancelOrderRejected
<1>8. CASE UNCHANGED dbVars
  <2>1. UNCHANGED <<orders, wallets, trades>> /\ TypeOK'
    BY <1>0, <1>8 DEF dbVars, TypeOK
  <2>. QED  BY <2>1, RowsKept, WalletsKept DEF SInv
<1>. QED  BY <1>1, <1>2, <1>3, <1>4, <1>5, <1>6, <1>7, <1>8 DEF Next

(* No event of any engine, in any order and any number of times, makes or  *)
(* loses money: what a trade takes from the two sides is what it gives to  *)
(* them and to the treasury, for all users, prices and fee rates.          *)
THEOREM MoneyConserved == Spec => []Conserved
<1>1. SInv => Conserved
  BY DEF SInv
<1>. QED  BY <1>1, InitSettled, StepSettled, PTL DEF Spec

(* The rows of orders and of trades always say the same of what traded.    *)
THEOREM FillsAreTrades == Spec => []FilledByTrades
<1>1. SInv => FilledByTrades
  BY DEF SInv
<1>. QED  BY <1>1, InitSettled, StepSettled, PTL DEF Spec

(* The treasury holds the fees of all trades and nothing else.             *)
THEOREM TreasuryHoldsFees == Spec => []FeesCollected
<1>1. SInv => FeesCollected
  BY DEF SInv
<1>. QED  BY <1>1, InitSettled, StepSettled, PTL DEF Spec

-----------------------------------------------------------------------------
(* The whole exchange.                                                     *)


Done == issued - Len(commands)   \* the commands the engine is done with
N == Len(UnderWay)
IsTrade(e) == e.type = "TradeCreated"
TradeOf(e, o) == IsTrade(e) /\ (e.buy = o \/ e.sell = o)
Says(e, type, o) == e.type = type /\ e.order = o
Live(o) == o \in resting \/ o = incoming

\* Events after which an order neither trades nor is cancelled any more.
Final(e, o) == Says(e, "OrderCancelled", o) \/ Says(e, "CancelOrderRejected", o)
Settles(e, o) == TradeOf(e, o) \/ Says(e, "OrderCancelled", o)

TradeEvent ==
  [type : {"TradeCreated"}, engineMatchId : Nat \X Nat, buy : OrderIds, sell : OrderIds,
   takerSide : Side, price : Price, quantity : Nat \ {0}]
OrderEvent ==
  [type : {"OrderOpened", "OrderCancelled", "CancelOrderRejected"}, order : OrderIds]
MarketEvent == [type : {"MarketOpened", "EngineFailed"}]
EngineEvent == TradeEvent \cup OrderEvent \cup MarketEvent

OpenCommand == [type : {"OpenMarket"}, seq : Nat]
OrderCommand == [type : {"PlaceOrder", "CancelOrder"}, seq : Nat, order : OrderIds]

BookTypes ==
  /\ side \in [OrderIds -> Side] /\ price \in [OrderIds -> Price]
  /\ rem \in [OrderIds -> Nat] /\ stamp \in [OrderIds -> Nat] /\ now \in Nat
  /\ incoming \in OrderIds \cup {NoOrder} /\ resting \in SUBSET OrderIds

StreamTypes ==
  /\ engineState \in {"RECOVERING", "READY", "FAILED"}
  /\ last \in Nat /\ index \in Nat /\ issued \in 1 .. MaxCommands
  /\ commands \in Seq(OpenCommand \cup OrderCommand)
  /\ batch \in Seq(EngineEvent) /\ events \in Seq(EngineEvent)

(* Commands are numbered without a gap, the first opens the market, and the*)
(* engine fails when it has not accepted all that it is done with.         *)
Numbering ==
  /\ Len(commands) <= issued /\ last <= Done
  /\ \A i \in 1 .. Len(commands) :
       /\ commands[i].seq = Done + i
       /\ commands[i].type = "OpenMarket" <=> commands[i].seq = 1
       /\ commands[i].type # "OpenMarket" => Exists(commands[i].order)
  /\ engineState = "FAILED" => last < Done
  /\ engineState # "RECOVERING" => Done > 0
  /\ engineState = "RECOVERING" =>
       /\ Done = 0 /\ incoming = NoOrder /\ market # "READY" /\ UnderWay = <<>>
       /\ \A o \in OrderIds : stamp[o] = 0 /\ ~Exists(o)

(* An order's PlaceOrder is in the stream once, before its cancels, until  *)
(* the engine takes it; then the book has the side and price of the row.   *)
Untouched(o) ==
  /\ orders[o].status \in {"PENDING", "CANCEL_PENDING"}
  /\ orders[o].filled = 0 /\ orders[o].remaining = orders[o].quantity

Placing ==
  /\ \A i \in 1 .. Len(commands) : commands[i].type = "PlaceOrder" =>
       /\ stamp[commands[i].order] = 0 \/ (i = 1 /\ incoming = commands[i].order)
       /\ \A j \in 1 .. Len(commands) :
            j # i /\ commands[j].type # "OpenMarket" /\ commands[j].order = commands[i].order =>
              commands[j].type = "CancelOrder" /\ i < j
  /\ \A o \in OrderIds : stamp[o] = 0 /\ Exists(o) =>
       /\ Untouched(o)
       /\ \/ last < Done
          \/ \E i \in 1 .. Len(commands) :
               commands[i].type = "PlaceOrder" /\ commands[i].order = o
  /\ \A o \in OrderIds : stamp[o] > 0 =>
       Exists(o) /\ side[o] = orders[o].side /\ price[o] = orders[o].price

(* The order being matched is that of the command at the head, and a       *)
(* command trades with a resting order at most once.                       *)
Matching ==
  /\ incoming = NoOrder => batch = <<>> /\ index = 0
  /\ incoming # NoOrder =>
       /\ engineState = "READY" /\ commands # <<>> /\ last = Done
       /\ Command.type = "PlaceOrder" /\ Command.order = incoming
       /\ incoming \notin resting /\ stamp[incoming] > 0
  /\ \A o \in resting : stamp[o] > 0 /\ rem[o] > 0
  /\ index + Cardinality(resting) + (IF incoming = NoOrder \/ rem[incoming] = 0 THEN 0 ELSE 1)
       <= Cardinality(OrderIds)

(* A trade under way is one the engine of module Settlement could say.     *)
SoundTrade(e) ==
  /\ e.buy # e.sell /\ stamp[e.buy] > 0 /\ stamp[e.sell] > 0
  /\ side[e.buy] = "BUY" /\ side[e.sell] = "SELL" /\ price[e.buy] >= price[e.sell]
  /\ e.price = IF e.takerSide = "BUY" THEN price[e.sell] ELSE price[e.buy]
  /\ e.engineMatchId \in MatchIds

TradesSound == \A i \in 1 .. N : \A e \in {UnderWay[i]} : IsTrade(e) => SoundTrade(e)

(* No engineMatchId is used twice.                                         *)
Used(id) == id[1] <= Done \/ (id[1] = Done + 1 /\ id[2] < index)

Identified ==
  /\ \A t \in trades : \A id \in {t.engineMatchId} : id \in Nat \X Nat /\ Used(id)
  /\ \A i \in 1 .. N : \A e \in {UnderWay[i]} : IsTrade(e) =>
       /\ \A id \in {e.engineMatchId} : Used(id)
       /\ \A t \in trades : t.engineMatchId # e.engineMatchId
       /\ \A j \in 1 .. N : j # i /\ IsTrade(UnderWay[j]) => UnderWay[j].engineMatchId # e.engineMatchId

(* An order that left the book was filled, or its cancel is under way or   *)
(* applied; behind that cancel there is nothing more about it.             *)
Gone(o) == stamp[o] > 0 /\ ~Live(o)
Silent(o, k) == \A j \in 1 .. N : j > k => ~Settles(UnderWay[j], o)
CancelSent(o) == \E i \in 1 .. N : Says(UnderWay[i], "OrderCancelled", o)

Answered ==
  /\ \A i \in 1 .. N, o \in OrderIds :
       /\ Final(UnderWay[i], o) => Gone(o) /\ Silent(o, i)
       /\ Says(UnderWay[i], "OrderCancelled", o) => rem[o] > 0
       /\ Says(UnderWay[i], "OrderOpened", o) => stamp[o] > 0
  /\ \A o \in OrderIds : orders[o].status = "CANCELLED" => Gone(o) /\ Silent(o, 0) /\ rem[o] > 0
  /\ \A o \in OrderIds : Gone(o) => rem[o] = 0 \/ orders[o].status = "CANCELLED" \/ CancelSent(o)

(* A row is FILLED when nothing remains, and leaves PENDING with the first *)
(* event about its order.                                                  *)
Heard(o) == \E i \in 1 .. N : Says(UnderWay[i], "OrderOpened", o) \/ TradeOf(UnderWay[i], o)

Statuses ==
  \A o \in OrderIds :
    /\ orders[o].status # "REJECTED"
    /\ Exists(o) => (orders[o].remaining = 0 <=> orders[o].status = "FILLED")
    /\ orders[o].status = "PENDING" /\ stamp[o] > 0 /\ o # incoming => Heard(o)

(* What an order may lose of its lock is there, and an order that is not   *)
(* placed yet or was cancelled has none.                                   *)
Locks ==
  \A o \in OrderIds :
    /\ orders[o].locked \in Nat
    /\ orders[o].status \in {"NONE", "CANCELLED"} => orders[o].locked = 0
    /\ orders[o].status = "NONE" => orders[o].owner = Treasury

XInv ==
  /\ SInv /\ BookTypes /\ StreamTypes
  /\ Numbering /\ Placing /\ Matching
  /\ TradesSound /\ Identified /\ Answered /\ Statuses
  /\ Locks /\ LockCovers /\ Escrow /\ Reconciled

-----------------------------------------------------------------------------
(* The queue of events.                                                    *)

(* e was appended to the events under way.                                 *)
Sent(e) ==
  /\ N' = N + 1 /\ UnderWay'[N + 1] = e
  /\ \A i \in 1 .. N : UnderWay'[i] = UnderWay[i]

(* The event at the head of those under way was taken.                     *)
Taken1 ==
  /\ N \in Nat \ {0} /\ N' = N - 1
  /\ \A i \in 1 .. N - 1 : UnderWay'[i] = UnderWay[i + 1]

LEMMA Queue ==
  ASSUME StreamTypes
  PROVE  /\ N \in Nat
         /\ \A i \in 1 .. N : UnderWay[i] \in EngineEvent
         /\ batch = <<>> => UnderWay = events
<1>1. UnderWay \in Seq(EngineEvent)
  BY ConcatProperties DEF StreamTypes, UnderWay
<1>2. batch = <<>> => UnderWay = events
  BY ConcatEmptySeq DEF StreamTypes, UnderWay
<1>. QED  BY <1>1, <1>2 DEF N

(* A command at an end publishes one event.                                *)
LEMMA SentAlone ==
  ASSUME StreamTypes, NEW e \in EngineEvent, batch = <<>>, batch' = batch,
         events' = events \o <<e>>
  PROVE  Sent(e) /\ events' \in Seq(EngineEvent)
<1>1. UnderWay = events /\ events \in Seq(EngineEvent) /\ <<e>> \in Seq(EngineEvent)
  BY Queue DEF StreamTypes
<1>2. events' \in Seq(EngineEvent)
  BY <1>1, ConcatProperties
<1>3. UnderWay' = events'
  BY <1>2, ConcatEmptySeq DEF UnderWay
<1>4. /\ Len(events') = Len(events) + 1 /\ events'[Len(events) + 1] = e
      /\ \A i \in 1 .. Len(events) : events'[i] = events[i]
  BY <1>1
<1>. QED  BY <1>1, <1>2, <1>3, <1>4 DEF Sent, N

(* A trade goes to the batch of the command.                               *)
LEMMA SentInBatch ==
  ASSUME StreamTypes, NEW e \in EngineEvent, batch' = Append(batch, e), events' = events
  PROVE  Sent(e) /\ batch' \in Seq(EngineEvent)
<1>1. events \in Seq(EngineEvent) /\ batch \in Seq(EngineEvent)
  BY DEF StreamTypes
<1>2. batch' \in Seq(EngineEvent)
  BY <1>1
<1>3. /\ Len(UnderWay) = Len(events) + Len(batch) /\ Len(UnderWay') = Len(events) + Len(batch) + 1
      /\ \A i \in 1 .. Len(events) + Len(batch) : UnderWay'[i] = UnderWay[i]
      /\ UnderWay'[Len(events) + Len(batch) + 1] = e
  BY <1>1, <1>2 DEF UnderWay
<1>. QED  BY <1>2, <1>3 DEF Sent, N

(* The batch and what follows it go out at the end of a command.           *)
LEMMA SentBatch ==
  ASSUME StreamTypes, NEW e \in EngineEvent, batch' = <<>>, events' = events \o (batch \o <<e>>)
  PROVE  Sent(e) /\ events' \in Seq(EngineEvent)
<1>1. events \in Seq(EngineEvent) /\ batch \in Seq(EngineEvent) /\ <<e>> \in Seq(EngineEvent)
  BY DEF StreamTypes
<1>2. batch \o <<e>> \in Seq(EngineEvent)
  BY <1>1, ConcatProperties
<1>3. events' \in Seq(EngineEvent)
  BY <1>1, <1>2, ConcatProperties
<1>4. UnderWay' = events'
  BY <1>3, ConcatEmptySeq DEF UnderWay
<1>5. /\ Len(batch \o <<e>>) = Len(batch) + 1 /\ (batch \o <<e>>)[Len(batch) + 1] = e
      /\ \A i \in 1 .. Len(batch) : (batch \o <<e>>)[i] = batch[i]
  BY <1>1
<1>. DEFINE b == batch \o <<e>>
<1>. HIDE DEF b
<1>6. /\ Len(events \o b) = Len(events) + Len(b)
      /\ \A i \in 1 .. Len(events) : (events \o b)[i] = events[i]
      /\ \A i \in 1 .. Len(b) : (events \o b)[Len(events) + i] = b[i]
  BY <1>1, <1>2 DEF b
<1>7. /\ Len(UnderWay) = Len(events) + Len(batch)
      /\ \A i \in 1 .. Len(events) : UnderWay[i] = events[i]
      /\ \A i \in 1 .. Len(batch) : UnderWay[Len(events) + i] = batch[i]
  BY <1>1 DEF UnderWay
<1>8. events' = events \o b
  BY DEF b
<1>9. Len(events) \in Nat /\ Len(batch) \in Nat
  BY <1>1
<1>10. Len(b) = Len(batch) + 1 /\ b[Len(batch) + 1] = e /\ \A i \in 1 .. Len(batch) : b[i] = batch[i]
  BY <1>5 DEF b
<1>11. N = Len(events) + Len(batch) /\ N' = N + 1 /\ N \in Nat
  BY <1>4, <1>6, <1>7, <1>8, <1>9, <1>10 DEF N
<1>12. UnderWay'[N + 1] = e
  BY <1>4, <1>6, <1>8, <1>9, <1>10, <1>11
<1>13. ASSUME NEW i \in 1 .. N PROVE UnderWay'[i] = UnderWay[i]
  <2>1. CASE i \in 1 .. Len(events)
    BY <1>4, <1>6, <1>7, <1>8, <2>1
  <2>2. CASE i \notin 1 .. Len(events)
    <3>1. PICK k \in 1 .. Len(batch) : i = Len(events) + k
      <4>1. i - Len(events) \in 1 .. Len(batch) /\ i = Len(events) + (i - Len(events))
        BY <1>9, <1>11, <2>2
      <4>. QED  BY <4>1
    <3>2. k \in 1 .. Len(b)
      BY <1>9, <1>10
    <3>. QED  BY <1>4, <1>6, <1>7, <1>8, <1>10, <3>1, <3>2
  <2>. QED  BY <2>1, <2>2
<1>. QED  BY <1>3, <1>11, <1>12, <1>13 DEF Sent

LEMMA SentNothing ==
  ASSUME StreamTypes, batch' = <<>>, events' = events \o (batch \o <<>>)
  PROVE  UnderWay' = UnderWay /\ events' \in Seq(EngineEvent)
<1>1. events \in Seq(EngineEvent) /\ batch \in Seq(EngineEvent) /\ batch \o <<>> = batch
  BY ConcatEmptySeq DEF StreamTypes
<1>2. events' = UnderWay /\ events' \in Seq(EngineEvent)
  BY <1>1, ConcatProperties DEF UnderWay
<1>3. UnderWay' = events'
  BY <1>2, ConcatEmptySeq DEF UnderWay
<1>. QED  BY <1>2, <1>3

(* The backend takes the event at the head.                                *)
LEMMA TakenHead ==
  ASSUME StreamTypes, events # <<>>, events' = Tail(events), batch' = batch
  PROVE  /\ Taken1 /\ Event = UnderWay[1] /\ Event \in EngineEvent
         /\ events' \in Seq(EngineEvent)
<1>1. events \in Seq(EngineEvent) /\ batch \in Seq(EngineEvent)
  BY DEF StreamTypes
<1>2. /\ events' \in Seq(EngineEvent) /\ Len(events) \in Nat \ {0} /\ Len(events') = Len(events) - 1
      /\ \A i \in 1 .. Len(events) - 1 : events'[i] = events[i + 1]
      /\ Event = events[1] /\ Event \in EngineEvent
  BY <1>1 DEF Event
<1>3. /\ Len(UnderWay) = Len(events) + Len(batch)
      /\ \A i \in 1 .. Len(events) + Len(batch) : UnderWay[i] =
           IF i <= Len(events) THEN events[i] ELSE batch[i - Len(events)]
  BY <1>1 DEF UnderWay
<1>4. /\ Len(UnderWay') = Len(events') + Len(batch)
      /\ \A i \in 1 .. Len(events') + Len(batch) : UnderWay'[i] =
           IF i <= Len(events') THEN events'[i] ELSE batch[i - Len(events')]
  BY <1>1, <1>2 DEF UnderWay
<1>5. Len(batch) \in Nat
  BY <1>1
<1>6. N \in Nat \ {0} /\ N' = N - 1 /\ UnderWay[1] = Event
  BY <1>2, <1>3, <1>4, <1>5 DEF N
<1>7. ASSUME NEW i \in 1 .. N - 1 PROVE UnderWay'[i] = UnderWay[i + 1]
  <2>1. i \in 1 .. Len(events') + Len(batch) /\ i + 1 \in 1 .. Len(events) + Len(batch)
    BY <1>2, <1>3, <1>4, <1>5, <1>6 DEF N
  <2>2. CASE i <= Len(events')
    BY <1>2, <1>3, <1>4, <2>1, <2>2
  <2>3. CASE ~(i <= Len(events'))
    <3>1. i - Len(events') = (i + 1) - Len(events) /\ ~(i + 1 <= Len(events))
      BY <1>2, <2>3
    <3>. QED  BY <1>3, <1>4, <2>1, <2>3, <3>1
  <2>. QED  BY <2>2, <2>3
<1>. QED  BY <1>2, <1>6, <1>7 DEF Taken1

-----------------------------------------------------------------------------
(* What is under way of an order.                                          *)

UnderWayOf(o) == Sum([i \in Trading(o) |-> UnderWay[i].quantity], Trading(o))

LEMMA ReconciledIs ==
  Reconciled <=> \A o \in OrderIds : stamp[o] > 0 => orders[o].remaining = rem[o] + UnderWayOf(o)
<1>1. \A o : SumFunction([i \in Trading(o) |-> UnderWay[i].quantity]) = UnderWayOf(o)
  BY SumOfFunction DEF UnderWayOf
<1>. QED  BY <1>1 DEF Reconciled

LEMMA TradingIs ==
  ASSUME StreamTypes, NEW o
  PROVE  /\ IsFiniteSet(Trading(o)) /\ Trading(o) \subseteq 1 .. N
         /\ \A i \in 1 .. N : i \in Trading(o) <=> TradeOf(UnderWay[i], o)
         /\ \A i \in Trading(o) : UnderWay[i].quantity \in Nat \ {0}
         /\ UnderWayOf(o) \in Nat
         /\ \A i \in Trading(o) : UnderWay[i].quantity <= UnderWayOf(o)
<1>1. Trading(o) \subseteq 1 .. N /\ \A i \in 1 .. N : i \in Trading(o) <=> TradeOf(UnderWay[i], o)
  BY DEF Trading, TradeOf, IsTrade, N
<1>2. N \in Nat /\ IsFiniteSet(1 .. N)
  BY Queue, FS_Interval
<1>3. IsFiniteSet(Trading(o))
  BY <1>1, <1>2, FS_Subset
<1>4. \A i \in Trading(o) : UnderWay[i].quantity \in Nat \ {0}
  <2>1. \A i \in Trading(o) : UnderWay[i] \in EngineEvent /\ UnderWay[i].type = "TradeCreated"
    BY <1>1, Queue DEF TradeOf, IsTrade
  <2>2. \A e \in EngineEvent : e.type = "TradeCreated" => e.quantity \in Nat \ {0}
    BY DEF EngineEvent, TradeEvent, OrderEvent, MarketEvent
  <2>. QED  BY <2>1, <2>2
<1>. DEFINE f == [i \in Trading(o) |-> UnderWay[i].quantity]
<1>5. \A i \in Trading(o) : f[i] \in Nat /\ f[i] = UnderWay[i].quantity
  BY <1>4
<1>. HIDE DEF f
<1>6. Sum(f, Trading(o)) \in Nat /\ \A i \in Trading(o) : f[i] <= Sum(f, Trading(o))
  BY <1>3, <1>5, SumNatural
<1>7. UnderWayOf(o) = Sum(f, Trading(o))
  BY DEF UnderWayOf, f
<1>. QED  BY <1>1, <1>3, <1>4, <1>5, <1>6, <1>7

LEMMA NothingUnderWay ==
  ASSUME StreamTypes, NEW o, \A i \in 1 .. N : ~TradeOf(UnderWay[i], o)
  PROVE  UnderWayOf(o) = 0
<1>1. Trading(o) = {}
  BY TradingIs
<1>. QED  BY <1>1, SumEmpty DEF UnderWayOf

LEMMA SomethingUnderWay ==
  ASSUME StreamTypes, NEW o, UnderWayOf(o) # 0
  PROVE  \E i \in 1 .. N : TradeOf(UnderWay[i], o)
BY NothingUnderWay

LEMMA SentUnderWay ==
  ASSUME StreamTypes, StreamTypes', NEW e, Sent(e), NEW o
  PROVE  UnderWayOf(o)' = UnderWayOf(o) + (IF TradeOf(e, o) THEN e.quantity ELSE 0)
<1>. DEFINE f == [i \in Trading(o) |-> UnderWay[i].quantity]
            g == [i \in Trading(o)' |-> UnderWay'[i].quantity]
<1>1. /\ IsFiniteSet(Trading(o)) /\ Trading(o) \subseteq 1 .. N
      /\ \A i \in 1 .. N : i \in Trading(o) <=> TradeOf(UnderWay[i], o)
      /\ \A i \in Trading(o) : UnderWay[i].quantity \in Nat \ {0}
      /\ N \in Nat
  BY TradingIs, Queue
<1>2. /\ Trading(o)' \subseteq 1 .. N'
      /\ \A i \in 1 .. N' : i \in Trading(o)' <=> TradeOf(UnderWay'[i], o)
      /\ \A i \in Trading(o)' : UnderWay'[i].quantity \in Nat \ {0}
  <2>1. /\ Trading(o)' \subseteq 1 .. N'
        /\ \A i \in 1 .. N' : i \in Trading(o)' <=> TradeOf(UnderWay'[i], o)
    BY DEF Trading, TradeOf, IsTrade, N
  <2>2. N' \in Nat /\ \A i \in 1 .. N' : UnderWay'[i] \in EngineEvent
    <3>1. UnderWay' \in Seq(EngineEvent)
      BY ConcatProperties DEF StreamTypes, UnderWay
    <3>. QED  BY <3>1 DEF N
  <2>3. \A x \in EngineEvent : x.type = "TradeCreated" => x.quantity \in Nat \ {0}
    BY DEF EngineEvent, TradeEvent, OrderEvent, MarketEvent
  <2>. QED  BY <2>1, <2>2, <2>3 DEF TradeOf, IsTrade
<1>3. /\ \A i \in Trading(o) : f[i] = UnderWay[i].quantity
      /\ \A i \in Trading(o)' : g[i] = UnderWay'[i].quantity
  OBVIOUS
<1>4. UnderWayOf(o) = Sum(f, Trading(o)) /\ UnderWayOf(o)' = Sum(g, Trading(o)')
  BY DEF UnderWayOf
<1>. HIDE DEF f, g
<1>5. CASE TradeOf(e, o)
  <2>1. Trading(o)' = Trading(o) \cup {N + 1} /\ N + 1 \notin Trading(o)
    BY <1>1, <1>2, <1>5 DEF Sent
  <2>2. (\A i \in Trading(o) : f[i] \in Int) /\ (\A i \in Trading(o) : f[i] = g[i])
    BY <1>1, <1>2, <1>3, <2>1 DEF Sent
  <2>3. g[N + 1] = e.quantity /\ g[N + 1] \in Int
    BY <1>2, <1>3, <2>1 DEF Sent
  <2>4. Sum(g, Trading(o)') = Sum(f, Trading(o)) + g[N + 1]
    BY <1>1, <2>1, <2>2, <2>3, SumExtend
  <2>. QED  BY <1>4, <1>5, <2>3, <2>4
<1>6. CASE ~TradeOf(e, o)
  <2>1. Trading(o)' = Trading(o)
    BY <1>1, <1>2, <1>6 DEF Sent
  <2>2. \A i \in Trading(o) : f[i] \in Int /\ f[i] = g[i]
    BY <1>1, <1>3, <2>1 DEF Sent
  <2>3. Sum(f, Trading(o)) = Sum(g, Trading(o)')
    BY <1>1, <2>1, <2>2, SumSame
  <2>4. UnderWayOf(o) \in Nat
    BY TradingIs
  <2>. QED  BY <1>4, <1>6, <2>3, <2>4
<1>. QED  BY <1>5, <1>6

LEMMA TakenUnderWay ==
  ASSUME StreamTypes, StreamTypes', Taken1, NEW o
  PROVE  UnderWayOf(o) = UnderWayOf(o)' + (IF TradeOf(UnderWay[1], o) THEN UnderWay[1].quantity ELSE 0)
<1>. DEFINE f == [i \in Trading(o)' |-> UnderWay'[i].quantity]
            g == [i \in Trading(o) |-> UnderWay[i].quantity]
            b == [i \in Nat |-> i + 1]
            T == {b[i] : i \in Trading(o)'}
<1>1. /\ IsFiniteSet(Trading(o)) /\ Trading(o) \subseteq 1 .. N
      /\ \A i \in 1 .. N : i \in Trading(o) <=> TradeOf(UnderWay[i], o)
      /\ \A i \in Trading(o) : UnderWay[i].quantity \in Nat \ {0}
      /\ N \in Nat
  BY TradingIs, Queue
<1>2. /\ Trading(o)' \subseteq 1 .. N - 1 /\ N \in Nat \ {0}
      /\ \A i \in 1 .. N - 1 : /\ i \in Trading(o)' <=> TradeOf(UnderWay'[i], o)
                               /\ UnderWay'[i] = UnderWay[i + 1]
  BY DEF Trading, TradeOf, IsTrade, N, Taken1
<1>3. IsFiniteSet(Trading(o)')
  BY <1>2, FS_Interval, FS_Subset
<1>4. \A i \in Trading(o)' : b[i] = i + 1 /\ i + 1 \in Trading(o) /\ i \in Int
  BY <1>1, <1>2
<1>5. T = Trading(o) \ {1}
  <2>1. ASSUME NEW k \in Trading(o) \ {1} PROVE k \in T
    <3>1. k - 1 \in 1 .. N - 1 /\ (k - 1) + 1 = k
      BY <1>1
    <3>2. k - 1 \in Trading(o)'
      BY <1>1, <1>2, <3>1
    <3>. QED  BY <1>4, <3>1, <3>2
  <2>2. ASSUME NEW k \in T PROVE k \in Trading(o) \ {1}
    <3>1. PICK i \in Trading(o)' : k = b[i]
      OBVIOUS
    <3>2. i \in Nat \ {0} /\ k = i + 1 /\ i + 1 \in Trading(o)
      BY <1>2, <1>4, <3>1
    <3>3. k # 1
      BY <3>2
    <3>. QED  BY <3>2, <3>3
  <2>. QED  BY <2>1, <2>2
<1>6. \A i \in Trading(o)' : g[b[i]] \in Int /\ f[i] = g[b[i]]
  BY <1>1, <1>2, <1>4
<1>7. \A i, j \in Trading(o)' : b[i] = b[j] => i = j
  BY <1>4
<1>8. UnderWayOf(o) = Sum(g, Trading(o)) /\ UnderWayOf(o)' = Sum(f, Trading(o)')
  BY DEF UnderWayOf
<1>9. \A i \in Trading(o) : g[i] = UnderWay[i].quantity /\ g[i] \in Int
  BY <1>1
<1>. HIDE DEF f, g, b
<1>10. Sum(f, Trading(o)') = Sum(g, Trading(o) \ {1})
  <2>1. Sum(f, Trading(o)') = Sum(g, {b[i] : i \in Trading(o)'})
    BY <1>3, <1>6, <1>7, SumRenamed
  <2>. QED  BY <1>5, <2>1
<1>11. CASE TradeOf(UnderWay[1], o)
  <2>1. 1 \in Trading(o)
    BY <1>1, <1>2, <1>11
  <2>2. Sum(g, Trading(o)) = g[1] + Sum(g, Trading(o) \ {1})
    BY <1>1, <1>9, <2>1, SumRemove
  <2>3. IsFiniteSet(Trading(o) \ {1}) /\ \A i \in Trading(o) \ {1} : g[i] \in Int
    BY <1>1, <1>9, FS_Subset
  <2>4. Sum(g, Trading(o) \ {1}) \in Int
    BY <2>3, SumType
  <2>5. g[1] = UnderWay[1].quantity /\ g[1] \in Int
    BY <1>9, <2>1
  <2>. QED  BY <1>8, <1>10, <1>11, <2>2, <2>4, <2>5
<1>12. CASE ~TradeOf(UnderWay[1], o)
  <2>1. Trading(o) \ {1} = Trading(o)
    BY <1>1, <1>2, <1>12
  <2>2. UnderWayOf(o) \in Nat
    BY TradingIs
  <2>. QED  BY <1>8, <1>10, <1>12, <2>1, <2>2
<1>. QED  BY <1>11, <1>12

-----------------------------------------------------------------------------
(* Steps of the engine add to the queue and leave the tables alone.        *)

(* The queue is as it was, or e was appended.                              *)
Grown(e) ==
  /\ N' = N \/ (N' = N + 1 /\ UnderWay'[N + 1] = e)
  /\ \A i \in 1 .. N : UnderWay'[i] = UnderWay[i]

LEMMA GrownSound ==
  ASSUME StreamTypes, TradesSound, NEW e, Grown(e),
         \A o \in OrderIds : stamp[o] > 0 =>
           stamp'[o] > 0 /\ side'[o] = side[o] /\ price'[o] = price[o],
         IsTrade(e) => SoundTrade(e)'
  PROVE  TradesSound'
<1>1. N \in Nat
  BY Queue
<1>2. ASSUME NEW x \in EngineEvent, IsTrade(x), SoundTrade(x) PROVE SoundTrade(x)'
  <2>1. x.buy \in OrderIds /\ x.sell \in OrderIds
    BY <1>2 DEF EngineEvent, TradeEvent, OrderEvent, MarketEvent, IsTrade
  <2>. QED  BY <1>2, <2>1 DEF SoundTrade
<1>3. ASSUME NEW i \in 1 .. N', NEW x \in {UnderWay'[i]}, IsTrade(x) PROVE SoundTrade(x)'
  <2>1. CASE i \in 1 .. N
    <3>1. x = UnderWay[i] /\ x \in EngineEvent
      BY <2>1, Queue DEF Grown
    <3>2. SoundTrade(x)
      BY <1>3, <2>1, <3>1 DEF TradesSound
    <3>. QED  BY <1>2, <1>3, <3>1, <3>2
  <2>2. CASE i \notin 1 .. N
    <3>1. x = e
      BY <1>1, <2>2 DEF Grown
    <3>. QED  BY <1>3, <3>1
  <2>. QED  BY <2>1, <2>2
<1>. QED  BY <1>3 DEF TradesSound

LEMMA TradeEvents ==
  \A e \in EngineEvent : IsTrade(e) =>
    /\ e \in TradeEvent /\ e.engineMatchId \in Nat \X Nat /\ e.buy \in OrderIds /\ e.sell \in OrderIds
    /\ e.takerSide \in Side /\ e.price \in Price /\ e.quantity \in Nat \ {0}
BY DEF EngineEvent, TradeEvent, OrderEvent, MarketEvent, IsTrade

LEMMA GrownIdentified ==
  ASSUME StreamTypes, Identified, NEW e \in EngineEvent, Grown(e), UNCHANGED trades,
         \A id \in Nat \X Nat : Used(id) => Used(id)',
         IsTrade(e) => \A id \in {e.engineMatchId} : Used(id)' /\ ~Used(id)
  PROVE  Identified'
<1>1. N \in Nat /\ \A i \in 1 .. N : UnderWay[i] \in EngineEvent
  BY Queue
<1>2. \A i \in 1 .. N' : (i \in 1 .. N /\ UnderWay'[i] = UnderWay[i]) \/ (i = N + 1 /\ UnderWay'[i] = e)
  BY <1>1 DEF Grown
<1>3. ASSUME NEW t \in trades', NEW id \in {t.engineMatchId}
      PROVE  id \in Nat \X Nat /\ Used(id)'
  BY <1>3 DEF Identified
<1>4. ASSUME NEW i \in 1 .. N', NEW x \in {UnderWay'[i]}, IsTrade(x)
      PROVE  /\ \A id \in {x.engineMatchId} : Used(id)'
             /\ \A t \in trades' : t.engineMatchId # x.engineMatchId
             /\ \A j \in 1 .. N' : j # i /\ IsTrade(UnderWay'[j]) =>
                  UnderWay'[j].engineMatchId # x.engineMatchId
  <2>1. CASE i \in 1 .. N /\ UnderWay'[i] = UnderWay[i]
    <3>1. PICK id \in Nat \X Nat : id = x.engineMatchId
      BY <1>1, <1>4, <2>1, TradeEvents
    <3>2. Used(id)
      BY <1>4, <2>1, <3>1 DEF Identified
    <3>3. \A t \in trades : t.engineMatchId # id
      BY <1>4, <2>1, <3>1 DEF Identified
    <3>4. ASSUME NEW j \in 1 .. N', j # i, IsTrade(UnderWay'[j])
          PROVE  UnderWay'[j].engineMatchId # id
      <4>1. CASE j \in 1 .. N /\ UnderWay'[j] = UnderWay[j]
        BY <1>4, <2>1, <3>1, <3>4, <4>1 DEF Identified
      <4>2. CASE j = N + 1 /\ UnderWay'[j] = e
        BY <3>2, <3>4, <4>2
      <4>. QED  BY <1>2, <4>1, <4>2
    <3>. QED  BY <3>1, <3>2, <3>3, <3>4
  <2>2. CASE i = N + 1 /\ UnderWay'[i] = e
    <3>1. PICK id \in Nat \X Nat : id = e.engineMatchId
      BY <1>4, <2>2, TradeEvents
    <3>2. x = e /\ Used(id)' /\ ~Used(id)
      BY <1>4, <2>2, <3>1
    <3>3. ASSUME NEW t \in trades PROVE t.engineMatchId # id
      BY <3>2 DEF Identified
    <3>4. ASSUME NEW j \in 1 .. N', j # i, IsTrade(UnderWay'[j])
          PROVE  UnderWay'[j].engineMatchId # id
      <4>1. j \in 1 .. N /\ UnderWay'[j] = UnderWay[j]
        BY <1>2, <2>2, <3>4
      <4>2. PICK y \in {UnderWay[j]} : IsTrade(y) /\ y.engineMatchId = UnderWay'[j].engineMatchId
        BY <3>4, <4>1
      <4>3. \A k \in {y.engineMatchId} : Used(k)
        BY <4>1, <4>2 DEF Identified
      <4>. QED  BY <3>2, <4>2, <4>3
    <3>. QED  BY <3>1, <3>2, <3>3, <3>4
  <2>. QED  BY <1>2, <2>1, <2>2
<1>. QED  BY <1>3, <1>4 DEF Identified

LEMMA GrownAnswered ==
  ASSUME StreamTypes, BookTypes, Answered, NEW e \in EngineEvent, Grown(e), UNCHANGED orders,
         \A o \in OrderIds : /\ stamp[o] > 0 => stamp'[o] > 0
                             /\ Gone(o) => Gone(o)' /\ rem'[o] = rem[o] /\ ~Settles(e, o)
                             /\ Final(e, o) => Gone(o)'
                             /\ Says(e, "OrderCancelled", o) => rem'[o] > 0
                             /\ Says(e, "OrderOpened", o) => stamp'[o] > 0
                             /\ Gone(o)' => \/ Gone(o) \/ rem'[o] = 0
                                            \/ (N' = N + 1 /\ Says(e, "OrderCancelled", o))
  PROVE  Answered'
<1>1. N \in Nat
  BY Queue
<1>2. \A i \in 1 .. N' : (i \in 1 .. N /\ UnderWay'[i] = UnderWay[i]) \/ (i = N + 1 /\ UnderWay'[i] = e)
  BY <1>1 DEF Grown
<1>3. N' \in {N, N + 1} /\ N' \in Nat
  BY <1>1 DEF Grown
<1>4. ASSUME NEW o \in OrderIds, NEW k \in 0 .. N, Gone(o), Silent(o, k)
      PROVE  Silent(o, k)'
  <2>1. ASSUME NEW j \in 1 .. N', j > k PROVE ~Settles(UnderWay'[j], o)
    BY <1>2, <1>4, <2>1 DEF Silent
  <2>. QED  BY <2>1 DEF Silent, Settles, TradeOf, Says, IsTrade
<1>5. ASSUME NEW i \in 1 .. N', NEW o \in OrderIds
      PROVE  /\ Final(UnderWay'[i], o) => Gone(o)' /\ Silent(o, i)'
             /\ Says(UnderWay'[i], "OrderCancelled", o) => rem'[o] > 0
             /\ Says(UnderWay'[i], "OrderOpened", o) => stamp'[o] > 0
  <2>1. CASE i \in 1 .. N /\ UnderWay'[i] = UnderWay[i]
    <3>1. Final(UnderWay[i], o) => Gone(o) /\ Silent(o, i)
      BY <2>1 DEF Answered
    <3>2. Says(UnderWay[i], "OrderCancelled", o) => rem[o] > 0 /\ Gone(o)
      BY <2>1 DEF Answered, Final
    <3>3. Says(UnderWay[i], "OrderOpened", o) => stamp[o] > 0
      BY <2>1 DEF Answered
    <3>4. i \in 0 .. N
      BY <2>1
    <3>. QED  BY <1>4, <2>1, <3>1, <3>2, <3>3, <3>4
  <2>2. CASE i = N + 1 /\ UnderWay'[i] = e
    <3>1. Silent(o, i)'
      BY <1>1, <1>3, <2>2 DEF Silent
    <3>. QED  BY <2>2, <3>1
  <2>. QED  BY <1>2, <2>1, <2>2
<1>6. ASSUME NEW o \in OrderIds, orders'[o].status = "CANCELLED"
      PROVE  Gone(o)' /\ Silent(o, 0)' /\ rem'[o] > 0
  <2>1. Gone(o) /\ Silent(o, 0) /\ rem[o] > 0
    BY <1>6 DEF Answered
  <2>. QED  BY <1>1, <1>4, <2>1
<1>7. ASSUME NEW o \in OrderIds, Gone(o)'
      PROVE  rem'[o] = 0 \/ orders'[o].status = "CANCELLED" \/ CancelSent(o)'
  <2>1. CASE Gone(o)
    <3>1. rem[o] = 0 \/ orders[o].status = "CANCELLED" \/ CancelSent(o)
      BY <2>1 DEF Answered
    <3>2. ASSUME CancelSent(o) PROVE CancelSent(o)'
      <4>1. PICK i \in 1 .. N : Says(UnderWay[i], "OrderCancelled", o)
        BY <3>2 DEF CancelSent
      <4>2. i \in 1 .. N' /\ Says(UnderWay'[i], "OrderCancelled", o)
        BY <1>1, <1>3, <4>1 DEF Grown
      <4>. QED  BY <4>2 DEF CancelSent, Says
    <3>. QED  BY <2>1, <3>1, <3>2
  <2>2. CASE rem'[o] = 0
    BY <2>2
  <2>3. CASE N' = N + 1 /\ Says(e, "OrderCancelled", o)
    <3>1. N + 1 \in 1 .. N' /\ Says(UnderWay'[N + 1], "OrderCancelled", o)
      BY <1>1, <2>3 DEF Grown
    <3>. QED  BY <3>1 DEF CancelSent, Says
  <2>. QED  BY <1>7, <2>1, <2>2, <2>3
<1>. QED  BY <1>5, <1>6, <1>7 DEF Answered, Final, Says

LEMMA GrownStatuses ==
  ASSUME StreamTypes, Statuses, NEW e, Grown(e), UNCHANGED orders,
         \A o \in OrderIds : orders[o].status = "PENDING" /\ stamp'[o] > 0 /\ o # incoming' =>
           \/ stamp[o] > 0 /\ o # incoming
           \/ N' = N + 1 /\ Says(e, "OrderOpened", o)
           \/ \E i \in 1 .. N : TradeOf(UnderWay[i], o)
  PROVE  Statuses'
<1>1. N \in Nat /\ N' \in {N, N + 1}
  BY Queue DEF Grown
<1>2. ASSUME NEW o \in OrderIds, Heard(o) PROVE Heard(o)'
  <2>1. PICK i \in 1 .. N : Says(UnderWay[i], "OrderOpened", o) \/ TradeOf(UnderWay[i], o)
    BY <1>2 DEF Heard
  <2>2. i \in 1 .. N' /\ UnderWay'[i] = UnderWay[i]
    BY <1>1 DEF Grown
  <2>3. Says(UnderWay'[i], "OrderOpened", o) \/ TradeOf(UnderWay'[i], o)
    BY <2>1, <2>2
  <2>. QED  BY <2>2, <2>3 DEF Heard, Says, TradeOf, IsTrade
<1>3. ASSUME NEW o \in OrderIds, orders[o].status = "PENDING", stamp'[o] > 0, o # incoming'
      PROVE  Heard(o)'
  <2>1. CASE stamp[o] > 0 /\ o # incoming
    BY <1>2, <1>3, <2>1 DEF Statuses
  <2>2. CASE N' = N + 1 /\ Says(e, "OrderOpened", o)
    <3>1. N + 1 \in 1 .. N' /\ Says(UnderWay'[N + 1], "OrderOpened", o)
      BY <1>1, <2>2 DEF Grown
    <3>. QED  BY <3>1 DEF Heard, Says
  <2>3. CASE \E i \in 1 .. N : TradeOf(UnderWay[i], o)
    BY <1>2, <2>3 DEF Heard
  <2>. QED  BY <1>3, <2>1, <2>2, <2>3
<1>. QED  BY <1>3 DEF Statuses, Exists

LEMMA GrownUnderWay ==
  ASSUME StreamTypes, StreamTypes', NEW e, Grown(e), NEW o
  PROVE  UnderWayOf(o)' = UnderWayOf(o) + (IF N' = N + 1 /\ TradeOf(e, o) THEN e.quantity ELSE 0)
<1>1. N \in Nat /\ UnderWayOf(o) \in Nat
  BY Queue, TradingIs
<1>2. CASE N' = N + 1
  <2>1. Sent(e)
    BY <1>1, <1>2 DEF Grown, Sent
  <2>. QED  BY <1>2, <2>1, SentUnderWay
<1>3. CASE N' # N + 1
  <2>1. N' = N /\ UnderWay \in Seq(EngineEvent) /\ UnderWay' \in Seq(EngineEvent)
    BY <1>3, ConcatProperties DEF Grown, StreamTypes, UnderWay
  <2>2. UnderWay' = UnderWay
    BY <2>1, SeqEqual DEF Grown, N
  <2>3. UnderWayOf(o)' = UnderWayOf(o)
    BY <2>2 DEF UnderWayOf, Trading
  <2>. QED  BY <1>1, <1>3, <2>3
<1>. QED  BY <1>2, <1>3

-----------------------------------------------------------------------------
(* The command the engine is done with leaves the stream.                  *)

LEMMA Popped ==
  ASSUME StreamTypes, Numbering, commands # <<>>
  PROVE  /\ Done \in Nat /\ issued \in Nat /\ Done + 1 <= issued
         /\ Len(commands) \in Nat \ {0} /\ 1 \in 1 .. Len(commands)
         /\ Command = commands[1] /\ Command.seq = Done + 1
         /\ Command \in OpenCommand \cup OrderCommand
         /\ Tail(commands) \in Seq(OpenCommand \cup OrderCommand)
         /\ Len(Tail(commands)) = Len(commands) - 1
         /\ \A i \in 1 .. Len(commands) - 1 : Tail(commands)[i] = commands[i + 1]
<1>1. /\ commands \in Seq(OpenCommand \cup OrderCommand)
      /\ Len(commands) <= issued /\ issued \in Nat
  BY CommandsAssumption DEF StreamTypes, Numbering
<1>2. /\ Len(commands) \in Nat \ {0} /\ 1 \in 1 .. Len(commands)
      /\ Command = commands[1] /\ Command \in OpenCommand \cup OrderCommand
  BY <1>1 DEF Command
<1>3. Command.seq = Done + 1
  BY <1>2 DEF Numbering
<1>4. /\ Tail(commands) \in Seq(OpenCommand \cup OrderCommand)
      /\ Len(Tail(commands)) = Len(commands) - 1
      /\ \A i \in 1 .. Len(commands) - 1 : Tail(commands)[i] = commands[i + 1]
  BY <1>1, <1>2
<1>. QED  BY <1>1, <1>2, <1>3, <1>4 DEF Done

LEMMA Finished ==
  ASSUME BookTypes, StreamTypes, Numbering, Placing, commands # <<>>, commands' = Tail(commands),
         UNCHANGED <<dbVars, side, price, stamp, issued>>,
         incoming' = NoOrder, engineState' \in {"READY", "FAILED"},
         last' \in Nat, last' <= Done + 1, engineState' = "FAILED" => last' < Done + 1,
         \/ last' < Done + 1
         \/ last = Done /\ (Command.type = "PlaceOrder" => stamp[Command.order] > 0)
  PROVE  Numbering' /\ Placing' /\ Done' = Done + 1
<1>. DEFINE L == Len(commands)
<1>1. /\ Done \in Nat /\ issued \in Nat /\ Done + 1 <= issued /\ last \in Nat /\ last <= Done
      /\ L \in Nat \ {0} /\ Len(commands') = L - 1
      /\ \A i \in 1 .. L - 1 : commands'[i] = commands[i + 1]
      /\ Command = commands[1]
  BY Popped DEF StreamTypes, Numbering
<1>2. Done' = Done + 1
  BY <1>1 DEF Done
<1>3. L <= issued /\ \A i \in 1 .. L :
        /\ commands[i].seq = Done + i
        /\ commands[i].type = "OpenMarket" <=> commands[i].seq = 1
        /\ commands[i].type # "OpenMarket" => Exists(commands[i].order)
  BY DEF Numbering
<1>4. Numbering'
  <2>1. ASSUME NEW i \in 1 .. L - 1
        PROVE  /\ commands'[i].seq = Done' + i
               /\ commands'[i].type = "OpenMarket" <=> commands'[i].seq = 1
               /\ commands'[i].type # "OpenMarket" => orders'[commands'[i].order].status # "NONE"
    <3>1. i + 1 \in 1 .. L /\ commands'[i] = commands[i + 1] /\ Done + (i + 1) = Done' + i
      BY <1>1, <1>2
    <3>2. orders' = orders
      BY DEF dbVars
    <3>. QED  BY <1>3, <3>1, <3>2 DEF Exists
  <2>2. Len(commands') <= issued' /\ last' <= Done' /\ Done' > 0
    BY <1>1, <1>2, <1>3
  <2>. QED  BY <1>1, <1>2, <2>1, <2>2 DEF Numbering, Exists
<1>5. Placing'
  <2>1. ASSUME NEW i \in 1 .. L - 1, commands'[i].type = "PlaceOrder"
        PROVE  /\ stamp'[commands'[i].order] = 0
               /\ \A j \in 1 .. L - 1 :
                    j # i /\ commands'[j].type # "OpenMarket" /\ commands'[j].order = commands'[i].order =>
                      commands'[j].type = "CancelOrder" /\ i < j
    <3>1. i + 1 \in 1 .. L /\ i + 1 # 1 /\ commands'[i] = commands[i + 1]
      BY <1>1
    <3>2. stamp[commands[i + 1].order] = 0
      BY <2>1, <3>1 DEF Placing
    <3>3. ASSUME NEW j \in 1 .. L - 1, j # i, commands'[j].type # "OpenMarket",
                 commands'[j].order = commands'[i].order
          PROVE  commands'[j].type = "CancelOrder" /\ i < j
      <4>1. j + 1 \in 1 .. L /\ j + 1 # i + 1 /\ commands'[j] = commands[j + 1]
        BY <1>1, <3>3
      <4>2. commands[j + 1].type = "CancelOrder" /\ i + 1 < j + 1
        BY <2>1, <3>1, <3>3, <4>1 DEF Placing
      <4>. QED  BY <4>1, <4>2
    <3>. QED  BY <3>1, <3>2, <3>3
  <2>2. ASSUME NEW o \in OrderIds, stamp[o] = 0, Exists(o)
        PROVE  /\ Untouched(o)
               /\ \/ last' < Done'
                  \/ \E i \in 1 .. L - 1 :
                       commands'[i].type = "PlaceOrder" /\ commands'[i].order = o
    <3>1. /\ Untouched(o)
          /\ \/ last < Done
             \/ \E i \in 1 .. L : commands[i].type = "PlaceOrder" /\ commands[i].order = o
      BY <2>2 DEF Placing
    <3>2. CASE last' < Done + 1
      BY <1>2, <3>1, <3>2
    <3>3. CASE last = Done /\ (Command.type = "PlaceOrder" => stamp[Command.order] > 0)
      <4>1. PICK i \in 1 .. L : commands[i].type = "PlaceOrder" /\ commands[i].order = o
        BY <1>1, <3>1, <3>3
      <4>2. i # 1
        BY <1>1, <2>2, <3>3, <4>1
      <4>3. i - 1 \in 1 .. L - 1 /\ (i - 1) + 1 = i
        BY <1>1, <4>2
      <4>4. commands'[i - 1] = commands[i]
        BY <1>1, <4>3
      <4>. QED  BY <3>1, <4>1, <4>3, <4>4
    <3>. QED  BY <3>2, <3>3
  <2>3. orders' = orders /\ \A o \in OrderIds : (Exists(o)' <=> Exists(o)) /\ (Untouched(o)' <=> Untouched(o))
    BY DEF dbVars, Exists, Untouched
  <2>4. \A o \in OrderIds : stamp'[o] > 0 =>
          Exists(o)' /\ side'[o] = orders'[o].side /\ price'[o] = orders'[o].price
    BY <2>3 DEF Placing
  <2>. QED  BY <1>1, <2>1, <2>2, <2>3, <2>4 DEF Placing
<1>. QED  BY <1>2, <1>4, <1>5

(* The engine does not touch the tables.                                   *)
LEMMA TablesKept ==
  ASSUME XInv, UNCHANGED dbVars
  PROVE  SInv' /\ Locks' /\ LockCovers' /\ Escrow'
<1>1. SInv'
  BY StepSettled DEF XInv
<1>2. Locks' /\ LockCovers' /\ Escrow'
  BY DEF XInv, dbVars, Locks, LockCovers, Escrow, OrdersLocking
<1>. QED  BY <1>1, <1>2

-----------------------------------------------------------------------------
(* Commands that change no book.                                           *)

(* A command that ends with one event which is no trade, no OrderOpened    *)
(* and no cancellation.                                                    *)
LEMMA AnsweredOnly ==
  ASSUME XInv, commands # <<>>, incoming = NoOrder, commands' = Tail(commands),
         UNCHANGED <<dbVars, bookVars, issued, index, batch>>,
         NEW e \in EngineEvent, events' = events \o <<e>>,
         e.type \in {"MarketOpened", "EngineFailed", "CancelOrderRejected"},
         \A o \in OrderIds : Final(e, o) => Gone(o),
         engineState' \in {"READY", "FAILED"},
         last' \in Nat, last' <= Done + 1, engineState' = "FAILED" => last' < Done + 1,
         \/ last' < Done + 1
         \/ last = Done /\ (Command.type = "PlaceOrder" => stamp[Command.order] > 0)
  PROVE  XInv'
<1>0. /\ BookTypes /\ StreamTypes /\ Numbering /\ Placing /\ Matching /\ TradesSound
      /\ Identified /\ Answered /\ Statuses /\ Reconciled
      /\ batch = <<>> /\ index = 0
  BY DEF XInv, Matching
<1>1. /\ ~IsTrade(e)
      /\ \A o : ~TradeOf(e, o) /\ ~Says(e, "OrderCancelled", o) /\ ~Says(e, "OrderOpened", o) /\ ~Settles(e, o)
  BY DEF IsTrade, TradeOf, Says, Settles
<1>2. Sent(e) /\ events' \in Seq(EngineEvent) /\ batch' = <<>>
  BY <1>0, SentAlone
<1>3. Grown(e)
  BY <1>2 DEF Sent, Grown
<1>4. Numbering' /\ Placing' /\ Done' = Done + 1
  <2>1. UNCHANGED <<side, price, stamp>> /\ incoming' = NoOrder
    BY <1>0 DEF bookVars
  <2>. QED  BY <1>0, <2>1, Finished
<1>5. StreamTypes'
  BY <1>0, <1>2, Popped DEF StreamTypes
<1>6. BookTypes' /\ Matching'
  BY <1>0 DEF bookVars, BookTypes, Matching
<1>7. TradesSound'
  BY <1>0, <1>1, <1>3, GrownSound DEF bookVars
<1>8. Identified'
  <2>1. ASSUME NEW id \in Nat \X Nat, Used(id) PROVE Used(id)'
    <3>1. id[1] \in Nat /\ id[2] \in Nat /\ Done \in Nat
      BY <1>0, Popped
    <3>. QED  BY <1>0, <1>4, <2>1, <3>1 DEF Used
  <2>2. UNCHANGED trades
    BY DEF dbVars
  <2>. QED  BY <1>0, <1>1, <1>3, <2>1, <2>2, GrownIdentified
<1>9. \A o : (Gone(o)' <=> Gone(o)) /\ rem'[o] = rem[o] /\ stamp'[o] = stamp[o]
  BY DEF bookVars, Gone, Live
<1>10. UNCHANGED orders
  BY DEF dbVars
<1>11. Answered'
  BY <1>0, <1>1, <1>3, <1>9, <1>10, GrownAnswered
<1>12. Statuses'
  BY <1>0, <1>3, <1>10, GrownStatuses DEF bookVars
<1>13. Reconciled'
  <2>1. \A o : UnderWayOf(o)' = UnderWayOf(o) /\ UnderWayOf(o) \in Nat
    BY <1>0, <1>1, <1>3, <1>5, GrownUnderWay, TradingIs
  <2>2. \A o \in OrderIds : stamp[o] > 0 => orders[o].remaining = rem[o] + UnderWayOf(o)
    BY <1>0, ReconciledIs
  <2>3. \A o : SumFunction([i \in Trading(o)' |-> UnderWay'[i].quantity]) = UnderWayOf(o)'
    BY SumOfFunction DEF UnderWayOf
  <2>. QED  BY <1>9, <1>10, <2>1, <2>2, <2>3 DEF Reconciled
<1>14. SInv' /\ Locks' /\ LockCovers' /\ Escrow'
  BY TablesKept
<1>. QED
  BY <1>4, <1>5, <1>6, <1>7, <1>8, <1>11, <1>12, <1>13, <1>14 DEF XInv

LEMMA OpenMarketStep == ASSUME XInv, OpenMarket PROVE XInv'
<1>. DEFINE e == [type |-> "MarketOpened"]
<1>0. /\ StreamTypes /\ Numbering /\ Matching
  BY DEF XInv
<1>1. /\ commands # <<>> /\ incoming = NoOrder /\ Command.type = "OpenMarket" /\ last = 0
      /\ commands' = Tail(commands) /\ events' = events \o <<e>> /\ engineState' = "READY"
      /\ last' = Command.seq /\ UNCHANGED <<dbVars, bookVars, issued, index, batch>>
  BY DEF OpenMarket, Ready, Publish
<1>2. /\ Done \in Nat /\ Command.seq = Done + 1 /\ Command = commands[1] /\ 1 \in 1 .. Len(commands)
  BY <1>0, <1>1, Popped
<1>3. Command.seq = 1 /\ Done = 0
  BY <1>0, <1>1, <1>2 DEF Numbering
<1>4. e \in EngineEvent /\ e.type = "MarketOpened" /\ \A o : ~Final(e, o)
  BY DEF EngineEvent, MarketEvent, Final, Says
<1>5. /\ last' \in Nat /\ last' <= Done + 1
      /\ last = Done /\ (Command.type = "PlaceOrder" => stamp[Command.order] > 0)
  BY <1>1, <1>2, <1>3
<1>. HIDE DEF e
<1>. QED  BY <1>1, <1>4, <1>5, AnsweredOnly

LEMMA GapStep == ASSUME XInv, Gap PROVE XInv'
<1>. DEFINE e == [type |-> "EngineFailed"]
<1>0. /\ StreamTypes /\ Numbering /\ Matching
  BY DEF XInv
<1>1. /\ commands # <<>> /\ incoming = NoOrder /\ Command.seq > last + 1
      /\ commands' = Tail(commands) /\ events' = events \o <<e>> /\ engineState' = "FAILED"
      /\ last' = last /\ UNCHANGED <<dbVars, bookVars, issued, index, batch>>
  BY DEF Gap, Ready, Publish
<1>2. Done \in Nat /\ Command.seq = Done + 1 /\ last \in Nat
  BY <1>0, <1>1, Popped DEF StreamTypes
<1>3. last' \in Nat /\ last' < Done + 1 /\ last' <= Done + 1
  BY <1>1, <1>2
<1>4. e \in EngineEvent /\ e.type = "EngineFailed" /\ \A o : ~Final(e, o)
  BY DEF EngineEvent, MarketEvent, Final, Says
<1>. HIDE DEF e
<1>. QED  BY <1>1, <1>3, <1>4, AnsweredOnly

(* What the engine answers with a rejection is a cancel, and the order it  *)
(* names was taken before and has left the book.                           *)
LEMMA RejectedIs ==
  ASSUME XInv, Rejected
  PROVE  /\ commands # <<>> /\ incoming = NoOrder /\ batch = <<>> /\ last = Done /\ Done > 0
         /\ engineState = "READY" /\ Command.type = "CancelOrder"
         /\ Command.order \in OrderIds /\ Gone(Command.order)
<1>0. /\ BookTypes /\ StreamTypes /\ Numbering /\ Placing /\ Matching
  BY DEF XInv
<1>1. /\ commands # <<>> /\ incoming = NoOrder /\ Command.seq = last + 1
      /\ Command.type # "OpenMarket"
      /\ engineState # "READY" \/ (Command.type = "CancelOrder" /\ Command.order \notin resting)
  BY DEF Rejected, Ready
<1>2. /\ Done \in Nat /\ Command.seq = Done + 1 /\ last \in Nat /\ Command = commands[1]
      /\ 1 \in 1 .. Len(commands) /\ Len(commands) \in Nat /\ Command \in OpenCommand \cup OrderCommand
  BY <1>0, <1>1, Popped DEF StreamTypes
<1>3. last = Done
  BY <1>1, <1>2
<1>4. Command.seq # 1
  BY <1>0, <1>1, <1>2 DEF Numbering
<1>5. engineState = "READY" /\ Done > 0
  BY <1>0, <1>2, <1>3, <1>4 DEF Numbering, StreamTypes
<1>6. Command.type = "CancelOrder" /\ Command.order \in OrderIds /\ Command.order \notin resting
  BY <1>1, <1>2, <1>5 DEF OpenCommand, OrderCommand
<1>7. Exists(Command.order)
  BY <1>0, <1>1, <1>2 DEF Numbering
<1>8. stamp[Command.order] > 0
  <2>1. SUFFICES ASSUME stamp[Command.order] = 0 PROVE FALSE
    BY <1>0, <1>6 DEF BookTypes
  <2>2. PICK i \in 1 .. Len(commands) :
          commands[i].type = "PlaceOrder" /\ commands[i].order = Command.order
    BY <1>0, <1>2, <1>3, <1>6, <1>7, <2>1 DEF Placing
  <2>3. i # 1
    BY <1>2, <1>6, <2>2
  <2>4. i < 1
    BY <1>0, <1>1, <1>2, <2>2, <2>3 DEF Placing
  <2>. QED  BY <1>2, <2>4
<1>9. Gone(Command.order)
  BY <1>1, <1>6, <1>8, NoOrderAssumption DEF Gone, Live
<1>. QED  BY <1>0, <1>1, <1>3, <1>5, <1>6, <1>9 DEF Matching

LEMMA RejectedStep == ASSUME XInv, Rejected PROVE XInv'
<1>. DEFINE e == [type |-> "CancelOrderRejected", order |-> Command.order]
<1>0. StreamTypes /\ Numbering
  BY DEF XInv
<1>1. /\ commands # <<>> /\ incoming = NoOrder /\ last = Done
      /\ engineState = "READY" /\ Command.type = "CancelOrder"
      /\ Command.order \in OrderIds /\ Gone(Command.order)
  BY RejectedIs
<1>2. /\ commands' = Tail(commands) /\ events' = events \o <<e>>
      /\ UNCHANGED <<dbVars, bookVars, engineVars, issued>>
  BY <1>1 DEF Rejected, Publish
<1>3. Done \in Nat
  BY <1>0, <1>1, Popped
<1>4. /\ engineState' = "READY" /\ last' \in Nat /\ last' < Done + 1 /\ last' <= Done + 1
      /\ UNCHANGED <<dbVars, bookVars, issued, index, batch>>
  BY <1>1, <1>2, <1>3 DEF engineVars
<1>5. e \in EngineEvent /\ e.type = "CancelOrderRejected" /\ \A o : Final(e, o) => o = Command.order
  BY <1>1 DEF EngineEvent, OrderEvent, Final, Says
<1>. HIDE DEF e
<1>. QED  BY <1>1, <1>2, <1>4, <1>5, AnsweredOnly

-----------------------------------------------------------------------------
(* Matching.                                                               *)

(* The order of a PlaceOrder that is taken is in the table as it was       *)
(* placed, and no event speaks of it yet.                                  *)
LEMMA PlaceOrderIs ==
  ASSUME XInv, PlaceOrder
  PROVE  /\ commands # <<>> /\ incoming = NoOrder /\ last = Done /\ engineState = "READY"
         /\ Command.type = "PlaceOrder" /\ Command = commands[1] /\ 1 \in 1 .. Len(commands)
         /\ Command.order \in OrderIds /\ stamp[Command.order] = 0 /\ Exists(Command.order)
         /\ Untouched(Command.order) /\ orders[Command.order] \in OrderRow
         /\ orders[Command.order].quantity > 0
         /\ \A i \in 1 .. N : ~TradeOf(UnderWay[i], Command.order)
<1>0. /\ SInv /\ BookTypes /\ StreamTypes /\ Numbering /\ Placing /\ TradesSound /\ Statuses
  BY DEF XInv
<1>1. /\ commands # <<>> /\ incoming = NoOrder /\ Command.seq = last + 1
      /\ Command.type = "PlaceOrder" /\ engineState = "READY" /\ stamp[Command.order] = 0
  BY DEF PlaceOrder, Ready, Book!Submit
<1>2. /\ Done \in Nat /\ Command.seq = Done + 1 /\ last \in Nat /\ Command = commands[1]
      /\ 1 \in 1 .. Len(commands) /\ Command \in OpenCommand \cup OrderCommand
  BY <1>0, <1>1, Popped DEF StreamTypes
<1>3. last = Done /\ Command.order \in OrderIds
  BY <1>1, <1>2 DEF OpenCommand, OrderCommand
<1>4. Exists(Command.order) /\ Untouched(Command.order)
  BY <1>0, <1>1, <1>2, <1>3 DEF Numbering, Placing
<1>5. orders[Command.order] \in OrderRow
  BY <1>0, <1>3 DEF SInv, TypeOK
<1>6. orders[Command.order].quantity > 0
  <2>1. orders[Command.order].remaining # 0
    BY <1>0, <1>3, <1>4 DEF Statuses, Untouched
  <2>. QED  BY <1>4, <1>5, <2>1 DEF Untouched, OrderRow
<1>7. ASSUME NEW i \in 1 .. N, TradeOf(UnderWay[i], Command.order) PROVE FALSE
  <2>1. SoundTrade(UnderWay[i])
    BY <1>0, <1>7 DEF TradesSound, TradeOf
  <2>. QED  BY <1>1, <1>7, <2>1 DEF SoundTrade, TradeOf
<1>. QED  BY <1>1, <1>2, <1>3, <1>4, <1>5, <1>6, <1>7

LEMMA PlaceOrderStep == ASSUME XInv, PlaceOrder PROVE XInv'
<1>. DEFINE e == [type |-> "MarketOpened"]
<1>a. PICK o \in OrderIds : o = Command.order
  BY PlaceOrderIs
<1>0. /\ SInv /\ BookTypes /\ StreamTypes /\ Numbering /\ Placing /\ Matching /\ TradesSound
      /\ Identified /\ Answered /\ Statuses /\ Reconciled
  BY DEF XInv
<1>1. /\ commands # <<>> /\ incoming = NoOrder /\ last = Done /\ engineState = "READY"
      /\ Command.type = "PlaceOrder" /\ Command = commands[1] /\ 1 \in 1 .. Len(commands)
      /\ o \in OrderIds /\ stamp[o] = 0 /\ Exists(o)
      /\ Untouched(o) /\ orders[o] \in OrderRow
      /\ orders[o].quantity > 0
      /\ \A i \in 1 .. N : ~TradeOf(UnderWay[i], o)
  BY <1>a, PlaceOrderIs
<1>2. /\ side' = [side EXCEPT ![o] = orders[o].side]
      /\ price' = [price EXCEPT ![o] = orders[o].price]
      /\ rem' = [rem EXCEPT ![o] = orders[o].quantity]
      /\ stamp' = [stamp EXCEPT ![o] = now + 1]
      /\ now' = now + 1 /\ incoming' = o /\ resting' = resting
      /\ UNCHANGED <<dbVars, engineVars, issued, commands, events>>
  BY <1>a DEF PlaceOrder, Book!Submit
<1>3. /\ UNCHANGED <<orders, wallets, trades, market, engineState, last, index, batch>>
      /\ UNCHANGED <<issued, commands, events>>
  BY <1>2 DEF dbVars, engineVars
<1>4. BookTypes'
  <2>1. orders[o].side \in Side /\ orders[o].price \in Price /\ orders[o].quantity \in Nat
    BY <1>1 DEF OrderRow
  <2>. QED  BY <1>0, <1>1, <1>2, <2>1 DEF BookTypes
<1>5. /\ side'[o] = orders[o].side /\ price'[o] = orders[o].price /\ rem'[o] = orders[o].quantity
      /\ stamp'[o] > 0
      /\ \A x \in OrderIds : x # o =>
           side'[x] = side[x] /\ price'[x] = price[x] /\ rem'[x] = rem[x] /\ stamp'[x] = stamp[x]
  BY <1>0, <1>1, <1>2 DEF BookTypes
<1>6. UnderWay' = UnderWay /\ N' = N /\ Done' = Done /\ Command' = Command
  BY <1>3 DEF UnderWay, N, Done, Command
<1>7. Grown(e) /\ e \in EngineEvent /\ ~IsTrade(e) /\ N \in Nat /\ ~(N' = N + 1)
      /\ \A x : ~Final(e, x) /\ ~Settles(e, x) /\ ~Says(e, "OrderCancelled", x) /\ ~Says(e, "OrderOpened", x)
  <2>1. e \in EngineEvent /\ ~IsTrade(e)
    BY DEF EngineEvent, MarketEvent, IsTrade
  <2>2. \A x : ~Final(e, x) /\ ~Settles(e, x) /\ ~Says(e, "OrderCancelled", x) /\ ~Says(e, "OrderOpened", x)
    BY DEF Final, Settles, TradeOf, IsTrade, Says
  <2>3. N \in Nat
    BY <1>0, Queue
  <2>. QED  BY <1>6, <2>1, <2>2, <2>3 DEF Grown
<1>. HIDE DEF e
<1>8. StreamTypes'
  BY <1>0, <1>3 DEF StreamTypes
<1>9. Numbering'
  BY <1>0, <1>1, <1>3, <1>6 DEF Numbering, Exists
<1>10. Placing'
  <2>1. \A x \in OrderIds : (Exists(x)' <=> Exists(x)) /\ (Untouched(x)' <=> Untouched(x))
    BY <1>3 DEF Exists, Untouched
  <2>2. ASSUME NEW i \in 1 .. Len(commands), commands[i].type = "PlaceOrder"
        PROVE  stamp'[commands[i].order] = 0 \/ (i = 1 /\ incoming' = commands[i].order)
    <3>1. CASE i = 1
      BY <1>a, <1>1, <1>2, <3>1
    <3>2. CASE i # 1
      <4>1. stamp[commands[i].order] = 0
        BY <1>0, <2>2, <3>2 DEF Placing
      <4>2. commands[i].order # o
        BY <1>a, <1>0, <1>1, <2>2, <3>2 DEF Placing
      <4>3. commands[i].order \in OrderIds
        BY <1>0, <2>2 DEF StreamTypes, OpenCommand, OrderCommand
      <4>. QED  BY <1>5, <4>1, <4>2, <4>3
    <3>. QED  BY <3>1, <3>2
  <2>3. \A i \in 1 .. Len(commands) : commands[i].type = "PlaceOrder" =>
          \A j \in 1 .. Len(commands) :
            j # i /\ commands[j].type # "OpenMarket" /\ commands[j].order = commands[i].order =>
              commands[j].type = "CancelOrder" /\ i < j
    BY <1>0 DEF Placing
  <2>4. ASSUME NEW x \in OrderIds, stamp'[x] = 0, Exists(x)
        PROVE  /\ Untouched(x)
               /\ \/ last < Done
                  \/ \E i \in 1 .. Len(commands) :
                       commands[i].type = "PlaceOrder" /\ commands[i].order = x
    <3>1. x # o /\ stamp[x] = 0
      BY <1>5, <2>4
    <3>. QED  BY <1>0, <2>4, <3>1 DEF Placing
  <2>5. ASSUME NEW x \in OrderIds, stamp'[x] > 0
        PROVE  Exists(x) /\ side'[x] = orders[x].side /\ price'[x] = orders[x].price
    BY <1>0, <1>1, <1>5, <2>5 DEF Placing
  <2>. QED  BY <1>3, <1>6, <2>1, <2>2, <2>3, <2>4, <2>5 DEF Placing
<1>11. Matching'
  <2>1. batch = <<>> /\ index = 0 /\ \A r \in resting : stamp[r] > 0 /\ rem[r] > 0 /\ r \in OrderIds
    BY <1>0, <1>1 DEF Matching, BookTypes
  <2>2. o \notin resting
    BY <1>1, <2>1
  <2>3. \A r \in resting : stamp'[r] > 0 /\ rem'[r] > 0
    BY <1>5, <2>1, <2>2
  <2>4. 0 + Cardinality(resting) + 1 <= Cardinality(OrderIds)
    <3>1. IsFiniteSet(resting) /\ IsFiniteSet(OrderIds) /\ resting \cup {o} \subseteq OrderIds
      BY <1>0, <1>1, OrdersAssumption, FS_Subset DEF BookTypes
    <3>2. /\ Cardinality(resting \cup {o}) = Cardinality(resting) + 1
          /\ Cardinality(resting \cup {o}) <= Cardinality(OrderIds)
          /\ Cardinality(resting) \in Nat
      BY <2>2, <3>1, FS_AddElement, FS_Subset, FS_CardinalityType
    <3>. QED  BY <3>2
  <2>5. o # NoOrder /\ rem'[o] # 0
    BY <1>1, <1>5, NoOrderAssumption
  <2>6. /\ incoming' # NoOrder /\ index' = 0 /\ resting' = resting /\ incoming' = o
        /\ engineState' = "READY" /\ commands' # <<>> /\ last' = Done'
        /\ Command'.type = "PlaceOrder" /\ Command'.order = o
    BY <1>a, <1>1, <1>2, <1>3, <1>6, <2>1, <2>5
  <2>7. index' + Cardinality(resting') + (IF incoming' = NoOrder \/ rem'[incoming'] = 0 THEN 0 ELSE 1)
          <= Cardinality(OrderIds)
    BY <2>4, <2>5, <2>6
  <2>. QED  BY <1>5, <2>2, <2>3, <2>6, <2>7 DEF Matching
<1>12. TradesSound'
  <2>1. \A x \in OrderIds : stamp[x] > 0 =>
          stamp'[x] > 0 /\ side'[x] = side[x] /\ price'[x] = price[x]
    BY <1>1, <1>5
  <2>. QED  BY <1>0, <1>7, <2>1, GrownSound
<1>13. Identified'
  <2>1. \A id \in Nat \X Nat : Used(id) => Used(id)'
    BY <1>3, <1>6 DEF Used
  <2>. QED  BY <1>0, <1>3, <1>7, <2>1, GrownIdentified
<1>14. ASSUME NEW x \in OrderIds, x # o PROVE (Gone(x)' <=> Gone(x)) /\ rem'[x] = rem[x] /\ stamp'[x] = stamp[x]
  BY <1>1, <1>2, <1>5, <1>14, NoOrderAssumption DEF Gone, Live
<1>15. ~Gone(o) /\ ~Gone(o)'
  BY <1>1, <1>2 DEF Gone, Live
<1>16. Answered'
  <2>1. \A x \in OrderIds : /\ stamp[x] > 0 => stamp'[x] > 0
                            /\ Gone(x) => Gone(x)' /\ rem'[x] = rem[x]
                            /\ Gone(x)' => Gone(x)
    <3>1. ASSUME NEW x \in OrderIds, x = o
          PROVE /\ stamp[x] > 0 => stamp'[x] > 0
                /\ Gone(x) => Gone(x)' /\ rem'[x] = rem[x]
                /\ Gone(x)' => Gone(x)
      BY <1>5, <1>15, <3>1
    <3>2. ASSUME NEW x \in OrderIds, x # o
          PROVE /\ stamp[x] > 0 => stamp'[x] > 0
                /\ Gone(x) => Gone(x)' /\ rem'[x] = rem[x]
                /\ Gone(x)' => Gone(x)
      BY <1>14, <3>2
    <3>. QED  BY <3>1, <3>2
  <2>. QED  BY <1>0, <1>3, <1>7, <2>1, GrownAnswered
<1>17. Statuses'
  <2>1. \A x \in OrderIds : stamp'[x] > 0 /\ x # incoming' => stamp[x] > 0 /\ x # incoming
    BY <1>1, <1>2, <1>5, NoOrderAssumption
  <2>. QED  BY <1>0, <1>3, <1>7, <2>1, GrownStatuses
<1>18. Reconciled'
  <2>. SUFFICES ASSUME NEW x \in OrderIds, stamp'[x] > 0
       PROVE  orders'[x].remaining = rem'[x] + UnderWayOf(x)'
    BY SumOfFunction DEF Reconciled, UnderWayOf
  <2>1. UnderWayOf(x)' = UnderWayOf(x)
    BY <1>6 DEF UnderWayOf, Trading
  <2>2. CASE x = o
    <3>1. UnderWayOf(o) = 0
      BY <1>0, <1>1, NothingUnderWay
    <3>. QED  BY <1>1, <1>3, <1>5, <2>1, <2>2, <3>1 DEF Untouched, OrderRow
  <2>3. CASE x # o
    BY <1>0, <1>3, <1>5, <2>1, <2>3, ReconciledIs
  <2>. QED  BY <2>2, <2>3
<1>19. SInv' /\ Locks' /\ LockCovers' /\ Escrow'
  BY <1>2, TablesKept
<1>. QED
  BY <1>4, <1>8, <1>9, <1>10, <1>11, <1>12, <1>13, <1>16, <1>17, <1>18, <1>19 DEF XInv
(* The trade of one step of the loop: of the incoming order and a resting  *)
(* one, for some of what both have left, with an id not used yet.          *)
LEMMA MatchOneIs ==
  ASSUME XInv, NEW r \in resting, Book!Trade(r)
  PROVE  LET x == Least(rem[incoming], rem[r])
             e == TradeCreated(r, x)
         IN /\ incoming \in OrderIds /\ r \in OrderIds /\ r # incoming
            /\ x \in Nat \ {0} /\ x <= rem[incoming] /\ x <= rem[r]
            /\ x = rem[incoming] \/ x = rem[r]
            /\ e \in EngineEvent /\ e.type = "TradeCreated" /\ e.quantity = x /\ SoundTrade(e)
            /\ \A o : (e.buy = o \/ e.sell = o) <=> (o = incoming \/ o = r)
            /\ Done \in Nat /\ e.engineMatchId = <<Done + 1, index>>
<1>. DEFINE x == Least(rem[incoming], rem[r])
            e == TradeCreated(r, x)
<1>0. /\ BookTypes /\ StreamTypes /\ Numbering /\ Matching
      /\ incoming # NoOrder /\ rem[incoming] > 0 /\ r \in Book!Candidates
  BY DEF XInv, Book!Trade
<1>1. /\ commands # <<>> /\ incoming \in OrderIds /\ incoming \notin resting /\ stamp[incoming] > 0
      /\ r \in OrderIds /\ r # incoming /\ stamp[r] > 0 /\ rem[r] > 0
      /\ rem[incoming] \in Nat /\ rem[r] \in Nat /\ index \in Nat
      /\ side[incoming] \in Side /\ side[r] \in Side
      /\ price[incoming] \in Price /\ price[r] \in Price
      /\ price[incoming] \in Nat /\ price[r] \in Nat
  BY <1>0, PriceAssumption DEF Matching, BookTypes, StreamTypes
<1>2. x \in Nat \ {0} /\ x <= rem[incoming] /\ x <= rem[r] /\ (x = rem[incoming] \/ x = rem[r])
  BY <1>0, <1>1 DEF Least
<1>3. /\ Done \in Nat /\ issued \in Nat /\ Done + 1 <= issued /\ Command.seq = Done + 1
      /\ issued <= MaxCommands
  BY <1>0, <1>1, Popped DEF StreamTypes
<1>4. index <= Cardinality(OrderIds)
  <2>1. Cardinality(resting) \in Nat /\ Cardinality(OrderIds) \in Nat
    BY <1>0, OrdersAssumption, FS_Subset, FS_CardinalityType DEF BookTypes
  <2>2. index + Cardinality(resting) + 1 <= Cardinality(OrderIds)
    BY <1>0, <1>1 DEF Matching
  <2>. QED  BY <1>1, <2>1, <2>2
<1>5. <<Done + 1, index>> \in MatchIds
  <2>1. Done + 1 \in 1 .. MaxCommands /\ index \in 0 .. Cardinality(OrderIds)
    <3>1. Cardinality(OrderIds) \in Nat /\ MaxCommands \in Nat
      BY OrdersAssumption, FS_CardinalityType, CommandsAssumption
    <3>. QED  BY <1>1, <1>3, <1>4, <3>1
  <2>. QED  BY <2>1, MatchIdsAssumption
<1>. HIDE DEF x
<1>6. /\ e.type = "TradeCreated" /\ e.quantity = x /\ e.engineMatchId = <<Done + 1, index>>
      /\ e.takerSide = side[incoming] /\ e.price = price[r]
      /\ e.buy = (IF side[incoming] = "BUY" THEN incoming ELSE r)
      /\ e.sell = (IF side[incoming] = "BUY" THEN r ELSE incoming)
      /\ DOMAIN e = {"type", "engineMatchId", "buy", "sell", "takerSide", "price", "quantity"}
  BY <1>3 DEF TradeCreated
<1>7. e \in EngineEvent
  <2>1. <<Done + 1, index>> \in Nat \X Nat
    BY <1>1, <1>3
  <2>2. e \in TradeEvent
    BY <1>1, <1>2, <1>3, <2>1 DEF TradeEvent, TradeCreated
  <2>. QED  BY <2>2 DEF EngineEvent
<1>8. side[r] = Opposite(side[incoming]) /\ Crosses(side[incoming], price[incoming], price[r])
  BY <1>0 DEF Book!Candidates, Book!Opposite, Book!Crosses, Opposite, Crosses
<1>. HIDE DEF e
<1>9. SoundTrade(e)
  BY <1>1, <1>5, <1>6, <1>8 DEF SoundTrade, Opposite, Crosses, Side
<1>10. \A o : (e.buy = o \/ e.sell = o) <=> (o = incoming \/ o = r)
  BY <1>6
<1>. QED  BY <1>1, <1>2, <1>3, <1>6, <1>7, <1>9, <1>10 DEF x, e

LEMMA MatchOneStep == ASSUME XInv, MatchOne PROVE XInv'
<1>1. PICK r \in resting :
        /\ Book!Trade(r)
        /\ batch' = Append(batch, TradeCreated(r, Least(rem[incoming], rem[r])))
        /\ index' = index + 1
        /\ UNCHANGED <<dbVars, engineState, last, issued, commands, events>>
  BY DEF MatchOne
<1>2. PICK i \in {incoming} : TRUE
  OBVIOUS
<1>. DEFINE x == Least(rem[incoming], rem[r])
            e == TradeCreated(r, x)
<1>0. /\ SInv /\ BookTypes /\ StreamTypes /\ Numbering /\ Placing /\ Matching /\ TradesSound
      /\ Identified /\ Answered /\ Statuses /\ Reconciled
  BY DEF XInv
<1>3. /\ i = incoming /\ i \in OrderIds /\ r \in OrderIds /\ r # i
      /\ x \in Nat \ {0} /\ x <= rem[i] /\ x <= rem[r]
      /\ x = rem[i] \/ x = rem[r]
      /\ e \in EngineEvent /\ e.type = "TradeCreated" /\ e.quantity = x /\ SoundTrade(e)
      /\ \A o : (e.buy = o \/ e.sell = o) <=> (o = i \/ o = r)
      /\ Done \in Nat /\ e.engineMatchId = <<Done + 1, index>>
  BY <1>1, <1>2, MatchOneIs
<1>4. /\ rem' = [rem EXCEPT ![i] = @ - x, ![r] = @ - x]
      /\ resting' = IF rem[r] = x THEN resting \ {r} ELSE resting
      /\ UNCHANGED <<side, price, stamp, now, incoming>>
      /\ i # NoOrder /\ rem[i] > 0
  BY <1>1, <1>2 DEF Book!Trade, Book!Least, Least
<1>5. batch' = Append(batch, e)
  BY <1>1
<1>. HIDE DEF x, e
<1>6. /\ UNCHANGED <<orders, wallets, trades, market, engineState, last>>
      /\ UNCHANGED <<issued, commands, events>>
  BY <1>1 DEF dbVars
<1>7. Sent(e) /\ batch' \in Seq(EngineEvent) /\ Grown(e) /\ N' = N + 1 /\ N \in Nat
  <2>1. Sent(e) /\ batch' \in Seq(EngineEvent)
    BY <1>0, <1>3, <1>5, <1>6, SentInBatch
  <2>. QED  BY <1>0, <2>1, Queue DEF Sent, Grown
<1>8. /\ rem \in [OrderIds -> Nat] /\ rem' \in [OrderIds -> Nat]
      /\ rem'[i] = rem[i] - x /\ rem'[r] = rem[r] - x
      /\ \A o \in OrderIds : o # i /\ o # r => rem'[o] = rem[o]
  <2>1. rem \in [OrderIds -> Nat]
    BY <1>0 DEF BookTypes
  <2>. QED  BY <1>3, <1>4, <2>1
<1>9. BookTypes'
  BY <1>0, <1>4, <1>8 DEF BookTypes
<1>10. index \in Nat
  BY <1>0 DEF StreamTypes
<1>11. StreamTypes'
  BY <1>0, <1>1, <1>6, <1>7, <1>10 DEF StreamTypes
<1>12. Done' = Done /\ Command' = Command
  BY <1>6 DEF Done, Command
<1>13. Numbering'
  <2>1. engineState' # "RECOVERING"
    BY <1>0, <1>2, <1>4, <1>6 DEF Matching
  <2>. QED  BY <1>0, <1>6, <1>12, <2>1 DEF Numbering, Exists
<1>14. Placing'
  BY <1>0, <1>4, <1>6, <1>12 DEF Placing, Exists, Untouched
<1>15. Matching'
  <2>1. /\ engineState = "READY" /\ commands # <<>> /\ last = Done
        /\ Command.type = "PlaceOrder" /\ Command.order = i
        /\ i \notin resting /\ stamp[i] > 0
    BY <1>0, <1>2, <1>4 DEF Matching
  <2>2. \A o \in resting : stamp[o] > 0 /\ rem[o] > 0 /\ o \in OrderIds
    BY <1>0 DEF Matching, BookTypes
  <2>3. ASSUME NEW o \in resting' PROVE stamp'[o] > 0 /\ rem'[o] > 0
    <3>1. o \in resting /\ o # i
      BY <1>4, <2>1
    <3>2. CASE o = r
      BY <1>3, <1>4, <1>8, <2>2, <3>1, <3>2
    <3>3. CASE o # r
      BY <1>4, <1>8, <2>2, <3>1, <3>3
    <3>. QED  BY <3>2, <3>3
  <2>4. index' + Cardinality(resting') + (IF incoming' = NoOrder \/ rem'[incoming'] = 0 THEN 0 ELSE 1)
          <= Cardinality(OrderIds)
    <3>1. /\ IsFiniteSet(resting) /\ Cardinality(resting) \in Nat
          /\ Cardinality(OrderIds) \in Nat /\ Cardinality(resting \ {r}) = Cardinality(resting) - 1
      BY <1>0, OrdersAssumption, FS_Subset, FS_CardinalityType, FS_RemoveElement DEF BookTypes
    <3>2. index + Cardinality(resting) + 1 <= Cardinality(OrderIds)
      BY <1>0, <1>2, <1>4 DEF Matching
    <3>3. CASE rem[r] = x
      BY <1>1, <1>4, <1>10, <3>1, <3>2, <3>3
    <3>4. CASE rem[r] # x
      <4>1. rem'[i] = 0 /\ resting' = resting /\ incoming' = i
        BY <1>2, <1>3, <1>4, <1>8, <3>4
      <4>. QED  BY <1>1, <1>10, <3>1, <3>2, <4>1
    <3>. QED  BY <3>3, <3>4
  <2>5. incoming' = i /\ i # NoOrder /\ i \notin resting'
    BY <1>2, <1>4, <2>1
  <2>. QED  BY <1>4, <1>6, <1>12, <2>1, <2>3, <2>4, <2>5 DEF Matching
<1>16. TradesSound'
  <2>1. \A y \in {e} : SoundTrade(y)'
    <3>1. e.buy \in OrderIds /\ e.sell \in OrderIds
      BY <1>3, TradeEvents DEF IsTrade
    <3>2. SoundTrade(e)
      BY <1>3
    <3>. QED  BY <1>4, <3>1, <3>2 DEF SoundTrade
  <2>. QED  BY <1>0, <1>4, <1>7, <2>1, GrownSound
<1>17. Identified'
  <2>1. \A id \in Nat \X Nat : Used(id) => Used(id)'
    <3>. SUFFICES ASSUME NEW id \in Nat \X Nat, Used(id) PROVE Used(id)'
      OBVIOUS
    <3>1. id[1] \in Nat /\ id[2] \in Nat
      OBVIOUS
    <3>. QED  BY <1>1, <1>3, <1>10, <1>12, <3>1 DEF Used
  <2>2. \A id \in {e.engineMatchId} : Used(id)' /\ ~Used(id)
    BY <1>1, <1>3, <1>10, <1>12 DEF Used
  <2>. QED  BY <1>0, <1>3, <1>6, <1>7, <2>1, <2>2, GrownIdentified
<1>18. Answered'
  <2>1. ASSUME NEW o \in OrderIds
        PROVE /\ stamp[o] > 0 => stamp'[o] > 0
              /\ Gone(o) => Gone(o)' /\ rem'[o] = rem[o] /\ ~Settles(e, o)
              /\ ~Final(e, o) /\ ~Says(e, "OrderCancelled", o) /\ ~Says(e, "OrderOpened", o)
              /\ Gone(o)' => Gone(o) \/ rem'[o] = 0
    <3>1. ~Final(e, o) /\ ~Says(e, "OrderCancelled", o) /\ ~Says(e, "OrderOpened", o)
      BY <1>3 DEF Final, Says
    <3>2. CASE o # i /\ o # r
      <4>1. (Gone(o)' <=> Gone(o)) /\ rem'[o] = rem[o]
        BY <1>4, <1>8, <3>2 DEF Gone, Live
      <4>2. ~Settles(e, o)
        BY <1>3, <3>1, <3>2 DEF Settles, TradeOf
      <4>. QED  BY <1>4, <3>1, <4>1, <4>2
    <3>3. CASE o = i \/ o = r
      <4>1. ~Gone(o)
        BY <1>2, <3>3 DEF Gone, Live
      <4>2. Gone(o)' => rem'[o] = 0
        BY <1>2, <1>3, <1>4, <1>8, <3>3 DEF Gone, Live
      <4>. QED  BY <1>4, <3>1, <4>1, <4>2
    <3>. QED  BY <3>2, <3>3
  <2>. QED  BY <1>0, <1>3, <1>6, <1>7, <2>1, GrownAnswered
<1>19. Statuses'
  BY <1>0, <1>4, <1>6, <1>7, GrownStatuses
<1>20. Reconciled'
  <2>. SUFFICES ASSUME NEW o \in OrderIds, stamp'[o] > 0
       PROVE  orders'[o].remaining = rem'[o] + UnderWayOf(o)'
    BY SumOfFunction DEF Reconciled, UnderWayOf
  <2>1. UnderWayOf(o)' = UnderWayOf(o) + (IF TradeOf(e, o) THEN x ELSE 0)
    BY <1>0, <1>3, <1>7, <1>11, GrownUnderWay
  <2>2. TradeOf(e, o) <=> (o = i \/ o = r)
    BY <1>3 DEF TradeOf, IsTrade
  <2>3. orders[o].remaining = rem[o] + UnderWayOf(o) /\ UnderWayOf(o) \in Nat
    BY <1>0, <1>4, ReconciledIs, TradingIs
  <2>4. rem'[o] = rem[o] - (IF o = i \/ o = r THEN x ELSE 0) /\ rem[o] \in Nat
    BY <1>8
  <2>. QED  BY <1>3, <1>6, <2>1, <2>2, <2>3, <2>4
<1>21. SInv' /\ Locks' /\ LockCovers' /\ Escrow'
  BY <1>1, TablesKept
<1>. QED
  BY <1>9, <1>11, <1>13, <1>14, <1>15, <1>16, <1>17, <1>18, <1>19, <1>20, <1>21 DEF XInv

LEMMA MatchedStep == ASSUME XInv, Matched PROVE XInv'
<1>1. PICK i \in {incoming} : TRUE
  OBVIOUS
<1>. DEFINE e == IF rem[i] > 0 THEN [type |-> "OrderOpened", order |-> i] ELSE [type |-> "MarketOpened"]
<1>0. /\ SInv /\ BookTypes /\ StreamTypes /\ Numbering /\ Placing /\ Matching /\ TradesSound
      /\ Identified /\ Answered /\ Statuses /\ Reconciled
  BY DEF XInv
<1>2. /\ commands' = Tail(commands) /\ events' = events \o (batch \o Opened)
      /\ last' = Command.seq /\ batch' = <<>> /\ index' = 0
      /\ UNCHANGED <<dbVars, engineState, issued>>
      /\ i # NoOrder /\ incoming' = NoOrder
      /\ resting' = IF rem[i] > 0 THEN resting \cup {i} ELSE resting
      /\ UNCHANGED <<side, price, rem, stamp, now>>
  BY <1>1 DEF Matched, Publish, Book!Finish
<1>3. /\ engineState = "READY" /\ commands # <<>> /\ last = Done
      /\ Command.type = "PlaceOrder" /\ Command.order = i
      /\ i \notin resting /\ stamp[i] > 0 /\ i \in OrderIds /\ i = incoming
  BY <1>0, <1>1, <1>2 DEF Matching, BookTypes
<1>4. Done \in Nat /\ Command.seq = Done + 1 /\ Tail(commands) \in Seq(OpenCommand \cup OrderCommand)
  BY <1>0, <1>3, Popped
<1>5. UNCHANGED <<orders, wallets, trades, market>>
  BY <1>2 DEF dbVars
<1>6. /\ e \in EngineEvent /\ ~IsTrade(e)
      /\ \A o : /\ ~TradeOf(e, o) /\ ~Says(e, "OrderCancelled", o) /\ ~Settles(e, o) /\ ~Final(e, o)
                /\ Says(e, "OrderOpened", o) => o = i
      /\ rem[i] > 0 => Says(e, "OrderOpened", i)
  <2>1. e \in EngineEvent
    BY <1>3 DEF EngineEvent, OrderEvent, MarketEvent
  <2>. QED  BY <2>1 DEF IsTrade, TradeOf, Says, Settles, Final
<1>7. Grown(e) /\ events' \in Seq(EngineEvent) /\ (rem[i] > 0 => N' = N + 1) /\ N \in Nat
  <2>1. N \in Nat
    BY <1>0, Queue
  <2>2. CASE rem[i] > 0
    <3>1. Opened = <<e>>
      BY <1>3, <2>2 DEF Opened
    <3>2. Sent(e) /\ events' \in Seq(EngineEvent)
      BY <1>0, <1>2, <1>6, <3>1, SentBatch
    <3>. QED  BY <2>1, <3>2 DEF Sent, Grown
  <2>3. CASE ~(rem[i] > 0)
    <3>1. Opened = <<>>
      BY <1>3, <2>3 DEF Opened
    <3>2. UnderWay' = UnderWay /\ events' \in Seq(EngineEvent)
      BY <1>0, <1>2, <3>1, SentNothing
    <3>3. N' = N
      BY <3>2 DEF N
    <3>. QED  BY <2>1, <2>3, <3>2, <3>3 DEF Grown
  <2>. QED  BY <2>2, <2>3
<1>. HIDE DEF e
<1>8. StreamTypes'
  BY <1>0, <1>2, <1>4, <1>7 DEF StreamTypes
<1>9. BookTypes'
  BY <1>0, <1>2, <1>3 DEF BookTypes
<1>10. Numbering' /\ Placing' /\ Done' = Done + 1
  <2>1. /\ engineState' \in {"READY", "FAILED"} /\ last' \in Nat /\ last' <= Done + 1
        /\ engineState' # "FAILED"
        /\ last = Done /\ (Command.type = "PlaceOrder" => stamp[Command.order] > 0)
    BY <1>2, <1>3, <1>4
  <2>. QED  BY <1>0, <1>2, <1>3, <2>1, Finished
<1>11. Matching'
  <2>1. \A o \in resting' : stamp'[o] > 0 /\ rem'[o] > 0
    BY <1>0, <1>2, <1>3 DEF Matching
  <2>2. /\ Cardinality(resting') <= Cardinality(OrderIds)
        /\ Cardinality(resting') \in Nat /\ Cardinality(OrderIds) \in Nat
    BY <1>9, OrdersAssumption, FS_Subset, FS_CardinalityType DEF BookTypes
  <2>. QED  BY <1>2, <2>1, <2>2 DEF Matching
<1>12. TradesSound'
  BY <1>0, <1>2, <1>6, <1>7, GrownSound
<1>13. Identified'
  <2>1. ASSUME NEW id \in Nat \X Nat, Used(id) PROVE Used(id)'
    <3>1. id[1] \in Nat /\ id[2] \in Nat
      OBVIOUS
    <3>. QED  BY <1>4, <1>10, <2>1, <3>1 DEF Used
  <2>. QED  BY <1>0, <1>5, <1>6, <1>7, <2>1, GrownIdentified
<1>14. ASSUME NEW o \in OrderIds
       PROVE  /\ Gone(o) => Gone(o)'
              /\ Gone(o)' => Gone(o) \/ rem'[o] = 0
  <2>1. CASE o = i
    <3>1. ~Gone(o)
      BY <1>3, <2>1 DEF Gone, Live
    <3>2. Gone(o)' => ~(rem[i] > 0)
      BY <1>2, <2>1 DEF Gone, Live
    <3>3. rem[i] \in Nat /\ rem'[o] = rem[i]
      BY <1>0, <1>2, <2>1 DEF BookTypes
    <3>. QED  BY <3>1, <3>2, <3>3
  <2>2. CASE o # i
    BY <1>2, <1>3, <2>2, NoOrderAssumption DEF Gone, Live
  <2>. QED  BY <2>1, <2>2
<1>15. Answered'
  BY <1>0, <1>2, <1>3, <1>5, <1>6, <1>7, <1>14, GrownAnswered
<1>16. Statuses'
  <2>1. ASSUME NEW o \in OrderIds, orders[o].status = "PENDING", stamp'[o] > 0
        PROVE  \/ stamp[o] > 0 /\ o # incoming
               \/ N' = N + 1 /\ Says(e, "OrderOpened", o)
               \/ \E k \in 1 .. N : TradeOf(UnderWay[k], o)
    <3>1. CASE o # i
      BY <1>2, <1>3, <2>1, <3>1
    <3>2. CASE o = i /\ rem[i] > 0
      BY <1>6, <1>7, <3>2
    <3>3. CASE o = i /\ ~(rem[i] > 0)
      <4>1. rem[o] = 0
        BY <1>0, <3>3 DEF BookTypes
      <4>2. orders[o].remaining # 0
        BY <1>0, <2>1 DEF Statuses, Exists
      <4>3. orders[o].remaining = rem[o] + UnderWayOf(o) /\ UnderWayOf(o) \in Nat
        BY <1>0, <1>2, <2>1, ReconciledIs, TradingIs
      <4>4. UnderWayOf(o) # 0
        BY <4>1, <4>2, <4>3
      <4>. QED  BY <1>0, <4>4, SomethingUnderWay
    <3>. QED  BY <3>1, <3>2, <3>3
  <2>. QED  BY <1>0, <1>5, <1>7, <2>1, GrownStatuses
<1>17. Reconciled'
  <2>. SUFFICES ASSUME NEW o \in OrderIds, stamp'[o] > 0
       PROVE  orders'[o].remaining = rem'[o] + UnderWayOf(o)'
    BY SumOfFunction DEF Reconciled, UnderWayOf
  <2>1. UnderWayOf(o)' = UnderWayOf(o) /\ UnderWayOf(o) \in Nat
    BY <1>0, <1>6, <1>7, <1>8, GrownUnderWay, TradingIs
  <2>. QED  BY <1>0, <1>2, <1>5, <2>1, ReconciledIs
<1>18. SInv' /\ Locks' /\ LockCovers' /\ Escrow'
  BY <1>2, TablesKept
<1>. QED
  BY <1>8, <1>9, <1>10, <1>11, <1>12, <1>13, <1>15, <1>16, <1>17, <1>18 DEF XInv

LEMMA CancelOrderStep == ASSUME XInv, CancelOrder PROVE XInv'
<1>0. /\ SInv /\ BookTypes /\ StreamTypes /\ Numbering /\ Placing /\ Matching /\ TradesSound
      /\ Identified /\ Answered /\ Statuses /\ Reconciled
  BY DEF XInv
<1>1. PICK i \in {Command.order} : TRUE
  OBVIOUS
<1>. DEFINE e == [type |-> "OrderCancelled", order |-> i]
<1>2. /\ commands # <<>> /\ incoming = NoOrder /\ Command.seq = last + 1
      /\ Command.type = "CancelOrder" /\ engineState = "READY" /\ i \in resting
      /\ resting' = resting \ {i} /\ UNCHANGED <<side, price, rem, stamp, now, incoming>>
      /\ last' = Command.seq /\ commands' = Tail(commands) /\ events' = events \o <<e>>
      /\ UNCHANGED <<dbVars, issued, engineState, index, batch>>
  BY <1>1 DEF CancelOrder, Ready, Book!Withdraw, Publish
<1>3. /\ Done \in Nat /\ Command.seq = Done + 1 /\ last \in Nat
      /\ Tail(commands) \in Seq(OpenCommand \cup OrderCommand)
  BY <1>0, <1>2, Popped DEF StreamTypes
<1>4. /\ last = Done /\ i \in OrderIds /\ stamp[i] > 0 /\ rem[i] > 0 /\ batch = <<>> /\ index = 0
      /\ UNCHANGED <<orders, wallets, trades, market>>
  BY <1>0, <1>2, <1>3 DEF BookTypes, Matching, dbVars
<1>5. /\ e \in EngineEvent /\ ~IsTrade(e) /\ Says(e, "OrderCancelled", i)
      /\ \A o : /\ ~TradeOf(e, o) /\ ~Says(e, "OrderOpened", o)
                /\ Says(e, "OrderCancelled", o) => o = i
                /\ Settles(e, o) => o = i
                /\ Final(e, o) => o = i
  <2>1. e \in EngineEvent
    BY <1>4 DEF EngineEvent, OrderEvent
  <2>. QED  BY <2>1 DEF IsTrade, TradeOf, Says, Settles, Final
<1>. HIDE DEF e
<1>6. Grown(e) /\ events' \in Seq(EngineEvent) /\ N' = N + 1 /\ N \in Nat
  <2>1. Sent(e) /\ events' \in Seq(EngineEvent)
    BY <1>0, <1>2, <1>4, <1>5, SentAlone
  <2>. QED  BY <1>0, <2>1, Queue DEF Sent, Grown
<1>7. StreamTypes'
  BY <1>0, <1>2, <1>3, <1>6 DEF StreamTypes
<1>8. BookTypes'
  BY <1>0, <1>2 DEF BookTypes
<1>9. Numbering' /\ Placing' /\ Done' = Done + 1
  <2>1. /\ engineState' \in {"READY", "FAILED"} /\ last' \in Nat /\ last' <= Done + 1
        /\ engineState' # "FAILED" /\ incoming' = NoOrder
        /\ last = Done /\ (Command.type = "PlaceOrder" => stamp[Command.order] > 0)
    BY <1>2, <1>3, <1>4
  <2>. QED  BY <1>0, <1>2, <2>1, Finished
<1>10. Matching'
  <2>1. /\ Cardinality(resting') <= Cardinality(OrderIds)
        /\ Cardinality(resting') \in Nat /\ Cardinality(OrderIds) \in Nat
    BY <1>8, OrdersAssumption, FS_Subset, FS_CardinalityType DEF BookTypes
  <2>. QED  BY <1>0, <1>2, <1>4, <2>1 DEF Matching
<1>11. TradesSound'
  BY <1>0, <1>2, <1>5, <1>6, GrownSound
<1>12. Identified'
  <2>1. ASSUME NEW id \in Nat \X Nat, Used(id) PROVE Used(id)'
    <3>1. id[1] \in Nat /\ id[2] \in Nat
      OBVIOUS
    <3>. QED  BY <1>3, <1>9, <2>1, <3>1 DEF Used
  <2>. QED  BY <1>0, <1>4, <1>5, <1>6, <2>1, GrownIdentified
<1>13. ASSUME NEW o \in OrderIds
       PROVE  /\ Gone(o) => Gone(o)' /\ o # i
              /\ o = i => Gone(o)'
              /\ Gone(o)' => Gone(o) \/ o = i
  BY <1>2, <1>4, NoOrderAssumption DEF Gone, Live
<1>14. Answered'
  <2>1. ASSUME NEW o \in OrderIds
        PROVE  /\ stamp[o] > 0 => stamp'[o] > 0
               /\ Gone(o) => Gone(o)' /\ rem'[o] = rem[o] /\ ~Settles(e, o)
               /\ Final(e, o) => Gone(o)'
               /\ Says(e, "OrderCancelled", o) => rem'[o] > 0
               /\ Says(e, "OrderOpened", o) => stamp'[o] > 0
               /\ Gone(o)' => \/ Gone(o) \/ rem'[o] = 0
                              \/ (N' = N + 1 /\ Says(e, "OrderCancelled", o))
    BY <1>2, <1>4, <1>5, <1>6, <1>13
  <2>. QED  BY <1>0, <1>4, <1>5, <1>6, <2>1, GrownAnswered
<1>15. Statuses'
  BY <1>0, <1>2, <1>4, <1>6, GrownStatuses
<1>16. Reconciled'
  <2>. SUFFICES ASSUME NEW o \in OrderIds, stamp'[o] > 0
       PROVE  orders'[o].remaining = rem'[o] + UnderWayOf(o)'
    BY SumOfFunction DEF Reconciled, UnderWayOf
  <2>1. UnderWayOf(o)' = UnderWayOf(o) /\ UnderWayOf(o) \in Nat
    BY <1>0, <1>5, <1>6, <1>7, GrownUnderWay, TradingIs
  <2>. QED  BY <1>0, <1>2, <1>4, <2>1, ReconciledIs
<1>17. SInv' /\ Locks' /\ LockCovers' /\ Escrow'
  BY <1>2, TablesKept
<1>. QED
  BY <1>7, <1>8, <1>9, <1>10, <1>11, <1>12, <1>14, <1>15, <1>16, <1>17 DEF XInv

-----------------------------------------------------------------------------
(* The backend takes the event at the head of the queue.                   *)

LEMMA TakenSound ==
  ASSUME StreamTypes, TradesSound, Taken1, UNCHANGED <<stamp, side, price>>
  PROVE  TradesSound'
<1>1. ASSUME NEW i \in 1 .. N', NEW x \in {UnderWay'[i]}, IsTrade(x) PROVE SoundTrade(x)'
  <2>1. i + 1 \in 1 .. N /\ x = UnderWay[i + 1]
    BY <1>1 DEF Taken1
  <2>2. SoundTrade(x)
    BY <1>1, <2>1 DEF TradesSound
  <2>. QED  BY <2>2 DEF SoundTrade
<1>. QED  BY <1>1 DEF TradesSound

LEMMA TakenIdentified ==
  ASSUME StreamTypes, Identified, Taken1, NEW e \in EngineEvent, e = UnderWay[1],
         UNCHANGED <<issued, commands, index>>,
         \A t \in trades' : t \in trades \/ (IsTrade(e) /\ t.engineMatchId = e.engineMatchId)
  PROVE  Identified'
<1>1. \A i \in 1 .. N' : i + 1 \in 1 .. N /\ i + 1 # 1 /\ UnderWay'[i] = UnderWay[i + 1]
  BY DEF Taken1
<1>2. 1 \in 1 .. N /\ \A i \in 1 .. N' : i \in Int
  BY DEF Taken1
<1>3. \A id : Used(id)' <=> Used(id)
  BY DEF Used, Done
<1>4. ASSUME NEW t \in trades', NEW id \in {t.engineMatchId}
      PROVE  id \in Nat \X Nat /\ Used(id)'
  <2>1. CASE t \in trades
    BY <1>3, <1>4, <2>1 DEF Identified
  <2>2. CASE IsTrade(e) /\ t.engineMatchId = e.engineMatchId
    <3>1. id \in Nat \X Nat
      BY <2>2, TradeEvents
    <3>. QED  BY <1>2, <1>3, <1>4, <2>2, <3>1 DEF Identified
  <2>. QED  BY <2>1, <2>2
<1>5. ASSUME NEW i \in 1 .. N', NEW x \in {UnderWay'[i]}, IsTrade(x)
      PROVE  /\ \A id \in {x.engineMatchId} : Used(id)'
             /\ \A t \in trades' : t.engineMatchId # x.engineMatchId
             /\ \A j \in 1 .. N' : j # i /\ IsTrade(UnderWay'[j]) =>
                  UnderWay'[j].engineMatchId # x.engineMatchId
  <2>1. x = UnderWay[i + 1] /\ i + 1 \in 1 .. N /\ i + 1 # 1
    BY <1>1
  <2>2. \A id \in {x.engineMatchId} : Used(id)
    BY <1>5, <2>1 DEF Identified
  <2>3. IsTrade(e) => e.engineMatchId # x.engineMatchId
    BY <1>2, <1>5, <2>1 DEF Identified
  <2>4. \A t \in trades : t.engineMatchId # x.engineMatchId
    BY <1>5, <2>1 DEF Identified
  <2>5. ASSUME NEW j \in 1 .. N', j # i, IsTrade(UnderWay'[j])
        PROVE  UnderWay'[j].engineMatchId # x.engineMatchId
    <3>1. j + 1 \in 1 .. N /\ j + 1 # i + 1 /\ UnderWay'[j] = UnderWay[j + 1]
      BY <1>1, <1>2, <2>5
    <3>. QED  BY <1>5, <2>1, <2>5, <3>1 DEF Identified
  <2>. QED  BY <1>3, <2>2, <2>3, <2>4, <2>5
<1>. QED  BY <1>4, <1>5 DEF Identified

LEMMA TakenAnswered ==
  ASSUME StreamTypes, Answered, Taken1, NEW e, e = UnderWay[1],
         UNCHANGED <<stamp, rem, incoming, resting>>,
         \A o \in OrderIds : orders'[o].status = "CANCELLED" <=>
           orders[o].status = "CANCELLED" \/ Says(e, "OrderCancelled", o)
  PROVE  Answered'
<1>1. \A i \in 1 .. N' : i + 1 \in 1 .. N /\ UnderWay'[i] = UnderWay[i + 1]
  BY DEF Taken1
<1>2. 1 \in 1 .. N /\ N \in Nat /\ N' = N - 1
  BY DEF Taken1
<1>3. \A o : Gone(o)' <=> Gone(o)
  BY DEF Gone, Live
<1>4. ASSUME NEW o \in OrderIds, NEW k \in 0 .. N, Silent(o, k) \/ Silent(o, k + 1)
      PROVE  Silent(o, k)'
  <2>1. ASSUME NEW j \in 1 .. N', j > k PROVE ~Settles(UnderWay'[j], o)
    <3>1. j + 1 \in 1 .. N /\ UnderWay'[j] = UnderWay[j + 1] /\ j + 1 > k + 1 /\ j + 1 > k
      BY <1>1, <2>1
    <3>. QED  BY <1>4, <3>1 DEF Silent
  <2>. QED  BY <2>1 DEF Silent, Settles, TradeOf, Says, IsTrade
<1>5. ASSUME NEW i \in 1 .. N', NEW o \in OrderIds
      PROVE  /\ Final(UnderWay'[i], o) => Gone(o)' /\ Silent(o, i)'
             /\ Says(UnderWay'[i], "OrderCancelled", o) => rem'[o] > 0
             /\ Says(UnderWay'[i], "OrderOpened", o) => stamp'[o] > 0
  <2>1. i + 1 \in 1 .. N /\ UnderWay'[i] = UnderWay[i + 1] /\ i \in 0 .. N
    BY <1>1, <1>2
  <2>2. /\ Final(UnderWay[i + 1], o) => Gone(o) /\ Silent(o, i + 1)
        /\ Says(UnderWay[i + 1], "OrderCancelled", o) => rem[o] > 0
        /\ Says(UnderWay[i + 1], "OrderOpened", o) => stamp[o] > 0
    BY <2>1 DEF Answered
  <2>. QED  BY <1>3, <1>4, <2>1, <2>2
<1>6. ASSUME NEW o \in OrderIds, orders'[o].status = "CANCELLED"
      PROVE  Gone(o)' /\ Silent(o, 0)' /\ rem'[o] > 0
  <2>1. CASE orders[o].status = "CANCELLED"
    <3>1. Gone(o) /\ Silent(o, 0) /\ rem[o] > 0
      BY <2>1 DEF Answered
    <3>. QED  BY <1>2, <1>3, <1>4, <3>1
  <2>2. CASE Says(e, "OrderCancelled", o)
    <3>1. Gone(o) /\ Silent(o, 0 + 1) /\ rem[o] > 0
      BY <1>2, <2>2 DEF Answered, Final
    <3>2. 0 \in 0 .. N
      BY <1>2
    <3>. QED  BY <1>3, <1>4, <3>1, <3>2
  <2>. QED  BY <1>6, <2>1, <2>2
<1>7. ASSUME NEW o \in OrderIds, Gone(o)'
      PROVE  rem'[o] = 0 \/ orders'[o].status = "CANCELLED" \/ CancelSent(o)'
  <2>1. rem[o] = 0 \/ orders[o].status = "CANCELLED" \/ CancelSent(o)
    BY <1>3, <1>7 DEF Answered
  <2>2. ASSUME CancelSent(o), ~Says(e, "OrderCancelled", o) PROVE CancelSent(o)'
    <3>1. PICK i \in 1 .. N : Says(UnderWay[i], "OrderCancelled", o)
      BY <2>2 DEF CancelSent
    <3>2. i # 1
      BY <2>2, <3>1
    <3>3. i - 1 \in 1 .. N' /\ (i - 1) + 1 = i
      BY <1>2, <3>2
    <3>4. Says(UnderWay'[i - 1], "OrderCancelled", o)
      BY <1>1, <3>1, <3>3
    <3>. QED  BY <3>3, <3>4 DEF CancelSent, Says
  <2>. QED  BY <2>1, <2>2
<1>. QED  BY <1>5, <1>6, <1>7 DEF Answered, Final, Says

LEMMA TakenStatuses ==
  ASSUME StreamTypes, Statuses, Taken1, NEW e, e = UnderWay[1],
         UNCHANGED <<stamp, incoming>>,
         \A o \in OrderIds :
           /\ orders'[o].status # "REJECTED"
           /\ Exists(o)' => (orders'[o].remaining = 0 <=> orders'[o].status = "FILLED")
           /\ orders'[o].status = "PENDING" =>
                orders[o].status = "PENDING" /\ ~Says(e, "OrderOpened", o) /\ ~TradeOf(e, o)
  PROVE  Statuses'
<1>1. 1 \in 1 .. N /\ N \in Nat /\ N' = N - 1 /\ \A i \in 1 .. N - 1 : UnderWay'[i] = UnderWay[i + 1]
  BY DEF Taken1
<1>2. ASSUME NEW o \in OrderIds, orders'[o].status = "PENDING", stamp'[o] > 0, o # incoming'
      PROVE  Heard(o)'
  <2>1. Heard(o)
    BY <1>2 DEF Statuses
  <2>2. PICK i \in 1 .. N : Says(UnderWay[i], "OrderOpened", o) \/ TradeOf(UnderWay[i], o)
    BY <2>1 DEF Heard
  <2>3. i # 1
    BY <1>2, <2>2
  <2>4. i - 1 \in 1 .. N' /\ i - 1 \in 1 .. N - 1 /\ (i - 1) + 1 = i
    BY <1>1, <2>3
  <2>5. UnderWay'[i - 1] = UnderWay[i]
    BY <1>1, <2>4
  <2>6. Says(UnderWay'[i - 1], "OrderOpened", o) \/ TradeOf(UnderWay'[i - 1], o)
    BY <2>2, <2>5
  <2>. QED  BY <2>4, <2>6 DEF Heard, Says, TradeOf, IsTrade
<1>. QED  BY <1>2 DEF Statuses

(* What a transaction must do for its event: settle the queue's entry, and *)
(* nothing for an order that the engine has not seen.                      *)
Applies(e) ==
  /\ \A o \in OrderIds :
       /\ stamp[o] = 0 => orders'[o] = orders[o]
       /\ Exists(o)' <=> Exists(o)
       /\ orders'[o].side = orders[o].side /\ orders'[o].price = orders[o].price
       /\ orders'[o].remaining = orders[o].remaining - (IF TradeOf(e, o) THEN e.quantity ELSE 0)
       /\ orders'[o].status # "REJECTED"
       /\ orders'[o].status = "CANCELLED" <=>
            orders[o].status = "CANCELLED" \/ Says(e, "OrderCancelled", o)
       /\ orders'[o].status = "PENDING" =>
            orders[o].status = "PENDING" /\ ~Says(e, "OrderOpened", o) /\ ~TradeOf(e, o)
       /\ Exists(o)' => (orders'[o].remaining = 0 <=> orders'[o].status = "FILLED")
  /\ \A t \in trades' : t \in trades \/ (IsTrade(e) /\ t.engineMatchId = e.engineMatchId)

LEMMA AppliedStep ==
  ASSUME XInv, events # <<>>, events' = Tail(events),
         UNCHANGED <<bookVars, engineVars, issued, commands>>,
         NEW e, e = Event, Applies(e),
         SInv', Locks', LockCovers', Escrow'
  PROVE  XInv'
<1>0. /\ BookTypes /\ StreamTypes /\ Numbering /\ Placing /\ Matching /\ TradesSound
      /\ Identified /\ Answered /\ Statuses /\ Reconciled /\ SInv
  BY DEF XInv
<1>1. /\ UNCHANGED <<side, price, rem, stamp, now, incoming, resting>>
      /\ UNCHANGED <<engineState, last, index, batch, issued, commands>>
  BY DEF bookVars, engineVars
<1>2. Taken1 /\ e = UnderWay[1] /\ e \in EngineEvent /\ events' \in Seq(EngineEvent)
  BY <1>0, <1>1, TakenHead
<1>3. StreamTypes' /\ BookTypes'
  BY <1>0, <1>1, <1>2 DEF StreamTypes, BookTypes
<1>4. N # 0 /\ UnderWay # <<>>
  <2>1. N # 0
    BY <1>2 DEF Taken1
  <2>. QED  BY <2>1 DEF N
<1>5. engineState # "RECOVERING"
  BY <1>0, <1>4 DEF Numbering
<1>6. Numbering'
  <2>1. ASSUME NEW i \in 1 .. Len(commands), commands[i].type # "OpenMarket"
        PROVE  orders'[commands[i].order].status # "NONE"
    <3>1. Exists(commands[i].order)
      BY <1>0, <2>1 DEF Numbering
    <3>2. commands[i].order \in OrderIds
      BY <1>0, <2>1 DEF StreamTypes, OpenCommand, OrderCommand
    <3>. QED  BY <3>1, <3>2 DEF Applies, Exists
  <2>. QED  BY <1>0, <1>1, <1>5, <2>1 DEF Numbering, Done, Exists
<1>7. Placing'
  <2>1. ASSUME NEW o \in OrderIds, stamp[o] = 0
        PROVE  (Exists(o)' <=> Exists(o)) /\ (Untouched(o)' <=> Untouched(o))
    BY <2>1 DEF Applies, Exists, Untouched
  <2>2. ASSUME NEW o \in OrderIds, stamp[o] > 0
        PROVE  Exists(o)' /\ side[o] = orders'[o].side /\ price[o] = orders'[o].price
    <3>1. Exists(o) /\ side[o] = orders[o].side /\ price[o] = orders[o].price
      BY <1>0, <2>2 DEF Placing
    <3>. QED  BY <3>1 DEF Applies
  <2>. QED  BY <1>0, <1>1, <2>1, <2>2 DEF Placing, Command, Done
<1>8. Matching'
  BY <1>0, <1>1 DEF Matching, Command, Done
<1>9. TradesSound'
  BY <1>0, <1>1, <1>2, TakenSound
<1>10. Identified'
  BY <1>0, <1>1, <1>2, TakenIdentified DEF Applies
<1>11. Answered'
  BY <1>0, <1>1, <1>2, TakenAnswered DEF Applies
<1>12. Statuses'
  BY <1>0, <1>1, <1>2, TakenStatuses DEF Applies
<1>13. Reconciled'
  <2>. SUFFICES ASSUME NEW o \in OrderIds, stamp'[o] > 0
       PROVE  orders'[o].remaining = rem'[o] + UnderWayOf(o)'
    BY SumOfFunction DEF Reconciled, UnderWayOf
  <2>1. UnderWayOf(o) = UnderWayOf(o)' + (IF TradeOf(e, o) THEN e.quantity ELSE 0)
    BY <1>0, <1>2, <1>3, TakenUnderWay
  <2>2. UnderWayOf(o)' \in Int
    <3>1. UnderWayOf(o) \in Nat /\ (TradeOf(e, o) => e.quantity \in Nat)
      BY <1>0, <1>2, TradingIs, TradeEvents DEF TradeOf
    <3>2. UnderWayOf(o)' \in Nat
      <4>1. /\ IsFiniteSet(Trading(o)') /\ Trading(o)' \subseteq 1 .. N'
            /\ \A i \in 1 .. N' : UnderWay'[i] \in EngineEvent
            /\ \A i \in Trading(o)' : IsTrade(UnderWay'[i])
        <5>1. UnderWay' \in Seq(EngineEvent)
          BY <1>3, ConcatProperties DEF StreamTypes, UnderWay
        <5>2. N' \in Nat /\ \A i \in 1 .. N' : UnderWay'[i] \in EngineEvent
          BY <5>1 DEF N
        <5>3. Trading(o)' \subseteq 1 .. N' /\ \A i \in Trading(o)' : IsTrade(UnderWay'[i])
          BY DEF Trading, N, IsTrade
        <5>4. IsFiniteSet(1 .. N')
          BY <5>2, FS_Interval
        <5>5. IsFiniteSet(Trading(o)')
          BY <5>3, <5>4, FS_Subset
        <5>. QED  BY <5>2, <5>3, <5>5
      <4>. DEFINE g == [i \in Trading(o)' |-> UnderWay'[i].quantity]
      <4>2. \A i \in Trading(o)' : g[i] \in Nat
        BY <4>1, TradeEvents
      <4>3. UnderWayOf(o)' = Sum(g, Trading(o)')
        BY DEF UnderWayOf
      <4>. HIDE DEF g
      <4>. QED  BY <4>1, <4>2, <4>3, SumNatural
    <3>. QED  BY <3>2
  <2>3. orders[o].remaining = rem[o] + UnderWayOf(o) /\ rem[o] \in Nat
    BY <1>0, <1>1, ReconciledIs DEF BookTypes
  <2>4. TradeOf(e, o) => e.quantity \in Nat
    BY <1>2, TradeEvents DEF TradeOf
  <2>5. orders'[o].remaining = orders[o].remaining - (IF TradeOf(e, o) THEN e.quantity ELSE 0)
    BY DEF Applies
  <2>. QED  BY <1>1, <2>1, <2>2, <2>3, <2>4, <2>5
<1>. QED
  BY <1>3, <1>6, <1>7, <1>8, <1>9, <1>10, <1>11, <1>12, <1>13 DEF XInv

-----------------------------------------------------------------------------
(* What the orders of a user have locked.                                  *)

HeldFor(u, a) == Sum([o \in OrdersLocking(u, a) |-> orders[o].locked], OrdersLocking(u, a))

LEMMA EscrowIs ==
  Escrow <=> \A u \in Users, a \in Asset : wallets[u][a].locked = HeldFor(u, a)
<1>1. \A u, a : SumFunction([o \in OrdersLocking(u, a) |-> orders[o].locked]) = HeldFor(u, a)
  BY SumOfFunction DEF HeldFor
<1>. QED  BY <1>1 DEF Escrow

LEMMA HeldTypes ==
  ASSUME Locks, NEW u, NEW a
  PROVE  /\ IsFiniteSet(OrdersLocking(u, a)) /\ OrdersLocking(u, a) \subseteq OrderIds
         /\ HeldFor(u, a) \in Nat
         /\ \A o \in OrdersLocking(u, a) : orders[o].locked <= HeldFor(u, a)
<1>. DEFINE S == OrdersLocking(u, a)
            f == [o \in S |-> orders[o].locked]
<1>1. S \subseteq OrderIds /\ IsFiniteSet(S)
  BY OrdersAssumption, FS_Subset DEF OrdersLocking
<1>2. \A o \in S : f[o] \in Nat /\ f[o] = orders[o].locked
  BY <1>1 DEF Locks
<1>3. HeldFor(u, a) = Sum(f, S)
  BY DEF HeldFor
<1>. HIDE DEF f, S
<1>4. Sum(f, S) \in Nat /\ \A o \in S : f[o] <= Sum(f, S)
  BY <1>1, <1>2, SumNatural
<1>. QED  BY <1>1, <1>2, <1>3, <1>4 DEF S

(* One order of those that count for u and a has another lock.             *)
LEMMA HeldChanged ==
  ASSUME TypeOK, TypeOK', NEW u, NEW a, NEW k \in OrderIds,
         \A o \in OrderIds : orders'[o].owner = orders[o].owner /\ orders'[o].side = orders[o].side,
         \A o \in OrdersLocking(u, a) : o # k => orders'[o].locked = orders[o].locked
  PROVE  HeldFor(u, a)' = HeldFor(u, a) +
           (IF k \in OrdersLocking(u, a) THEN orders'[k].locked - orders[k].locked ELSE 0)
<1>. DEFINE S == OrdersLocking(u, a)
            f == [o \in S |-> orders[o].locked]
            g == [o \in S |-> orders'[o].locked]
<1>1. OrdersLocking(u, a)' = S
  BY DEF OrdersLocking
<1>2. S \subseteq OrderIds /\ IsFiniteSet(S)
  BY OrdersAssumption, FS_Subset DEF OrdersLocking
<1>3. \A o \in OrderIds : orders[o].locked \in Int /\ orders'[o].locked \in Int
  BY DEF TypeOK, OrderRow
<1>4. \A o \in S : /\ f[o] = orders[o].locked /\ f[o] \in Int
                   /\ g[o] = orders'[o].locked /\ g[o] \in Int
                   /\ o # k => f[o] = g[o]
  BY <1>2, <1>3
<1>5. HeldFor(u, a) = Sum(f, S) /\ HeldFor(u, a)' = Sum(g, S)
  BY <1>1 DEF HeldFor
<1>. HIDE DEF f, g, S
<1>6. Sum(f, S) \in Int
  BY <1>2, <1>4, SumType
<1>7. CASE k \in S
  <2>1. \A o \in S : f[o] \in Int /\ g[o] \in Int
    BY <1>4
  <2>2. \A o \in S : o # k => f[o] = g[o]
    BY <1>4
  <2>3. IsFiniteSet(S)
    BY <1>2
  <2>4. Sum(g, S) = Sum(f, S) + (g[k] - f[k])
    BY <1>7, <2>1, <2>2, <2>3, SumUpdate
  <2>. QED  BY <1>4, <1>5, <1>7, <2>4 DEF S
<1>8. CASE k \notin S
  <2>1. Sum(f, S) = Sum(g, S)
    BY <1>2, <1>4, <1>8, SumSame
  <2>. QED  BY <1>5, <1>6, <1>8, <2>1 DEF S
<1>. QED  BY <1>7, <1>8

(* A transaction that changes only statuses, between those with a lock.    *)
LEMMA StatusesOnly ==
  ASSUME XInv, SInv', UNCHANGED wallets,
         \A o \in OrderIds :
           /\ orders'[o].owner = orders[o].owner /\ orders'[o].side = orders[o].side
           /\ orders'[o].price = orders[o].price /\ orders'[o].remaining = orders[o].remaining
           /\ orders'[o].locked = orders[o].locked
           /\ orders'[o].status = "NONE" <=> orders[o].status = "NONE"
           /\ orders'[o].status = "CANCELLED" <=> orders[o].status = "CANCELLED"
  PROVE  Locks' /\ LockCovers' /\ Escrow'
<1>1. Locks' /\ LockCovers'
  BY DEF XInv, Locks, LockCovers
<1>2. Escrow'
  <2>. SUFFICES ASSUME NEW u \in Users, NEW a \in Asset PROVE wallets'[u][a].locked = HeldFor(u, a)'
    BY SumOfFunction DEF Escrow, HeldFor
  <2>1. OrdersLocking(u, a)' = OrdersLocking(u, a)
    BY DEF OrdersLocking
  <2>2. [o \in OrdersLocking(u, a) |-> orders'[o].locked] = [o \in OrdersLocking(u, a) |-> orders[o].locked]
    BY DEF OrdersLocking
  <2>3. HeldFor(u, a)' = HeldFor(u, a)
    BY <2>1, <2>2 DEF HeldFor
  <2>. QED  BY <2>3, EscrowIs DEF XInv
<1>. QED  BY <1>1, <1>2

-----------------------------------------------------------------------------
(* Each event.                                                             *)

(* The consumer takes the event at the head and nothing else of the stream *)
(* or of the engine changes.                                               *)
Takes == /\ events # <<>> /\ events' = Tail(events)
         /\ UNCHANGED <<bookVars, engineVars, issued, commands>>

LEMMA HeadIs ==
  ASSUME XInv, Takes
  PROVE  /\ Event = UnderWay[1] /\ Event \in EngineEvent /\ N \in Nat /\ 1 \in 1 .. N
<1>1. StreamTypes /\ batch' = batch
  BY DEF XInv, Takes, engineVars
<1>2. Taken1 /\ Event = UnderWay[1] /\ Event \in EngineEvent
  BY <1>1, TakenHead DEF Takes
<1>. QED  BY <1>2 DEF Taken1

LEMMA MarketStep ==
  ASSUME XInv, Takes, Event.type \in {"MarketOpened", "EngineFailed"},
         NEW status \in {"READY", "SUSPENDED"}, setMarket(status)
  PROVE  XInv'
<1>1. PICK e \in EngineEvent : e = Event
  BY HeadIs
<1>2. UNCHANGED <<orders, wallets, trades>>
  BY DEF setMarket
<1>3. SInv'
  BY StepSettled DEF XInv, Next
<1>4. Locks' /\ LockCovers' /\ Escrow'
  BY <1>2, <1>3, StatusesOnly
<1>5. /\ ~IsTrade(e)
      /\ \A o : ~TradeOf(e, o) /\ ~Says(e, "OrderCancelled", o) /\ ~Says(e, "OrderOpened", o)
  BY <1>1 DEF TradeOf, IsTrade, Says
<1>6. \A o \in OrderIds : orders[o].remaining \in Nat
  BY DEF XInv, SInv, TypeOK, OrderRow
<1>7. Applies(e)
  BY <1>2, <1>5, <1>6 DEF Applies, XInv, Statuses, Exists
<1>. QED  BY <1>1, <1>3, <1>4, <1>7, AppliedStep DEF Takes

(* OrderOpened is about an order of the book, and one that is PENDING has  *)
(* something left.                                                         *)
LEMMA OrderOpenedStep ==
  ASSUME XInv, Takes, Event.type = "OrderOpened", fromPending(Event.order, "OPEN")
  PROVE  XInv'
<1>1. PICK e \in EngineEvent : e = Event
  BY HeadIs
<1>2. e.order \in OrderIds /\ e.type = "OrderOpened"
  BY <1>1 DEF EngineEvent, TradeEvent, OrderEvent, MarketEvent
<1>3. PICK k \in OrderIds : k = e.order
  BY <1>2
<1>4. stamp[k] > 0
  BY <1>1, <1>2, <1>3, HeadIs DEF XInv, Answered, Says
<1>5. orders' = [orders EXCEPT ![k].status = IF @ = "PENDING" THEN "OPEN" ELSE @]
      /\ UNCHANGED <<wallets, trades, market>>
  BY <1>1, <1>3 DEF fromPending
<1>6. SInv'
  <2>1. fromPending(k, "OPEN")
    BY <1>1, <1>3
  <2>2. Next
    BY <2>1 DEF Next
  <2>. QED  BY <2>2, StepSettled DEF XInv
<1>7. orders \in [OrderIds -> OrderRow] /\ \A o \in OrderIds : orders[o].remaining \in Nat
  BY DEF XInv, SInv, TypeOK, OrderRow
<1>8. /\ orders'[k] = [orders[k] EXCEPT !.status = IF @ = "PENDING" THEN "OPEN" ELSE @]
      /\ \A o \in OrderIds : o # k => orders'[o] = orders[o]
  BY <1>5, <1>7
<1>9. /\ orders'[k].owner = orders[k].owner /\ orders'[k].side = orders[k].side
      /\ orders'[k].price = orders[k].price /\ orders'[k].remaining = orders[k].remaining
      /\ orders'[k].locked = orders[k].locked
      /\ orders'[k].status = IF orders[k].status = "PENDING" THEN "OPEN" ELSE orders[k].status
  BY <1>7, <1>8 DEF OrderRow
<1>10. Locks' /\ LockCovers' /\ Escrow'
  BY <1>5, <1>6, <1>8, <1>9, StatusesOnly
<1>11. /\ ~IsTrade(e)
       /\ \A o : ~TradeOf(e, o) /\ ~Says(e, "OrderCancelled", o) /\ (Says(e, "OrderOpened", o) => o = k)
  BY <1>2, <1>3 DEF TradeOf, IsTrade, Says
<1>12. Applies(e)
  BY <1>4, <1>5, <1>7, <1>8, <1>9, <1>11 DEF Applies, XInv, Statuses, Exists
<1>. QED  BY <1>1, <1>6, <1>10, <1>12, AppliedStep DEF Takes

(* A rejected cancel is of an order that has left the book.                *)
LEMMA CancelRejectedStep ==
  ASSUME XInv, Takes, Event.type = "CancelOrderRejected", handleCancelOrderRejected(Event.order)
  PROVE  XInv'
<1>1. PICK e \in EngineEvent : e = Event
  BY HeadIs
<1>2. e.order \in OrderIds /\ e.type = "CancelOrderRejected"
  BY <1>1 DEF EngineEvent, TradeEvent, OrderEvent, MarketEvent
<1>3. PICK k \in OrderIds : k = e.order
  BY <1>2
<1>4. stamp[k] > 0
  BY <1>1, <1>2, <1>3, HeadIs DEF XInv, Answered, Final, Gone, Says
<1>. DEFINE reverted == IF orders[k].filled > 0 THEN "PARTIALLY_FILLED" ELSE "OPEN"
<1>5. orders' = [orders EXCEPT ![k].status = IF @ # "CANCEL_PENDING" THEN @ ELSE reverted]
      /\ UNCHANGED <<wallets, trades, market>>
  BY <1>1, <1>3 DEF handleCancelOrderRejected
<1>6. SInv'
  <2>1. handleCancelOrderRejected(k)
    BY <1>1, <1>3
  <2>2. Next
    BY <2>1 DEF Next
  <2>. QED  BY <2>2, StepSettled DEF XInv
<1>7. orders \in [OrderIds -> OrderRow] /\ \A o \in OrderIds : orders[o].remaining \in Nat
  BY DEF XInv, SInv, TypeOK, OrderRow
<1>8. /\ orders'[k] = [orders[k] EXCEPT !.status = IF @ # "CANCEL_PENDING" THEN @ ELSE reverted]
      /\ \A o \in OrderIds : o # k => orders'[o] = orders[o]
  BY <1>5, <1>7
<1>9. /\ orders'[k].owner = orders[k].owner /\ orders'[k].side = orders[k].side
      /\ orders'[k].price = orders[k].price /\ orders'[k].remaining = orders[k].remaining
      /\ orders'[k].locked = orders[k].locked
      /\ orders'[k].status = orders[k].status
           \/ (orders[k].status = "CANCEL_PENDING" /\ orders'[k].status \in {"PARTIALLY_FILLED", "OPEN"})
  BY <1>7, <1>8 DEF OrderRow
<1>10. Locks' /\ LockCovers' /\ Escrow'
  BY <1>5, <1>6, <1>8, <1>9, StatusesOnly
<1>11. /\ ~IsTrade(e)
       /\ \A o : ~TradeOf(e, o) /\ ~Says(e, "OrderCancelled", o) /\ ~Says(e, "OrderOpened", o)
  BY <1>2, <1>3 DEF TradeOf, IsTrade, Says
<1>12. Applies(e)
  BY <1>4, <1>5, <1>7, <1>8, <1>9, <1>11 DEF Applies, XInv, Statuses, Exists
<1>. QED  BY <1>1, <1>6, <1>10, <1>12, AppliedStep DEF Takes

(* A cancelled order has something left, and its lock is in its owner's    *)
(* wallet.                                                                 *)
LEMMA OrderCancelledStep ==
  ASSUME XInv, Takes, Event.type = "OrderCancelled", handleOrderCancelled(Event.order)
  PROVE  XInv'
<1>1. PICK e \in EngineEvent : e = Event
  BY HeadIs
<1>2. e.order \in OrderIds /\ e.type = "OrderCancelled"
  BY <1>1 DEF EngineEvent, TradeEvent, OrderEvent, MarketEvent
<1>3. PICK k \in OrderIds : k = e.order
  BY <1>2
<1>4. stamp[k] > 0 /\ rem[k] > 0
  BY <1>1, <1>2, <1>3, HeadIs DEF XInv, Answered, Final, Gone, Says
<1>5. Exists(k) /\ orders[k].owner \in Users
  BY <1>4 DEF XInv, Placing, SInv, Ownership
<1>6. /\ orders' = [orders EXCEPT ![k].status = "CANCELLED", ![k].locked = 0]
      /\ wallets' = Released(k) /\ UNCHANGED <<trades, market>>
  BY <1>1, <1>3 DEF handleOrderCancelled
<1>7. SInv'
  <2>1. handleOrderCancelled(k)
    BY <1>1, <1>3
  <2>. QED  BY <2>1, CancelledSettled DEF XInv
<1>8. /\ orders \in [OrderIds -> OrderRow] /\ \A o \in OrderIds : orders[o].remaining \in Nat
      /\ wallets \in Wallets /\ TypeOK /\ TypeOK'
  BY <1>7 DEF XInv, SInv, TypeOK, OrderRow, Wallets, Balance
<1>9. /\ orders'[k] = [orders[k] EXCEPT !.status = "CANCELLED", !.locked = 0]
      /\ \A o \in OrderIds : o # k => orders'[o] = orders[o]
  BY <1>6, <1>8
<1>10. /\ orders'[k].owner = orders[k].owner /\ orders'[k].side = orders[k].side
       /\ orders'[k].price = orders[k].price /\ orders'[k].remaining = orders[k].remaining
       /\ orders'[k].locked = 0 /\ orders'[k].status = "CANCELLED"
  BY <1>8, <1>9 DEF OrderRow
<1>11. orders[k].remaining # 0
  <2>1. StreamTypes /\ Reconciled /\ rem[k] \in Nat
    BY DEF XInv, BookTypes
  <2>2. orders[k].remaining = rem[k] + UnderWayOf(k) /\ UnderWayOf(k) \in Nat
    BY <1>4, <2>1, ReconciledIs, TradingIs
  <2>. QED  BY <1>4, <2>1, <2>2
<1>12. Locks' /\ LockCovers'
  <2>1. Locks /\ LockCovers
    BY DEF XInv
  <2>2. Locks'
    <3>. SUFFICES ASSUME NEW o \in OrderIds
         PROVE  /\ orders'[o].locked \in Nat
                /\ orders'[o].status \in {"NONE", "CANCELLED"} => orders'[o].locked = 0
                /\ orders'[o].status = "NONE" => orders'[o].owner = Treasury
      BY DEF Locks
    <3>1. CASE o = k
      BY <1>10, <3>1
    <3>2. CASE o # k
      <4>1. orders'[o] = orders[o]
        BY <1>9, <3>2
      <4>. QED  BY <2>1, <4>1 DEF Locks
    <3>. QED  BY <3>1, <3>2
  <2>3. \A o \in OrderIds : orders'[o].status \notin {"NONE", "CANCELLED"} => o # k /\ orders'[o] = orders[o]
    BY <1>9, <1>10
  <2>4. LockCovers'
    BY <2>1, <2>3 DEF LockCovers
  <2>. QED  BY <2>2, <2>4
<1>13. Escrow'
  <2>. SUFFICES ASSUME NEW u \in Users, NEW a \in Asset PROVE wallets'[u][a].locked = HeldFor(u, a)'
    BY SumOfFunction DEF Escrow, HeldFor
  <2>1. wallets[u][a].locked = HeldFor(u, a)
    BY EscrowIs DEF XInv
  <2>2. \A o \in OrderIds : orders'[o].owner = orders[o].owner /\ orders'[o].side = orders[o].side
    BY <1>9, <1>10
  <2>3. \A o \in OrdersLocking(u, a) : o # k => orders'[o].locked = orders[o].locked
    BY <1>9 DEF OrdersLocking
  <2>4. HeldFor(u, a)' = HeldFor(u, a) +
          (IF k \in OrdersLocking(u, a) THEN orders'[k].locked - orders[k].locked ELSE 0)
    BY <1>8, <2>2, <2>3, HeldChanged
  <2>5. k \in OrdersLocking(u, a) <=> (u = orders[k].owner /\ a = LockedAsset(orders[k].side))
    BY DEF OrdersLocking
  <2>6. orders[k].locked \in Nat /\ HeldFor(u, a) \in Nat
    BY HeldTypes DEF XInv, Locks
  <2>7. wallets'[u][a].locked = wallets[u][a].locked -
          (IF k \in OrdersLocking(u, a) THEN orders[k].locked ELSE 0)
    <3>1. CASE orders[k].locked > 0
      <4>. DEFINE x == orders[k].locked
                  v == orders[k].owner
                  b == LockedAsset(orders[k].side)
      <4>1. wallets' = Moved(wallets, v, b, x, -x)
        BY <1>6, <3>1 DEF Released, moveLockedToAvailable
      <4>2. v \in Owners /\ b \in Asset /\ x \in Int /\ -x \in Int /\ u \in Owners
        BY <1>5, <2>6 DEF Owners, LockedAsset, Asset
      <4>3. wallets[v][b].available + x >= 0 /\ wallets[v][b].locked + (-x) >= 0
        <5>1. wallets[v][b].available \in Nat /\ wallets[v][b].locked \in Nat
          BY <1>8, <4>2 DEF Wallets, Balance
        <5>2. k \in OrdersLocking(v, b)
          BY DEF OrdersLocking
        <5>3. x <= HeldFor(v, b) /\ HeldFor(v, b) \in Nat
          BY <5>2, HeldTypes DEF XInv
        <5>4. wallets[v][b].locked = HeldFor(v, b)
          BY <1>5, <4>2, EscrowIs DEF XInv
        <5>. QED  BY <2>6, <5>1, <5>3, <5>4
      <4>. HIDE DEF x, v, b
      <4>4. \A w \in Owners, c \in Asset : Moved(wallets, v, b, x, -x)[w][c].locked =
              wallets[w][c].locked + (IF w = v /\ c = b THEN -x ELSE 0)
        BY <1>8, <4>2, <4>3, MovedWallets
      <4>5. wallets'[u][a].locked = wallets[u][a].locked + (IF u = v /\ a = b THEN -x ELSE 0)
        BY <4>1, <4>2, <4>4
      <4>6. wallets[u][a].locked \in Int
        BY <2>1, <2>6
      <4>. QED  BY <2>5, <4>2, <4>5, <4>6 DEF x, v, b
    <3>2. CASE ~(orders[k].locked > 0)
      <4>1. wallets' = wallets /\ orders[k].locked = 0
        BY <1>6, <2>6, <3>2 DEF Released
      <4>. QED  BY <2>1, <2>6, <4>1
    <3>. QED  BY <3>1, <3>2
  <2>. QED  BY <1>10, <2>1, <2>4, <2>6, <2>7
<1>14. /\ ~IsTrade(e) /\ Says(e, "OrderCancelled", k)
       /\ \A o : ~TradeOf(e, o) /\ ~Says(e, "OrderOpened", o) /\ (Says(e, "OrderCancelled", o) => o = k)
  BY <1>2, <1>3 DEF TradeOf, IsTrade, Says
<1>15. Applies(e)
  BY <1>4, <1>5, <1>6, <1>8, <1>9, <1>10, <1>11, <1>14 DEF Applies, XInv, Statuses, Exists
<1>. QED  BY <1>1, <1>7, <1>12, <1>13, <1>15, AppliedStep DEF Takes

(* What pays for r at price top pays for r - q after q traded at p or less.*)
LEMMA LockAfterTrade ==
  ASSUME NEW top \in Nat, NEW p \in Nat, p <= top, NEW r \in Nat, NEW q \in Nat, q <= r
  PROVE  /\ top * r * Unit - q * p * Unit >= top * (r - q) * Unit
         /\ r * Unit - q * Unit = (r - q) * Unit
         /\ top * (r - q) * Unit \in Nat /\ (r - q) * Unit \in Nat
<1>1. Unit \in Nat
  BY FeesAssumption
<1>2. PICK d \in Nat : r = q + d
  <2>1. r - q \in Nat /\ r = q + (r - q)
    OBVIOUS
  <2>. QED  BY <2>1
<1>3. PICK c \in Nat : top = p + c
  <2>1. top - p \in Nat /\ top = p + (top - p)
    OBVIOUS
  <2>. QED  BY <2>1
<1>4. r - q = d
  BY <1>2
<1>5. top * r = top * q + top * d
  BY <1>2
<1>6. top * q = q * p + c * q /\ c * q \in Nat /\ q * p \in Nat /\ top * d \in Nat
  BY <1>3
<1>. DEFINE qp == q * p
            cq == c * q
            td == top * d
<1>7. qp \in Nat /\ cq \in Nat /\ td \in Nat /\ top * r = (qp + cq) + td
  BY <1>5, <1>6
<1>. HIDE DEF qp, cq, td
<1>8. ((qp + cq) + td) * Unit = (qp * Unit + cq * Unit) + td * Unit
  BY <1>1, <1>7
<1>9. qp * Unit \in Nat /\ cq * Unit \in Nat /\ td * Unit \in Nat
  BY <1>1, <1>7
<1>10. ((qp + cq) + td) * Unit - qp * Unit >= td * Unit
  BY <1>8, <1>9
<1>11. r * Unit = q * Unit + d * Unit /\ q * Unit \in Nat /\ d * Unit \in Nat
  BY <1>1, <1>2
<1>12. top * r * Unit - q * p * Unit >= top * (r - q) * Unit
  BY <1>4, <1>7, <1>10 DEF qp, td
<1>13. top * (r - q) * Unit \in Nat /\ (r - q) * Unit \in Nat /\ r * Unit - q * Unit = (r - q) * Unit
  BY <1>4, <1>9, <1>11 DEF td
<1>. QED  BY <1>12, <1>13

(* What the tables have for a trade that is under way.                     *)
LEMMA TradeIsDue ==
  ASSUME XInv, NEW e \in EngineEvent, IsTrade(e), NEW i \in 1 .. N, e = UnderWay[i]
  PROVE  /\ e.engineMatchId \in MatchIds /\ e.buy \in OrderIds /\ e.sell \in OrderIds
         /\ e.takerSide \in Side /\ e.price \in Price /\ e.quantity \in Nat \ {0}
         /\ e.buy # e.sell
         /\ orders[e.buy].side = "BUY" /\ orders[e.sell].side = "SELL"
         /\ orders[e.buy].price \in Nat /\ e.price \in Nat /\ e.price <= orders[e.buy].price
         /\ orders[e.buy].price >= orders[e.sell].price
         /\ e.price = IF e.takerSide = "BUY" THEN orders[e.sell].price ELSE orders[e.buy].price
         /\ Unsettled(e.engineMatchId)
         /\ \A o \in {e.buy, e.sell} :
              /\ stamp[o] > 0 /\ orders[o].status \notin {"NONE", "CANCELLED", "REJECTED", "FILLED"}
              /\ orders[o].owner \in Users
              /\ orders[o].remaining \in Nat /\ e.quantity <= orders[o].remaining
<1>0. /\ SInv /\ TypeOK /\ BookTypes /\ StreamTypes /\ Placing /\ TradesSound /\ Identified
      /\ Answered /\ Statuses /\ Reconciled
  BY DEF XInv, SInv
<1>1. SoundTrade(e)
  BY <1>0 DEF TradesSound
<1>2. /\ e.buy \in OrderIds /\ e.sell \in OrderIds
      /\ e.takerSide \in Side /\ e.price \in Price /\ e.quantity \in Nat \ {0}
  BY TradeEvents
<1>3. \A o \in OrderIds : orders[o].price \in Nat /\ orders[o].remaining \in Nat
  BY <1>0, PriceAssumption DEF TypeOK, OrderRow
<1>4. Unsettled(e.engineMatchId)
  BY <1>0 DEF Identified, Unsettled
<1>5. ASSUME NEW o \in {e.buy, e.sell}
      PROVE  /\ stamp[o] > 0 /\ orders[o].status \notin {"NONE", "CANCELLED", "REJECTED", "FILLED"}
             /\ orders[o].owner \in Users
             /\ orders[o].remaining \in Nat /\ e.quantity <= orders[o].remaining
             /\ side[o] = orders[o].side /\ price[o] = orders[o].price
  <2>1. o \in OrderIds /\ stamp[o] > 0 /\ TradeOf(e, o)
    BY <1>1, <1>2 DEF SoundTrade, TradeOf
  <2>2. Exists(o) /\ orders[o].owner \in Users /\ side[o] = orders[o].side /\ price[o] = orders[o].price
    BY <1>0, <2>1 DEF Placing, SInv, Ownership
  <2>3. orders[o].status # "CANCELLED"
    <3>1. SUFFICES ASSUME Silent(o, 0) PROVE FALSE
      BY <1>0, <2>1 DEF Answered
    <3>2. i > 0 /\ Settles(UnderWay[i], o)
      BY <2>1 DEF Settles
    <3>. QED  BY <3>1, <3>2 DEF Silent
  <2>4. i \in Trading(o)
    BY <1>0, <2>1, TradingIs
  <2>5. UnderWay[i].quantity <= UnderWayOf(o) /\ UnderWayOf(o) \in Nat
    BY <1>0, <2>4, TradingIs
  <2>6. orders[o].remaining = rem[o] + UnderWayOf(o) /\ rem[o] \in Nat /\ orders[o].remaining \in Nat
    BY <1>0, <1>3, <2>1, ReconciledIs DEF BookTypes
  <2>7. e.quantity <= orders[o].remaining
    BY <1>2, <2>5, <2>6
  <2>8. orders[o].remaining # 0
    BY <1>2, <2>6, <2>7
  <2>. QED  BY <1>0, <2>1, <2>2, <2>3, <2>6, <2>7, <2>8 DEF Statuses, Exists
<1>6. \A o \in {e.buy, e.sell} : side[o] = orders[o].side /\ price[o] = orders[o].price
  BY <1>5
<1>7. /\ e.engineMatchId \in MatchIds /\ e.buy # e.sell
      /\ orders[e.buy].side = "BUY" /\ orders[e.sell].side = "SELL"
      /\ orders[e.buy].price >= orders[e.sell].price
      /\ e.price = IF e.takerSide = "BUY" THEN orders[e.sell].price ELSE orders[e.buy].price
  BY <1>1, <1>6 DEF SoundTrade
<1>8. e.price \in Nat /\ e.price <= orders[e.buy].price /\ orders[e.buy].price \in Nat
  BY <1>2, <1>3, <1>7
<1>. QED  BY <1>2, <1>4, <1>5, <1>7, <1>8

(* The locks of both orders pay for it, and the wallets hold the locks.    *)
LEMMA TradeIsPaid ==
  ASSUME XInv, NEW e \in EngineEvent, IsTrade(e), NEW i \in 1 .. N, e = UnderWay[i]
  PROVE  /\ Settleable(e.engineMatchId, e.buy, e.sell, e.price, e.quantity)
         /\ orders[e.buy].locked \in Nat /\ orders[e.sell].locked \in Nat
         /\ orders[e.buy].locked - e.quantity * e.price * Unit >=
              LockedAmount("BUY", orders[e.buy].price, orders[e.buy].remaining - e.quantity)
         /\ LockedAmount("BUY", orders[e.buy].price, orders[e.buy].remaining - e.quantity) \in Nat
         /\ orders[e.sell].locked - e.quantity * Unit =
              LockedAmount("SELL", orders[e.sell].price, orders[e.sell].remaining - e.quantity)
         /\ LockedAmount("SELL", orders[e.sell].price, orders[e.sell].remaining - e.quantity) \in Nat
<1>. DEFINE b == e.buy
            s == e.sell
            p == e.price
            q == e.quantity
<1>0. Locks /\ LockCovers /\ Escrow
  BY DEF XInv
<1>1. /\ b \in OrderIds /\ s \in OrderIds /\ q \in Nat \ {0} /\ p \in Nat /\ p # 0
      /\ orders[b].side = "BUY" /\ orders[s].side = "SELL"
      /\ orders[b].price \in Nat /\ p <= orders[b].price
      /\ Unsettled(e.engineMatchId)
      /\ \A o \in {b, s} : /\ orders[o].status \notin {"NONE", "CANCELLED"}
                           /\ orders[o].owner \in Users
                           /\ orders[o].remaining \in Nat /\ q <= orders[o].remaining
  BY TradeIsDue, PriceAssumption
<1>2. /\ orders[b].locked >= orders[b].price * orders[b].remaining * Unit
      /\ orders[s].locked = orders[s].remaining * Unit
      /\ orders[b].locked \in Nat /\ orders[s].locked \in Nat
  BY <1>0, <1>1 DEF LockCovers, LockedAmount, Locks
<1>. HIDE DEF b, s, p, q
<1>3. /\ orders[b].price * orders[b].remaining * Unit - q * p * Unit >=
           orders[b].price * (orders[b].remaining - q) * Unit
      /\ orders[b].price * (orders[b].remaining - q) * Unit \in Nat
  BY <1>1, LockAfterTrade
<1>4. /\ orders[s].remaining * Unit - q * Unit = (orders[s].remaining - q) * Unit
      /\ (orders[s].remaining - q) * Unit \in Nat
  <2>1. orders[s].remaining \in Nat /\ q \in Nat /\ q <= orders[s].remaining /\ 0 \in Nat /\ 0 <= 0
    BY <1>1
  <2>. QED  BY <2>1, LockAfterTrade
<1>5. Unit \in Nat \ {0} /\ q * p \in Nat /\ q * p > 0
  BY <1>1, FeesAssumption, Products
<1>6. q * p * Unit \in Nat /\ q * p * Unit > 0 /\ q * Unit \in Nat /\ q * Unit > 0
  BY <1>1, <1>5, Products
<1>7. orders[b].price * orders[b].remaining * Unit \in Nat /\ orders[s].remaining * Unit \in Nat
  BY <1>1, <1>5, Products
<1>. DEFINE need == orders[b].price * orders[b].remaining * Unit
            left == orders[b].price * (orders[b].remaining - q) * Unit
            quote == q * p * Unit
<1>8. /\ need \in Nat /\ left \in Nat /\ quote \in Nat /\ quote > 0
      /\ need - quote >= left /\ orders[b].locked >= need /\ orders[b].locked \in Nat
  BY <1>2, <1>3, <1>6, <1>7
<1>. HIDE DEF need, left, quote
<1>9. orders[b].locked - quote >= left /\ orders[b].locked >= quote
  BY <1>8
<1>10. orders[s].locked >= q * Unit
  BY <1>2, <1>4, <1>6, <1>7
<1>11. Held(orders[b].owner, "QUOTE", quote)
  <2>1. b \in OrdersLocking(orders[b].owner, "QUOTE")
    BY <1>1 DEF OrdersLocking, LockedAsset
  <2>2. /\ orders[b].locked <= HeldFor(orders[b].owner, "QUOTE")
        /\ HeldFor(orders[b].owner, "QUOTE") \in Nat
        /\ wallets[orders[b].owner]["QUOTE"].locked = HeldFor(orders[b].owner, "QUOTE")
    BY <1>0, <1>1, <2>1, HeldTypes, EscrowIs DEF Asset
  <2>. QED  BY <1>8, <1>9, <2>2 DEF Held
<1>12. Held(orders[s].owner, "BASE", q * Unit)
  <2>1. s \in OrdersLocking(orders[s].owner, "BASE")
    BY <1>1 DEF OrdersLocking, LockedAsset
  <2>2. /\ orders[s].locked <= HeldFor(orders[s].owner, "BASE")
        /\ HeldFor(orders[s].owner, "BASE") \in Nat
        /\ wallets[orders[s].owner]["BASE"].locked = HeldFor(orders[s].owner, "BASE")
    BY <1>0, <1>1, <2>1, HeldTypes, EscrowIs DEF Asset
  <2>. QED  BY <1>2, <1>6, <1>10, <2>2 DEF Held
<1>13. Settleable(e.engineMatchId, b, s, p, q)
  BY <1>1, <1>11, <1>12 DEF Settleable, Exists, quote
<1>14. /\ LockedAmount("BUY", orders[b].price, orders[b].remaining - q) = left
       /\ LockedAmount("SELL", orders[s].price, orders[s].remaining - q) = (orders[s].remaining - q) * Unit
  BY DEF LockedAmount, left
<1>. QED
  BY <1>2, <1>4, <1>8, <1>9, <1>13, <1>14 DEF b, s, p, q, quote

LEMMA TradeCreatedStep ==
  ASSUME XInv, Takes, Event.type = "TradeCreated",
         settleTrade(Event.engineMatchId, Event.buy, Event.sell,
                     Event.takerSide, Event.price, Event.quantity)
  PROVE  XInv'
<1>1. PICK e \in EngineEvent : e = Event
  BY HeadIs
<1>2. IsTrade(e) /\ e = UnderWay[1] /\ 1 \in 1 .. N
  BY <1>1, HeadIs DEF IsTrade
<1>3. PICK m \in MatchIds, b \in OrderIds, s \in OrderIds, takerSide \in Side, p \in Price, q \in Nat \ {0} :
        /\ m = e.engineMatchId /\ b = e.buy /\ s = e.sell
        /\ takerSide = e.takerSide /\ p = e.price /\ q = e.quantity
  BY <1>2, TradeIsDue
<1>4. settleTrade(m, b, s, takerSide, p, q)
  BY <1>1, <1>3
<1>5. /\ b # s /\ orders[b].side = "BUY" /\ orders[s].side = "SELL"
      /\ \A o \in {b, s} :
           /\ stamp[o] > 0 /\ orders[o].status \notin {"NONE", "CANCELLED", "REJECTED", "FILLED"}
           /\ orders[o].owner \in Users
           /\ orders[o].remaining \in Nat /\ q <= orders[o].remaining
  BY <1>2, <1>3, TradeIsDue
<1>. DEFINE quote == q * p * Unit
            base == q * Unit
<1>6. /\ orders[b].locked \in Nat /\ orders[s].locked \in Nat
      /\ orders[b].locked - quote >= LockedAmount("BUY", orders[b].price, orders[b].remaining - q)
      /\ LockedAmount("BUY", orders[b].price, orders[b].remaining - q) \in Nat
      /\ orders[s].locked - base = LockedAmount("SELL", orders[s].price, orders[s].remaining - q)
      /\ LockedAmount("SELL", orders[s].price, orders[s].remaining - q) \in Nat
  BY <1>2, <1>3, TradeIsPaid
<1>7. SInv /\ TypeOK /\ Statuses /\ Locks /\ LockCovers /\ Escrow
  BY DEF XInv, SInv
<1>8. SInv' /\ TypeOK'
  BY <1>4, <1>5, <1>7, TradeSettled DEF SInv
<1>9. /\ orders'[b] = Filled(orders[b], q, quote)
      /\ orders'[s] = Filled(orders[s], q, base)
      /\ \A o \in OrderIds : o # b /\ o # s => orders'[o] = orders[o]
  BY <1>4, <1>5, <1>7, TradeRows
<1>10. quote \in Nat /\ base \in Nat
       /\ \A v \in Owners :
            /\ wallets'[v]["QUOTE"].locked = wallets[v]["QUOTE"].locked
                 - (IF v = orders[b].owner THEN quote ELSE 0)
            /\ wallets'[v]["BASE"].locked = wallets[v]["BASE"].locked
                 - (IF v = orders[s].owner THEN base ELSE 0)
  BY <1>4, <1>7, TradeWallets
<1>. HIDE DEF quote, base
<1>11. \A o \in OrderIds : orders[o] \in OrderRow
  BY <1>7 DEF TypeOK
<1>12. ASSUME NEW o \in {b, s}, NEW x \in Nat, orders'[o] = Filled(orders[o], q, x)
       PROVE  /\ orders'[o].owner = orders[o].owner /\ orders'[o].side = orders[o].side
              /\ orders'[o].price = orders[o].price
              /\ orders'[o].remaining = orders[o].remaining - q
              /\ orders'[o].locked = orders[o].locked - x
              /\ orders'[o].status = IF orders'[o].remaining = 0 THEN "FILLED" ELSE "PARTIALLY_FILLED"
  <2>1. o \in OrderIds /\ orders[o] \in OrderRow /\ orders[o].remaining \in Nat /\ q \in Nat
    BY <1>11 DEF OrderRow
  <2>. QED  BY <1>12, <2>1 DEF Filled, OrderRow
<1>13. /\ \A o \in {b, s} :
            /\ orders'[o].owner = orders[o].owner /\ orders'[o].side = orders[o].side
            /\ orders'[o].price = orders[o].price
            /\ orders'[o].remaining = orders[o].remaining - q
            /\ orders'[o].status = IF orders'[o].remaining = 0 THEN "FILLED" ELSE "PARTIALLY_FILLED"
       /\ orders'[b].locked = orders[b].locked - quote
       /\ orders'[s].locked = orders[s].locked - base
  BY <1>9, <1>10, <1>12
<1>14. /\ orders'[b].locked \in Nat
       /\ orders'[b].locked >= LockedAmount("BUY", orders'[b].price, orders'[b].remaining)
       /\ orders'[s].locked \in Nat
       /\ orders'[s].locked = LockedAmount("SELL", orders'[s].price, orders'[s].remaining)
  BY <1>6, <1>10, <1>13
<1>15. Locks'
  <2>. SUFFICES ASSUME NEW o \in OrderIds
       PROVE  /\ orders'[o].locked \in Nat
              /\ orders'[o].status \in {"NONE", "CANCELLED"} => orders'[o].locked = 0
              /\ orders'[o].status = "NONE" => orders'[o].owner = Treasury
    BY DEF Locks
  <2>1. CASE o \in {b, s}
    BY <1>13, <1>14, <2>1
  <2>2. CASE o \notin {b, s}
    BY <1>7, <1>9, <2>2 DEF Locks
  <2>. QED  BY <2>1, <2>2
<1>16. LockCovers'
  <2>. SUFFICES ASSUME NEW o \in OrderIds, orders'[o].status \notin {"NONE", "CANCELLED"}
       PROVE  LET need == LockedAmount(orders'[o].side, orders'[o].price, orders'[o].remaining) IN
              IF orders'[o].side = "BUY" THEN orders'[o].locked >= need ELSE orders'[o].locked = need
    BY DEF LockCovers
  <2>1. CASE o = b
    BY <1>5, <1>13, <1>14, <2>1
  <2>2. CASE o = s
    BY <1>5, <1>13, <1>14, <2>2
  <2>3. CASE o \notin {b, s}
    <3>1. orders'[o] = orders[o]
      BY <1>9, <2>3
    <3>. QED  BY <1>7, <3>1 DEF LockCovers
  <2>. QED  BY <2>1, <2>2, <2>3
<1>17. Escrow'
  <2>. SUFFICES ASSUME NEW u \in Users, NEW a \in Asset PROVE wallets'[u][a].locked = HeldFor(u, a)'
    BY SumOfFunction DEF Escrow, HeldFor
  <2>1. wallets[u][a].locked = HeldFor(u, a) /\ HeldFor(u, a) \in Nat /\ u \in Owners
    BY <1>7, EscrowIs, HeldTypes DEF Owners
  <2>2. \A o \in OrderIds : orders'[o].owner = orders[o].owner /\ orders'[o].side = orders[o].side
    BY <1>9, <1>13
  <2>3. CASE a = "QUOTE"
    <3>1. \A o \in OrdersLocking(u, a) : o # b => orders'[o].locked = orders[o].locked
      <4>1. s \notin OrdersLocking(u, a)
        BY <1>5, <2>3 DEF OrdersLocking, LockedAsset
      <4>. QED  BY <1>9, <4>1 DEF OrdersLocking
    <3>2. HeldFor(u, a)' = HeldFor(u, a) +
            (IF b \in OrdersLocking(u, a) THEN orders'[b].locked - orders[b].locked ELSE 0)
      BY <1>7, <1>8, <2>2, <3>1, HeldChanged
    <3>3. b \in OrdersLocking(u, a) <=> u = orders[b].owner
      BY <1>5, <2>3 DEF OrdersLocking, LockedAsset
    <3>4. wallets'[u]["QUOTE"].locked = wallets[u]["QUOTE"].locked
            - (IF u = orders[b].owner THEN quote ELSE 0)
      BY <1>10, <2>1
    <3>. QED  BY <1>6, <1>10, <1>13, <2>1, <2>3, <3>2, <3>3, <3>4
  <2>4. CASE a = "BASE"
    <3>1. \A o \in OrdersLocking(u, a) : o # s => orders'[o].locked = orders[o].locked
      <4>1. b \notin OrdersLocking(u, a)
        BY <1>5, <2>4 DEF OrdersLocking, LockedAsset
      <4>. QED  BY <1>9, <4>1 DEF OrdersLocking
    <3>2. HeldFor(u, a)' = HeldFor(u, a) +
            (IF s \in OrdersLocking(u, a) THEN orders'[s].locked - orders[s].locked ELSE 0)
      BY <1>7, <1>8, <2>2, <3>1, HeldChanged
    <3>3. s \in OrdersLocking(u, a) <=> u = orders[s].owner
      BY <1>5, <2>4 DEF OrdersLocking, LockedAsset
    <3>4. wallets'[u]["BASE"].locked = wallets[u]["BASE"].locked
            - (IF u = orders[s].owner THEN base ELSE 0)
      BY <1>10, <2>1
    <3>. QED  BY <1>6, <1>10, <1>13, <2>1, <2>4, <3>2, <3>3, <3>4
  <2>. QED  BY <2>3, <2>4 DEF Asset
<1>18. /\ IsTrade(e) /\ e.quantity = q
       /\ \A o : (TradeOf(e, o) <=> o \in {b, s}) /\ ~Says(e, "OrderOpened", o) /\ ~Says(e, "OrderCancelled", o)
  BY <1>2, <1>3 DEF TradeOf, IsTrade, Says
<1>19. Applies(e)
  <2>1. ASSUME NEW o \in {b, s}
        PROVE  /\ ~(stamp[o] = 0) /\ (Exists(o)' <=> Exists(o))
               /\ orders'[o].side = orders[o].side /\ orders'[o].price = orders[o].price
               /\ orders'[o].remaining = orders[o].remaining - q
               /\ orders'[o].status \in {"FILLED", "PARTIALLY_FILLED"}
               /\ orders[o].status # "CANCELLED"
               /\ orders'[o].remaining = 0 <=> orders'[o].status = "FILLED"
    BY <1>5, <1>13 DEF Exists
  <2>2. ASSUME NEW o \in OrderIds, o \notin {b, s}
        PROVE  /\ orders'[o] = orders[o] /\ orders[o].remaining \in Nat
               /\ orders[o].status # "REJECTED"
               /\ Exists(o) => (orders[o].remaining = 0 <=> orders[o].status = "FILLED")
    BY <1>7, <1>9, <1>11, <2>2 DEF Statuses, OrderRow
  <2>3. \A t \in trades' : t \in trades \/ t.engineMatchId = e.engineMatchId
    BY <1>3, <1>4 DEF settleTrade
  <2>4. ASSUME NEW o \in OrderIds
        PROVE  /\ stamp[o] = 0 => orders'[o] = orders[o]
               /\ Exists(o)' <=> Exists(o)
               /\ orders'[o].side = orders[o].side /\ orders'[o].price = orders[o].price
               /\ orders'[o].remaining = orders[o].remaining - (IF TradeOf(e, o) THEN e.quantity ELSE 0)
               /\ orders'[o].status # "REJECTED"
               /\ orders'[o].status = "CANCELLED" <=>
                    orders[o].status = "CANCELLED" \/ Says(e, "OrderCancelled", o)
               /\ orders'[o].status = "PENDING" =>
                    orders[o].status = "PENDING" /\ ~Says(e, "OrderOpened", o) /\ ~TradeOf(e, o)
               /\ Exists(o)' => (orders'[o].remaining = 0 <=> orders'[o].status = "FILLED")
    <3>1. CASE o \in {b, s}
      BY <1>18, <2>1, <3>1
    <3>2. CASE o \notin {b, s}
      BY <1>18, <2>2, <3>2 DEF Exists
    <3>. QED  BY <3>1, <3>2
  <2>. QED  BY <1>2, <2>3, <2>4 DEF Applies
<1>. QED  BY <1>1, <1>8, <1>15, <1>16, <1>17, <1>19, AppliedStep DEF Takes

-----------------------------------------------------------------------------
(* A request of a user: a command behind the others, in the transaction    *)
(* that writes the row of its order.                                       *)

Asked(type, o) ==
  /\ \A x \in OrderIds : x # o => orders'[x] = orders[x]
  /\ Exists(o)' /\ orders'[o].remaining # 0
  /\ type = "PlaceOrder" => ~Exists(o) /\ Untouched(o)' /\ orders'[o].status = "PENDING"
  /\ type = "CancelOrder" =>
       /\ Exists(o) /\ orders[o].status \in Cancellable /\ orders'[o].status = "CANCEL_PENDING"
       /\ orders'[o].side = orders[o].side /\ orders'[o].price = orders[o].price
       /\ orders'[o].filled = orders[o].filled /\ orders'[o].remaining = orders[o].remaining
       /\ orders'[o].quantity = orders[o].quantity

LEMMA AskedStep ==
  ASSUME XInv, NEW type \in {"PlaceOrder", "CancelOrder"}, NEW o \in OrderIds, Send(type, o),
         Asked(type, o), engineState # "RECOVERING", UNCHANGED trades,
         SInv', Locks', LockCovers', Escrow'
  PROVE  XInv'
<1>. DEFINE c == [type |-> type, seq |-> issued + 1, order |-> o]
            L == Len(commands)
<1>0. /\ BookTypes /\ StreamTypes /\ Numbering /\ Placing /\ Matching /\ TradesSound
      /\ Identified /\ Answered /\ Statuses /\ Reconciled /\ SInv
  BY DEF XInv
<1>1. /\ issued < MaxCommands /\ issued' = issued + 1 /\ commands' = Append(commands, c)
      /\ UNCHANGED <<side, price, rem, stamp, now, incoming, resting>>
      /\ UNCHANGED <<engineState, last, index, batch, events>>
  BY DEF Send, bookVars, engineVars
<1>2. /\ c \in OrderCommand /\ c.type = type /\ c.seq = issued + 1 /\ c.order = o
      /\ commands \in Seq(OpenCommand \cup OrderCommand) /\ L \in Nat /\ issued \in Nat \ {0}
      /\ L <= issued
  BY <1>0, CommandsAssumption DEF StreamTypes, OrderCommand, Numbering
<1>. HIDE DEF c
<1>3. /\ commands' \in Seq(OpenCommand \cup OrderCommand) /\ Len(commands') = L + 1
      /\ commands'[L + 1] = c /\ \A i \in 1 .. L : commands'[i] = commands[i]
  BY <1>1, <1>2
<1>4. Done' = Done /\ Done \in Nat /\ Done + L = issued
  BY <1>1, <1>2, <1>3 DEF Done
<1>5. UnderWay' = UnderWay /\ N' = N
  BY <1>1 DEF UnderWay, N
<1>6. \A i \in 1 .. L + 1 : (i \in 1 .. L /\ commands'[i] = commands[i]) \/ (i = L + 1 /\ commands'[i] = c)
  BY <1>2, <1>3
<1>7. StreamTypes' /\ BookTypes'
  <2>1. issued' \in 1 .. MaxCommands
    BY <1>1, <1>2, CommandsAssumption
  <2>. QED  BY <1>0, <1>1, <1>3, <2>1 DEF StreamTypes, BookTypes
<1>8. \A x \in OrderIds : Exists(x) => Exists(x)'
  BY DEF Asked, Exists
<1>9. Numbering'
  <2>1. ASSUME NEW i \in 1 .. L + 1
        PROVE  /\ commands'[i].seq = Done + i
               /\ commands'[i].type = "OpenMarket" <=> commands'[i].seq = 1
               /\ commands'[i].type # "OpenMarket" => orders'[commands'[i].order].status # "NONE"
    <3>1. CASE i \in 1 .. L /\ commands'[i] = commands[i]
      <4>1. commands[i].type # "OpenMarket" => commands[i].order \in OrderIds
        BY <1>2, <3>1 DEF OpenCommand, OrderCommand
      <4>2. commands[i].type # "OpenMarket" => Exists(commands[i].order)
        BY <1>0, <3>1 DEF Numbering
      <4>3. /\ commands[i].seq = Done + i
            /\ commands[i].type = "OpenMarket" <=> commands[i].seq = 1
        BY <1>0, <3>1 DEF Numbering
      <4>. QED  BY <1>8, <3>1, <4>1, <4>2, <4>3 DEF Exists
    <3>2. CASE i = L + 1 /\ commands'[i] = c
      BY <1>2, <1>4, <3>2 DEF Asked, Exists
    <3>. QED  BY <1>6, <3>1, <3>2
  <2>2. Len(commands') <= issued' /\ last' <= Done'
    BY <1>0, <1>1, <1>2, <1>3, <1>4 DEF Numbering
  <2>3. engineState' # "RECOVERING" /\ Done' > 0 /\ (engineState' = "FAILED" => last' < Done')
    BY <1>0, <1>1, <1>4 DEF Numbering
  <2>. QED  BY <1>3, <1>4, <2>1, <2>2, <2>3 DEF Numbering, Exists
<1>10. Placing'
  <2>1. \A x \in OrderIds : stamp[x] > 0 => Exists(x)
    BY <1>0 DEF Placing
  <2>2. \A i \in 1 .. L : commands[i].type # "OpenMarket" => Exists(commands[i].order)
    BY <1>0 DEF Numbering
  <2>3. type = "PlaceOrder" => stamp[o] = 0 /\ \A i \in 1 .. L :
          commands[i].type # "OpenMarket" => commands[i].order # o
    BY <1>0, <2>1, <2>2 DEF Asked, BookTypes
  <2>4. ASSUME NEW i \in 1 .. L + 1, commands'[i].type = "PlaceOrder"
        PROVE  /\ stamp[commands'[i].order] = 0 \/ (i = 1 /\ incoming = commands'[i].order)
               /\ \A j \in 1 .. L + 1 :
                    j # i /\ commands'[j].type # "OpenMarket" /\ commands'[j].order = commands'[i].order =>
                      commands'[j].type = "CancelOrder" /\ i < j
    <3>1. CASE i \in 1 .. L /\ commands'[i] = commands[i]
      <4>1. stamp[commands'[i].order] = 0 \/ (i = 1 /\ incoming = commands'[i].order)
        BY <1>0, <2>4, <3>1 DEF Placing
      <4>2. ASSUME NEW j \in 1 .. L + 1, j # i, commands'[j].type # "OpenMarket",
                   commands'[j].order = commands'[i].order
            PROVE  commands'[j].type = "CancelOrder" /\ i < j
        <5>1. CASE j \in 1 .. L /\ commands'[j] = commands[j]
          BY <1>0, <2>4, <3>1, <4>2, <5>1 DEF Placing
        <5>2. CASE j = L + 1 /\ commands'[j] = c
          <6>1. commands[i].order = o /\ i < j
            BY <1>2, <3>1, <4>2, <5>2
          <6>. QED  BY <1>2, <2>3, <2>4, <3>1, <5>2, <6>1
        <5>. QED  BY <1>6, <5>1, <5>2
      <4>. QED  BY <4>1, <4>2
    <3>2. CASE i = L + 1 /\ commands'[i] = c
      <4>1. type = "PlaceOrder" /\ commands'[i].order = o
        BY <1>2, <2>4, <3>2
      <4>2. ASSUME NEW j \in 1 .. L + 1, j # i, commands'[j].type # "OpenMarket",
                   commands'[j].order = commands'[i].order
            PROVE  FALSE
        <5>1. j \in 1 .. L /\ commands'[j] = commands[j]
          BY <1>6, <3>2, <4>2
        <5>. QED  BY <2>3, <4>1, <4>2, <5>1
      <4>. QED  BY <2>3, <4>1, <4>2
    <3>. QED  BY <1>6, <3>1, <3>2
  <2>5. ASSUME NEW x \in OrderIds, stamp[x] = 0, Exists(x)'
        PROVE  /\ Untouched(x)'
               /\ \/ last < Done
                  \/ \E i \in 1 .. L + 1 :
                       commands'[i].type = "PlaceOrder" /\ commands'[i].order = x
    <3>1. CASE x = o /\ type = "PlaceOrder"
      <4>1. L + 1 \in 1 .. L + 1 /\ commands'[L + 1].type = "PlaceOrder" /\ commands'[L + 1].order = x
        BY <1>2, <1>3, <3>1
      <4>. QED  BY <3>1, <4>1 DEF Asked
    <3>2. CASE x # o \/ type = "CancelOrder"
      <4>1. Exists(x)
        BY <2>5, <3>2 DEF Asked, Exists
      <4>2. /\ Untouched(x)
            /\ last < Done \/ \E i \in 1 .. L : commands[i].type = "PlaceOrder" /\ commands[i].order = x
        BY <1>0, <2>5, <4>1 DEF Placing
      <4>3. Untouched(x)'
        BY <3>2, <4>2 DEF Asked, Untouched
      <4>4. ASSUME NEW i \in 1 .. L, commands[i].type = "PlaceOrder", commands[i].order = x
            PROVE  i \in 1 .. L + 1 /\ commands'[i].type = "PlaceOrder" /\ commands'[i].order = x
        BY <1>2, <1>3, <4>4
      <4>. QED  BY <4>2, <4>3, <4>4
    <3>. QED  BY <3>1, <3>2
  <2>6. ASSUME NEW x \in OrderIds, stamp[x] > 0
        PROVE  Exists(x)' /\ side[x] = orders'[x].side /\ price[x] = orders'[x].price
    <3>1. Exists(x) /\ side[x] = orders[x].side /\ price[x] = orders[x].price
      BY <1>0, <2>6 DEF Placing
    <3>2. x # o \/ type = "CancelOrder"
      BY <3>1 DEF Asked
    <3>. QED  BY <1>8, <3>1, <3>2 DEF Asked
  <2>. QED  BY <1>1, <1>3, <1>4, <2>4, <2>5, <2>6 DEF Placing
<1>11. Matching'
  <2>1. commands # <<>> => commands' # <<>> /\ Command' = Command
    <3>. SUFFICES ASSUME commands # <<>> PROVE commands' # <<>> /\ Command' = Command
      OBVIOUS
    <3>1. 1 \in 1 .. L
      BY <1>2
    <3>2. Head(commands) = commands[1] /\ Head(commands') = commands'[1] /\ commands' # <<>>
      BY <1>2, <1>3
    <3>. QED  BY <1>3, <3>1, <3>2 DEF Command
  <2>. QED  BY <1>0, <1>1, <1>4, <2>1 DEF Matching
<1>12. TradesSound'
  BY <1>0, <1>1, <1>5 DEF TradesSound, SoundTrade
<1>13. Identified'
  <2>1. \A id : Used(id)' <=> Used(id)
    BY <1>1, <1>4 DEF Used
  <2>. QED  BY <1>0, <1>5, <2>1 DEF Identified
<1>14. Answered'
  <2>1. \A x : /\ Gone(x)' <=> Gone(x)
               /\ \A k : Silent(x, k)' <=> Silent(x, k)
               /\ CancelSent(x)' <=> CancelSent(x)
    BY <1>1, <1>5 DEF Gone, Live, Silent, CancelSent
  <2>2. \A x \in OrderIds : orders'[x].status = "CANCELLED" <=> orders[x].status = "CANCELLED"
    BY DEF Asked, Cancellable, Exists
  <2>. QED  BY <1>0, <1>1, <1>5, <2>1, <2>2 DEF Answered
<1>15. Statuses'
  <2>1. \A x : Heard(x)' <=> Heard(x)
    BY <1>5 DEF Heard
  <2>2. ASSUME NEW x \in OrderIds
        PROVE /\ orders'[x].status # "REJECTED"
              /\ Exists(x)' => (orders'[x].remaining = 0 <=> orders'[x].status = "FILLED")
              /\ orders'[x].status = "PENDING" /\ stamp[x] > 0 /\ x # incoming => Heard(x)
    <3>1. CASE x # o
      BY <1>0, <3>1 DEF Asked, Statuses, Exists
    <3>2. CASE x = o
      <4>1. orders'[o].status = "PENDING" => ~(stamp[o] > 0)
        BY <1>0 DEF Asked, Placing
      <4>2. orders'[o].status \in {"PENDING", "CANCEL_PENDING"} /\ orders'[o].remaining # 0
        BY DEF Asked
      <4>. QED  BY <3>2, <4>1, <4>2
    <3>. QED  BY <3>1, <3>2
  <2>. QED  BY <1>1, <2>1, <2>2 DEF Statuses
<1>16. Reconciled'
  <2>. SUFFICES ASSUME NEW x \in OrderIds, stamp'[x] > 0
       PROVE  orders'[x].remaining = rem'[x] + UnderWayOf(x)'
    BY SumOfFunction DEF Reconciled, UnderWayOf
  <2>1. UnderWayOf(x)' = UnderWayOf(x)
    BY <1>5 DEF UnderWayOf, Trading
  <2>2. Exists(x)
    BY <1>0, <1>1 DEF Placing
  <2>3. orders'[x].remaining = orders[x].remaining
    BY <2>2 DEF Asked
  <2>. QED  BY <1>0, <1>1, <2>1, <2>3, ReconciledIs
<1>. QED
  BY <1>7, <1>9, <1>10, <1>11, <1>12, <1>13, <1>14, <1>15, <1>16 DEF XInv

LEMMA PlaceStep == ASSUME XInv, Place PROVE XInv'
<1>1. PICK u \in Users, o \in OrderIds, s \in Side, p \in Price, q \in Qty :
        placeOrder(u, o, s, p, q) /\ Send("PlaceOrder", o)
  BY DEF Place
<1>. DEFINE k == LockedAsset(s)
            x == LockedAmount(s, p, q)
            row == [owner |-> u, side |-> s, price |-> p, quantity |-> q,
                    filled |-> 0, remaining |-> q, locked |-> x, status |-> "PENDING"]
<1>2. SInv /\ TypeOK /\ Locks /\ LockCovers /\ Escrow /\ Numbering
  BY DEF XInv, SInv
<1>3. SInv' /\ TypeOK'
  BY <1>1, <1>2, PlacedSettled DEF SInv
<1>4. /\ ~Exists(o) /\ market = "READY" /\ Covered(u, k, x)
      /\ wallets' = Moved(wallets, u, k, -x, x)
      /\ orders' = [orders EXCEPT ![o] = row]
      /\ UNCHANGED <<trades, market>>
  BY <1>1 DEF placeOrder, moveAvailableToLocked
<1>5. k \in Asset /\ x \in Nat /\ x > 0 /\ u \in Owners /\ q \in Nat /\ q # 0
  BY <1>4, LockedAmounts, QtyAssumption DEF Covered, Owners
<1>. HIDE DEF x, k
<1>6. orders'[o] = row /\ \A i \in OrderIds : i # o => orders'[i] = orders[i]
  BY <1>2, <1>4 DEF TypeOK
<1>7. /\ orders'[o].owner = u /\ orders'[o].side = s /\ orders'[o].price = p
      /\ orders'[o].quantity = q /\ orders'[o].filled = 0 /\ orders'[o].remaining = q
      /\ orders'[o].locked = x /\ orders'[o].status = "PENDING"
  BY <1>6
<1>. HIDE DEF row
<1>8. Asked("PlaceOrder", o)
  BY <1>4, <1>5, <1>6, <1>7 DEF Asked, Exists, Untouched
<1>9. engineState # "RECOVERING"
  BY <1>2, <1>4 DEF Numbering
<1>10. u # Treasury
  BY OwnersAssumption
<1>11. Locks'
  <2>. SUFFICES ASSUME NEW i \in OrderIds
       PROVE  /\ orders'[i].locked \in Nat
              /\ orders'[i].status \in {"NONE", "CANCELLED"} => orders'[i].locked = 0
              /\ orders'[i].status = "NONE" => orders'[i].owner = Treasury
    BY DEF Locks
  <2>1. CASE i = o
    BY <1>5, <1>7, <2>1
  <2>2. CASE i # o
    BY <1>2, <1>6, <2>2 DEF Locks
  <2>. QED  BY <2>1, <2>2
<1>12. LockCovers'
  <2>. SUFFICES ASSUME NEW i \in OrderIds, orders'[i].status \notin {"NONE", "CANCELLED"}
       PROVE  LET need == LockedAmount(orders'[i].side, orders'[i].price, orders'[i].remaining) IN
              IF orders'[i].side = "BUY" THEN orders'[i].locked >= need ELSE orders'[i].locked = need
    BY DEF LockCovers
  <2>1. CASE i = o
    BY <1>5, <1>7, <2>1 DEF x
  <2>2. CASE i # o
    <3>1. orders'[i] = orders[i]
      BY <1>6, <2>2
    <3>. QED  BY <1>2, <3>1 DEF LockCovers
  <2>. QED  BY <2>1, <2>2
<1>13. Escrow'
  <2>. SUFFICES ASSUME NEW v \in Users, NEW a \in Asset PROVE wallets'[v][a].locked = HeldFor(v, a)'
    BY SumOfFunction DEF Escrow, HeldFor
  <2>. DEFINE S == OrdersLocking(v, a)
              T == OrdersLocking(v, a)'
              f == [i \in S |-> orders[i].locked]
              g == [i \in T |-> orders'[i].locked]
  <2>1. wallets[v][a].locked = Sum(f, S) /\ HeldFor(v, a)' = Sum(g, T) /\ Sum(f, S) \in Nat
    BY <1>2, EscrowIs, HeldTypes DEF HeldFor
  <2>2. IsFiniteSet(S) /\ S \subseteq OrderIds
    BY <1>2, HeldTypes
  <2>3. o \notin S
    <3>1. v # Treasury
      BY OwnersAssumption
    <3>. QED  BY <1>2, <1>4, <3>1 DEF OrdersLocking, Locks, Exists
  <2>4. \A i \in OrderIds : i # o => (i \in T <=> i \in S)
    BY <1>6 DEF OrdersLocking
  <2>5. o \in T <=> (v = u /\ a = k)
    BY <1>7 DEF OrdersLocking, k
  <2>6. T \subseteq OrderIds
    BY DEF OrdersLocking
  <2>7. \A i \in S : f[i] \in Int
    BY <1>2, <2>2 DEF Locks
  <2>8. ASSUME NEW i \in S, i \in T PROVE f[i] = g[i]
    BY <1>6, <2>2, <2>3, <2>8
  <2>9. o \in T => g[o] = x
    BY <1>7
  <2>10. wallets'[v][a].locked = wallets[v][a].locked + (IF v = u /\ a = k THEN x ELSE 0)
    <3>1. wallets \in Wallets /\ wallets[u][k].available \in Nat /\ wallets[u][k].locked \in Nat
      BY <1>2, <1>5 DEF TypeOK, Wallets, Balance
    <3>2. wallets[u][k].available + (-x) >= 0 /\ wallets[u][k].locked + x >= 0 /\ x \in Int /\ -x \in Int
      BY <1>4, <1>5, <3>1 DEF Covered
    <3>3. \A w \in Owners, b \in Asset : Moved(wallets, u, k, -x, x)[w][b].locked =
            wallets[w][b].locked + (IF w = u /\ b = k THEN x ELSE 0)
      BY <1>5, <3>1, <3>2, MovedWallets
    <3>. QED  BY <1>4, <3>3 DEF Owners
  <2>. HIDE DEF S, T, f, g
  <2>11. CASE v = u /\ a = k
    <3>1. T = S \cup {o}
      BY <2>2, <2>4, <2>5, <2>6, <2>11
    <3>2. g[o] = x /\ g[o] \in Int
      BY <1>5, <2>5, <2>9, <2>11
    <3>3. \A i \in S : f[i] = g[i]
      BY <2>8, <3>1
    <3>4. Sum(g, T) = Sum(f, S) + g[o]
      BY <2>2, <2>3, <2>7, <3>1, <3>2, <3>3, SumExtend
    <3>. QED  BY <2>1, <2>10, <2>11, <3>2, <3>4
  <2>12. CASE ~(v = u /\ a = k)
    <3>1. T = S
      BY <2>2, <2>3, <2>4, <2>5, <2>6, <2>12
    <3>2. \A i \in S : f[i] \in Int /\ f[i] = g[i]
      BY <2>7, <2>8, <3>1
    <3>3. Sum(f, S) = Sum(g, T)
      BY <2>2, <3>1, <3>2, SumSame
    <3>. QED  BY <2>1, <2>10, <2>12, <3>3
  <2>. QED  BY <2>11, <2>12
<1>. QED  BY <1>1, <1>3, <1>4, <1>8, <1>9, <1>11, <1>12, <1>13, AskedStep

LEMMA RequestCancelStep == ASSUME XInv, RequestCancel PROVE XInv'
<1>1. PICK o \in OrderIds : cancelOrder(o) /\ Send("CancelOrder", o)
  BY DEF RequestCancel
<1>2. SInv /\ TypeOK /\ Numbering /\ Statuses
  BY DEF XInv, SInv
<1>3. /\ orders[o].status \in Cancellable
      /\ orders' = [orders EXCEPT ![o].status = "CANCEL_PENDING"]
      /\ UNCHANGED <<wallets, trades, market>>
  BY <1>1 DEF cancelOrder
<1>4. Exists(o) /\ orders[o].remaining # 0
  BY <1>2, <1>3 DEF Cancellable, Exists, Statuses
<1>5. orders'[o] = [orders[o] EXCEPT !.status = "CANCEL_PENDING"]
      /\ \A i \in OrderIds : i # o => orders'[i] = orders[i]
  BY <1>2, <1>3 DEF TypeOK
<1>6. /\ orders'[o].owner = orders[o].owner /\ orders'[o].side = orders[o].side
      /\ orders'[o].price = orders[o].price /\ orders'[o].quantity = orders[o].quantity
      /\ orders'[o].filled = orders[o].filled /\ orders'[o].remaining = orders[o].remaining
      /\ orders'[o].locked = orders[o].locked /\ orders'[o].status = "CANCEL_PENDING"
  <2>1. orders[o] \in OrderRow
    BY <1>2 DEF TypeOK
  <2>. QED  BY <1>5, <2>1 DEF OrderRow
<1>7. SInv'
  BY <1>1, <1>2, StepSettled DEF Next
<1>8. Locks' /\ LockCovers' /\ Escrow'
  <2>1. orders[o].status \notin {"NONE", "CANCELLED"}
    BY <1>3 DEF Cancellable
  <2>. QED  BY <1>3, <1>5, <1>6, <1>7, <2>1, StatusesOnly
<1>9. Asked("CancelOrder", o)
  BY <1>3, <1>4, <1>5, <1>6 DEF Asked, Exists
<1>10. engineState # "RECOVERING"
  BY <1>2, <1>4 DEF Numbering
<1>. QED  BY <1>1, <1>3, <1>7, <1>8, <1>9, <1>10, AskedStep

LEMMA DispatchStep == ASSUME XInv, Dispatch PROVE XInv'
<1>1. Takes
  BY DEF Dispatch, Takes
<1>2. Event.type # "OrderRejected"
  BY <1>1, HeadIs DEF EngineEvent, TradeEvent, OrderEvent, MarketEvent
<1>3. CASE Event.type = "MarketOpened" /\ setMarket("READY")
  BY <1>1, <1>3, MarketStep
<1>4. CASE Event.type = "EngineFailed" /\ setMarket("SUSPENDED")
  BY <1>1, <1>4, MarketStep
<1>5. CASE Event.type = "OrderOpened" /\ fromPending(Event.order, "OPEN")
  BY <1>1, <1>5, OrderOpenedStep
<1>6. CASE /\ Event.type = "TradeCreated"
           /\ settleTrade(Event.engineMatchId, Event.buy, Event.sell,
                          Event.takerSide, Event.price, Event.quantity)
  BY <1>1, <1>6, TradeCreatedStep
<1>7. CASE Event.type = "OrderCancelled" /\ handleOrderCancelled(Event.order)
  BY <1>1, <1>7, OrderCancelledStep
<1>8. CASE Event.type = "CancelOrderRejected" /\ handleCancelOrderRejected(Event.order)
  BY <1>1, <1>8, CancelRejectedStep
<1>. QED  BY <1>2, <1>3, <1>4, <1>5, <1>6, <1>7, <1>8 DEF Dispatch

-----------------------------------------------------------------------------
(* The invariant.                                                          *)

LEMMA InitExchange == ExchangeInit => XInv
<1>. SUFFICES ASSUME ExchangeInit PROVE XInv
  OBVIOUS
<1>1. SInv
  BY InitSettled DEF ExchangeInit
<1>2. /\ \A o \in OrderIds : /\ orders[o].status = "NONE" /\ orders[o].locked = 0
                             /\ orders[o].owner = Treasury
      /\ \A u \in Users, a \in Asset : wallets[u][a].locked = 0
      /\ trades = {} /\ market = "RECOVERING"
  BY DEF ExchangeInit, Init, Owners
<1>3. /\ \A o \in OrderIds : stamp[o] = 0 /\ rem[o] = 0
      /\ side = [o \in OrderIds |-> "BUY"] /\ price = [o \in OrderIds |-> AnyPrice]
      /\ rem = [o \in OrderIds |-> 0] /\ stamp = [o \in OrderIds |-> 0] /\ now = 0
      /\ incoming = NoOrder /\ resting = {}
  BY DEF ExchangeInit, Book!Init, Book!AnyPrice, AnyPrice
<1>4. /\ engineState = "RECOVERING" /\ last = 0 /\ index = 0 /\ batch = <<>> /\ issued = 1
      /\ commands = <<[type |-> "OpenMarket", seq |-> 1]>> /\ events = <<>>
  BY DEF ExchangeInit
<1>5. UnderWay = <<>> /\ N = 0
  BY <1>4 DEF UnderWay, N
<1>6. /\ Len(commands) = 1 /\ Done = 0 /\ commands[1] = [type |-> "OpenMarket", seq |-> 1]
      /\ commands[1].type = "OpenMarket" /\ commands[1].seq = 1
  BY <1>4 DEF Done
<1>7. BookTypes
  <2>1. AnyPrice \in Price
    BY PriceAssumption DEF AnyPrice
  <2>. QED  BY <1>3, <2>1 DEF BookTypes, Side
<1>8. StreamTypes
  <2>1. [type |-> "OpenMarket", seq |-> 1] \in OpenCommand
    BY DEF OpenCommand
  <2>. QED  BY <1>4, <2>1, CommandsAssumption DEF StreamTypes
<1>9. Numbering
  BY <1>2, <1>3, <1>4, <1>5, <1>6 DEF Numbering, Exists
<1>10. Placing
  BY <1>2, <1>3, <1>6 DEF Placing, Exists
<1>11. Matching
  <2>1. Cardinality({}) = 0 /\ Cardinality(OrderIds) \in Nat
    BY FS_EmptySet, FS_CardinalityType, OrdersAssumption
  <2>. QED  BY <1>3, <1>4, <2>1 DEF Matching
<1>12. TradesSound /\ Identified
  BY <1>2, <1>5 DEF TradesSound, Identified
<1>13. Answered
  BY <1>2, <1>3, <1>5 DEF Answered, Gone
<1>14. Statuses
  BY <1>2, <1>3 DEF Statuses, Exists
<1>15. Locks /\ LockCovers
  BY <1>2 DEF Locks, LockCovers
<1>16. Escrow
  <2>. SUFFICES ASSUME NEW u \in Users, NEW a \in Asset PROVE wallets[u][a].locked = HeldFor(u, a)
    BY EscrowIs
  <2>1. OrdersLocking(u, a) = {}
    BY <1>2, OwnersAssumption DEF OrdersLocking
  <2>. QED  BY <1>2, <2>1, SumEmpty DEF HeldFor
<1>17. Reconciled
  BY <1>3 DEF Reconciled
<1>. QED
  BY <1>1, <1>7, <1>8, <1>9, <1>10, <1>11, <1>12, <1>13, <1>14, <1>15, <1>16, <1>17 DEF XInv

LEMMA StepExchange == XInv /\ [ExchangeNext]_vars => XInv'
<1>. SUFFICES ASSUME XInv, [ExchangeNext]_vars PROVE XInv'
  OBVIOUS
<1>1. CASE Place
  BY <1>1, PlaceStep
<1>2. CASE RequestCancel
  BY <1>2, RequestCancelStep
<1>3. CASE OpenMarket
  BY <1>3, OpenMarketStep
<1>4. CASE Gap
  BY <1>4, GapStep
<1>5. CASE Rejected
  BY <1>5, RejectedStep
<1>6. CASE PlaceOrder
  BY <1>6, PlaceOrderStep
<1>7. CASE MatchOne
  BY <1>7, MatchOneStep
<1>8. CASE Matched
  BY <1>8, MatchedStep
<1>9. CASE CancelOrder
  BY <1>9, CancelOrderStep
<1>10. CASE Dispatch
  BY <1>10, DispatchStep
<1>11. CASE UNCHANGED vars
  <2>1. /\ UNCHANGED <<orders, wallets, trades, market>>
        /\ UNCHANGED <<side, price, rem, stamp, now, incoming, resting>>
        /\ UNCHANGED <<engineState, last, index, batch, issued, commands, events>>
    BY <1>11 DEF vars, dbVars, bookVars, engineVars
  <2>2. SInv' /\ Locks' /\ LockCovers' /\ Escrow'
    BY <2>1, TablesKept DEF dbVars
  <2>3. UnderWay' = UnderWay /\ N' = N /\ Done' = Done /\ Command' = Command
    BY <2>1 DEF UnderWay, N, Done, Command
  <2>4. BookTypes' /\ StreamTypes' /\ Numbering' /\ Placing' /\ Matching'
    BY <2>1, <2>3 DEF XInv, BookTypes, StreamTypes, Numbering, Placing, Matching, Exists, Untouched
  <2>5. TradesSound' /\ Identified' /\ Answered' /\ Statuses'
    BY <2>1, <2>3 DEF XInv, TradesSound, SoundTrade, Identified, Used, Answered, Gone, Live,
                      Silent, CancelSent, Statuses, Heard, Exists
  <2>6. Reconciled'
    BY <2>1, <2>3 DEF XInv, Reconciled, Trading
  <2>. QED  BY <2>2, <2>4, <2>5, <2>6 DEF XInv
<1>. QED
  BY <1>1, <1>2, <1>3, <1>4, <1>5, <1>6, <1>7, <1>8, <1>9, <1>10, <1>11 DEF ExchangeNext, Engine

LEMMA ExchangeInvariant == ExchangeSpec => []XInv
BY InitExchange, StepExchange, PTL DEF ExchangeSpec

-----------------------------------------------------------------------------
(* What follows.                                                           *)

(* Whatever users ask and however it interleaves with matching, the units  *)
(* locked in a wallet are those its owner's orders have locked.            *)
THEOREM WalletsHoldLocks == ExchangeSpec => []Escrow
<1>1. XInv => Escrow
  BY DEF XInv
<1>. QED  BY <1>1, ExchangeInvariant, PTL

(* The lock of an order always pays for all it may still trade.            *)
THEOREM LocksPay == ExchangeSpec => []LockCovers
<1>1. XInv => LockCovers
  BY DEF XInv
<1>. QED  BY <1>1, ExchangeInvariant, PTL

(* The engine's book and the orders table differ by the trades under way.  *)
THEOREM BookAndTableReconciled == ExchangeSpec => []Reconciled
<1>1. XInv => Reconciled
  BY DEF XInv
<1>. QED  BY <1>1, ExchangeInvariant, PTL

(* A cancellation under way is of an order that has something left.        *)
LEMMA CancelIsDue ==
  ASSUME XInv, NEW e \in EngineEvent, e.type = "OrderCancelled", NEW i \in 1 .. N, e = UnderWay[i]
  PROVE  /\ e.order \in OrderIds /\ Releasable(e.order)
         /\ orders[e.order].status \notin {"NONE", "FILLED", "REJECTED"}
<1>0. /\ SInv /\ TypeOK /\ BookTypes /\ StreamTypes /\ Placing
      /\ Answered /\ Statuses /\ Reconciled /\ Locks /\ Escrow
  BY DEF XInv, SInv
<1>1. e.order \in OrderIds
  BY DEF EngineEvent, TradeEvent, OrderEvent, MarketEvent
<1>2. PICK k \in OrderIds : k = e.order
  BY <1>1
<1>3. stamp[k] > 0 /\ rem[k] > 0
  BY <1>0, <1>2 DEF Answered, Final, Gone, Says
<1>4. Exists(k) /\ orders[k].owner \in Users
  BY <1>0, <1>3 DEF Placing, SInv, Ownership
<1>5. orders[k].remaining # 0
  <2>1. orders[k].remaining = rem[k] + UnderWayOf(k) /\ UnderWayOf(k) \in Nat /\ rem[k] \in Nat
    BY <1>0, <1>3, ReconciledIs, TradingIs DEF BookTypes
  <2>. QED  BY <1>3, <2>1
<1>6. ASSUME orders[k].locked > 0
      PROVE  Held(orders[k].owner, LockedAsset(orders[k].side), orders[k].locked)
  <2>. DEFINE u == orders[k].owner
              a == LockedAsset(orders[k].side)
  <2>1. a \in Asset /\ u \in Users
    BY <1>4 DEF LockedAsset, Asset
  <2>2. k \in OrdersLocking(u, a)
    BY DEF OrdersLocking
  <2>3. orders[k].locked <= HeldFor(u, a) /\ HeldFor(u, a) \in Nat /\ orders[k].locked \in Nat
    BY <1>0, <2>2, HeldTypes DEF Locks
  <2>4. wallets[u][a].locked = HeldFor(u, a)
    BY <1>0, <2>1, EscrowIs
  <2>. QED  BY <1>6, <2>3, <2>4 DEF Held
<1>7. Releasable(k)
  BY <1>4, <1>6 DEF Releasable
<1>. QED  BY <1>0, <1>1, <1>2, <1>4, <1>5, <1>7 DEF Statuses, Exists

(* The backend never throws for the event it takes next, so no event is    *)
(* left behind in the pending list.                                        *)
THEOREM NoEventThrows == ExchangeSpec => []EventsAccepted
<1>1. ASSUME XInv, events # <<>>
      PROVE  Event = UnderWay[1] /\ Event \in EngineEvent /\ 1 \in 1 .. N
  <2>1. events \in Seq(EngineEvent) /\ batch \in Seq(EngineEvent)
    BY <1>1 DEF XInv, StreamTypes
  <2>2. /\ Len(events) \in Nat \ {0} /\ Event = events[1] /\ events[1] \in EngineEvent
        /\ Len(batch) \in Nat
    BY <1>1, <2>1 DEF Event
  <2>3. Len(UnderWay) = Len(events) + Len(batch) /\ UnderWay[1] = events[1]
    BY <2>1, <2>2 DEF UnderWay
  <2>. QED  BY <2>2, <2>3 DEF N
<1>2. XInv => EventsAccepted
  <2>. SUFFICES ASSUME XInv, events # <<>>
       PROVE  /\ Event.type = "TradeCreated" =>
                   Settleable(Event.engineMatchId, Event.buy, Event.sell, Event.price, Event.quantity)
              /\ Event.type = "OrderCancelled" => Releasable(Event.order)
    BY DEF EventsAccepted
  <2>. QED  BY <1>1, TradeIsPaid, CancelIsDue DEF IsTrade
<1>. QED  BY <1>2, ExchangeInvariant, PTL

(* With nothing under way the table shows as active what rests in the book.*)
THEOREM BookAndTableAgree == ExchangeSpec => []ActiveAgree
<1>1. ASSUME XInv, Quiet PROVE UnderWay = <<>> /\ N = 0
  <2>1. events = <<>> /\ batch = <<>>
    BY <1>1 DEF XInv, Matching, Quiet
  <2>2. UnderWay = <<>>
    BY <2>1 DEF UnderWay
  <2>. QED  BY <2>2 DEF N
<1>2. ASSUME XInv, Quiet, NEW o \in OrderIds, stamp[o] > 0
      PROVE  /\ Exists(o) /\ orders[o].status \notin {"PENDING", "REJECTED"}
             /\ orders[o].remaining = rem[o] /\ rem[o] \in Nat
             /\ rem[o] = 0 <=> orders[o].status = "FILLED"
             /\ orders[o].status = "CANCELLED" => Gone(o)
             /\ Gone(o) => rem[o] = 0 \/ orders[o].status = "CANCELLED"
  <2>0. /\ BookTypes /\ StreamTypes /\ Placing /\ Answered /\ Statuses /\ Reconciled
        /\ N = 0 /\ incoming = NoOrder
    BY <1>1, <1>2 DEF XInv, Quiet
  <2>1. ~Heard(o) /\ ~CancelSent(o)
    BY <2>0 DEF Heard, CancelSent
  <2>2. UnderWayOf(o) = 0
    BY <2>0, NothingUnderWay
  <2>3. orders[o].remaining = rem[o] /\ rem[o] \in Nat
    BY <1>2, <2>0, <2>2, ReconciledIs DEF BookTypes
  <2>4. Exists(o)
    BY <1>2, <2>0 DEF Placing
  <2>. QED  BY <1>2, <2>0, <2>1, <2>3, <2>4, NoOrderAssumption DEF Statuses, Answered
<1>3. ASSUME XInv, Quiet, NEW o \in resting
      PROVE  orders[o].status \in {"OPEN", "PARTIALLY_FILLED", "CANCEL_PENDING"}
  <2>1. o \in OrderIds /\ stamp[o] > 0 /\ rem[o] > 0 /\ ~Gone(o)
    BY <1>3 DEF XInv, BookTypes, Matching, Gone, Live
  <2>2. orders[o].status \in Status
    BY <2>1, <1>3 DEF XInv, SInv, TypeOK, OrderRow
  <2>. QED  BY <1>2, <1>3, <2>1, <2>2 DEF Status, Exists
<1>4. ASSUME XInv, Quiet, NEW o \in OrderIds, orders[o].status \in {"OPEN", "PARTIALLY_FILLED"}
      PROVE  o \in resting
  <2>1. Exists(o)
    BY <1>4 DEF Exists
  <2>2. stamp[o] > 0
    BY <1>4, <2>1 DEF XInv, BookTypes, Placing, Untouched
  <2>3. ~Gone(o)
    BY <1>2, <1>4, <2>2
  <2>. QED  BY <1>4, <2>2, <2>3, NoOrderAssumption DEF Gone, Live, Quiet
<1>5. XInv => ActiveAgree
  BY <1>3, <1>4 DEF ActiveAgree
<1>. QED  BY <1>5, ExchangeInvariant, PTL

(* The transactions of Settlement that an engine event asks for.           *)
Applying ==
  \/ \E status \in {"READY", "SUSPENDED"} : setMarket(status)
  \/ \E o \in OrderIds, status \in {"OPEN", "REJECTED"} : fromPending(o, status)
  \/ \E m \in MatchIds, b, s \in OrderIds : Trade(m, b, s)
  \/ \E o \in OrderIds : handleOrderCancelled(o)
  \/ \E o \in OrderIds : handleCancelOrderRejected(o)

(* The trade of an event is one the engine of Settlement may say.          *)
LEMMA DispatchApplies == ASSUME XInv, Dispatch PROVE Applying
<1>1. Takes
  BY DEF Dispatch, Takes
<1>2. PICK e \in EngineEvent : e = Event
  BY <1>1, HeadIs
<1>3. e = UnderWay[1] /\ 1 \in 1 .. N
  BY <1>1, <1>2, HeadIs
<1>4. e.type \notin {"TradeCreated", "MarketOpened", "EngineFailed"} => e.order \in OrderIds
  BY <1>2 DEF EngineEvent, TradeEvent, OrderEvent, MarketEvent
<1>5. CASE /\ e.type = "TradeCreated"
           /\ settleTrade(e.engineMatchId, e.buy, e.sell, e.takerSide, e.price, e.quantity)
  <2>1. /\ e.engineMatchId \in MatchIds /\ e.buy \in OrderIds /\ e.sell \in OrderIds
        /\ e.takerSide \in Side /\ e.quantity \in Nat \ {0}
        /\ orders[e.buy].side = "BUY" /\ orders[e.sell].side = "SELL"
        /\ orders[e.buy].price >= orders[e.sell].price
        /\ e.price = IF e.takerSide = "BUY" THEN orders[e.sell].price ELSE orders[e.buy].price
        /\ Exists(e.buy) /\ Exists(e.sell)
        /\ orders[e.buy].remaining \in Nat /\ e.quantity <= orders[e.buy].remaining
        /\ orders[e.sell].remaining \in Nat /\ e.quantity <= orders[e.sell].remaining
    BY <1>3, <1>5, TradeIsDue DEF IsTrade, Exists
  <2>2. e.quantity \in 1 .. Least(orders[e.buy].remaining, orders[e.sell].remaining)
    BY <2>1 DEF Least
  <2>3. Trade(e.engineMatchId, e.buy, e.sell)
    BY <1>5, <2>1, <2>2 DEF Trade
  <2>. QED  BY <2>1, <2>3 DEF Applying
<1>6. CASE e.type = "MarketOpened" /\ setMarket("READY")
  BY <1>6 DEF Applying
<1>7. CASE e.type = "EngineFailed" /\ setMarket("SUSPENDED")
  BY <1>7 DEF Applying
<1>8. CASE e.type = "OrderOpened" /\ fromPending(e.order, "OPEN")
  BY <1>4, <1>8 DEF Applying
<1>9. CASE e.type = "OrderRejected" /\ fromPending(e.order, "REJECTED")
  BY <1>4, <1>9 DEF Applying
<1>10. CASE e.type = "OrderCancelled" /\ handleOrderCancelled(e.order)
  BY <1>4, <1>10 DEF Applying
<1>11. CASE e.type = "CancelOrderRejected" /\ handleCancelOrderRejected(e.order)
  BY <1>4, <1>11 DEF Applying
<1>. QED
  BY <1>2, <1>5, <1>6, <1>7, <1>8, <1>9, <1>10, <1>11 DEF Dispatch

LEMMA StepsOfSettlement == XInv /\ [ExchangeNext]_vars => [Next]_dbVars
<1>. SUFFICES ASSUME XInv, [ExchangeNext]_vars, ~UNCHANGED dbVars PROVE Next
  OBVIOUS
<1>1. CASE Place
  BY <1>1 DEF Place, Next
<1>2. CASE RequestCancel
  BY <1>2 DEF RequestCancel, Next
<1>3. ~Engine /\ ~UNCHANGED vars
  BY DEF Engine, OpenMarket, Gap, Rejected, PlaceOrder, MatchOne, Matched, CancelOrder, vars
<1>4. CASE Dispatch
  BY <1>4, DispatchApplies DEF Applying, Next
<1>. QED  BY <1>1, <1>2, <1>3, <1>4 DEF ExchangeNext

(* Users, engine and streams let the tables do only what Settlement says,  *)
(* so all that is proved of Settlement holds here.                         *)
THEOREM ExchangeImplementsSettlement == ExchangeSpec => Spec
<1>1. ExchangeInit => Init
  BY DEF ExchangeInit
<1>. QED  BY <1>1, StepsOfSettlement, ExchangeInvariant, PTL DEF ExchangeSpec, Spec

(* No trade, cancel or rejection that comes late changes an order that is  *)
(* over: the engine says nothing more of it that the backend would apply.  *)
LEMMA StatusStaysFinal ==
  ASSUME XInv, [ExchangeNext]_vars, NEW o \in OrderIds,
         orders[o].status \in {"FILLED", "CANCELLED", "REJECTED"}
  PROVE  orders'[o].status = orders[o].status
<1>0. orders \in [OrderIds -> OrderRow] /\ Statuses
  BY DEF XInv, SInv, TypeOK
<1>1. CASE Place
  <2>1. PICK u \in Users, x \in OrderIds, s \in Side, p \in Price, q \in Qty : placeOrder(u, x, s, p, q)
    BY <1>1 DEF Place
  <2>2. x # o
    BY <2>1 DEF placeOrder, Exists
  <2>. QED  BY <1>0, <2>1, <2>2 DEF placeOrder
<1>2. CASE RequestCancel
  <2>1. PICK x \in OrderIds : cancelOrder(x)
    BY <1>2 DEF RequestCancel
  <2>2. x # o
    BY <2>1 DEF cancelOrder, Cancellable
  <2>. QED  BY <1>0, <2>1, <2>2 DEF cancelOrder
<1>3. CASE Engine \/ UNCHANGED vars
  <2>1. UNCHANGED orders
    BY <1>3 DEF Engine, OpenMarket, Gap, Rejected, PlaceOrder, MatchOne, Matched, CancelOrder, vars, dbVars
  <2>. QED  BY <2>1
<1>4. CASE Dispatch
  <2>1. Takes
    BY <1>4 DEF Dispatch, Takes
  <2>2. PICK e \in EngineEvent : e = Event
    BY <2>1, HeadIs
  <2>3. e = UnderWay[1] /\ 1 \in 1 .. N
    BY <2>1, <2>2, HeadIs
  <2>4. e.type \notin {"TradeCreated", "MarketOpened", "EngineFailed"} => e.order \in OrderIds
    BY <2>2 DEF EngineEvent, TradeEvent, OrderEvent, MarketEvent
  <2>5. CASE /\ e.type = "TradeCreated"
             /\ settleTrade(e.engineMatchId, e.buy, e.sell, e.takerSide, e.price, e.quantity)
    <3>1. e.buy # o /\ e.sell # o
      BY <2>3, <2>5, TradeIsDue DEF IsTrade
    <3>2. orders'[o] = orders[o]
      BY <1>0, <2>5, <3>1 DEF settleTrade
    <3>. QED  BY <3>2
  <2>6. CASE \E status : setMarket(status)
    BY <2>6 DEF setMarket
  <2>7. CASE e.type \in {"OrderOpened", "OrderRejected"} /\ \E status : fromPending(e.order, status)
    <3>1. PICK x \in OrderIds : \E status : fromPending(x, status)
      BY <2>4, <2>7
    <3>. QED  BY <1>0, <3>1 DEF fromPending
  <2>8. CASE e.type = "OrderCancelled" /\ handleOrderCancelled(e.order)
    <3>1. PICK x \in OrderIds : x = e.order
      BY <2>4, <2>8
    <3>2. orders[x].status \notin {"FILLED", "REJECTED"}
      BY <2>3, <2>8, <3>1, CancelIsDue
    <3>3. orders' = [orders EXCEPT ![x].status = "CANCELLED", ![x].locked = 0]
      BY <2>8, <3>1 DEF handleOrderCancelled
    <3>4. CASE x = o
      <4>1. orders[o].status = "CANCELLED"
        BY <3>2, <3>4
      <4>2. orders'[o] = [orders[o] EXCEPT !.status = "CANCELLED", !.locked = 0]
        BY <1>0, <3>3, <3>4
      <4>3. orders'[o].status = "CANCELLED"
        BY <1>0, <4>2 DEF OrderRow
      <4>. QED  BY <4>1, <4>3
    <3>5. CASE x # o
      BY <1>0, <3>3, <3>5
    <3>. QED  BY <3>4, <3>5
  <2>9. CASE e.type = "CancelOrderRejected" /\ handleCancelOrderRejected(e.order)
    <3>1. PICK x \in OrderIds : handleCancelOrderRejected(x)
      BY <2>4, <2>9
    <3>. QED  BY <1>0, <3>1 DEF handleCancelOrderRejected
  <2>. QED  BY <1>4, <2>2, <2>5, <2>6, <2>7, <2>8, <2>9 DEF Dispatch
<1>. QED  BY <1>1, <1>2, <1>3, <1>4 DEF ExchangeNext

(* An order that is filled, cancelled or rejected stays so.                *)
THEOREM FinalStaysFinal == ExchangeSpec => FinalStatus
<1>1. XInv /\ [ExchangeNext]_vars =>
        [\A o \in OrderIds : orders[o].status \in {"FILLED", "CANCELLED", "REJECTED"} =>
           orders'[o].status = orders[o].status]_vars
  BY StatusStaysFinal
<1>. QED  BY <1>1, ExchangeInvariant, PTL DEF ExchangeSpec, FinalStatus

-----------------------------------------------------------------------------
(* The engine's side of the exchange is the book of PriceTimeBook.         *)

(* Only placeOrder makes a row or gives it a quantity.                     *)
LEMMA RowsStay ==
  ASSUME TypeOK, NEW o \in OrderIds,
         Applying \/ (\E x \in OrderIds : cancelOrder(x)) \/ UNCHANGED dbVars
  PROVE  (Exists(o)' <=> Exists(o)) /\ orders'[o].quantity = orders[o].quantity
<1>1. orders \in [OrderIds -> OrderRow]
  BY DEF TypeOK
<1>2. CASE UNCHANGED orders
  BY <1>2 DEF Exists
<1>3. CASE \E x \in OrderIds : cancelOrder(x)
  BY <1>1, <1>3 DEF cancelOrder, Exists, Cancellable, OrderRow
<1>4. CASE \E x \in OrderIds, status \in {"OPEN", "REJECTED"} : fromPending(x, status)
  BY <1>1, <1>4 DEF fromPending, Exists, OrderRow
<1>5. CASE \E x \in OrderIds : handleCancelOrderRejected(x)
  BY <1>1, <1>5 DEF handleCancelOrderRejected, Exists, OrderRow
<1>6. CASE \E x \in OrderIds : handleOrderCancelled(x)
  BY <1>1, <1>6 DEF handleOrderCancelled, Releasable, Exists, OrderRow
<1>7. CASE \E m \in MatchIds, b, t \in OrderIds : Trade(m, b, t)
  <2>1. PICK b \in OrderIds, t \in OrderIds, q \in Nat, x \in Int, y \in Int :
          /\ Exists(b) /\ Exists(t) /\ b # t
          /\ orders' = [orders EXCEPT ![b] = Filled(@, q, x), ![t] = Filled(@, q, y)]
    <3>1. PICK m \in MatchIds, b \in OrderIds, t \in OrderIds : Trade(m, b, t)
      BY <1>7
    <3>2. PICK q \in 1 .. Least(orders[b].remaining, orders[t].remaining), takerSide \in Side :
            settleTrade(m, b, t, takerSide,
                        IF takerSide = "BUY" THEN orders[t].price ELSE orders[b].price, q)
      BY <3>1 DEF Trade
    <3>. DEFINE p == IF takerSide = "BUY" THEN orders[t].price ELSE orders[b].price
    <3>3. q \in Nat /\ p \in Nat /\ Unit \in Nat
      <4>1. /\ orders[b].price \in Nat /\ orders[t].price \in Nat
            /\ orders[b].remaining \in Nat /\ orders[t].remaining \in Nat
        BY <1>1, PriceAssumption DEF OrderRow
      <4>2. q \in Nat
        BY <4>1 DEF Least
      <4>. QED  BY <4>1, <4>2, FeesAssumption
    <3>4. q * p * Unit \in Int /\ q * Unit \in Int
      BY <3>3
    <3>5. b # t /\ Exists(b) /\ Exists(t)
      BY <3>1 DEF Trade
    <3>6. orders' = [orders EXCEPT ![b] = Filled(@, q, q * p * Unit), ![t] = Filled(@, q, q * Unit)]
      BY <3>2 DEF settleTrade
    <3>. QED  BY <3>3, <3>4, <3>5, <3>6
  <2>2. \A r \in OrderRow, k \in Nat, z \in Int :
          Filled(r, k, z).quantity = r.quantity /\ Filled(r, k, z).status # "NONE"
    BY DEF Filled, OrderRow
  <2>3. CASE o = b \/ o = t
    <3>1. orders'[o] = Filled(orders[o], q, x) \/ orders'[o] = Filled(orders[o], q, y)
      BY <1>1, <2>1, <2>3
    <3>. QED  BY <1>1, <2>1, <2>2, <2>3, <3>1 DEF Exists
  <2>4. CASE o # b /\ o # t
    BY <1>1, <2>1, <2>4 DEF Exists
  <2>. QED  BY <2>3, <2>4
<1>8. CASE \E status \in {"READY", "SUSPENDED"} : setMarket(status)
  BY <1>2, <1>8 DEF setMarket
<1>. QED  BY <1>2, <1>3, <1>4, <1>5, <1>6, <1>7, <1>8 DEF Applying, dbVars

(* An order is in the table with a quantity it may be placed with.         *)
Quantities == \A o \in OrderIds : Exists(o) => orders[o].quantity \in Qty

(* What an exchange step that places no order does to the tables.          *)
LEMMA OthersApply ==
  ASSUME XInv, [ExchangeNext]_vars, ~Place
  PROVE  Applying \/ (\E x \in OrderIds : cancelOrder(x)) \/ UNCHANGED dbVars
<1>1. CASE RequestCancel
  BY <1>1 DEF RequestCancel
<1>2. CASE Engine \/ UNCHANGED vars
  BY <1>2 DEF Engine, OpenMarket, Gap, Rejected, PlaceOrder, MatchOne, Matched, CancelOrder, vars
<1>3. CASE Dispatch
  BY <1>3, DispatchApplies
<1>. QED  BY <1>1, <1>2, <1>3 DEF ExchangeNext

LEMMA QuantitiesStep == XInv /\ Quantities /\ [ExchangeNext]_vars => Quantities'
<1>. SUFFICES ASSUME XInv, Quantities, [ExchangeNext]_vars, NEW o \in OrderIds, Exists(o)'
     PROVE  orders'[o].quantity \in Qty
  BY DEF Quantities
<1>0. TypeOK /\ orders \in [OrderIds -> OrderRow]
  BY DEF XInv, SInv, TypeOK
<1>1. CASE Place
  <2>1. PICK u \in Users, x \in OrderIds, s \in Side, p \in Price, q \in Qty : placeOrder(u, x, s, p, q)
    BY <1>1 DEF Place
  <2>2. CASE x = o
    <3>1. orders'[o] = [owner |-> u, side |-> s, price |-> p, quantity |-> q, filled |-> 0,
                        remaining |-> q, locked |-> LockedAmount(s, p, q), status |-> "PENDING"]
      BY <1>0, <2>1, <2>2 DEF placeOrder
    <3>. QED  BY <3>1
  <2>3. CASE x # o
    <3>1. orders'[o] = orders[o]
      BY <1>0, <2>1, <2>3 DEF placeOrder
    <3>. QED  BY <3>1 DEF Exists, Quantities
  <2>. QED  BY <2>2, <2>3
<1>2. CASE ~Place
  BY <1>0, <1>2, OthersApply, RowsStay DEF Quantities
<1>. QED  BY <1>1, <1>2

LEMMA StepsOfBook == XInv /\ Quantities /\ [ExchangeNext]_vars => [Book!Next]_bookVars
<1>. SUFFICES ASSUME XInv, Quantities, ExchangeNext, ~UNCHANGED bookVars PROVE Book!Next
  BY DEF vars
<1>1. CASE PlaceOrder
  <2>1. /\ Command.order \in OrderIds /\ Exists(Command.order)
        /\ orders[Command.order] \in OrderRow
    BY <1>1, PlaceOrderIs
  <2>2. PICK o \in OrderIds : o = Command.order
    BY <2>1
  <2>3. orders[o].side \in Side /\ orders[o].price \in Price /\ orders[o].quantity \in Qty
    BY <2>1, <2>2 DEF OrderRow, Quantities
  <2>4. Book!Submit(o, orders[o].side, orders[o].price, orders[o].quantity)
    BY <1>1, <2>2 DEF PlaceOrder
  <2>. QED  BY <2>3, <2>4 DEF Book!Next, Book!Side, Side
<1>2. CASE MatchOne
  <2>1. PICK r \in resting : Book!Trade(r)
    BY <1>2 DEF MatchOne
  <2>2. r \in OrderIds
    BY DEF XInv, BookTypes
  <2>. QED  BY <2>1, <2>2 DEF Book!Next
<1>3. CASE Matched
  BY <1>3 DEF Matched, Book!Next
<1>4. CASE CancelOrder
  <2>1. PICK o \in resting : Book!Withdraw(o)
    BY <1>4 DEF CancelOrder, Book!Withdraw
  <2>2. o \in OrderIds
    BY DEF XInv, BookTypes
  <2>. QED  BY <2>1, <2>2 DEF Book!Next
<1>5. ~OpenMarket /\ ~Gap /\ ~Rejected /\ ~Place /\ ~RequestCancel /\ ~Dispatch
  BY DEF OpenMarket, Gap, Rejected, Place, RequestCancel, Send, Dispatch, engineVars
<1>. QED  BY <1>1, <1>2, <1>3, <1>4, <1>5 DEF ExchangeNext, Engine

(* Whatever users and the backend do, the engine's book is one that        *)
(* PriceTimeBook allows: no command or event gets between the trades of an *)
(* order and the priority they owe.                                        *)
THEOREM ExchangeImplementsBook == ExchangeSpec => Book!Spec
<1>1. ExchangeInit => Quantities
  BY DEF ExchangeInit, Init, Quantities, Exists
<1>2. ExchangeInit => Book!Init
  BY DEF ExchangeInit
<1>3. XInv /\ Quantities /\ [ExchangeNext]_vars => [Book!Next]_(Book!bookVars)
  BY StepsOfBook DEF bookVars, Book!bookVars
<1>. QED
  BY <1>1, <1>2, <1>3, QuantitiesStep, ExchangeInvariant, PTL DEF ExchangeSpec, Book!Spec

-----------------------------------------------------------------------------
(* Why an order leaves PENDING: what will answer it is in a stream.        *)
Sending(o) == \E i \in 1 .. Len(commands) :
  commands[i].type = "PlaceOrder" /\ commands[i].order = o

NotForgotten ==
  \A o \in OrderIds : orders[o].status = "PENDING" =>
    engineState = "FAILED" \/ Sending(o) \/ Heard(o)

(* An order the engine has not seen is on its way to it, unless it failed. *)
OnItsWay == \A o \in OrderIds : Exists(o) /\ stamp[o] = 0 => engineState = "FAILED" \/ Sending(o)

(* A command is appended, or the head of the stream is done with.          *)
LEMMA SendingKept ==
  ASSUME StreamTypes, NEW o,
         Sending(o),
         \/ commands' = commands
         \/ \E c \in OpenCommand \cup OrderCommand : commands' = Append(commands, c)
         \/ /\ commands # <<>> /\ commands' = Tail(commands)
            /\ ~(commands[1].type = "PlaceOrder" /\ commands[1].order = o)
  PROVE  Sending(o)'
<1>0. commands \in Seq(OpenCommand \cup OrderCommand) /\ Len(commands) \in Nat
  BY DEF StreamTypes
<1>1. PICK i \in 1 .. Len(commands) : commands[i].type = "PlaceOrder" /\ commands[i].order = o
  BY DEF Sending
<1>2. CASE commands' = commands
  BY <1>1, <1>2 DEF Sending
<1>3. CASE \E c \in OpenCommand \cup OrderCommand : commands' = Append(commands, c)
  <2>1. PICK c \in OpenCommand \cup OrderCommand : commands' = Append(commands, c)
    BY <1>3
  <2>2. Len(commands') = Len(commands) + 1 /\ commands'[i] = commands[i]
    BY <1>0, <2>1
  <2>3. i \in 1 .. Len(commands')
    BY <1>0, <2>2
  <2>. QED  BY <1>1, <2>2, <2>3 DEF Sending
<1>4. CASE /\ commands # <<>> /\ commands' = Tail(commands)
           /\ ~(commands[1].type = "PlaceOrder" /\ commands[1].order = o)
  <2>1. i # 1
    BY <1>1, <1>4
  <2>2. Len(commands') = Len(commands) - 1 /\ commands'[i - 1] = commands[i] /\ i - 1 \in 1 .. Len(commands')
    BY <1>0, <1>4, <2>1, HeadTailProperties
  <2>. QED  BY <1>1, <2>2 DEF Sending
<1>. QED  BY <1>2, <1>3, <1>4

(* An engine that failed stays so: the only command that opens the market  *)
(* is the first.                                                           *)
LEMMA FailedStays ==
  ASSUME XInv, [ExchangeNext]_vars, engineState = "FAILED"
  PROVE  engineState' = "FAILED"
<1>1. CASE OpenMarket
  <2>1. StreamTypes /\ Numbering /\ commands # <<>> /\ Command.type = "OpenMarket"
    BY <1>1 DEF XInv, OpenMarket, Ready
  <2>2. Done \in Nat /\ Command = commands[1] /\ Command.seq = Done + 1 /\ 1 \in 1 .. Len(commands)
    BY <2>1, Popped
  <2>3. Done = 0 /\ last < Done /\ last \in Nat
    BY <2>1, <2>2 DEF Numbering, StreamTypes
  <2>. QED  BY <2>3
<1>2. CASE ~OpenMarket
  BY <1>2 DEF ExchangeNext, Engine, Place, RequestCancel, Send, Gap, Rejected, PlaceOrder, MatchOne,
              Matched, CancelOrder, Dispatch, engineVars, vars
<1>. QED  BY <1>1, <1>2

(* What the engine is done with was no order that waits for it.            *)
LEMMA HeadIsSeen ==
  ASSUME XInv, [ExchangeNext]_vars, commands' = Tail(commands), commands # <<>>, NEW o \in OrderIds,
         commands[1].type = "PlaceOrder", commands[1].order = o, stamp'[o] = 0
  PROVE  engineState' = "FAILED"
<1>. StreamTypes /\ Matching
  BY DEF XInv
<1>0. /\ commands \in Seq(OpenCommand \cup OrderCommand) /\ Command = commands[1]
      /\ Len(Tail(commands)) = Len(commands) - 1 /\ Len(commands) \in Nat
  BY HeadTailProperties DEF StreamTypes, Command
<1>1. Len(commands') < Len(commands)
  BY <1>0
<1>2. CASE Place \/ RequestCancel
  <2>1. \E c : commands' = Append(commands, c)
    BY <1>2 DEF Place, RequestCancel, Send
  <2>. QED  BY <1>0, <1>1, <2>1 DEF StreamTypes
<1>3. CASE PlaceOrder \/ MatchOne \/ Dispatch \/ UNCHANGED vars
  <2>1. commands' = commands
    BY <1>3 DEF PlaceOrder, MatchOne, Dispatch, vars
  <2>. QED  BY <1>0, <1>1, <2>1
<1>4. ~OpenMarket /\ ~CancelOrder
  BY <1>0 DEF OpenMarket, CancelOrder
<1>5. ~Rejected
  BY <1>0, RejectedIs
<1>6. CASE Matched
  <2>1. incoming = o /\ stamp[o] > 0 /\ UNCHANGED stamp
    BY <1>0, <1>6 DEF Matched, Book!Finish, Matching
  <2>. QED  BY <2>1
<1>7. CASE Gap
  BY <1>7 DEF Gap
<1>. QED  BY <1>2, <1>3, <1>4, <1>5, <1>6, <1>7 DEF ExchangeNext, Engine

(* The three ways the stream of commands may change.                       *)
LEMMA CommandsChange ==
  ASSUME XInv, [ExchangeNext]_vars
  PROVE  \/ commands' = commands
         \/ \E type \in {"PlaceOrder", "CancelOrder"}, x \in OrderIds :
              commands' = Append(commands, [type |-> type, seq |-> issued + 1, order |-> x])
         \/ commands # <<>> /\ commands' = Tail(commands)
<1>1. CASE Place \/ RequestCancel
  BY <1>1 DEF Place, RequestCancel, Send
<1>2. CASE PlaceOrder \/ MatchOne \/ Dispatch \/ UNCHANGED vars
  BY <1>2 DEF PlaceOrder, MatchOne, Dispatch, vars
<1>3. CASE OpenMarket \/ Gap \/ Rejected \/ CancelOrder
  BY <1>3 DEF OpenMarket, Gap, Rejected, CancelOrder, Ready, Publish
<1>4. CASE Matched
  BY <1>4 DEF Matched, Publish, Book!Finish, XInv, Matching
<1>. QED  BY <1>1, <1>2, <1>3, <1>4 DEF ExchangeNext, Engine

LEMMA OnItsWayStep == XInv /\ OnItsWay /\ [ExchangeNext]_vars => OnItsWay'
<1>. SUFFICES ASSUME XInv, OnItsWay, [ExchangeNext]_vars,
                     NEW o \in OrderIds, Exists(o)', stamp'[o] = 0, engineState' # "FAILED"
     PROVE  Sending(o)'
  BY DEF OnItsWay, Sending
<1>0. /\ TypeOK /\ StreamTypes /\ BookTypes /\ engineState # "FAILED"
      /\ orders \in [OrderIds -> OrderRow]
  BY FailedStays DEF XInv, SInv, TypeOK
<1>1. CASE ~Exists(o)
  <2>1. Place
    BY <1>0, <1>1, OthersApply, RowsStay
  <2>2. PICK u \in Users, x \in OrderIds, s \in Side, p \in Price, q \in Qty :
          placeOrder(u, x, s, p, q) /\ Send("PlaceOrder", x)
    BY <2>1 DEF Place
  <2>3. x = o
    <3>1. SUFFICES ASSUME x # o PROVE FALSE
      OBVIOUS
    <3>2. orders'[o] = orders[o]
      BY <1>0, <2>2, <3>1 DEF placeOrder
    <3>. QED  BY <1>1, <3>2 DEF Exists
  <2>. DEFINE c == [type |-> "PlaceOrder", seq |-> issued + 1, order |-> o]
  <2>4. commands' = Append(commands, c) /\ c.type = "PlaceOrder" /\ c.order = o /\ Len(commands) \in Nat
    BY <1>0, <2>2, <2>3 DEF Send, StreamTypes
  <2>. HIDE DEF c
  <2>5. Len(commands') = Len(commands) + 1 /\ commands'[Len(commands) + 1] = c
    BY <1>0, <2>4 DEF StreamTypes
  <2>6. Len(commands) + 1 \in 1 .. Len(commands')
    BY <2>4, <2>5
  <2>. QED  BY <2>4, <2>5, <2>6 DEF Sending
<1>2. CASE Exists(o)
  <2>1. stamp[o] = 0
    <3>1. SUFFICES ASSUME stamp[o] # 0 PROVE FALSE
      OBVIOUS
    <3>2. stamp'[o] # 0
      <4>1. CASE PlaceOrder
        BY <1>0, <3>1, <4>1 DEF PlaceOrder, Book!Submit, BookTypes
      <4>2. CASE MatchOne
        BY <3>1, <4>2 DEF MatchOne, Book!Trade
      <4>3. CASE Matched
        BY <3>1, <4>3 DEF Matched, Book!Finish
      <4>4. CASE CancelOrder
        BY <3>1, <4>4 DEF CancelOrder, Book!Withdraw
      <4>5. CASE UNCHANGED stamp
        BY <3>1, <4>5
      <4>. QED
        BY <4>1, <4>2, <4>3, <4>4, <4>5 DEF ExchangeNext, Engine, OpenMarket, Gap, Rejected, Place,
           RequestCancel, Send, Dispatch, bookVars, vars
    <3>. QED  BY <3>2
  <2>2. Sending(o)
    BY <1>0, <1>2, <2>1 DEF OnItsWay
  <2>3. CASE commands' = commands
    BY <1>0, <2>2, <2>3, SendingKept
  <2>4. CASE \E type \in {"PlaceOrder", "CancelOrder"}, x \in OrderIds :
               commands' = Append(commands, [type |-> type, seq |-> issued + 1, order |-> x])
    <3>1. PICK type \in {"PlaceOrder", "CancelOrder"}, x \in OrderIds :
               commands' = Append(commands, [type |-> type, seq |-> issued + 1, order |-> x])
      BY <2>4
    <3>2. [type |-> type, seq |-> issued + 1, order |-> x] \in OpenCommand \cup OrderCommand
      BY <1>0, CommandsAssumption DEF StreamTypes, OrderCommand
    <3>3. \E c \in OpenCommand \cup OrderCommand : commands' = Append(commands, c)
      BY <3>1, <3>2
    <3>. QED  BY <1>0, <2>2, <3>3, SendingKept
  <2>5. CASE commands # <<>> /\ commands' = Tail(commands)
    <3>1. ~(commands[1].type = "PlaceOrder" /\ commands[1].order = o)
      BY <2>5, HeadIsSeen
    <3>. QED  BY <1>0, <2>2, <2>5, <3>1, SendingKept
  <2>. QED  BY <2>3, <2>4, <2>5, CommandsChange
<1>. QED  BY <1>1, <1>2

(* An order that is PENDING has its PlaceOrder in the command stream or a  *)
(* first event in the event stream, unless the engine failed: no step      *)
(* drops the answer it waits for.                                          *)
THEOREM NoOrderForgotten == ExchangeSpec => []NotForgotten
<1>1. ExchangeInit => OnItsWay
  BY DEF ExchangeInit, Init, OnItsWay, Exists
<1>2. XInv /\ OnItsWay => NotForgotten
  <2>. SUFFICES ASSUME XInv, OnItsWay, NEW o \in OrderIds, orders[o].status = "PENDING",
                       engineState # "FAILED", ~Heard(o)
       PROVE  Sending(o)
    BY DEF NotForgotten
  <2>1. BookTypes /\ StreamTypes /\ Matching /\ Statuses /\ Exists(o)
    BY DEF XInv, Exists
  <2>2. CASE stamp[o] = 0
    BY <2>1, <2>2 DEF OnItsWay
  <2>3. CASE stamp[o] > 0
    <3>1. o = incoming
      BY <2>1, <2>3 DEF Statuses
    <3>2. commands # <<>> /\ Command.type = "PlaceOrder" /\ Command.order = o
      BY <2>1, <3>1, NoOrderAssumption DEF Matching
    <3>3. Command = commands[1] /\ 1 \in 1 .. Len(commands)
      BY <2>1, <3>2 DEF StreamTypes, Command
    <3>. QED  BY <3>2, <3>3 DEF Sending
  <2>. QED  BY <2>1, <2>2, <2>3 DEF BookTypes
<1>. QED  BY <1>1, <1>2, OnItsWayStep, ExchangeInvariant, PTL DEF ExchangeSpec

=============================================================================
