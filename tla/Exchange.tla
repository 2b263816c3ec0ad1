------------------------------ MODULE Exchange ------------------------------
(***************************************************************************)
(* One market end to end: users and the backend's tables (Settlement), the *)
(* commands it sends, the pair engine and its book, and the events that    *)
(* come back.  Both streams deliver in order, once, and nothing crashes:   *)
(* what goes wrong here goes wrong on a good day.                          *)
(*                                                                         *)
(* The engine's book is PriceTimeBook, which OrderBook implements.  The    *)
(* engine publishes the events of a command when it is done with it, so    *)
(* the backend, the users and the matching loop all interleave.            *)
(***************************************************************************)
EXTENDS Settlement, Sequences

CONSTANT MaxCommands   \* bound on the commands of one behaviour

ASSUME CommandsAssumption == MaxCommands \in Nat \ {0}
ASSUME OrdersAssumption   == IsFiniteSet(OrderIds)

\* An engineMatchId is a commandSequence and a matchIndex: a command trades
\* with each resting order at most once.
ASSUME MatchIdsAssumption ==
  \A n \in 1 .. MaxCommands, i \in 0 .. Cardinality(OrderIds) : <<n, i>> \in MatchIds

VARIABLES
  side, price, rem, stamp, now, incoming, resting,  \* the book
  engineState,  \* PairEngine.State
  last,         \* PairEngine.LastProcessedCmdSeq
  index,        \* the matchIndex of the next trade of this command
  issued,       \* the last commandSequence the backend took
  commands,     \* stream:engine:commands ahead of the engine
  batch,        \* the events of the command the engine is working on
  events        \* stream:engine:events ahead of the backend

bookVars == <<side, price, rem, stamp, now, incoming, resting>>
engineVars == <<engineState, last, index, batch>>
vars == <<dbVars, bookVars, engineVars, issued, commands, events>>

Book == INSTANCE PriceTimeBook

-----------------------------------------------------------------------------
(* The backend: requests of users put a command in the outbox, in the      *)
(* transaction that changes the tables.                                    *)

\* At start the bootstrap sends OpenMarket for the RECOVERING pair.
ExchangeInit ==
  /\ Init
  /\ Book!Init
  /\ engineState = "RECOVERING" /\ last = 0 /\ index = 0 /\ batch = <<>>
  /\ issued = 1
  /\ commands = <<[type |-> "OpenMarket", seq |-> 1]>>
  /\ events = <<>>

Send(type, o) ==
  /\ issued < MaxCommands
  /\ issued' = issued + 1
  /\ commands' = Append(commands, [type |-> type, seq |-> issued + 1, order |-> o])
  /\ UNCHANGED <<bookVars, engineVars, events>>

Place ==
  \E u \in Users, o \in OrderIds, s \in Side, p \in Price, q \in Qty :
    placeOrder(u, o, s, p, q) /\ Send("PlaceOrder", o)

RequestCancel == \E o \in OrderIds : cancelOrder(o) /\ Send("CancelOrder", o)

-----------------------------------------------------------------------------
(* The engine.  It takes a command when it is done with the one before.    *)

Command == Head(commands)
Ready == commands # <<>> /\ incoming = NoOrder

\* The command is acknowledged and its events are published.
Publish(evs) ==
  /\ commands' = Tail(commands)
  /\ events' = events \o evs

\* HandleOpenMarket: the first command of a new engine, of any sequence.
OpenMarket ==
  /\ Ready /\ Command.type = "OpenMarket" /\ last = 0
  /\ engineState' = "READY"
  /\ last' = Command.seq
  /\ Publish(<<[type |-> "MarketOpened"]>>)
  /\ UNCHANGED <<dbVars, bookVars, issued, index, batch>>

\* validateSeq finds a gap: the engine fails and the command is dropped.
Gap ==
  /\ Ready /\ Command.seq > last + 1
  /\ engineState' = "FAILED"
  /\ Publish(<<[type |-> "EngineFailed"]>>)
  /\ UNCHANGED <<dbVars, bookVars, issued, last, index, batch>>

\* A rejection leaves LastProcessedCmdSeq where it was.
Rejected ==
  /\ Ready /\ Command.seq = last + 1 /\ Command.type # "OpenMarket"
  /\ \/ engineState # "READY"
     \/ Command.type = "CancelOrder" /\ Command.order \notin resting
  /\ Publish(<<[type |-> IF Command.type = "PlaceOrder" THEN "OrderRejected"
                         ELSE "CancelOrderRejected",
                order |-> Command.order]>>)
  /\ UNCHANGED <<dbVars, bookVars, engineVars, issued>>

PlaceOrder ==
  LET o == Command.order
      row == orders[o]
  IN
  /\ Ready /\ Command.seq = last + 1 /\ Command.type = "PlaceOrder"
  /\ engineState = "READY"
  /\ Book!Submit(o, row.side, row.price, row.quantity)
  /\ UNCHANGED <<dbVars, engineVars, issued, commands, events>>

\* One TradeCreated for each trade, before any other event of the command.
TradeCreated(r, q) ==
  [type |-> "TradeCreated",
   engineMatchId |-> <<Command.seq, index>>,
   buy |-> IF side[incoming] = "BUY" THEN incoming ELSE r,
   sell |-> IF side[incoming] = "BUY" THEN r ELSE incoming,
   takerSide |-> side[incoming],
   price |-> price[r],
   quantity |-> q]

\* Fault: every trade of a command has the same matchIndex.
MatchOneSameIndex ==
  \E r \in resting :
    /\ Book!Trade(r)
    /\ batch' = Append(batch, TradeCreated(r, Least(rem[incoming], rem[r])))
    /\ UNCHANGED <<dbVars, engineState, last, index, issued, commands, events>>

MatchOne ==
  \E r \in resting :
    /\ Book!Trade(r)
    /\ batch' = Append(batch, TradeCreated(r, Least(rem[incoming], rem[r])))
    /\ index' = index + 1
    /\ UNCHANGED <<dbVars, engineState, last, issued, commands, events>>

\* Fault: no OrderOpened for an order that rests.
OpenedNever == <<>>

\* OrderOpened only when the incoming order was not fully filled.
Opened ==
  IF rem[incoming] > 0
  THEN <<[type |-> "OrderOpened", order |-> incoming]>> ELSE <<>>

\* Fault: the events of a command that matched are published without its trades.
MatchedLosesBatch ==
  /\ Book!Finish
  /\ Publish(Opened)
  /\ last' = Command.seq
  /\ batch' = <<>> /\ index' = 0
  /\ UNCHANGED <<dbVars, engineState, issued>>

Matched ==
  /\ Book!Finish
  /\ Publish(batch \o Opened)
  /\ last' = Command.seq
  /\ batch' = <<>> /\ index' = 0
  /\ UNCHANGED <<dbVars, engineState, issued>>

CancelOrder ==
  /\ Ready /\ Command.seq = last + 1 /\ Command.type = "CancelOrder"
  /\ engineState = "READY"
  /\ Book!Withdraw(Command.order)
  /\ last' = Command.seq
  /\ Publish(<<[type |-> "OrderCancelled", order |-> Command.order]>>)
  /\ UNCHANGED <<dbVars, issued, engineState, index, batch>>

Engine == \/ OpenMarket \/ Gap \/ Rejected \/ PlaceOrder \/ MatchOne \/ Matched \/ CancelOrder

-----------------------------------------------------------------------------
(* The backend again: dispatch, one transaction for each event.            *)

Event == Head(events)

Dispatch ==
  /\ events # <<>>
  /\ \/ Event.type = "MarketOpened" /\ setMarket("READY")
     \/ Event.type = "EngineFailed" /\ setMarket("SUSPENDED")
     \/ Event.type = "OrderOpened" /\ fromPending(Event.order, "OPEN")
     \/ Event.type = "OrderRejected" /\ fromPending(Event.order, "REJECTED")
     \/ Event.type = "TradeCreated" /\ settleTrade(Event.engineMatchId, Event.buy, Event.sell,
                                                  Event.takerSide, Event.price, Event.quantity)
     \/ Event.type = "OrderCancelled" /\ handleOrderCancelled(Event.order)
     \/ Event.type = "CancelOrderRejected" /\ handleCancelOrderRejected(Event.order)
  /\ events' = Tail(events)
  /\ UNCHANGED <<bookVars, engineVars, issued, commands>>

ExchangeNext == Place \/ RequestCancel \/ Engine \/ Dispatch

ExchangeSpec == ExchangeInit /\ [][ExchangeNext]_vars

\* The engine's loop and the backend's consumer loop keep running; users may
\* do nothing.
FairExchangeSpec == ExchangeSpec /\ WF_vars(Engine) /\ WF_vars(Dispatch)

-----------------------------------------------------------------------------
(* Properties.                                                             *)

(* Every unit a wallet has locked belongs to an order of its owner that    *)
(* has it locked, and the reverse.  placeOrder, settleTrade and the        *)
(* cancellation each change the two tables by amounts computed apart.      *)
OrdersLocking(u, a) ==
  {o \in OrderIds : orders[o].owner = u /\ LockedAsset(orders[o].side) = a}

Escrow ==
  \A u \in Users, a \in Asset :
    wallets[u][a].locked = SumFunction([o \in OrdersLocking(u, a) |-> orders[o].locked])

(* What an order has locked always pays for what it may still trade at its *)
(* limit, and a sell locks exactly that.                                   *)
LockCovers ==
  \A o \in OrderIds : orders[o].status \notin {"NONE", "CANCELLED"} =>
    LET need == LockedAmount(orders[o].side, orders[o].price, orders[o].remaining) IN
    IF orders[o].side = "BUY" THEN orders[o].locked >= need ELSE orders[o].locked = need

(* The backend never throws for an event of the engine: a transaction that *)
(* throws leaves the event in the pending list and the consumer goes on    *)
(* without it.                                                             *)
EventsAccepted ==
  events # <<>> =>
    /\ Event.type = "TradeCreated" =>
         Settleable(Event.engineMatchId, Event.buy, Event.sell, Event.price, Event.quantity)
    /\ Event.type = "OrderCancelled" => Releasable(Event.order)

(* The engine's book and the orders table differ by the events that are    *)
(* still under way, and by nothing else: an order the engine has seen has  *)
(* in the table what it has in the book and what it is about to trade.     *)
UnderWay == events \o batch

Trading(o) == {i \in 1 .. Len(UnderWay) :
  /\ UnderWay[i].type = "TradeCreated"
  /\ UnderWay[i].buy = o \/ UnderWay[i].sell = o}

Reconciled ==
  \A o \in OrderIds : stamp[o] > 0 =>
    orders[o].remaining = rem[o] + SumFunction([i \in Trading(o) |-> UnderWay[i].quantity])

(* When nothing is under way the table shows as active the orders of the   *)
(* book: a resting order is open, partly filled or waits for its cancel,   *)
(* and an order shown as open rests.                                       *)
Quiet == commands = <<>> /\ events = <<>> /\ incoming = NoOrder

ActiveAgree ==
  Quiet =>
    /\ \A o \in resting : orders[o].status \in {"OPEN", "PARTIALLY_FILLED", "CANCEL_PENDING"}
    /\ \A o \in OrderIds : orders[o].status \in {"OPEN", "PARTIALLY_FILLED"} => o \in resting

(* An order that is filled, cancelled or rejected stays so: a late trade,  *)
(* cancel or rejection never brings it back.                               *)
FinalStatus ==
  [][\A o \in OrderIds : orders[o].status \in {"FILLED", "CANCELLED", "REJECTED"} =>
       orders'[o].status = orders[o].status]_vars

(* Every order leaves PENDING, unless the engine failed.                   *)
OrdersAnswered ==
  \A o \in OrderIds :
    orders[o].status = "PENDING" ~> (orders[o].status # "PENDING" \/ engineState = "FAILED")

-----------------------------------------------------------------------------
(* What the documents of the repository say and the code does not do.      *)

(* docs/12-test-plan.md: a cancel that comes after the full fill is        *)
(* answered and acknowledged, and the market goes on; it fails for a gap   *)
(* in the sequence only, and here there is none.                           *)
NeverFails == engineState # "FAILED"
=============================================================================
