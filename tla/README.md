# Verification of hau-cex

hau-cex is a spot exchange: a NestJS backend with PostgreSQL, a matching engine
in Go, and Redis Streams between them. This directory holds TLA+ models of its
core, the TLC configurations that check them and proofs that TLAPS checks.
Paths below are relative to the repository's root; `docs/NN` is the document of
that number.

## The system

| Part | State | Operations |
| --- | --- | --- |
| Orders and wallets (`apps/backend/src/modules/orders`, `wallets`) | rows of orders, wallets, ledger | `placeOrder`, `cancelOrder`, the moves of `WalletBalanceService` |
| Command numbering (`common/helpers/sequence.helper.ts`) | Postgres sequences `order_seq_*`, `cmd_seq_*` | `nextOrderSequence`, `nextCommandSequence` |
| Outbox (`modules/outbox`, `modules/engine`) | rows of `outbox_events` | bootstrap of `OpenMarket`, fetch, XADD, mark, back off, give up |
| Engine transport (`services/matching-engine/internal/transport`, `publisher`) | consumer group of `stream:engine:commands` | `Run`, `drainPending`, `dispatch`, `PublishBatch`, ack |
| Pair engine (`internal/pair`) | state, `LastProcessedCmdSeq`, sequences of trades and books; memory only | `HandleOpenMarket`, `HandlePlaceOrder`, `HandleCancelOrder` |
| Order book (`internal/orderbook`, `matching`) | heap, map of levels, FIFO list of each level, `ActiveOrders` | `AddOrder`, `Match`, `RemoveOrder` |
| Event consumer (`modules/engine-events`) | consumer group of `stream:engine:events`, `processed_events`, order book cache, `stream:market:events` | `drainPending`, `processBatch`, `handleMessage`, `postProcessMarketEvent` |
| Settlement (`modules/engine-events`) | orders, wallets, trades | `settleTrade`, `handleOrderCancelled`, `handleCancelOrderRejected`, the status updates of `dispatch` |
| Sessions (`modules/auth`) | users, sessions, refresh tokens | `register`, `login`, `refresh`, `logout` |
| Wallet and ledger queries (`modules/wallets`, `common/helpers/cursor.helper.ts`) | ledger rows | the rows each balance method writes, `getMyLedger` page by page |
| Market fan-out (`modules/market`) | consumer group of `stream:market:events`, Socket.IO rooms | `processBatch`, subscribe and unsubscribe, `getOrderBook`, `getRecentTrades` |
| Contracts (`contracts/`) | vault, faucet, test tokens | `deposit`, `recoverERC20`, `claim`, configuration, pause; `deploy.ts` |
| Schema and seed (`apps/backend/prisma`) | wallets and ledger rows of two users and the treasury | `seed.ts` |
| Not modelled | | order queries, decimal text, web front end (see the end) |

A request is one PostgreSQL transaction that locks funds, writes the order and
puts a command in the outbox. The poller copies the outbox to the command
stream. The engine numbers nothing: it accepts the command whose number is one
more than the last, matches in memory, publishes the events and acknowledges
the command. The backend applies each event in a transaction of its own and
then updates a cache and a public stream.

What is hard here: transactions of different users interleave between row locks
and sequences that no rollback undoes; every step between PostgreSQL and Redis
can fail half-way; the engine's state does not survive a restart; consumers
read on past what they failed on; cancels cross fills.

What makes each part correct:

- book: heap, map, lists and `ActiveOrders` describe the same orders; price,
  then time; never crossed; matching ends;
- settlement: no wallet overdrawn, nothing made or lost, locks belong to orders,
  final statuses final;
- ledger: its rows explain every balance, and paging loses and repeats none;
- command path: what is published was committed, nothing committed is lost in
  silence, the order of the commands of one wallet and of cancels is kept;
- engine: an unbroken run of commands in each life, effects once and in order;
- consumer: each event applied once, forgotten only when applied, announced only
  when committed;
- sessions: a rotated or logged-out session is spent, a locked account gets none;
- market fan-out: who joins and then reads is not behind what was broadcast;
- contracts: the vault holds what it reported as deposited, claims keep their cooldown.

## Modules

| Module | Models | State and actions |
| --- | --- | --- |
| `Market` | sides, prices, crossing | operators only |
| `PriceTimeBook` | what a book promises: the best price first, then the oldest order | orders with side, price, rest and stamp; `Submit`, `Trade`, `Finish`, `Withdraw` |
| `OrderBook` | `matcher.go`, `orderbook/*.go` | heaps as sets of prices, levels as a map to FIFO sequences, totals; `MatchOne` is one iteration of the loop, `Cancel` is `RemoveOrder` |
| `Settlement` | orders, wallets and trades under requests and events | one action per transaction |
| `Exchange` | `Settlement` + engine + `PriceTimeBook`, streams in order | `Place`, `RequestCancel`, engine actions, `Dispatch` |
| `CommandPath` | `placeOrder` and `cancelOrder` between their locks, the sequences, the poller | one action per statement that locks, draws or commits |
| `PairEngine` | transport, publisher and handlers under failures and restarts | read, handle, publish, acknowledge; each may fail |
| `EventConsumer` | the consume loop under failures and restarts | transact, post-process, acknowledge; each may fail |
| `MarketFeed` | `EventConsumer` + fan-out, gateway rooms, one client that reads | `FanRead`, `Broadcast` and how they fail, `handleSubscribe`, `getOrderBook`, `getRecentTrades` |
| `Sessions` | `auth.service.ts` | one action per statement of a request; any request may stop anywhere |
| `Seed`, `Ledger` | `seed.ts`; `WalletBalanceService` under overlapping transactions, `getMyLedger` | lock, write, commit, roll back; a reader page by page; what there is at the start is a constant, which `MCLedger` takes from `Seed` |
| `Vault` | `ExchangeVault`, `TokenFaucet`, `MockERC20`, `deploy.ts` | one action per transaction; the script's steps in order |
| `Sums` | | lemmas about sums over finite sets |
| `OrderBookProofs`, `CommandPathProofs`, `PairEngineProofs`, `VaultProofs` | | theorems about the module of that name |
| `ExchangeProofs` | | about `Settlement` and `Exchange` |
| `MarketFeedProofs` | | about `EventConsumer` and `MarketFeed` |
| `AccountsProofs` | | about `Sessions` and `Ledger` |
| `MC*` | | values of the constants for TLC |

`Exchange` uses `PriceTimeBook` and not `OrderBook`: the run `book`
shows that the second implements the first, with the mapping at the end of
`OrderBook`, and `OrderBookProofs` proves it for every instance. `ExchangeProofs` proves
that the engine, with its streams on either side, implements `PriceTimeBook` too, and the
tables implement `Settlement`.

A transaction of `Settlement` is atomic although PostgreSQL runs at READ
COMMITTED: the columns an event handler reads before it writes them (filled,
remaining and locked amounts) are written by the single consumer only, wallets
are locked before they are read, and a status that changes in between is
overwritten in the code just as it is in the model. Where interleaving inside a
transaction matters, it has a module of its own, step by step: `CommandPath` for the
order of commands, `Ledger` for the values read under a wallet's lock.

In `Sessions` a refresh token is its session. One token is signed per session, so the
branch for a hash that does not match cannot be reached with a valid signature.
Two refreshes that overlap both succeed and fork the session; the model has that, and
`SpentForGood` says what is left: who starts after the first rotation gets nothing.

`Ledger` starts from the rows of `seed.ts` in the run, and from any rows that explain the
balances in the proofs. The seed's explain the seeded balances, but are
not closed books: the seed adds 1998 USDT, and 3000 and 1998 USDT are locked
for no order once it has run again. `register` makes no wallet, so these are the only ones.
A row's `createdAt` comes from the Prisma client in whole milliseconds, so a
cursor in milliseconds loses nothing.

Definitions named `...Never`, `...Always`, `...Late` and so on under a comment
that begins with "Fault:" are not used by any specification. They are broken
variants of the definition that follows them, kept so that each property can be
seen to fail when the code has that fault (`mutants` in `PROJECT.json`).

## Runs

| Run | Question | Bounds |
| --- | --- | --- |
| `book` | do the book's structures stay in step; does it implement price-time priority; does matching end | 3 orders, 3 prices, quantities 1 and 2 |
| `settlement` | is money conserved whatever events come | 3 orders, 2 users, 2 matches, 2 prices, quantities 1 and 2 |
| `exchange` | do tables, book and events agree | 3 orders, 2 users, 6 commands |
| `exchange_live` | does every order get an answer | 2 orders, 4 commands |
| `command_path` | which orders of commands are possible; is the outbox honest and does it drain | 2 orders, 2 wallets, batch of 2, 2 attempts, 2 failures |
| `engine` | what the engine does with any stream, and whether it always comes back to new commands | 4 commands, 4 entries, reads of 2, 2 failures or restarts |
| `consumer` | is each event applied once, and does the consumer always come back to new events | 4 events, one of them never applicable, reads of 2, 4 failures |
| `market_feed` | is a client that joined and read behind; does the fan-out come to the newest message | a trade and two books, reads of 2, 2 failures or restarts, one client |
| `ledger` | does the ledger explain the balances; does paging lose or repeat rows | 2 transactions at once, 2 wallets, 3 writes, a clock of 1 ms, pages of 3 |
| `sessions` | what overlapping requests and a lock can do | 2 users, 3 requests at once, 10 statements, sessions that live for 4 |
| `vault` | do deposits stay in the vault; does the cooldown hold | 2 tokens, 2 users, 2 references, 5 transactions at any point of the script |

Why these are enough: three orders make a taker meet two makers of one price, or
one that it fills and one it leaves. Two prices give a better and a worse level
and price improvement (three, for the book alone, a level between two others),
with a quantity of 2 every fill can be partial. Two wallets make requests that
share a lock and requests that do not. Reads of two entries let the second
entry of a reply be reached after a failure of the first, and four entries give
two full replies. Every failure is counted against `MaxFaults`; with two
of them a failure can hit the repair of another. `MaxRetries` is 2 instead of 5
and `BatchLimit` 2 instead of 50, so that giving up and a full batch happen.
A page of three ends between two rows of one transaction (the seed has
wallets with five), and one tick of the clock makes rows of one millisecond and of two. Three
requests are two refreshes of one session and a refresh of what they made;
a session that lives for four statements expires while others do not. Five
transactions are enough to transfer, list, deposit, delist and recover. Symmetry is
used by `settlement`, `exchange`, `ledger`, `sessions` and `vault`, which check no liveness.
Most safety properties do not depend on the bounds, because they are proved (below).

Where a run says less than the documents ask for, it says what is left of it: events
may be applied out of the order of the stream, but only in a drain
(`ForwardWhenLive`); commands may commit out of the order of their numbers, but
only those that place orders from different wallets (`CancelsInOrder`,
`WalletInOrder`); commands may be matched again, but only in another life of the
engine (`EffectsInOrder`).

The run that expects a violation shows a disagreement between the code and the
repository's documents, which `findings` in `PROJECT.json` quotes: a cancel after the
full fill makes the next command a gap, and the market stops (`exchange_lostcancel`).

Others that the models have in them, and that no run of their own shows:

- a rejected order's funds stay locked (`engine-event-consumer.service.ts:304`;
  `docs/09:278-279`), and so does the difference when a buy fills below its limit
  (`trade-settlement.service.ts:112`; `docs/05:184,391-400`): `LockCovers` and `Escrow` say what
  holds instead;
- a trade's row has the fee rates exchanged when the taker sells
  (`trade-settlement.service.ts:87`; `docs/05:424-433`), though the fees charged are right
  (`FeesCollected`);
- the engine goes on after a failed publish (`redis_customer.go:76`; `docs/10:574-575`);
- a partial fill takes an order out of CANCEL_PENDING (`trade-settlement.service.ts:113`;
  `docs/05:258-259`, `docs/09:361-363`);
- a rollback leaves a hole in the command numbers (`sequence.helper.ts:4`;
  `docs/07:357-367`), commands are published out of order
  (`outbox-poller.service.ts:51`; `docs/10:70`), and priority at one price is not
  that of `orderSequence` (`orders.service.ts:113`; `docs/10:113`);
- the engine acknowledges the command after a gap (`redis_customer.go:212`;
  `docs/12:410`, `docs/10:84,89`), an OpenMarket reopens a FAILED pair (`engine.go:43`;
  `docs/10:592-597`), and commands replayed after a restart are matched again
  (`engine.go:152`; `docs/10:577`);
- the consumer applies events out of order after an exception
  (`engine-event-consumer.service.ts:131`; `docs/09:519`), caches an older book in a
  drain (`:229`; `docs/13:751-752`) and does not retry after a timeout (`:73`;
  `docs/09:641-645`);
- a PENDING order can be cancelled (`orders.service.ts:188`; `docs/05:170-173`), a
  second message with the same `engineMatchId` throws instead of being acknowledged
  (`docs/12:536`), and there is no dead-letter stream (`docs/12:618`).

`Exchange` leaves out lost, late and repeated messages on purpose: what it shows
wrong goes wrong without any failure. `CommandPath`, `PairEngine` and
`EventConsumer` have the failures, each with an environment at least as bad as
the part that feeds it: `PairEngine` takes any commands of its script in any order and
twice, which `CommandPath` can produce, and `EventConsumer` takes events that can
never be applied, which `PairEngine` can produce (trades of replayed commands).

## Fairness

- Book: the matching loop is one goroutine's loop without a wait: weak fairness of
  `MatchOne` and `Finish`.
- Exchange: weak fairness of the engine's loop and of the consumer's loop. Users
  may do nothing.
- Command path: weak fairness of the poller, whose loop never ends, and of
  `RetryTime`, because `next_retry_at` lies in the past some time later. Transactions
  are not fair.
- Market feed: weak fairness of the fan-out's loop (`FanOut`) alone; neither the
  consumer nor the client has to move.
- Engine, consumer: weak fairness of the loop (`Engine`, `Consumer`); each has at
  most one step to take. Failures and restarts are not fair: nothing relies on them.

## Proofs

Each theorem holds for every value of the constants that meets the assumptions named in
the modules: all sets of orders, users and tokens, all streams, all sizes of a read or a
page, any number of failures. Of what the passing runs check, all is proved but liveness:
the invariants, the action properties (`FinalStatus`, `ForwardWhenLive` and the like) and the
refinement (`PriceTime`).

| Module | Theorems | Properties |
| --- | --- | --- |
| `OrderBookProofs` | `BookTypes`, `BookInStep`, `CancelFindsOrder`, `TimePriority`, `NeverCrossed`, `DepthIsSum` | type invariant, `LevelsInStep`, `ActiveInStep`, `FifoLists`, `Uncrossed`, `DepthExact` |
| | `PriceTimePriority` | `PriceTime`: `OrderBook` implements `PriceTimeBook` |
| | `MatchProgresses` | every iteration lowers what is left of the incoming order (not run: only proved) |
| `ExchangeProofs`, `Settlement` | `BalancesNeverNegative` | `TypeOK`: no wallet overdrawn, no order overfilled |
| | `MoneyConserved`, `FillsAreTrades`, `TreasuryHoldsFees` | `Conserved`, `FilledByTrades`, `FeesCollected` |
| `ExchangeProofs`, `Exchange` | `WalletsHoldLocks`, `LocksPay`, `BookAndTableReconciled` | `Escrow`, `LockCovers`, `Reconciled` |
| | `NoEventThrows`, `BookAndTableAgree`, `FinalStaysFinal` | `EventsAccepted`, `ActiveAgree`, `FinalStatus` |
| | `ExchangeImplementsSettlement`, `ExchangeImplementsBook` | `Exchange` implements `Settlement` and `PriceTimeBook` (only proved) |
| | `NoOrderForgotten` | no step drops the answer to an order (only proved) |
| `CommandPathProofs` | `WalletCommandsOrdered`, `CancelsOrdered`, `OutboxNeverLies` | `WalletInOrder`, `CancelsInOrder`, `OutboxHonest` |
| `PairEngineProofs` | `UnbrokenRun`, `EffectsOnce`, `NoCommandVanishes` | `InSequence`, `EffectsInOrder`, `AckedHonestly` |
| `MarketFeedProofs`, `EventConsumer` | `EventsAppliedOnce`, `NoEventLost`, `CommitsFirst`, `RestartRepairs`, `InOrderWhenLive` | the safety properties of the run `consumer` |
| `MarketFeedProofs`, `MarketFeed` | `JoinedClientInSync` | `SyncedNotBehind` |
| `AccountsProofs`, `Sessions` | `RefreshedOnce`, `LockStops` | `SpentForGood`, `LockedOut` |
| `AccountsProofs`, `Ledger` | `LedgerAddsUp`, `PagingLosesNothing` | `LedgerExplains`, `PagesComplete` |
| `VaultProofs` | `VaultBacked`, `ClaimsPaced`, `ReferencesSpent` | `Backed`, `Paced`, `ReferencesOnce` (only proved) |

Sums. Many of these properties speak of sums over wallets, trades or orders, and a sum is
a fold, defined by recursion on the set. `Sums` proves what is needed of it: the recursive
function exists, its value does not depend on the order in which elements are taken
(`SumRemove`), and hence how a sum changes when one term changes or is added. An induction
is written as a search for the smallest counterexample, because the induction
rules of the library take an operator as parameter.

Order book: the inductive invariant is the conjunction of `TypeOK`,
`LevelsInStep`, `ActiveInStep`, `FifoLists`, `Uncrossed` and `Stamps`. None is
inductive alone. `ActiveOrders` has to be the orders of the lists for an order that
is added not to be in a list already; the lists have to be in order of stamp for
the head of the best level to be the one price-time priority chooses; the levels have to be
the heap for "best of the heap" to be "best of the book", which keeps the book
uncrossed when the loop breaks; and stamps lie below the clock, so that an order added
at the end is the youngest. The refinement follows from the same invariant, action
by action, and `DepthExact` on top of it: a list has no order twice, so its total is a sum
over a set. `MatchProgresses` is the safety half of `MatchTerminates`: a natural
number that every iteration lowers. Assumptions: those named in `Market` (prices and
quantities are positive naturals, the placeholder is not an order). `TypeOK` here and in
`EventConsumer` is proved and not run.

Settlement: `TypeOK` is inductive as it stands, which is the point: the
balance checks of `WalletBalanceService` keep every balance natural without any help
from the order rows, so a wrong or repeated event can be refused but never overdraws.
The proof follows a trade through its five or six wallet moves; that a side can
pay its fee from what it receives is `FeeBelowAmount`, from `FeesAssumption` (rates
are below one). `SInv` adds that an order's owner is a user and the sums: each
move changes the total of an asset by what it says, and the moves of one transaction add up
to nothing. That the treasury is nobody's wallet (`OwnersAssumption`) is needed here: it
is what makes the fees the only thing the treasury gets.

Exchange: the tables lag behind the book by the events under way (`UnderWay`, what is
published and what the running command will publish), so the invariant `XInv` says of each
of those events what must hold when its turn comes. An order's life is in `Placing` (its
PlaceOrder is in the stream, once and before its cancels, until the engine has it),
`Matching` (the order being matched is that of the command at the head) and `Answered`
(an order that left the book was filled or its OrderCancelled is under way or applied, and
nothing about it comes behind that event). `Identified` makes the `engineMatchId` of
each trade unique: a command number and an index that only the engine's loop moves; a
command trades with a resting order at most once, which bounds the index. `Reconciled`
then gives that the trades ahead of an event never exceed the row's remaining quantity,
`LockCovers` and `Escrow` that the wallet has the funds, and together `NoEventThrows`.
`LockCovers` cannot be had without `Reconciled`, nor `Reconciled` without the order of events,
which is why the invariant is one conjunction. Assumptions: finitely many orders and users,
at least one command, and that a match has an identifier for every command and index
(`MatchIdsAssumption`).

The refinements: a step of the engine is a step of `PriceTimeBook` or leaves the book alone,
and a `Dispatch` is a transaction that `Settlement` allows, because the trade it carries is one
that `Settlement`'s `Trade` could have chosen (`TradesSound`, and a quantity
within what remains). `NoOrderForgotten` is the safety half of `OrdersAnswered`.

`CommandPathProofs` has an invariant for each lock. For the wallet's: one placing
transaction at a time has it (`WalletsHeld`), so it draws its orderSequence after those
that had the wallet before (`DrawnLater`), and commands that are numbered and not
committed are in order too (`NumberedInOrder`). For the pair's: a cancel has it alone,
or inserted orders share it (`PairHeld`), so only places commit behind a place that has its
number (`PlacesBehind`), and nothing behind a cancel (`CancelBehind`). Without the
lock on the pair the last two fall, and with them the property. `OutboxHonest` needs of
the poller only that the batch it holds is committed, and that once `sent` is set its
first row is in the stream (`Batch`).

`PairEngineProofs`: `Position` ties `LastProcessedCmdSeq` to the last command this life
applied, and says that an engine without one is not READY: a place or cancel that is
accepted is the next of its life. `AnswerNext` says that effects waiting to be published
are of a command beyond all effects published, which no failure of the
publish changes because the command is then a duplicate. `AckReady` carries from the
handler to the acknowledgement why the entry may be forgotten. The one new assumption
is that command numbers are positive, as a Postgres sequence gives them.

Event consumer: `Inv` joins `TypeOK` (what is at hand is pending, what is
pending was given out), `Cursor` (nothing is given out before the group exists), `Past` (after
its transaction, the entry at hand is in `processed_events`) and the four
properties. `AppliedOnce` needs only the check of `processed_events`; `AckedApplied`
and `AnnouncedApplied` need `Past`; `CleanStartRepairs` needs `reading` to be within
`pel`. `Fresh`, on top of it, says that the loop for new events has only entries
younger than all that was applied or cached, and gives `ForwardWhenLive`.

Market feed: it builds on that invariant. Its own part is `CachedBooks`: a book is
cached before it is announced, so no announced book is younger than the
newest ever cached. With `AnnouncedApplied` that covers all the fan-out emits, before the
client joined (what it reads) and after (what it is sent).

Sessions: a request carries what it read (`ReqsOK`), a row when it was made
and first revoked (`RowsOK`), and a child's parent is an older row (`ParentsOK`), so that
revoking a session never changes what its child recorded of it.

Ledger: the list that users see is defined by the rank of each row, which is a bijection as
ids are given out once (`Listing`). What `LedgerExplains` says of the list is said of the rows
themselves by `Chain`: neighbours meet, the oldest starts from nothing, the newest ends at the
balance (`AccountsIs`). `Books` has two chains for each balance, the committed rows up to the
committed balance and all rows up to the row as its last writer left it. They differ only for a
wallet that is locked, by the rows of the one transaction that holds it (`Locking`), which is why a
commit and a rollback both leave chains. A new row goes at the end of its chain
because it is made under the lock, with an id above all others and a clock that does not go back
(`Stamped`, `ChainGrows`). Assumption on the start: the balances and rows there
are do agree (`StartAssumption`), which TLC evaluates for the seed's own. `Paging` adds that the
rows read are in order and the cursor is the last of them: what a page leaves out is older
than its last row, whatever was committed in between.

`VaultProofs`: `Backed` alone does not survive `recoverERC20` of a token that is not
listed yet; `UnlistedEmpty` says that such a token, never delisted, has no deposits. A
token that was delisted may be recovered with its deposits in it: `Backed` does
not speak of it, because the contract leaves that to the administrator.

Only model-checked: liveness, which is out of the prover's reach (`MatchTerminates`,
`OrdersAnswered`, `OutboxDrained`, `FeedAdvances` and `KeepsReading` of engine and consumer).

## Not modelled, and why

- Order queries (`order-query.service.ts`): plain reads. The list of orders pages with the
  cursor helper that `Ledger` checks; it also filters by a status that changes while a user
  pages, and no document says what he should then see.
- `listMarkets`, `getMarketDetail`, `getMarketTicker`, `getMyWallets`, `getMe`: reads of one
  moment. The fan-out never goes back to its pending entries, which
  is in the model; `docs/05:556` asks no durability of the WebSocket and
  `docs/12` RT-08 has the client read again, which is `SyncedNotBehind`.
- Decimals: amounts are exact integers. Rounding at 18 decimals and Prisma's 20 digits are
  about numbers larger than TLC's. `Parse`, `Mul` and `String` of `fixed/decimal.go` convert text.
- The array of `container/heap` is the Go library's: the heap is its set of prices and `IsTop`.
- The deadlock between `cancelOrder` (order, then pair) and the foreign keys of
  `settleTrade`: the order in which PostgreSQL checks keys is not in the repository.
  `EventConsumer` has what follows, a transaction that throws.
- An engine's new life against the tables of the old: its trade sequence starts again from
  0 and meets a unique key, and `prisma/seed.ts:127-133` resets the sequences under a running
  engine. `PairEngine` has the restart, `EventConsumer` the event that can never be applied;
  composed they say only that a book in memory is gone.
- The seed's users, pair and resets; allowances and the revocation of roles, which are
  OpenZeppelin's; `lastLoginAt`; idempotency keys of `placeOrder` (the unique key aborts the
  second transaction, which `AbortPlace` covers); `debitAvailable` in `Settlement`, which nothing calls.
- HTTP, validation of request bodies and Socket.IO itself keep no state the parts above depend on. The
  web front end is the Vite template: it calls no API.
