-------------------------------- MODULE Seed --------------------------------
(***************************************************************************)
(* The wallets and ledger entries that prisma/seed.ts writes, in the order *)
(* of its statements: the only way a wallet comes into being, as register  *)
(* makes none.  USDT is in units of one, BTC in halves.                    *)
(***************************************************************************)
EXTENDS Integers, Sequences

\* One wallet's rows: <<entry type, balance type, amount, before, after>>.
TreasuryUSDT == <<<<"INITIAL_BALANCE", "AVAILABLE", 1000000, 0, 1000000>>>>
AliceUSDT == <<
  <<"INITIAL_BALANCE", "AVAILABLE", 10000, 0, 10000>>,
  <<"ORDER_LOCK", "AVAILABLE", -5000, 10000, 5000>>,
  <<"ORDER_LOCK", "LOCKED", 5000, 0, 5000>>,
  <<"ORDER_UNLOCK", "LOCKED", -2000, 5000, 3000>>,
  <<"ORDER_UNLOCK", "AVAILABLE", 2000, 5000, 7000>>>>
AliceBTC == <<
  <<"INITIAL_BALANCE", "AVAILABLE", 0, 0, 0>>,
  <<"TRADE_SETTLEMENT", "AVAILABLE", 1, 0, 1>>>>
BobUSDT == <<
  <<"INITIAL_BALANCE", "AVAILABLE", 5000, 0, 5000>>,
  <<"TRADE_SETTLEMENT", "AVAILABLE", 2000, 5000, 7000>>,
  <<"TRADING_FEE", "AVAILABLE", -2, 7000, 6998>>,
  <<"ORDER_LOCK", "AVAILABLE", -1998, 6998, 5000>>,
  <<"ORDER_LOCK", "LOCKED", 1998, 0, 1998>>>>
BobBTC == <<
  <<"INITIAL_BALANCE", "AVAILABLE", 2, 0, 2>>,
  <<"ORDER_LOCK", "AVAILABLE", -1, 2, 1>>,
  <<"ORDER_LOCK", "LOCKED", 1, 0, 1>>,
  <<"TRADE_SETTLEMENT", "LOCKED", -1, 1, 0>>>>

\* The balances it sets, and the wallets it makes.
SeedBalances == [
  treasuryUSDT |-> [available |-> 1000000, locked |-> 0],
  aliceUSDT |-> [available |-> 7000, locked |-> 3000],
  aliceBTC |-> [available |-> 1, locked |-> 0],
  bobUSDT |-> [available |-> 5000, locked |-> 1998],
  bobBTC |-> [available |-> 1, locked |-> 0]]
SeedWallets == DOMAIN SeedBalances

SeedRows ==
  LET Of(w, rows) == [i \in DOMAIN rows |->
        [wallet |-> w, type |-> rows[i][2], amount |-> rows[i][3],
         before |-> rows[i][4], after |-> rows[i][5]]] IN
  Of("treasuryUSDT", TreasuryUSDT) \o Of("aliceUSDT", AliceUSDT) \o Of("aliceBTC", AliceBTC)
    \o Of("bobUSDT", BobUSDT) \o Of("bobBTC", BobBTC)
=============================================================================
