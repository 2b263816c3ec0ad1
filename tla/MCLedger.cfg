SPECIFICATION LedgerSpec
CONSTANTS
  t1 = t1
  t2 = t2
  Wallets <- SeedWallets
  StartBalances <- SeedBalances
  StartRows <- SeedRows
  Transactions = {t1, t2}
  Touched = {"aliceUSDT", "bobUSDT"}
  Read = {"aliceUSDT", "aliceBTC"}
  Amounts = {2500}
  Limit = 3
  MaxWrites = 3
  MaxClock = 1
SYMMETRY MCSymmetry
INVARIANTS
  
  PagesComplete
CHECK_DEADLOCK FALSE
