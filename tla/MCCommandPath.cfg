CONSTANTS
  OrderIds = {o1, o2}
  Wallets = {w1, w2}
  MaxRetries = 2
  BatchLimit = 2
  MaxFaults = 2
SPECIFICATION FairSpec
INVARIANTS WalletInOrder CancelsInOrder OutboxHonest
PROPERTIES OutboxDrained
CHECK_DEADLOCK FALSE
