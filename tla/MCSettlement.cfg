CONSTANTS
  OrderIds = {o1, o2, o3}
  Price = {1, 2}
  Qty = {1, 2}
  NoOrder = NoOrder
  Users = {u1, u2}
  Treasury = Treasury
  MatchIds = {m1, m2}
  Unit = 10
  MakerFee = 0
  TakerFee = 1
  Funds = 40
SPECIFICATION Spec
SYMMETRY Symmetry
INVARIANTS TypeOK Conserved FilledByTrades FeesCollected
CHECK_DEADLOCK FALSE
