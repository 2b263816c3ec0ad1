CONSTANTS
  OrderIds = {o1, o2, o3}
  Price = {1, 2}
  Qty = {1, 2}
  NoOrder = NoOrder
  Users = {u1, u2}
  Treasury = Treasury
  MatchIds <- Matches
  Unit = 10
  MakerFee = 0
  TakerFee = 1
  Funds = 40
  MaxCommands = 6
SPECIFICATION ExchangeSpec
SYMMETRY Symmetry
INVARIANTS Escrow LockCovers EventsAccepted Reconciled ActiveAgree
PROPERTIES FinalStatus
CHECK_DEADLOCK FALSE
