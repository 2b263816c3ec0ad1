CONSTANTS
  OrderIds = {o1, o2, o3}
  Price = {1, 2, 3}
  Qty = {1, 2}
  NoOrder = NoOrder
SPECIFICATION FairSpec
INVARIANTS LevelsInStep ActiveInStep FifoLists Uncrossed DepthExact
PROPERTIES PriceTime MatchTerminates
CHECK_DEADLOCK FALSE
