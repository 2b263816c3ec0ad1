SPECIFICATION FeedSpec
CONSTANTS
  Kinds <- TradeThenBook
  Poison = {}
  Count = 2
  FanCount = 2
  MaxFaults = 2

  
PROPERTIES
  FeedAdvances
CHECK_DEADLOCK FALSE
