CONSTANTS
  Kinds <- TradeAndBooks
  Poison = {3}
  Count = 2
  MaxFaults = 4
SPECIFICATION FairSpec
INVARIANTS AppliedOnce  AnnouncedApplied CleanStartRepairs
PROPERTIES ForwardWhenLive KeepsReading
CHECK_DEADLOCK FALSE
