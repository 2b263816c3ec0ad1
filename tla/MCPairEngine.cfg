CONSTANTS
  Script <- TwoOrders
  Count = 2
  MaxSends = 4
  MaxFaults = 2
SPECIFICATION FairSpec
INVARIANTS InSequence EffectsInOrder AckedHonestly
 
CHECK_DEADLOCK FALSE
