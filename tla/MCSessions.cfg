SPECIFICATION Spec
CONSTANTS
  u1 = u1
  u2 = u2
  r1 = r1
  r2 = r2
  r3 = r3
  Users = {u1, u2}
  Requests = {r1, r2, r3}
  TTL = 4
  MaxNow = 10
SYMMETRY MCSymmetry
INVARIANTS
  SpentForGood
  LockedOut
CHECK_DEADLOCK FALSE
