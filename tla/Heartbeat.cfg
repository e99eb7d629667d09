SPECIFICATION FairSpec
CONSTANTS
  Second = 3
  Lease = 30
  MaxLate = 7
  MaxLost = 2
INVARIANTS
  NoBurst
  LeaseHolds
PROPERTY HeartbeatsRecur
