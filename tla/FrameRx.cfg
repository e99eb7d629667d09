SPECIFICATION Reception
CONSTANTS
  t1 = t1
  t2 = t2
  Lengths <- SomeLengths
  Plens <- SomePlens
  Absent = Absent
  Mixed = Mixed
  Stamps <- TwoStamps
INVARIANTS
  WholeFrameIsItself
  HeadersAreItsOwn
  OwnHeartbeatHeard
