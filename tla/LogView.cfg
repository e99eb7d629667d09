SPECIFICATION Spec
CONSTANTS
  ui = ui
  reader = reader
  Ui = ui
  Writers <- TwoThreads
  MaxLines = 4
  Back = 2
  Ahead = 2
  Span = 2
  MaxCount = 7
INVARIANTS
  TypeOK
  SizeBounded
  FrameInOrder
  OverrunIsTransient
  FollowShowsNewest
PROPERTY BoundedLogSpec
