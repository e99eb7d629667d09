SPECIFICATION FairSpec
CONSTANTS
  MaxSignals <- TwoSignals
  MaxFrames <- TwoFrames
PROPERTY SignalTerminates
