SPECIFICATION FairSpec
CONSTANTS
  MaxSignals <- TwoSignals
  MaxFrames <- TwoFrames
INVARIANTS
  TypeOK
  NoUseAfterDestroy
  UpdateStaysArmed
PROPERTIES
  OwnerSpec
  ExitTerminates
  RunEndJoinsReader
  ScreenSignalTerminates
