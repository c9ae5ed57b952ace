SPECIFICATION H3Spec
CONSTANTS
  Timeout = 3
  Queue = 2
  MaxFrames = 4
INVARIANT FinAfterAllFrames
PROPERTIES TimeoutMeansSilence SilenceEnds OrphanEnds
