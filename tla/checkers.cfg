SPECIFICATION Spec
CONSTANTS
  FeedbackTimeout = 2
  OverloadTime = 2
  MinHits = 2
  Window = 2
  ScanMax = 2
  QueueDepth = 2
INVARIANTS
  CheckersTypeOK
  SilenceIsReported
PROPERTIES
  LossIsSilenceOrWait
  SpikeNeedsFreshSamples
  OverloadIsSustained
