\* Two frames of any two boundary sizes; the count wraps at 7, no multiple of 3.
SPECIFICATION FairSpec
CONSTANTS
  PsiPeriod = 3
  UintMod = 7
  FrameSizes <- MCBoundarySizes
  Times <- MCTimes
  MaxFrames = 2
INVARIANTS
  TypeOK
  PacketsWellFormed
  CadenceWithinFrame
  ReceiverReadsPacket
  TablesAnnounceStreams
PROPERTIES
  RefinesTransport
  EveryFrameDelivered
  CallComesToItsEnd
CHECK_DEADLOCK FALSE
