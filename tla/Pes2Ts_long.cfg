\* The real period, and frames long enough to wrap the uchar counters.
SPECIFICATION Spec
CONSTANTS
  PsiPeriod = 40
  UintMod = 65536
  FrameSizes <- MCLongSizes
  Times <- MCOneTime
  MaxFrames = 2
PROPERTIES
  RefinesTransport
CHECK_DEADLOCK FALSE
