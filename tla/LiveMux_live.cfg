\* Two streams that share the files and the clocks.
SPECIFICATION LiveSpec
CONSTANTS
  NumStreams = 2
  MaxSubs = 2
  Medium <- MCMedium
  UintMod = 4096
  nMaxOutputBytes = 1
  MaxFrames = 3
INVARIANTS
  LiveTypeOK
  ParameterSetsFirst
  NoVideoFrameLost
  ClockPerFrame
  PcrPerPicture
CHECK_DEADLOCK FALSE
