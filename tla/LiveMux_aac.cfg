\* A comment of testRTSPClient.cpp that the code contradicts.
SPECIFICATION LiveSpec
CONSTANTS
  NumStreams = 1
  MaxSubs = 2
  Medium <- MCMediumOne
  UintMod = 4096
  nMaxOutputBytes = 2
  MaxFrames = 2
INVARIANTS
  AacFileIsTheStream
CHECK_DEADLOCK FALSE
