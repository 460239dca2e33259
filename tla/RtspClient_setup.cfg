\* A comment of subsessionAfterPlaying that the code contradicts.
SPECIFICATION Spec
CONSTANTS
  NumStreams = 1
  MaxSubs = 2
PROPERTIES
  NoShutdownDuringSetup
CHECK_DEADLOCK FALSE
