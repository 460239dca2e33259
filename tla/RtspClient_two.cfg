\* Two streams of up to two subsessions, with the timer's fairness.
SPECIFICATION FairSpec
CONSTANTS
  NumStreams = 2
  MaxSubs = 2
INVARIANTS
  TypeOK
  CountIsOpenClients
  ExitExactlyAtEnd
  NoDanglingHandlers
  EndedImpliesActive
PROPERTIES
  TimedStreamsEnd
CHECK_DEADLOCK FALSE
