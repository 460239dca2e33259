\* Videos of up to 5 NAL units, up to 4 audio frames, 25 pictures a second.
SPECIFICATION FairSpec
CONSTANTS
  framerate = 25
  UintMod = 16000
  MaxVideo = 5
  MaxAudio = 4
INVARIANTS
  TypeOK
  OutputSorted
  Interleaved
PROPERTIES
  OneFileWritten
  VideoFileWritten
CHECK_DEADLOCK FALSE
