\* A comment of WriteBuf2File that the code contradicts.
SPECIFICATION FairSpec
CONSTANTS
  framerate = 25
  UintMod = 16000
  MaxVideo = 2
  MaxAudio = 2
PROPERTIES
  BothFilesWritten
CHECK_DEADLOCK FALSE
