\* All H.264 files of up to 5 pieces; whole and truncated AAC files.
SPECIFICATION MCSpec
CONSTANTS
  H264Files <- MCH264Files
  AacFiles <- MCAacFiles
  MAX_VIDEO_TAG_BUF_SIZE = 13
  MaxPieces = 5
INVARIANTS
  TypeOK
  UnitsAreTheFile
  SliceTypesExact
  OverrunOnlyIfTooLong
  StopsOnlyIfDamaged
PROPERTIES
  ReadsH264File
  ReadsAacFile
  EveryCallAdvances
  BothReadersEnd
CHECK_DEADLOCK FALSE
