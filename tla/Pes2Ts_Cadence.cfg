\* A comment of Mux.cpp that the code contradicts, with the code's period.
SPECIFICATION Spec
CONSTANTS
  PsiPeriod = 40
  UintMod = 65536
  FrameSizes <- MCPeriodSizes
  Times <- MCOneTime
  MaxFrames = 2
INVARIANTS
  Cadence
CHECK_DEADLOCK FALSE
