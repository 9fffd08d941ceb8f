SPECIFICATION NoStopSpec
CONSTANTS
  MsgSize = 3
  MsgQueueLen = 1
  WriteQueueLen = 2
  Keys = {164, 20}
  Commands = {5, 17}
  Sniffing = TRUE
  MissedEdges = FALSE
  StopBits = {8, 13, 17, 18}
  MaxBits = 18
  PanelBits = {1}
  PeriphBits = {1}
  CcountMod = 4
  WaitCycles = 1
  StopCycles = 2
INVARIANT OnlyWriteOn05
