SPECIFICATION LiveSpec
CONSTANTS
  MsgSize = 3
  MsgQueueLen = 1
  WriteQueueLen = 1
  Keys = {164}
  Commands = {5}
  Sniffing = TRUE
  MissedEdges = FALSE
  StopBits = {0, 1, 2, 3, 4, 5, 6, 7, 8, 9, 10, 11, 12, 13, 14, 15, 16, 17, 18, 25, 26, 33, 34}
  MaxBits = 34
  PanelBits = {1}
  PeriphBits = {1}
  CcountMod = 4
  WaitCycles = 1
  StopCycles = 2
INVARIANTS IInv KeyIntact
PROPERTIES ImplementsPort LineReleased WriteEnds
