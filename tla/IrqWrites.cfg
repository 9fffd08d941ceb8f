SPECIFICATION EagerSpec
CONSTANTS
  MsgSize = 3
  MsgQueueLen = 1
  WriteQueueLen = 1
  Keys = {164, 20}
  Commands = {5, 17}
  Sniffing = FALSE
  MissedEdges = TRUE
  StopBits = {8, 13, 17, 18}
  MaxBits = 18
  PanelBits = {1}
  PeriphBits = {1}
  CcountMod = 4
  WaitCycles = 1
  StopCycles = 2
INVARIANT DrivesOnlyInSlot
 
