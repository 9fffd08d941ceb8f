SPECIFICATION FairSpec
CONSTANTS
  MsgSize = 6
  MsgQueueLen = 1
  WriteQueueLen = 1
  MinBits = 32
  MaxCount = 36
  HalfBit = 2
  StartOffset = 1
  BitTime = 2
  Debounce = 2
  Gap = 5
  TaskPrompt = TRUE
  Keys = {164, 20}
  Commands = {5, 17}
  PanelBits = {1}
  PeriphBits = {1}
  StopBits = {0, 2, 8, 13, 17, 31, 36}
  MaxBits = 36
INVARIANTS IInv DrivesOnlyInSlot
PROPERTIES ImplementsPort KeyIntact  KeysGetThrough
