SPECIFICATION FairSpec
CONSTANTS
  Fds = {f1, f2}
  Null = Null
  Failed = Failed
  BufSize = 2
  StreamLen = 0
  Ends = {}
  Command <- NoCommand
  LineKeys <- NoKeys
  WriteQueueLen = 1
  SilentLoss = FALSE
  PauseOutlastsDispatch = TRUE
  MaxMessages = 0
  HttpAtStart = {{}}
  MaxTrouble = 2
PROPERTY TriesToConnect
