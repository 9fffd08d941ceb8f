SPECIFICATION FairSpec
CONSTANTS
  Fds = {f1, f2, f3}
  Null = Null
  Failed = Failed
  BufSize = 3
  StreamLen = 5
  Ends = {2, 4, 5}
  Command <- CommandAt
  LineKeys <- TwoKeys
  WriteQueueLen = 1
  SilentLoss = TRUE
  PauseOutlastsDispatch = TRUE
  MaxMessages = 1
  HttpAtStart = {{}, {f3}}
  MaxTrouble = 2
INVARIANTS  NoLiveLeak
PROPERTY Recovers
