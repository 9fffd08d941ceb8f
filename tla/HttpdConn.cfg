SPECIFICATION Spec
CONSTANTS
  Pcbs = {1, 2, 3}
  Builds <- FiveBuilds
  Files <- TwoFiles
  NoFile = NoFile
  NoState = NoState
  HdrLen = 1
  SndBuf = 2
  MaxRetries = 2
  QueueLen = 1
  MaxContent = 2
  MaxAccepts = 3
  MaxSegments = 3
  MaxFaults = 1
INVARIANTS PoolsBalance PostsOpen OnlyBuiltInPage
PROPERTIES ToldOfTheEnd IdleClosed
