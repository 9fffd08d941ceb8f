SPECIFICATION Spec
CONSTANTS
  CWords <- CWordsOf
  Hidden <- HiddenDirs
  LowerCase <- LowerCaseOf
  Cgis <- Cgi
  Inserts <- TagInserts
  MaxTagNameLen = 3
  SndBuf = 2
  MaxErrors = 1
  ReqBufSize = 8
  ReqQueueLen = 3
  PostPages <- Posted
  MaxRequests = 2
  Scenes <- AllScenes
INVARIANTS ImageComplete PageExpanded   
PROPERTIES Ends
CHECK_DEADLOCK FALSE
