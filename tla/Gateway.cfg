SPECIFICATION GatewaySpec
CONSTANTS
  Messages <- SomeMessages
  MaxBytes = 5
  MsgQueueLen = 1
  MaxMessages = 3
  None = None
  Publications <- TwoKeys
  ConsoleLines <- OneKey
  WriteQueueLen = 2
  MaxLines = 1
  MaxTrouble = 1
INVARIANTS BrokerUpToDate KeysInOrder
PROPERTIES ImplementsReports CrashesOnlyBetween 
