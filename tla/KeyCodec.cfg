SPECIFICATION Spec
CONSTANTS
  MsgBytes = {0, 1, 5, 17, 127, 128, 255}
  MaxLen = 5
  MaxNumber = 300
INVARIANTS KeysChecked  ToolsAgree ReportsFit
CHECK_DEADLOCK FALSE
