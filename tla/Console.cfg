CONSTANTS
  Config <- ConfigDef
  TdCount = 32
  Letters = {"a"}
  Caps = "caps"
  Return = "enter"
  Back = "back"
  Shifts = {FALSE, TRUE}
  Slots = 2
  ReportSize = 8
  MaxPacket = 16
  BufSize = 2
  InputMax = 2
  HistMax = 3
SPECIFICATION Spec
INVARIANTS TypedOnce RecentLines
