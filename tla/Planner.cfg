CONSTANTS
  AllNames = {"T", "H", "IX_T", "IX_H"}
  BadGlob = "["
  NoName = ""
  Tables = {"T", "H"}
  HeapTables = {"H"}
  Indexes = {"IX_T", "IX_H"}
  TableOf <- TableMap
  ColumnStats = {"C_H"}
  StatTable <- StatMap
  Inventory <- Read
  PartsOf <- Parts
  Pages <- PageMap
  MB <- MBMap
  KB <- KBMap
  Rows = 1000
  StaleMods = 1000
  FragLevels = {0, 10, 40}
  Connected = "DB"
  Full = 95
  Starts <- Cases
  MaxLost = 1
SPECIFICATION PlannerSpec
INVARIANTS
  DueIsRefreshed
  NoDoubleWork
  SecondPassQuiet
PROPERTIES
  AnalysisKeeps
