SPECIFICATION Spec
CONSTANTS
  a = a
  b = b
  First <- FourMonths
  Types = {a, b}
  Configs <- Lists
  RowDays <- TwoDays
  StartDay = 1
  LastDay = 5
  MaxRestores = 1
INVARIANTS
  TypeOK
  RecoverableUntilExpired
  OfferedHaveFile
  NothingOverdue
PROPERTIES
  NothingTooYoung
  RowsLive
CHECK_DEADLOCK FALSE
