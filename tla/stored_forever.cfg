SPECIFICATION Spec
CONSTANTS
  a = a
  b = b
  First <- FourMonths
  Types = {a, b}
  Configs <- Shared
  RowDays <- TwoDays
  StartDay = 1
  LastDay = 5
  MaxRestores = 1
INVARIANT KeptForever
CHECK_DEADLOCK FALSE
