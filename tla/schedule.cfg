SPECIFICATION Spec
CONSTANTS
  First <- TwoMonths
  DayLen = 3
  Configs <- PassingRows
  StartDays <- FirstDays
  MaxLate = 1
INVARIANTS
  TypeOK
  FiresOnlyWhenDue
  NoDueDayMissed
PROPERTIES
  AlarmTaken
  KeepsTime
CHECK_DEADLOCK FALSE
