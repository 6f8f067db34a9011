SPECIFICATION Spec
CONSTANTS
  First <- TwoMonths
  DayLen = 3
  Configs <- DefaultRows
  StartDays <- TenthOfJan
  MaxLate = 0
INVARIANT FiresOnlyWhenDue
CHECK_DEADLOCK FALSE
