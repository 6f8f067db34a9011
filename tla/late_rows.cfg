SPECIFICATION Spec
CONSTANTS
  day1 = day1
  day2 = day2
  r1 = r1
  r2 = r2
  Days <- OneDay
  Old <- OneRow
  Late <- LateRow
  Entities <- Records
  DoBackups <- Saving
  MaxRestores = 0
  MaxRemovals = 0
  Apps <- LateOnly
  Templates <- NoTemplate
  TmpFails = FALSE
INVARIANT AlwaysRecoverable
CHECK_DEADLOCK FALSE
