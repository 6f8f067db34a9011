SPECIFICATION TurnsSpec
CONSTANTS
  day1 = day1
  day2 = day2
  r1 = r1
  r2 = r2
  Days <- OneDay
  Old <- OneRow
  Late <- NoRows
  Entities <- Tables
  DoBackups <- Saving
  MaxRestores = 1
  MaxRemovals = 0
  Apps <- Orderly
  Templates <- OldTemplate
  TmpFails = FALSE
INVARIANT RestoredKept
CHECK_DEADLOCK FALSE
