SPECIFICATION FairSpec
CONSTANTS
  day1 = day1
  day2 = day2
  r1 = r1
  r2 = r2
  Days <- OneDay
  Old <- OneRow
  Late <- NoRows
  Entities <- Records
  DoBackups <- Deleting
  MaxRestores = 0
  MaxRemovals = 0
  Apps <- Orderly
  Templates <- NoTemplate
  TmpFails = FALSE
PROPERTY DeletedWithoutSaving
CHECK_DEADLOCK FALSE
