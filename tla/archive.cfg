SPECIFICATION BoundedSpec
CONSTANTS
  day1 = day1
  day2 = day2
  r1 = r1
  r2 = r2
  Days <- TwoDays
  Old <- OneRow
  Late <- LateRow
  Entities <- EitherEntity
  DoBackups <- Both
  MaxRestores = 1
  MaxRemovals = 1
  Apps <- AnyApp
  Templates <- AnyTemplate
  TmpFails = FALSE
SYMMETRY Symmetry
INVARIANTS
  TypeOK
  Recoverable
  RestoredRecordsKept
PROPERTIES
  SavedBeforeDeleted
CHECK_DEADLOCK FALSE
