SPECIFICATION Spec
CONSTANTS
  all = all
  d1 = d1
  Ids <- TwoIds
  MaxAsks <- EachOnce
  MaxKinds = 2
  MaxAuto = 1
  MaxOwed = 1
  Schedules <- AnyJobs
INVARIANTS
  TypeOK
  DrainedAtExit
  AsAsked
PROPERTIES
  StopServed
  ManualTaken
