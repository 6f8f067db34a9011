SPECIFICATION Spec
CONSTANTS
  all = all
  d1 = d1
  p1 = p1
  p2 = p2
  p3 = p3
  Main = Main
  Ids <- TwoIds
  Starts <- ThreeStarts
  Procs <- TwoProcs
  MaxReloads = 1
INVARIANTS
  TypeOK
  RegistrationOwned
  LatecomersTurnedAway
  ReloadOnlyWhileReloading
  IdleWord
PROPERTIES
  ProcessesEnd
  StopCompletes
