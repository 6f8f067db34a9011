SPECIFICATION Spec
CONSTANTS
  all = all
  d1 = d1
  p1 = p1
  p2 = p2
  p3 = p3
  Main = Main
  Ids <- TwoIds
  Starts <- AllStarts
  Procs <- TwoProcs
  MaxReloads = 0
SYMMETRY Symmetry2
INVARIANT NoBackupOfSameData
