SPECIFICATION Spec
CONSTANTS
  p1 = p1
  p2 = p2
  Procs <- TwoProcs
  MaxTables = 2
  Limits <- UpToTwo
  Networks <- AnyNetwork
INVARIANTS
  TypeOK
  SlotsConserved
  ProducerOpen
  TablesServed
PROPERTY ProcessEnds
