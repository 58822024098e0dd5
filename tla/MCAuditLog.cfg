CONSTANTS
  Procs = {p1, p2}
  MaxDays = 1
  MaxRows = 2
  MaxTime = 10
SPECIFICATION FairSpec
INVARIANTS TypeOK
PROPERTIES OnlyOldRowsGo 
