CONSTANTS
  Procs = {p1, p2}
  MaxVersion = 3
  MaxReads = 2
SPECIFICATION Spec
SYMMETRY Symmetry
INVARIANTS TypeOK ReadsAccounted VersionsContiguous
PROPERTIES HistoryPreserved ImplementsLog
