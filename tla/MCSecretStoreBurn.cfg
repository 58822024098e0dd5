CONSTANTS
  Procs = {p1}
  MaxVersion = 2
  MaxReads = 2
SPECIFICATION Spec
PROPERTIES NextFetchAfterBurnFindsNothing
