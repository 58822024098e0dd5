CONSTANTS
  Procs = {p1, p2}
  NumShares = 3
  Threshold = 2
  MaxPending = 4
SPECIFICATION FairSpec
INVARIANTS TypeOK KeyNeedsQuorum ShownSharesFit
PROPERTIES MasterKeyStays HoldersUnseal
