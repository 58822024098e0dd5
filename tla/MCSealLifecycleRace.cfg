CONSTANTS
  Procs = {p1, p2, p3}
  NumShares = 3
  Threshold = 2
  MaxPending = 3
SPECIFICATION Spec
PROPERTIES SealHoldsUntilNewShare
