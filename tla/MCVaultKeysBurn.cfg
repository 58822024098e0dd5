CONSTANTS
  Users = {u1, u2}
  Tokens = {t1}
  Rows = {r1}
  Procs = {p1}
  GrantRoles = {"editor"}
  MaxEpoch = 3
SPECIFICATION UndisturbedSpec
INVARIANTS RevocationRotates
CHECK_DEADLOCK FALSE
