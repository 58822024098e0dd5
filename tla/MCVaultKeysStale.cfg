CONSTANTS
  Users = {u1, u2}
  Tokens = {t1}
  Rows = {r1}
  Procs = {p1, p2}
  GrantRoles = {"editor"}
  MaxEpoch = 3
SPECIFICATION Spec
INVARIANTS RemovedCannotDecrypt
