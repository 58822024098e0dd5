CONSTANTS
  Users = {u1, u2}
  Target = u1
  Sessions = {s1, s2}
  Procs = {p1, p2}
  MaxAttempts = 3
SPECIFICATION SignInSpec
SYMMETRY Symmetry
INVARIANTS SignInTypeOK FailuresBounded OnlyLateLoginsOutlive
PROPERTIES RolesStay LockHolds
