CONSTANTS
  Users = {u1, u2}
  Sessions = {s1, s2}
  Procs = {p1, p2}
SPECIFICATION UndisturbedSpec
SYMMETRY Symmetry
INVARIANTS OneMaster
