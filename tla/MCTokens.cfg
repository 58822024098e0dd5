CONSTANTS
  Tokens = {t1}
  Roles = {r1, r2}
  SecretIds = {s1}
  Procs = {p1, p2}
  MaxTtl = 2
  MaxTime = 3
SPECIFICATION Spec
SYMMETRY Symmetry
INVARIANTS TypeOK LifetimeBounded
PROPERTIES DeadStaysDead RetiredRolesMintNothing
