SPECIFICATION Spec
CONSTANTS
  User = {u1}
  Eligible = {u1}
  TokenId = {t1, t2, t3}
  ResetLink = {l1}
  Request = {r1, r2}
  Endpoint = {"login", "refresh", "validate", "logout"}
  None = None
  RefreshTtl = 3
  RotationGrace = 1
  RotationGraceMaxUses = 1
  MaxFailedAttempts = 2
  LockTime = 1
  ResetTtl = 2
  MaxTime = 1
SYMMETRY Symmetry
\* The clock stops at MaxTime: a run may end on a locked account, or with
\* no token id left.
CHECK_DEADLOCK FALSE
INVARIANT
  NoFork
