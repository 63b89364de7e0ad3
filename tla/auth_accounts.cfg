SPECIFICATION Spec
CONSTANTS
  User = {u1}
  Eligible = {u1}
  TokenId = {t1, t2, t3}
  ResetLink = {l1, l2}
  Request = {r1, r2}
  Endpoint = {"login", "guess", "refresh", "reset"}
  None = None
  RefreshTtl = 3
  RotationGrace = 1
  RotationGraceMaxUses = 1
  MaxFailedAttempts = 2
  LockTime = 1
  ResetTtl = 2
  MaxTime = 1
SYMMETRY Symmetry
\* The clock stops at MaxTime: a run may end on a locked account, or with
\* no token id left.
CHECK_DEADLOCK FALSE
INVARIANTS
  OnlyOverlappedSurviveReset
  GuessBudget
PROPERTY OnlyOverlappedUseOldLinks
