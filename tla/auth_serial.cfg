SPECIFICATION Spec
CONSTANTS
  User = {u1, u2}
  Eligible = {u1}
  TokenId = {t1, t2, t3}
  ResetLink = {l1}
  Request = {r1}
  Endpoint = {"login", "guess", "refresh", "validate", "logout", "reset"}
  None = None
  RefreshTtl = 2
  RotationGrace = 1
  RotationGraceMaxUses = 1
  MaxFailedAttempts = 2
  LockTime = 1
  ResetTtl = 2
  MaxTime = 2
SYMMETRY Symmetry
\* The clock stops at MaxTime: a run may end on a locked account, or with
\* no token id left.
CHECK_DEADLOCK FALSE
INVARIANTS
  NoFork
  LogoutIsFinal
  ResetEndsSessions
PROPERTY
  ImplementsLineage
