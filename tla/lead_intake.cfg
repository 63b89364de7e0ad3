CONSTANTS
  Key = {k1, k2, k3}
  Inquiry = {i1}
  Sender = k1
  KeyOf <- MCKeyOf
  Request = {r1, r2}
  None = None
  RateLimit = 2
  RateWindow = 1
  MaxRateKeys = 2
  CleanupInterval = 2
  DuplicateWindow = 1
  MaxTime = 2
  MaxSubmissions = 4
  MaxConversions = 1
  MaxRestarts = 1
  MaxWork = 4
SPECIFICATION FairSpec
INVARIANTS
  TypeOK
  NoDuplicateForms
  PendingIsInFlight
  RateKept
PROPERTIES
  RefusedOnlyOverBudget
  EventuallyReleased
  ImplementsWindows
\* What a run begins is bounded by MaxWork, its clock by MaxTime.
CHECK_DEADLOCK FALSE
