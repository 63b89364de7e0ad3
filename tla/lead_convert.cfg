CONSTANTS
  Key = {k1}
  Inquiry = {i1}
  Sender = k1
  KeyOf <- MCKeyOf
  Request = {r1, r2}
  None = None
  RateLimit = 2
  RateWindow = 2
  MaxRateKeys = 2
  CleanupInterval = 2
  DuplicateWindow = 1
  MaxTime = 2
  MaxSubmissions = 1
  MaxConversions = 2
  MaxRestarts = 0
  MaxWork = 3
SPECIFICATION Spec
INVARIANT OneLeadPerInquiry
CHECK_DEADLOCK FALSE
