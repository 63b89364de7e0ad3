CONSTANTS
  Tab = {b1, b2}
  Token = {t1, t2, t3, t4}
  Call = {c1, c2, c3}
  None = None
  MaxWork = 5
SPECIFICATION FairSpec
INVARIANTS
  TypeOK
  SignedOutStays
  EndsForCause
PROPERTY InitializingEnds
\* The loads, sign-ins and sign-outs of a run are bounded by MaxWork.
CHECK_DEADLOCK FALSE
