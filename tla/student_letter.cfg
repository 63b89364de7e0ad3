CONSTANTS
  Student = {s1}
  Offering = {o1}
  Application = {a1}
  Request = {r1}
  None = None
  MaxChanges = 6
SPECIFICATION Spec
INVARIANT OfferHasLetter
CHECK_DEADLOCK FALSE
