CONSTANTS
  Student = {s1}
  Offering = {o1}
  Application = {a1, a2}
  Request = {r1, r2}
  None = None
  MaxChanges = 6
SPECIFICATION Spec
SYMMETRY Symmetry
INVARIANTS
  TypeOK
  OnlyRacesBreakTheTable
  OneOpenApplication
  StageIsReal
  RewardPaidOnce
  EnrolmentIsCredited
PROPERTY ImplementsLedger
\* Every application may have ended, with no id left for another.
CHECK_DEADLOCK FALSE
