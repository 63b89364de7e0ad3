CONSTANTS
  Path = {p1, p2, p3}
  Page = {g1, g2}
  Id = {i1, i2, i3}
  Request = {r1, r2}
  None = None
  MaxWork = 5
SPECIFICATION Spec
SYMMETRY Symmetry
INVARIANTS
  TypeOK
  LoopsAreEnabledOrRaced
  NoDeadEnds
  PagesAnswer
CHECK_DEADLOCK FALSE
