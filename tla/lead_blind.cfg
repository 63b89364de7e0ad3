CONSTANTS
  Lead = {l1}
  Editor = {e1, e2}
  Status = {NEW, CONTACTED, CLOSED}
  NewStatus = NEW
  Consultant = {c1, c2}
  None = None
  MaxWrites = 3
SPECIFICATION Spec
SYMMETRY Symmetry
INVARIANT NoBlindAssignment
CHECK_DEADLOCK FALSE
