SPECIFICATION Spec
CONSTANTS
  Path = {p1, p2}
  Run = {r1, r2}
  Found <- Leftovers
  None = None
CHECK_DEADLOCK FALSE
SYMMETRY Symmetry
INVARIANTS TypeOK CutoverLosesNothing CanaryIsRemoved
PROPERTIES NoObjectIsReplaced
