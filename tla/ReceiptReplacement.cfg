SPECIFICATION Spec
CONSTANTS
  Bill = {b1, b2}
  User = {u1}
  Path = {p1, p2, p3}
  Writer = {w1, w2}
  Worker = {k1}
  BatchLimit = 1
  CommitMayBeLost = FALSE
  NoBill = NoBill
  NoUser = NoUser
  NoPath = NoPath
SYMMETRY Symmetry
INVARIANTS TypeOK NoDanglingReceipt ShownIsNotDoomed ReceiptsAreExclusive
PROPERTIES OrphansNeedADoubleFault ReplacementIsCurrent ImplementsLifecycle
