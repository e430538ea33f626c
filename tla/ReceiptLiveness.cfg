SPECIFICATION FairSpec
CONSTANTS
  Bill = {b1}
  User = {u1}
  Path = {p1, p2}
  Writer = {w1}
  Worker = {k1}
  BatchLimit = 1
  CommitMayBeLost = TRUE
  NoBill = NoBill
  NoUser = NoUser
  NoPath = NoPath
PROPERTY RowIsWorkedOff
