SPECIFICATION Spec
CONSTANTS
  d1 = d1
  d2 = d2
  d3 = d3
  p1 = p1
  p2 = p2
  p3 = p3
  Dish = {d1, d2, d3}
  Person = {p1, p2, p3}
  Token = {t1, t2}
  NoToken = NoToken
  Legacy = Legacy
  Editor = {e1}
  Reader = {r1, r2}
  Price = {1, 2, 3}
  Paid = {0, 7}
  MaxShares = 2
  Contents <- MCFriends
CHECK_DEADLOCK FALSE
INVARIANT BreakdownsAgree
