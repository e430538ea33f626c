SPECIFICATION Spec
CONSTANTS
  d1 = d1
  d2 = d2
  d3 = d3
  p1 = p1
  p2 = p2
  p3 = p3
  Dish = {d1, d2, d3}
  Person = {p1, p2, p3}
  Token = {t1, t2}
  NoToken = NoToken
  Legacy = Legacy
  Editor = {e1, e2}
  Reader = {r1}
  Price <- MCPrice
  Paid = {0, 6, 8}
  MaxShares = 2
  Contents <- MCEmpty
CHECK_DEADLOCK FALSE
INVARIANT OneListAtATime
