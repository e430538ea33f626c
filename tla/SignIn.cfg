SPECIFICATION MCSpec
CHECK_DEADLOCK FALSE
CONSTANTS
  Address = {{e1, e2}}
  lower = e1
  upper = e2
  MaxAttempts = 1
  MaxCodes = 2
  None = None
  Keep = Keep
  Browser = {b1}
  Request = {r1, r2}
  User = {u1, u2, u3, u4}
  Settled = {u1, u2}
  Token = {t1, t2, t3, t4, t5}
  Bill = {x1, x2}
  Passkey = {k1, k2, k3}
  Ceremony = {n1, n2}
  stranger = u1
  account = u2
  token = t1
  oldBill = x1
  oldPasskey = k1
  ownPasskey = k2
  enrolling = n1
  entering = n2
SYMMETRY Symmetry
CONSTRAINT Spelled
INVARIANTS TypeOK GuessesAreBounded OlderCodesStayDead OnlySpellingsCollide PasskeysNameTheirUser SignInRotates
PROPERTIES CodesOpenOnce MergesLoseNothing SignInSticks
