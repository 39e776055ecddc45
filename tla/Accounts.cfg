SPECIFICATION Spec
CONSTANTS
  Ids = {u1, u2, u3}
  Emails = {e1, e2}
  Passwords = {p1, p2}
  Weak = Weak
  Clients = {c1, c2}
  Life = 1
  RefreshLife = 2
  MaxTime = 3
  MaxRequests = 2
  NoToken = NoToken
INVARIANTS
  TypeOK
  RolesExpire
  DecisionsStay
SYMMETRY MCSymmetry
CHECK_DEADLOCK FALSE
