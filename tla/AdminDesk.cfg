SPECIFICATION OrdersSpec
CONSTANTS
  m1 = m1
  u1 = u1
  k1 = k1
  Nothing = Nothing
  NewBan = NewBan
  Requests = {m1, u1, k1}
  Kind <- OneOfEach
  Ideas = {i1}
  Bans = {b1}
  Admins = {a1, a2}
  MaxOrders = 2
SYMMETRY Accounts
INVARIANTS
  DecisionAsConfirmed
  RosterRemains
