SPECIFICATION Spec
CONSTANTS
  u1 = u1
  u2 = u2
  t1 = t1
  t2 = t2
  t3 = t3
  h1 = h1
  h2 = h2
  Accounts = {a1}
  NoOne = NoOne
  Users = {u1, u2}
  NoUser = NoUser
  Attempts = {t1, t2}
  NoAttempt = NoAttempt
  SessionIds = {s1}
  Handlers = {h1, h2}
  MaxMissed = 1
INVARIANTS
  TypeOK
  SessionsConfirmed
  ActiveBounded
PROPERTIES
  DecidedByLinkedUser
  LedgerSpec
SYMMETRY LoginSymmetry
