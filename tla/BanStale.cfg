\* CHECK_DEADLOCK FALSE: with every id used up and every ban removed there is
\* nothing an administrator can change.
SPECIFICATION Spec
CONSTANTS
  MaxBans = 2
  lo1 = lo1
  lo2 = lo2
  pub = pub
  uid = uid
  Hosts <- MCHosts
  Loopback = {lo1, lo2}
  Canonical = {lo1}
  Uids = {uid}
  NoUid = NoUid
  Bans <- MCBans
  Admins = {a1, a2}
INVARIANT BannedIPBlocked
SYMMETRY Symmetry
CHECK_DEADLOCK FALSE
