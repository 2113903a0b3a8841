------------------------------ MODULE MCBanCache ------------------------------
(***************************************************************************)
(* Two administrators, at most two bans ever, and the bans that collide:   *)
(* two loopback addresses of which one is canonical, a subnet holding the  *)
(* other one and a public address, and that address with a user id.        *)
(***************************************************************************)
EXTENDS BanCache, TLC

CONSTANTS lo1, lo2, pub, uid

MCHosts == {lo1, lo2, pub}

MCBans ==
  {[form |-> "host", ip |-> {lo2}, uid |-> NoUid],
   [form |-> "cidr", ip |-> {lo2, pub}, uid |-> NoUid],
   [form |-> "host", ip |-> {pub}, uid |-> uid]}

Symmetry == Permutations(Admins)
=============================================================================
