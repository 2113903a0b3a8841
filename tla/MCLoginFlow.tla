---------------------------- MODULE MCLoginFlow ----------------------------
(***************************************************************************)
(* Small instances of LoginFlow for TLC.                                   *)
(***************************************************************************)
EXTENDS LoginFlow, TLC

CONSTANTS u1, u2, t1, t2, t3, h1, h2

LoginSymmetry ==
  Permutations({u1, u2}) \cup Permutations({t1, t2, t3}) \cup Permutations({h1, h2})
=============================================================================
