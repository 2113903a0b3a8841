---------------------------- MODULE MCApplications ----------------------------
(***************************************************************************)
(* Small instances of Applications for TLC.                                *)
(***************************************************************************)
EXTENDS Applications, TLC

CONSTANTS i1, i2, i3, s1, s2, d1, d2

AppSymmetry ==
  Permutations({i1, i2, i3}) \cup Permutations({s1, s2}) \cup Permutations({d1, d2})
=============================================================================
