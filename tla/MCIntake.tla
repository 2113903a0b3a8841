------------------------------- MODULE MCIntake -------------------------------
(***************************************************************************)
(* Small instances of Intake for TLC.                                      *)
(***************************************************************************)
EXTENDS Intake, TLC

CONSTANTS r1, r2, r3, r4, s1, s2

Money == [kind |-> "payout", want |-> {}]
DrawKey == [kind |-> "giveaway", want |-> {"draw"}]

IntakeShapes == {Money, DrawKey}
IntakeSymmetry == Permutations({s1, s2}) \cup Permutations({r1, r2, r3, r4})
=============================================================================
