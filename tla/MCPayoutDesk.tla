----------------------------- MODULE MCPayoutDesk -----------------------------
(***************************************************************************)
(* Small instances of PayoutDesk for TLC.                                  *)
(***************************************************************************)
EXTENDS PayoutDesk, TLC

CONSTANTS r1, r2, k1, k2, s1, d1, d2

Money == [kind |-> "payout", want |-> {}]
DrawKey == [kind |-> "giveaway", want |-> {"draw"}]

DeskShapes == {Money, DrawKey}
DeskTexts == {k1, k2, NoText}
DeskSymmetry == Permutations({d1, d2}) \cup Permutations({r1, r2})
=============================================================================
