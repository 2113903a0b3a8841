------------------------------ MODULE MCAdminDesk ------------------------------
(***************************************************************************)
(* A media application, a payout in USDT and a lot that is a key; two      *)
(* accounts, which are interchangeable.                                    *)
(***************************************************************************)
EXTENDS AdminDesk, TLC

CONSTANTS m1, u1, k1

OneOfEach == m1 :> "media" @@ u1 :> "usdt" @@ k1 :> "key"

Accounts == Permutations(Admins)
=============================================================================
