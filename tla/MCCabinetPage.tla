----------------------------- MODULE MCCabinetPage -----------------------------
(***************************************************************************)
(* One request, decided without a comment and then again with one, as the  *)
(* handlers without a guard on the status allow.                           *)
(***************************************************************************)
EXTENDS CabinetPage

CONSTANTS r1, c1

OldThenNew == <<NoComment, c1>>
=============================================================================
