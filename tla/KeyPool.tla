------------------------------- MODULE KeyPool -------------------------------
(***************************************************************************)
(* The table v2_sub_keys: two stocks of one-time keys, "sub" and           *)
(* "giveaway", sharing one namespace (key_code is UNIQUE across both).     *)
(* Each operation below is one SQL statement or one transaction.  The      *)
(* Postgres PopKey takes the lowest free id that no other transaction has  *)
(* locked (SKIP LOCKED), so in commit order it may be any free key.        *)
(***************************************************************************)
EXTENDS RequestTable

CONSTANTS
  Keys,         \* key codes
  NoRequest     \* assigned_request_id of a key that was not issued

ASSUME NoRequestAssumption == NoRequest \notin RequestIds

VARIABLE pool

Categories == {"sub", "giveaway"}

KeyRow == [cat : Categories \cup {"none"}, holder : RequestIds \cup {NoRequest}]

Missing == [cat |-> "none", holder |-> NoRequest]

PoolInit == pool = [k \in Keys |-> Missing]

InPool(k) == pool[k].cat # "none"

Issued(k) == pool[k].holder # NoRequest

FreeKeys(cat) == {k \in Keys : pool[k].cat = cat /\ ~Issued(k)}

MutAddKey(cat, k) ==
  pool' = [pool EXCEPT ![k] = [cat |-> cat, holder |-> NoRequest]]

AddKey(cat, k) ==
  /\ ~InPool(k)
  /\ pool' = [pool EXCEPT ![k] = [cat |-> cat, holder |-> NoRequest]]

MutDeleteKey(k) ==
  /\ InPool(k)
  /\ pool' = [pool EXCEPT ![k] = Missing]

DeleteKey(k) ==
  /\ InPool(k) /\ ~Issued(k)
  /\ pool' = [pool EXCEPT ![k] = Missing]

PopKey(cat, r, k) ==
  /\ k \in FreeKeys(cat)
  /\ pool' = [pool EXCEPT ![k].holder = r]
=============================================================================
