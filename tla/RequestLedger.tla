---------------------------- MODULE RequestLedger ----------------------------
(***************************************************************************)
(* What the payout desk promises, without handlers, stocks or weeks: a     *)
(* request is submitted once and decided once; a key is issued to one      *)
(* request, for good; and the key an approval hands over from the stock    *)
(* is one that was issued to that very request.                            *)
(***************************************************************************)
CONSTANTS RequestIds, Keys, NoRequest, NoKey

VARIABLES
  verdict,   \* status of each request
  holder,    \* request each key was issued to
  given      \* key of the stock each request was approved with

ledgerVars == <<verdict, holder, given>>

Init ==
  /\ verdict = [r \in RequestIds |-> "absent"]
  /\ holder = [k \in Keys |-> NoRequest]
  /\ given = [r \in RequestIds |-> NoKey]

Submit(r) ==
  /\ verdict[r] = "absent"
  /\ verdict' = [verdict EXCEPT ![r] = "pending"]
  /\ UNCHANGED <<holder, given>>

Issue(k, r) ==
  /\ verdict[r] # "absent"
  /\ holder[k] = NoRequest
  /\ holder' = [holder EXCEPT ![k] = r]
  /\ UNCHANGED <<verdict, given>>

Approve(r) ==
  /\ verdict[r] = "pending"
  /\ verdict' = [verdict EXCEPT ![r] = "approved"]
  /\ \E k \in {NoKey} \cup {x \in Keys : holder[x] = r} :
       given' = [given EXCEPT ![r] = k]
  /\ UNCHANGED holder

Reject(r) ==
  /\ verdict[r] = "pending"
  /\ verdict' = [verdict EXCEPT ![r] = "rejected"]
  /\ UNCHANGED <<holder, given>>

Next ==
  \E r \in RequestIds :
    \/ Submit(r) \/ Approve(r) \/ Reject(r)
    \/ \E k \in Keys : Issue(k, r)

Spec == Init /\ [][Next]_ledgerVars
=============================================================================
