----------------------------- MODULE SignInLedger -----------------------------
(***************************************************************************)
(* What signing in promises, without handlers, messages or ages: an        *)
(* attempt is made for one account and answered once; a session is granted *)
(* by a code alone, or by an attempt that was answered with yes, to the    *)
(* account the attempt was made for; it keeps account and origin until it  *)
(* ends.                                                                   *)
(***************************************************************************)
CONSTANTS Accounts, NoOne, Attempts, NoAttempt, SessionIds

VARIABLES
  owner,    \* account each attempt was made for
  answer,   \* what its owner answered
  granted   \* account and attempt of each session

ledgerVars == <<owner, answer, granted>>

NoGrant == [account |-> NoOne, via |-> NoAttempt]

Init ==
  /\ owner = [t \in Attempts |-> NoOne]
  /\ answer = [t \in Attempts |-> "none"]
  /\ granted = [s \in SessionIds |-> NoGrant]

Ask(t, a) ==
  /\ owner[t] = NoOne
  /\ owner' = [owner EXCEPT ![t] = a]
  /\ UNCHANGED <<answer, granted>>

Answer(t, verdict) ==
  /\ owner[t] # NoOne /\ answer[t] = "none"
  /\ answer' = [answer EXCEPT ![t] = verdict]
  /\ UNCHANGED <<owner, granted>>

Grant(s, a, via) ==
  /\ granted[s] = NoGrant
  /\ via # NoAttempt => answer[via] = "approved" /\ owner[via] = a
  /\ granted' = [granted EXCEPT ![s] = [account |-> a, via |-> via]]
  /\ UNCHANGED <<owner, answer>>

End(ended) ==
  /\ granted' = [s \in SessionIds |-> IF s \in ended THEN NoGrant ELSE granted[s]]
  /\ UNCHANGED <<owner, answer>>

Next ==
  \/ \E t \in Attempts :
       \/ \E a \in Accounts : Ask(t, a)
       \/ \E verdict \in {"approved", "denied"} : Answer(t, verdict)
  \/ \E s \in SessionIds, a \in Accounts, via \in Attempts \cup {NoAttempt} : Grant(s, a, via)
  \/ \E ended \in SUBSET SessionIds : End(ended)

Spec == Init /\ [][Next]_ledgerVars
=============================================================================
