---------------------------- MODULE LoginFlowProofs ----------------------------
(***************************************************************************)
(* Proofs about LoginFlow, for any number of accounts, users, attempts,    *)
(* sessions and handlers.                                                  *)
(***************************************************************************)
EXTENDS LoginFlow, FiniteSetTheorems, TLAPS

(***************************************************************************)
(* What a handler holds where it needs it.                                 *)
(***************************************************************************)
HandlerFits == \A h \in Handlers :
  /\ handler[h].at \in {"direct", "expire", "insert", "send"} => handler[h].account \in Accounts
  /\ handler[h].at \in {"send", "expireOne", "create"} => handler[h].attempt \in Attempts

TypeInv == TypeOK /\ HandlerFits

(***************************************************************************)
(* The ways in which a handler moves.                                      *)
(***************************************************************************)
Fits(x) ==
  /\ x \in HandlerState
  /\ x.at \in {"direct", "expire", "insert", "send"} => x.account \in Accounts
  /\ x.at \in {"send", "expireOne", "create"} => x.attempt \in Attempts

LEMMA GotoFits ==
  ASSUME TypeInv, NEW h \in Handlers, NEW x, Fits(x), Goto(h, x)
  PROVE  /\ handler' \in [Handlers -> HandlerState] /\ HandlerFits'
         /\ handler'[h] = x /\ \A k \in Handlers \ {h} : handler'[k] = handler[k]
  BY DEF TypeInv, TypeOK, HandlerFits, Fits, Goto

LEMMA IdleFits == Fits(IdleHandler)
  BY DEF Fits, IdleHandler, HandlerState

LEMMA SameFits ==
  ASSUME TypeInv, UNCHANGED handler
  PROVE  handler' \in [Handlers -> HandlerState] /\ HandlerFits'
  BY DEF TypeInv, TypeOK, HandlerFits

LEMMA NoRowTypes == NoRow \in AttemptRow /\ NoSession \in SessionRow
  BY DEF NoRow, AttemptRow, NoSession, SessionRow

LEMMA StatusType ==
  ASSUME NEW r \in AttemptRow, NEW status \in {"pending", "approved", "denied", "expired"}
  PROVE  [r EXCEPT !.status = status] \in AttemptRow
  BY DEF AttemptRow

LEMMA AgedType ==
  ASSUME NEW r \in AttemptRow
  PROVE  [r EXCEPT !.stale = TRUE] \in AttemptRow
  BY DEF AttemptRow

LEMMA StartingFinite ==
  ASSUME NEW a, NEW h \in Handlers
  PROVE  /\ IsFiniteSet(Starting(a)) /\ Cardinality(Starting(a)) \in Nat
         /\ Cardinality(Starting(a)) <= Cardinality(Handlers)
         /\ Cardinality(Starting(a) \cup {h}) \in 0..Cardinality(Handlers)
         /\ Cardinality(Handlers) \in Nat
<1>1. Starting(a) \in SUBSET Handlers /\ Starting(a) \cup {h} \in SUBSET Handlers
  BY DEF Starting
<1> HIDE DEF Starting
<1>2. ASSUME NEW S \in SUBSET Handlers
      PROVE  /\ IsFiniteSet(S) /\ Cardinality(S) \in Nat
             /\ Cardinality(S) <= Cardinality(Handlers)
  BY HandlersAssumption, FS_Subset, FS_CardinalityType
<1>3. Cardinality(Handlers) \in Nat
  BY HandlersAssumption, FS_CardinalityType
<1> QED BY <1>1, <1>2, <1>3

LEMMA CrowdType ==
  ASSUME NEW h \in Handlers, crowd \in 0..Cardinality(Handlers), CountCrowd(h)
  PROVE  /\ crowd' \in 0..Cardinality(Handlers) /\ crowd <= crowd'
         /\ Cardinality(Starting(handler[h].account) \cup {h}) <= crowd'
<1> DEFINE n == Cardinality(Starting(handler[h].account) \cup {h})
           c == crowd'
<1>1. n \in 0..Cardinality(Handlers) /\ Cardinality(Handlers) \in Nat
  BY StartingFinite
<1>2. c = IF n > crowd THEN n ELSE crowd
  BY DEF CountCrowd
<1> HIDE DEF n, c
<1>3. c \in 0..Cardinality(Handlers) /\ crowd <= c /\ n <= c
  BY <1>1, <1>2
<1> QED BY <1>3 DEF n, c

LEMMA ChatType ==
  ASSUME TypeInv, NEW a \in Accounts
  PROVE  ChatOf(a) \in Users \cup {NoUser}
  BY DEF TypeInv, TypeOK, ChatOf

-----------------------------------------------------------------------------
(***************************************************************************)
(* Every step keeps the types.                                             *)
(***************************************************************************)
LEMMA StatementTypes ==
  ASSUME TypeInv, NEW h \in Handlers, Statement(h)
  PROVE  TypeInv'
<1> USE DEF TypeInv
<1>1. CASE DirectSession(h)
  <2>1. handler[h].account \in Accounts
    BY <1>1 DEF DirectSession, At, HandlerFits
  <2>2. sessions' \in [SessionIds -> SessionRow]
    BY <1>1, <2>1 DEF DirectSession, AddSession, TypeOK, SessionRow
  <2> QED BY <1>1, <2>2, GotoFits, IdleFits DEF DirectSession, Return, TypeOK, counts, identity
<1>2. CASE ExpireOthers(h) \/ ExpireOthersFails(h)
  <2>1. handler[h].account \in Accounts /\ handler[h] \in HandlerState
    BY <1>2 DEF ExpireOthers, ExpireOthersFails, At, HandlerFits, TypeOK
  <2>2. Fits([handler[h] EXCEPT !.at = "insert"])
    BY <2>1 DEF Fits, HandlerState
  <2>3. CASE ExpireOthers(h)
    <3>1. attempts' \in [Attempts -> AttemptRow]
      BY <2>3, StatusType DEF ExpireOthers, TypeOK
    <3>2. crowd' \in 0..Cardinality(Handlers)
      BY <2>3, CrowdType DEF ExpireOthers, TypeOK
    <3> QED BY <2>2, <2>3, <3>1, <3>2, GotoFits DEF ExpireOthers, TypeOK, identity
  <2>4. CASE ExpireOthersFails(h)
    <3>1. missed' \in 0..MaxMissed
      BY <2>4, MissedAssumption DEF ExpireOthersFails, TypeOK
    <3> QED BY <2>2, <2>4, <3>1, GotoFits DEF ExpireOthersFails, TypeOK, identity
  <2> QED BY <1>2, <2>3, <2>4
<1>3. CASE InsertAttempt(h)
  <2>1. handler[h].account \in Accounts /\ handler[h] \in HandlerState
    BY <1>3 DEF InsertAttempt, At, HandlerFits, TypeOK
  <2>2. PICK t \in Attempts :
          /\ attempts' = [attempts EXCEPT ![t] =
               [NoRow EXCEPT !.status = "pending", !.account = handler[h].account]]
          /\ Goto(h, [handler[h] EXCEPT !.at = "send", !.attempt = t])
    BY <1>3 DEF InsertAttempt
  <2>3. Fits([handler[h] EXCEPT !.at = "send", !.attempt = t])
    BY <2>1 DEF Fits, HandlerState
  <2>4. [NoRow EXCEPT !.status = "pending", !.account = handler[h].account] \in AttemptRow
    BY <2>1, NoRowTypes DEF AttemptRow
  <2>5. attempts' \in [Attempts -> AttemptRow]
    BY <2>2, <2>4 DEF TypeOK
  <2> QED BY <1>3, <2>2, <2>3, <2>5, GotoFits DEF InsertAttempt, TypeOK, counts, identity
<1>4. CASE SendConfirmation(h)
  <2>1. handler[h].account \in Accounts /\ handler[h].attempt \in Attempts
    BY <1>4 DEF SendConfirmation, At, HandlerFits
  <2>2. ChatOf(handler[h].account) \in Users \cup {NoUser}
    BY <2>1, ChatType
  <2>3. attempts' \in [Attempts -> AttemptRow]
    <3> DEFINE t == handler[h].attempt
               chat == ChatOf(handler[h].account)
    <3>1. attempts \in [Attempts -> AttemptRow]
      BY DEF TypeOK
    <3>2. UNCHANGED attempts \/ attempts' = [attempts EXCEPT ![t].sentTo = chat]
      BY <1>4 DEF SendConfirmation
    <3>3. t \in Attempts /\ chat \in Users \cup {NoUser}
      BY <2>1, <2>2
    <3> HIDE DEF t, chat
    <3>4. [attempts[t] EXCEPT !.sentTo = chat] \in AttemptRow
      BY <3>1, <3>3 DEF AttemptRow
    <3> QED BY <3>1, <3>2, <3>3, <3>4
  <2> QED BY <1>4, <2>3, GotoFits, IdleFits DEF SendConfirmation, Return, TypeOK, counts, identity
<1>5. CASE ExpireOne(h)
  <2>1. attempts' \in [Attempts -> AttemptRow]
    <3>1. handler[h].attempt \in Attempts
      BY <1>5 DEF ExpireOne, At, HandlerFits
    <3> QED BY <1>5, <3>1, StatusType DEF ExpireOne, TypeOK
  <2> QED BY <1>5, <2>1, GotoFits, IdleFits DEF ExpireOne, Return, TypeOK, counts, identity
<1>6. CASE SessionOfAttempt(h)
  <2>1. handler[h].attempt \in Attempts /\ handler[h].account \in Accounts \cup {NoOne}
    BY <1>6 DEF SessionOfAttempt, At, HandlerFits, TypeOK, HandlerState
  <2>2. sessions' \in [SessionIds -> SessionRow]
    BY <1>6, <2>1 DEF SessionOfAttempt, AddSession, TypeOK, SessionRow
  <2> QED BY <1>6, <2>2, GotoFits, IdleFits DEF SessionOfAttempt, Return, TypeOK, counts, identity
<1>7. CASE StatementFails(h)
  BY <1>7, GotoFits, IdleFits DEF StatementFails, Return, TypeOK, counts, identity
<1> QED BY <1>1, <1>2, <1>3, <1>4, <1>5, <1>6, <1>7 DEF Statement

LEMMA NextTypes ==
  ASSUME TypeInv, [Next]_vars
  PROVE  TypeInv'
<1> USE DEF TypeInv
<1>1. ASSUME NEW h \in Handlers, NEW a \in Accounts, Login(h, a) PROVE TypeInv'
  <2>1. /\ Fits([IdleHandler EXCEPT !.at = "direct", !.account = a])
        /\ Fits([IdleHandler EXCEPT !.at = "expire", !.account = a])
    BY IdleFits DEF Fits, HandlerState, IdleHandler
  <2> QED BY <1>1, <2>1, GotoFits DEF Login, TypeOK, counts, identity
<1>2. ASSUME NEW h \in Handlers, NEW t \in Attempts, Poll(h, t) PROVE TypeInv'
  <2>1. attempts[t].account \in Accounts \cup {NoOne}
    BY DEF TypeOK, AttemptRow
  <2>2. /\ Fits([IdleHandler EXCEPT !.at = "expireOne", !.attempt = t])
        /\ Fits([at |-> "create", account |-> attempts[t].account, attempt |-> t])
    BY <2>1 DEF Fits, IdleHandler, HandlerState
  <2> QED BY <1>2, <2>2, GotoFits DEF Poll, TypeOK, counts, identity
<1>3. ASSUME NEW h \in Handlers, Statement(h) PROVE TypeInv'
  BY <1>3, StatementTypes
<1>4. ASSUME NEW u \in Users, NEW t \in Attempts, NEW verdict \in {"approved", "denied"},
             Press(u, t, verdict)
      PROVE  TypeInv'
  <2>1. attempts' \in [Attempts -> AttemptRow]
    <3> DEFINE r == [attempts[t] EXCEPT !.status = verdict, !.by = u, !.said = verdict]
    <3>1. r \in AttemptRow
      BY DEF TypeOK, AttemptRow
    <3>2. attempts' = [attempts EXCEPT ![t] = r]
      BY <1>4 DEF Press, TypeOK
    <3> HIDE DEF r
    <3> QED BY <3>1, <3>2 DEF TypeOK
  <2> QED BY <1>4, <2>1, SameFits DEF Press, TypeOK, counts, identity
<1>5. ASSUME NEW u \in Users, NEW a \in Accounts, LinkUser(u, a) PROVE TypeInv'
  BY <1>5, SameFits DEF LinkUser, TypeOK, counts
<1>6. ASSUME NEW s \in SessionIds, RejectSession(s) \/ Logout(s) \/ SessionAges(s)
      PROVE  TypeInv'
  <2>1. sessions' \in [SessionIds -> SessionRow]
    BY <1>6, NoRowTypes DEF RejectSession, Logout, SessionAges, TypeOK, SessionRow
  <2> QED BY <1>6, <2>1, SameFits DEF RejectSession, Logout, SessionAges, TypeOK, counts, identity
<1>7. ASSUME NEW t \in Attempts, AttemptAges(t) PROVE TypeInv'
  <2>1. attempts' \in [Attempts -> AttemptRow]
    BY <1>7, AgedType DEF AttemptAges, TypeOK
  <2> QED BY <1>7, <2>1, SameFits DEF AttemptAges, TypeOK, counts, identity
<1>8. ASSUME NEW a \in Accounts, ToggleAccount(a) PROVE TypeInv'
  BY <1>8, SameFits DEF ToggleAccount, TypeOK, counts
<1>9. CASE CleanupSessions
  <2>1. sessions' \in [SessionIds -> SessionRow]
    BY <1>9, NoRowTypes DEF CleanupSessions, TypeOK
  <2> QED BY <1>9, <2>1, SameFits DEF CleanupSessions, TypeOK, counts, identity
<1>10. CASE CleanupAttempts
  <2>1. attempts' \in [Attempts -> AttemptRow]
    BY <1>10, StatusType DEF CleanupAttempts, TypeOK
  <2> QED BY <1>10, <2>1, SameFits DEF CleanupAttempts, TypeOK, counts, identity
<1>11. CASE Restart
  BY <1>11, IdleFits DEF Restart, TypeOK, HandlerFits, Fits, counts, identity
<1>12. CASE UNCHANGED vars
  BY <1>12, SameFits DEF vars, TypeOK, counts, identity
<1> QED BY <1>1, <1>2, <1>3, <1>4, <1>5, <1>6, <1>7, <1>8, <1>9, <1>10, <1>11, <1>12 DEF Next

LEMMA InitTypes == Init => TypeInv
<1>1. IdleHandler \in HandlerState
  BY DEF IdleHandler, HandlerState
<1>2. 0 \in 0..Cardinality(Handlers) /\ 0 \in 0..MaxMissed
  BY HandlersAssumption, MissedAssumption, FS_CardinalityType
<1> QED BY <1>1, <1>2, NoRowTypes DEF Init, TypeInv, TypeOK, HandlerFits, IdleHandler

(***************************************************************************)
(* Type correctness.                                                       *)
(***************************************************************************)
THEOREM LoginTypeCorrect == Spec => []TypeOK
<1>1. TypeInv /\ [Next]_vars => TypeInv'
  BY NextTypes
<1>2. TypeInv => TypeOK
  BY DEF TypeInv
<1> QED BY InitTypes, <1>1, <1>2, PTL DEF Spec

-----------------------------------------------------------------------------
(***************************************************************************)
(* An attempt a user has confirmed stays confirmed, though it may expire.  *)
(***************************************************************************)
Confirmed(t, a) ==
  /\ t \in Attempts
  /\ attempts[t].account = a
  /\ attempts[t].by # NoUser /\ attempts[t].by = attempts[t].sentTo
  /\ attempts[t].said = "approved"

(***************************************************************************)
(* A row that was never used is empty, a pending one has no answer, both a *)
(* pending and an answered one have an account, and an approval names who  *)
(* approved.                                                               *)
(***************************************************************************)
EmptyFits(r) == r.status = "none" => r.account = NoOne /\ r.by = NoUser /\ r.said = "none"

PendingFits(r) ==
  /\ r.status = "pending" => r.said = "none"
  /\ r.status = "pending" \/ r.said # "none" => r.account \in Accounts

ApprovedFits(r) == r.status = "approved" => r.said = "approved" /\ r.by # NoUser /\ r.by = r.sentTo

RowsFit == \A t \in Attempts :
  EmptyFits(attempts[t]) /\ PendingFits(attempts[t]) /\ ApprovedFits(attempts[t])

(***************************************************************************)
(* One handler sends the message of an attempt, and nobody can have        *)
(* decided it before.                                                      *)
(***************************************************************************)
Sends(h, t) == handler[h].at = "send" /\ handler[h].attempt = t

SendsOnce ==
  /\ \A h \in Handlers, t \in Attempts : Sends(h, t) =>
       /\ attempts[t].status # "none"
       /\ attempts[t].sentTo = NoUser /\ attempts[t].by = NoUser
  /\ \A h, k \in Handlers, t \in Attempts : Sends(h, t) /\ Sends(k, t) => h = k

(***************************************************************************)
(* A handler creates sessions of attempts it saw approved.                 *)
(***************************************************************************)
CreatesConfirmed == \A h \in Handlers :
  handler[h].at = "create" => Confirmed(handler[h].attempt, handler[h].account)

LoginInv == TypeInv /\ RowsFit /\ SendsOnce /\ CreatesConfirmed /\ SessionsConfirmed

(***************************************************************************)
(* What a step may do to one attempt.                                      *)
(***************************************************************************)
Kept(t) == attempts'[t].account = attempts[t].account /\ attempts'[t].by = attempts[t].by
           /\ attempts'[t].sentTo = attempts[t].sentTo /\ attempts'[t].said = attempts[t].said

Unchanged(t) == Kept(t) /\ attempts'[t].status = attempts[t].status

Expired(t) == Kept(t) /\ attempts'[t].status = "expired"

Inserted(t) == attempts[t].status = "none" /\ attempts'[t].status = "pending"
               /\ attempts'[t].by = NoUser /\ attempts'[t].sentTo = NoUser
               /\ attempts'[t].account \in Accounts /\ attempts'[t].said = "none"

Sent(t) == /\ \E h \in Handlers : Sends(h, t) /\ handler'[h].at = "idle"
           /\ attempts'[t].account = attempts[t].account
           /\ attempts'[t].by = attempts[t].by /\ attempts'[t].status = attempts[t].status
           /\ attempts'[t].said = attempts[t].said

Pressed(t) == /\ attempts[t].status = "pending" /\ attempts[t].sentTo \in Users
              /\ attempts'[t].account = attempts[t].account
              /\ attempts'[t].status \in {"approved", "denied"}
              /\ attempts'[t].said = attempts'[t].status
              /\ attempts'[t].sentTo = attempts[t].sentTo
              /\ attempts'[t].by = attempts[t].sentTo
              /\ attempts'[t].by = tg[attempts[t].account]

Changes(t) == Unchanged(t) \/ Expired(t) \/ Inserted(t) \/ Sent(t) \/ Pressed(t)

LEMMA SameAttempts == UNCHANGED attempts => \A t \in Attempts : Changes(t)
  BY DEF Changes, Unchanged, Kept

LEMMA StatementChanges ==
  ASSUME TypeInv, NEW h \in Handlers, Statement(h)
  PROVE  \A t \in Attempts : Changes(t)
<1>1. CASE \/ DirectSession(h) \/ SessionOfAttempt(h)
         \/ ExpireOthersFails(h) \/ StatementFails(h)
  BY <1>1, SameAttempts DEF DirectSession, SessionOfAttempt, ExpireOthersFails, StatementFails
<1>2. CASE ExpireOthers(h)
  BY <1>2 DEF ExpireOthers, Changes, Unchanged, Expired, Kept, TypeInv, TypeOK, AttemptRow
<1>3. CASE InsertAttempt(h)
  <2>1. PICK t \in Attempts :
          /\ attempts[t].status = "none"
          /\ attempts' = [attempts EXCEPT ![t] =
               [NoRow EXCEPT !.status = "pending", !.account = handler[h].account]]
    BY <1>3 DEF InsertAttempt
  <2>2. Inserted(t)
    <3>1. handler[h].account \in Accounts
      BY <1>3 DEF InsertAttempt, At, TypeInv, HandlerFits
    <3> QED BY <2>1, <3>1 DEF Inserted, NoRow, TypeInv, TypeOK
  <2>3. ASSUME NEW r \in Attempts \ {t} PROVE Unchanged(r)
    BY <2>1 DEF Unchanged, Kept, TypeInv, TypeOK
  <2> QED BY <2>2, <2>3 DEF Changes
<1>4. CASE SendConfirmation(h)
  <2>1. CASE UNCHANGED attempts
    BY <2>1, SameAttempts
  <2>2. CASE attempts' = [attempts EXCEPT ![handler[h].attempt].sentTo = ChatOf(handler[h].account)]
    <3> DEFINE t == handler[h].attempt
    <3>1. t \in Attempts /\ Sends(h, t)
      BY <1>4 DEF SendConfirmation, At, TypeInv, HandlerFits, Sends
    <3>2. handler'[h].at = "idle"
      BY <1>4 DEF SendConfirmation, Return, Goto, IdleHandler, TypeInv, TypeOK
    <3>3. /\ attempts'[t].account = attempts[t].account
          /\ attempts'[t].by = attempts[t].by /\ attempts'[t].status = attempts[t].status
          /\ attempts'[t].said = attempts[t].said
      BY <2>2, <3>1 DEF TypeInv, TypeOK, AttemptRow
    <3>4. ASSUME NEW r \in Attempts \ {t} PROVE Unchanged(r)
      BY <2>2 DEF Unchanged, Kept, TypeInv, TypeOK
    <3> QED BY <3>1, <3>2, <3>3, <3>4 DEF Changes, Sent
  <2> QED BY <1>4, <2>1, <2>2 DEF SendConfirmation
<1>5. CASE ExpireOne(h)
  BY <1>5 DEF ExpireOne, Changes, Unchanged, Expired, Kept, TypeInv, TypeOK, AttemptRow
<1> QED BY <1>1, <1>2, <1>3, <1>4, <1>5 DEF Statement

LEMMA NextChanges ==
  ASSUME TypeInv, [Next]_vars
  PROVE  \A t \in Attempts : Changes(t)
<1>1. ASSUME NEW h \in Handlers, Statement(h) PROVE \A t \in Attempts : Changes(t)
  BY <1>1, StatementChanges
<1>2. ASSUME NEW u \in Users, NEW t \in Attempts, NEW verdict \in {"approved", "denied"},
             Press(u, t, verdict)
      PROVE  \A r \in Attempts : Changes(r)
  <2>1. Pressed(t)
    BY <1>2 DEF Press, Pressed, TypeInv, TypeOK, AttemptRow
  <2>2. ASSUME NEW r \in Attempts \ {t} PROVE Unchanged(r)
    BY <1>2 DEF Press, Unchanged, Kept, TypeInv, TypeOK
  <2> QED BY <2>1, <2>2 DEF Changes
<1>3. ASSUME NEW t \in Attempts, AttemptAges(t) PROVE \A r \in Attempts : Changes(r)
  BY <1>3 DEF AttemptAges, Changes, Unchanged, Kept, TypeInv, TypeOK, AttemptRow
<1>4. CASE CleanupAttempts
  BY <1>4 DEF CleanupAttempts, Changes, Unchanged, Expired, Kept, TypeInv, TypeOK, AttemptRow
<1>5. ASSUME UNCHANGED attempts PROVE \A t \in Attempts : Changes(t)
  BY <1>5, SameAttempts
<1>6. ASSUME \/ \E h \in Handlers, a \in Accounts : Login(h, a)
             \/ \E h \in Handlers, t \in Attempts : Poll(h, t)
             \/ \E u \in Users, a \in Accounts : LinkUser(u, a)
             \/ \E s \in SessionIds : RejectSession(s) \/ Logout(s) \/ SessionAges(s)
             \/ \E a \in Accounts : ToggleAccount(a)
             \/ CleanupSessions \/ Restart \/ UNCHANGED vars
      PROVE  UNCHANGED attempts
  BY <1>6 DEF Login, Poll, LinkUser, RejectSession, Logout, SessionAges, ToggleAccount,
              CleanupSessions, Restart, vars
<1> QED BY <1>1, <1>2, <1>3, <1>4, <1>5, <1>6 DEF Next

(***************************************************************************)
(* How a handler comes to send a message or to create a session.           *)
(***************************************************************************)
LEMMA HandlerMoves ==
  ASSUME TypeInv, [Next]_vars, NEW h \in Handlers
  PROVE  /\ handler'[h].at = "send" =>
              \/ handler'[h] = handler[h]
              \/ /\ Inserted(handler'[h].attempt)
                 /\ \A k \in Handlers \ {h} : handler'[k] = handler[k]
         /\ handler'[h].at = "create" =>
              \/ handler'[h] = handler[h]
              \/ LET t == handler'[h].attempt IN
                   /\ t \in Attempts /\ attempts[t].status = "approved"
                   /\ attempts[t].account = handler'[h].account
                   /\ UNCHANGED attempts
<1> DEFINE Goal ==
      /\ handler'[h].at = "send" =>
           \/ handler'[h] = handler[h]
           \/ /\ Inserted(handler'[h].attempt)
              /\ \A k \in Handlers \ {h} : handler'[k] = handler[k]
      /\ handler'[h].at = "create" =>
           \/ handler'[h] = handler[h]
           \/ LET t == handler'[h].attempt IN
                /\ t \in Attempts /\ attempts[t].status = "approved"
                /\ attempts[t].account = handler'[h].account
                /\ UNCHANGED attempts
<1>1. ASSUME UNCHANGED handler \/ handler'[h] = handler[h] PROVE Goal
  BY <1>1
<1>2. ASSUME NEW k \in Handlers, NEW x, Goto(k, x), x.at \notin {"send", "create"} PROVE Goal
  BY <1>2 DEF Goto, TypeInv, TypeOK
<1>3. ASSUME NEW k \in Handlers, NEW a \in Accounts, Login(k, a) PROVE Goal
  BY <1>2, <1>3 DEF Login, IdleHandler
<1>4. ASSUME NEW k \in Handlers, NEW t \in Attempts, Poll(k, t) PROVE Goal
  <2>1. CASE Goto(k, [IdleHandler EXCEPT !.at = "expireOne", !.attempt = t])
    BY <1>2, <2>1 DEF IdleHandler
  <2>2. CASE /\ attempts[t].status = "approved" /\ UNCHANGED attempts
             /\ Goto(k, [at |-> "create", account |-> attempts[t].account, attempt |-> t])
    BY <2>2 DEF Goto, TypeInv, TypeOK
  <2> QED BY <1>4, <2>1, <2>2 DEF Poll
<1>5. ASSUME NEW k \in Handlers, \/ DirectSession(k) \/ SendConfirmation(k) \/ ExpireOne(k)
                                  \/ SessionOfAttempt(k) \/ StatementFails(k)
      PROVE  Goal
  BY <1>2, <1>5 DEF DirectSession, SendConfirmation, ExpireOne, SessionOfAttempt, StatementFails,
                     Return, IdleHandler
<1>6. ASSUME NEW k \in Handlers, ExpireOthers(k) \/ ExpireOthersFails(k) PROVE Goal
  <2>1. [handler[k] EXCEPT !.at = "insert"].at = "insert"
    BY DEF TypeInv, TypeOK, HandlerState
  <2> QED BY <1>2, <1>6, <2>1 DEF ExpireOthers, ExpireOthersFails
<1>7. ASSUME NEW k \in Handlers, InsertAttempt(k) PROVE Goal
  <2>1. PICK t \in Attempts :
          /\ attempts[t].status = "none"
          /\ attempts' = [attempts EXCEPT ![t] =
               [NoRow EXCEPT !.status = "pending", !.account = handler[k].account]]
          /\ Goto(k, [handler[k] EXCEPT !.at = "send", !.attempt = t])
    BY <1>7 DEF InsertAttempt
  <2>2. Inserted(t)
    <3>1. handler[k].account \in Accounts
      BY <1>7 DEF InsertAttempt, At, TypeInv, HandlerFits
    <3> QED BY <2>1, <3>1 DEF Inserted, NoRow, TypeInv, TypeOK
  <2>3. handler'[k].attempt = t /\ handler'[k].at = "send"
    BY <2>1 DEF Goto, TypeInv, TypeOK, HandlerState
  <2>4. \A j \in Handlers \ {k} : handler'[j] = handler[j]
    BY <2>1 DEF Goto, TypeInv, TypeOK
  <2> QED BY <2>2, <2>3, <2>4
<1>8. CASE Restart
  BY <1>8 DEF Restart, IdleHandler
<1>9. ASSUME \/ \E u \in Users, t \in Attempts, verdict \in {"approved", "denied"} :
                  Press(u, t, verdict)
             \/ \E u \in Users, a \in Accounts : LinkUser(u, a)
             \/ \E s \in SessionIds : RejectSession(s) \/ Logout(s) \/ SessionAges(s)
             \/ \E t \in Attempts : AttemptAges(t)
             \/ \E a \in Accounts : ToggleAccount(a)
             \/ CleanupSessions \/ CleanupAttempts \/ UNCHANGED vars
      PROVE  UNCHANGED handler
  BY <1>9 DEF Press, LinkUser, RejectSession, Logout, SessionAges, AttemptAges, ToggleAccount,
              CleanupSessions, CleanupAttempts, vars
<1> QED BY <1>1, <1>3, <1>4, <1>5, <1>6, <1>7, <1>8, <1>9 DEF Next, Statement

(***************************************************************************)
(* How a session comes to be what it is.                                   *)
(***************************************************************************)
SameOrigin(s) == /\ sessions[s].life # "none" /\ sessions'[s].via = sessions[s].via
                 /\ sessions'[s].account = sessions[s].account
                 /\ sessions'[s].codeOnly = sessions[s].codeOnly

CreatedBy(h, s) == /\ handler[h].at = "create" /\ sessions'[s].via = handler[h].attempt
                   /\ sessions'[s].account = handler[h].account

LEMMA SessionMoves ==
  ASSUME TypeInv, [Next]_vars, NEW s \in SessionIds
  PROVE  \/ sessions'[s].life = "none" \/ sessions'[s].codeOnly \/ SameOrigin(s)
         \/ \E h \in Handlers : CreatedBy(h, s)
<1> DEFINE Goal == \/ sessions'[s].life = "none" \/ sessions'[s].codeOnly \/ SameOrigin(s)
                   \/ \E h \in Handlers : CreatedBy(h, s)
<1>1. ASSUME sessions'[s] = sessions[s] PROVE Goal
  BY <1>1 DEF SameOrigin, TypeInv, TypeOK, SessionRow
<1>2. ASSUME NEW h \in Handlers, DirectSession(h) PROVE Goal
  <2>1. PICK r \in SessionIds : sessions' = [sessions EXCEPT ![r] =
          [life |-> "live", account |-> handler[h].account, via |-> NoAttempt, codeOnly |-> TRUE]]
    BY <1>2 DEF DirectSession, AddSession
  <2> QED BY <1>1, <2>1 DEF TypeInv, TypeOK
<1>3. ASSUME NEW h \in Handlers, SessionOfAttempt(h) PROVE Goal
  <2>1. PICK r \in SessionIds : sessions' = [sessions EXCEPT ![r] =
          [life |-> "live", account |-> handler[h].account, via |-> handler[h].attempt,
           codeOnly |-> FALSE]]
    BY <1>3 DEF SessionOfAttempt, AddSession
  <2>2. CASE r = s
    BY <1>3, <2>1, <2>2 DEF SessionOfAttempt, At, CreatedBy, TypeInv, TypeOK
  <2>3. CASE r # s
    BY <1>1, <2>1, <2>3 DEF TypeInv, TypeOK
  <2> QED BY <2>2, <2>3
<1>4. ASSUME NEW r \in SessionIds, RejectSession(r) \/ Logout(r) PROVE Goal
  BY <1>1, <1>4 DEF RejectSession, Logout, NoSession, TypeInv, TypeOK
<1>5. ASSUME NEW r \in SessionIds, SessionAges(r) PROVE Goal
  <2>1. PICK life : sessions' = [sessions EXCEPT ![r].life = life] /\ sessions[r].life # "none"
    BY <1>5 DEF SessionAges
  <2>2. CASE r = s
    BY <2>1, <2>2 DEF SameOrigin, TypeInv, TypeOK, SessionRow
  <2>3. CASE r # s
    BY <1>1, <2>1, <2>3 DEF TypeInv, TypeOK
  <2> QED BY <2>2, <2>3
<1>6. CASE CleanupSessions
  BY <1>1, <1>6 DEF CleanupSessions, NoSession
<1>7. ASSUME \/ \E h \in Handlers, a \in Accounts : Login(h, a)
             \/ \E h \in Handlers, t \in Attempts : Poll(h, t)
             \/ \E h \in Handlers : \/ ExpireOthers(h) \/ ExpireOthersFails(h)
                                   \/ InsertAttempt(h) \/ SendConfirmation(h)
                                   \/ ExpireOne(h) \/ StatementFails(h)
             \/ \E u \in Users, t \in Attempts, verdict \in {"approved", "denied"} :
                  Press(u, t, verdict)
             \/ \E u \in Users, a \in Accounts : LinkUser(u, a)
             \/ \E t \in Attempts : AttemptAges(t)
             \/ \E a \in Accounts : ToggleAccount(a)
             \/ CleanupAttempts \/ Restart \/ UNCHANGED vars
      PROVE  UNCHANGED sessions
  BY <1>7 DEF Login, Poll, ExpireOthers, ExpireOthersFails, InsertAttempt, SendConfirmation,
              ExpireOne, StatementFails, Press, LinkUser, AttemptAges, ToggleAccount,
              CleanupAttempts, Restart, vars
<1> QED BY <1>1, <1>2, <1>3, <1>4, <1>5, <1>6, <1>7 DEF Next, Statement

-----------------------------------------------------------------------------
(***************************************************************************)
(* The parts of the invariant, one after the other.                        *)
(***************************************************************************)
LEMMA ConfirmedStays ==
  ASSUME LoginInv, [Next]_vars, NEW t, NEW a, Confirmed(t, a)
  PROVE  /\ t \in Attempts
         /\ attempts'[t].account = a
         /\ attempts'[t].by # NoUser /\ attempts'[t].by = attempts'[t].sentTo
         /\ attempts'[t].said = "approved"
<1>1. t \in Attempts /\ Changes(t)
  BY NextChanges DEF LoginInv, Confirmed
<1>2. ~Sent(t)
  BY <1>1 DEF Sent, LoginInv, SendsOnce, Confirmed
<1> QED BY <1>1, <1>2 DEF Changes, Unchanged, Expired, Kept, Inserted, Pressed, Confirmed,
        LoginInv, RowsFit, EmptyFits, PendingFits

LEMMA RowsStep ==
  ASSUME LoginInv, [Next]_vars
  PROVE  RowsFit'
<1> SUFFICES ASSUME NEW t \in Attempts
             PROVE  /\ EmptyFits(attempts'[t]) /\ PendingFits(attempts'[t])
                    /\ ApprovedFits(attempts'[t])
  BY DEF RowsFit
<1>1. Changes(t)
  BY NextChanges DEF LoginInv
<1>2. CASE Sent(t)
  BY <1>2 DEF Sent, LoginInv, SendsOnce, RowsFit, EmptyFits, PendingFits, ApprovedFits
<1>3. CASE Pressed(t)
  BY <1>3, NoUserAssumption DEF Pressed, LoginInv, RowsFit, EmptyFits, PendingFits, ApprovedFits
<1>4. CASE Unchanged(t) \/ Expired(t) \/ Inserted(t)
  BY <1>4 DEF Unchanged, Expired, Inserted, Kept, LoginInv, RowsFit,
              EmptyFits, PendingFits, ApprovedFits
<1> QED BY <1>1, <1>2, <1>3, <1>4 DEF Changes

LEMMA SendsStep ==
  ASSUME LoginInv, [Next]_vars
  PROVE  SendsOnce'
<1>1. ASSUME NEW h \in Handlers, NEW t \in Attempts, Sends(h, t)', handler'[h] = handler[h]
      PROVE  /\ Sends(h, t)
             /\ attempts'[t].status # "none"
             /\ attempts'[t].sentTo = NoUser /\ attempts'[t].by = NoUser
  <2>1. Sends(h, t)
    BY <1>1 DEF Sends
  <2>2. attempts[t].status # "none" /\ attempts[t].sentTo = NoUser /\ attempts[t].by = NoUser
    BY <2>1 DEF LoginInv, SendsOnce
  <2>3. ~Sent(t)
    <3>1. ASSUME NEW k \in Handlers, Sends(k, t), handler'[k].at = "idle" PROVE FALSE
      BY <1>1, <2>1, <3>1 DEF LoginInv, SendsOnce, Sends
    <3> QED BY <3>1 DEF Sent
  <2>4. Changes(t)
    BY NextChanges DEF LoginInv
  <2> QED BY <2>1, <2>2, <2>3, <2>4, NoUserAssumption
          DEF Changes, Unchanged, Expired, Kept, Inserted, Pressed
<1>2. ASSUME NEW h \in Handlers, NEW t \in Attempts, Sends(h, t)'
      PROVE  \/ handler'[h] = handler[h]
             \/ Inserted(t) /\ \A k \in Handlers \ {h} : handler'[k] = handler[k]
  BY <1>2, HandlerMoves DEF LoginInv, Sends
<1>3. ASSUME NEW h \in Handlers, NEW t \in Attempts, Sends(h, t)'
      PROVE  /\ attempts'[t].status # "none"
             /\ attempts'[t].sentTo = NoUser /\ attempts'[t].by = NoUser
  BY <1>1, <1>2, <1>3 DEF Inserted
<1>4. ASSUME NEW h \in Handlers, NEW k \in Handlers, NEW t \in Attempts,
             Sends(h, t)', Sends(k, t)', h # k
      PROVE  FALSE
  <2>1. CASE handler'[h] = handler[h] /\ handler'[k] = handler[k]
    BY <1>1, <1>4, <2>1 DEF LoginInv, SendsOnce
  <2>2. CASE Inserted(t) /\ handler'[k] = handler[k]
    BY <1>1, <1>4, <2>2 DEF LoginInv, SendsOnce, Inserted
  <2>3. CASE Inserted(t) /\ handler'[h] = handler[h]
    BY <1>1, <1>4, <2>3 DEF LoginInv, SendsOnce, Inserted
  <2> QED BY <1>2, <1>4, <2>1, <2>2, <2>3
<1> QED BY <1>3, <1>4 DEF SendsOnce

LEMMA CreatesStep ==
  ASSUME LoginInv, [Next]_vars
  PROVE  CreatesConfirmed'
<1> SUFFICES ASSUME NEW h \in Handlers, handler'[h].at = "create"
             PROVE  Confirmed(handler[h].attempt, handler[h].account)'
  BY DEF CreatesConfirmed
<1>1. CASE handler'[h] = handler[h]
  <2>1. Confirmed(handler[h].attempt, handler[h].account)
    BY <1>1 DEF LoginInv, CreatesConfirmed
  <2> QED BY <1>1, <2>1, ConfirmedStays DEF Confirmed
<1>2. CASE LET t == handler'[h].attempt IN
             /\ t \in Attempts /\ attempts[t].status = "approved"
             /\ attempts[t].account = handler'[h].account
             /\ UNCHANGED attempts
  BY <1>2 DEF Confirmed, LoginInv, RowsFit, ApprovedFits
<1> QED BY <1>1, <1>2, HandlerMoves DEF LoginInv

LEMMA SessionsStep ==
  ASSUME LoginInv, [Next]_vars
  PROVE  SessionsConfirmed'
<1> SUFFICES ASSUME NEW s \in SessionIds, sessions'[s].life # "none", ~sessions'[s].codeOnly
             PROVE  Confirmed(sessions[s].via, sessions[s].account)'
  BY DEF SessionsConfirmed, Confirmed
<1>1. CASE SameOrigin(s)
  <2>1. Confirmed(sessions[s].via, sessions[s].account)
    BY <1>1 DEF SameOrigin, LoginInv, SessionsConfirmed, Confirmed
  <2> QED BY <1>1, <2>1, ConfirmedStays DEF SameOrigin, Confirmed
<1>2. CASE \E h \in Handlers : CreatedBy(h, s)
  <2>1. Confirmed(sessions'[s].via, sessions'[s].account)
    BY <1>2 DEF CreatedBy, LoginInv, CreatesConfirmed
  <2> QED BY <2>1, ConfirmedStays DEF Confirmed
<1> QED BY <1>1, <1>2, SessionMoves DEF LoginInv

LEMMA LoginStep == LoginInv /\ [Next]_vars => LoginInv'
  BY NextTypes, RowsStep, SendsStep, CreatesStep, SessionsStep DEF LoginInv

LEMMA LoginInit == Init => LoginInv
<1> SUFFICES ASSUME Init PROVE LoginInv
  OBVIOUS
<1>1. \A t \in Attempts : /\ attempts[t].status = "none" /\ attempts[t].account = NoOne
                          /\ attempts[t].by = NoUser /\ attempts[t].said = "none"
  BY DEF Init, NoRow
<1>2. \A h \in Handlers : handler[h].at = "idle"
  BY DEF Init, IdleHandler
<1>3. \A s \in SessionIds : sessions[s].life = "none"
  BY DEF Init, NoSession
<1> QED BY <1>1, <1>2, <1>3, InitTypes
        DEF LoginInv, RowsFit, EmptyFits, PendingFits, ApprovedFits,
            SendsOnce, Sends, CreatesConfirmed, SessionsConfirmed

-----------------------------------------------------------------------------
(***************************************************************************)
(* A session that did not come from the code alone belongs to the account  *)
(* of an attempt that the user it was sent to has confirmed (handler.go,   *)
(* AttemptStatus).                                                         *)
(***************************************************************************)
THEOREM SessionsAlwaysConfirmed == Spec => []SessionsConfirmed
<1>1. LoginInv => SessionsConfirmed
  BY DEF LoginInv
<1> QED BY LoginInit, LoginStep, <1>1, PTL DEF Spec

(***************************************************************************)
(* An attempt is decided by the user who is linked to its account at that  *)
(* moment (callbacks.go, callback2FA).                                     *)
(***************************************************************************)
THEOREM AlwaysDecidedByLinkedUser == Spec => DecidedByLinkedUser
<1> DEFINE Step == \A t \in Attempts :
      attempts'[t].by # attempts[t].by => attempts'[t].by = tg[attempts[t].account]
<1>1. LoginInv /\ [Next]_vars => [Step]_vars
  <2> SUFFICES ASSUME LoginInv, [Next]_vars, NEW t \in Attempts, attempts'[t].by # attempts[t].by
               PROVE  attempts'[t].by = tg[attempts[t].account]
    OBVIOUS
  <2>1. Changes(t)
    BY NextChanges DEF LoginInv
  <2> QED BY <2>1 DEF Changes, Unchanged, Expired, Kept, Inserted, Sent, Pressed, LoginInv, RowsFit,
                  EmptyFits
<1> HIDE DEF Step
<1>2. Spec => [][Step]_vars
  BY LoginInit, LoginStep, <1>1, PTL DEF Spec
<1> QED BY <1>2 DEF Step, DecidedByLinkedUser

(***************************************************************************)
(* A decision is taken once; afterwards the attempt can only expire        *)
(* (service.go, AttemptByToken and DecideAttempt).                         *)
(***************************************************************************)
THEOREM AlwaysDecidedOnce == Spec => DecidedOnce
<1> DEFINE Step == \A t \in Attempts :
      attempts[t].status \in {"approved", "denied"}
        => attempts'[t].status \in {attempts[t].status, "expired"}
<1>1. LoginInv /\ [Next]_vars => [Step]_vars
  <2> SUFFICES ASSUME LoginInv, [Next]_vars, NEW t \in Attempts,
                      attempts[t].status \in {"approved", "denied"}
               PROVE  attempts'[t].status \in {attempts[t].status, "expired"}
    OBVIOUS
  <2>1. Changes(t)
    BY NextChanges DEF LoginInv
  <2> QED BY <2>1 DEF Changes, Unchanged, Expired, Inserted, Sent, Pressed
<1> HIDE DEF Step
<1>2. Spec => [][Step]_vars
  BY LoginInit, LoginStep, <1>1, PTL DEF Spec
<1> QED BY <1>2 DEF Step, DecidedOnce
-----------------------------------------------------------------------------
(***************************************************************************)
(* The login implements the ledger.  Besides LoginInv it needs that the    *)
(* slot of a session that has ended is as if it had never been used.       *)
(***************************************************************************)
SlotsBlank == \A s \in SessionIds : sessions[s].life = "none" => sessions[s] = NoSession

LedgerInv == LoginInv /\ SlotsBlank

LEMMA SlotsStep ==
  ASSUME TypeInv, SlotsBlank, [Next]_vars
  PROVE  SlotsBlank'
<1> SUFFICES ASSUME NEW s \in SessionIds, sessions'[s].life = "none"
             PROVE  sessions'[s] = NoSession
  BY DEF SlotsBlank
<1> DEFINE Goal == sessions'[s] = NoSession
<1>1. ASSUME sessions'[s] = sessions[s] PROVE Goal
  BY <1>1 DEF SlotsBlank
<1>2. ASSUME NEW h \in Handlers, DirectSession(h) \/ SessionOfAttempt(h) PROVE Goal
  <2>1. PICK r \in SessionIds :
          \E row : row.life = "live" /\ sessions' = [sessions EXCEPT ![r] = row]
    BY <1>2 DEF DirectSession, SessionOfAttempt, AddSession
  <2>2. PICK row : row.life = "live" /\ sessions' = [sessions EXCEPT ![r] = row]
    BY <2>1
  <2> QED BY <1>1, <2>2 DEF TypeInv, TypeOK
<1>3. ASSUME NEW r \in SessionIds, RejectSession(r) \/ Logout(r) PROVE Goal
  BY <1>1, <1>3 DEF RejectSession, Logout, TypeInv, TypeOK
<1>4. ASSUME NEW r \in SessionIds, SessionAges(r) PROVE Goal
  <2>1. PICK life \in {"idle", "over"} : sessions' = [sessions EXCEPT ![r].life = life]
    BY <1>4 DEF SessionAges
  <2> QED BY <1>1, <2>1 DEF TypeInv, TypeOK, SessionRow
<1>5. CASE CleanupSessions
  BY <1>1, <1>5 DEF CleanupSessions
<1>6. ASSUME \/ \E h \in Handlers, a \in Accounts : Login(h, a)
             \/ \E h \in Handlers, t \in Attempts : Poll(h, t)
             \/ \E h \in Handlers : \/ ExpireOthers(h) \/ ExpireOthersFails(h)
                                   \/ InsertAttempt(h) \/ SendConfirmation(h)
                                   \/ ExpireOne(h) \/ StatementFails(h)
             \/ \E u \in Users, t \in Attempts, verdict \in {"approved", "denied"} :
                  Press(u, t, verdict)
             \/ \E u \in Users, a \in Accounts : LinkUser(u, a)
             \/ \E t \in Attempts : AttemptAges(t)
             \/ \E a \in Accounts : ToggleAccount(a)
             \/ CleanupAttempts \/ Restart \/ UNCHANGED vars
      PROVE  UNCHANGED sessions
  BY <1>6 DEF Login, Poll, ExpireOthers, ExpireOthersFails, InsertAttempt, SendConfirmation,
              ExpireOne, StatementFails, Press, LinkUser, AttemptAges, ToggleAccount,
              CleanupAttempts, Restart, vars
<1> QED BY <1>1, <1>2, <1>3, <1>4, <1>5, <1>6 DEF Next, Statement

(***************************************************************************)
(* What the ledger sees of attempts and sessions.                          *)
(***************************************************************************)
LEMMA AttemptsUnseen ==
  ASSUME \A t \in Attempts : /\ attempts'[t].account = attempts[t].account
                             /\ attempts'[t].said = attempts[t].said
  PROVE  UNCHANGED <<ownerBar, answerBar>>
  BY DEF ownerBar, answerBar

LEMMA SessionsUnseen ==
  ASSUME \A s \in SessionIds : /\ sessions'[s].account = sessions[s].account
                               /\ sessions'[s].via = sessions[s].via
  PROVE  UNCHANGED grantedBar
  BY DEF grantedBar

LEMMA BothUnseen ==
  ASSUME UNCHANGED <<attempts, sessions>>
  PROVE  UNCHANGED Ledger!ledgerVars
  BY AttemptsUnseen, SessionsUnseen DEF Ledger!ledgerVars

LEMMA InsertIsAsk ==
  ASSUME LedgerInv, NEW h \in Handlers, InsertAttempt(h)
  PROVE  Ledger!Next
<1> DEFINE a == handler[h].account
<1>1. a \in Accounts
  BY DEF InsertAttempt, At, LedgerInv, LoginInv, TypeInv, HandlerFits
<1>2. PICK t \in Attempts :
        /\ attempts[t].status = "none"
        /\ attempts' = [attempts EXCEPT ![t] =
             [NoRow EXCEPT !.status = "pending", !.account = a]]
  BY DEF InsertAttempt
<1>3. attempts[t].account = NoOne /\ attempts[t].said = "none"
  BY <1>2 DEF LedgerInv, LoginInv, RowsFit, EmptyFits
<1>4. /\ attempts'[t].account = a /\ attempts'[t].said = "none"
      /\ \A r \in Attempts \ {t} : attempts'[r] = attempts[r]
  BY <1>2 DEF NoRow, LedgerInv, LoginInv, TypeInv, TypeOK
<1>5. ownerBar' = [ownerBar EXCEPT ![t] = a] /\ answerBar' = answerBar
  BY <1>3, <1>4 DEF ownerBar, answerBar
<1>6. UNCHANGED grantedBar
  BY SessionsUnseen DEF InsertAttempt
<1>7. ownerBar[t] = NoOne
  BY <1>3 DEF ownerBar
<1>8. Ledger!Ask(t, a)
  BY <1>5, <1>6, <1>7 DEF Ledger!Ask
<1> QED BY <1>1, <1>8 DEF Ledger!Next

LEMMA PressIsAnswer ==
  ASSUME LedgerInv, NEW u \in Users, NEW t \in Attempts, NEW verdict \in {"approved", "denied"},
         Press(u, t, verdict)
  PROVE  Ledger!Next
<1>1. attempts[t].account \in Accounts /\ attempts[t].said = "none"
  BY DEF Press, LedgerInv, LoginInv, RowsFit, PendingFits
<1>2. /\ attempts'[t].account = attempts[t].account /\ attempts'[t].said = verdict
      /\ \A r \in Attempts \ {t} : attempts'[r] = attempts[r]
  BY DEF Press, LedgerInv, LoginInv, TypeInv, TypeOK, AttemptRow
<1>3. ownerBar' = ownerBar /\ answerBar' = [answerBar EXCEPT ![t] = verdict]
  BY <1>2 DEF ownerBar, answerBar
<1>4. UNCHANGED grantedBar
  BY SessionsUnseen DEF Press
<1>5. ownerBar[t] # NoOne /\ answerBar[t] = "none"
  BY <1>1, NoOneAssumption DEF ownerBar, answerBar
<1>6. Ledger!Answer(t, verdict)
  BY <1>3, <1>4, <1>5 DEF Ledger!Answer
<1> QED BY <1>6 DEF Ledger!Next

LEMMA AddIsGrant ==
  ASSUME LedgerInv, NEW a \in Accounts, NEW via \in Attempts \cup {NoAttempt}, NEW codeOnly,
         AddSession(a, via, codeOnly), UNCHANGED attempts,
         via # NoAttempt => attempts[via].said = "approved" /\ attempts[via].account = a
  PROVE  Ledger!Next
<1>1. PICK s \in SessionIds :
        /\ sessions[s].life = "none"
        /\ sessions' = [sessions EXCEPT ![s] =
             [life |-> "live", account |-> a, via |-> via, codeOnly |-> codeOnly]]
  BY DEF AddSession
<1>2. grantedBar[s] = Ledger!NoGrant
  BY <1>1 DEF LedgerInv, SlotsBlank, NoSession, grantedBar, Ledger!NoGrant
<1>3. grantedBar' = [grantedBar EXCEPT ![s] = [account |-> a, via |-> via]]
  BY <1>1 DEF grantedBar, LedgerInv, LoginInv, TypeInv, TypeOK
<1>4. via # NoAttempt => answerBar[via] = "approved" /\ ownerBar[via] = a
  BY DEF answerBar, ownerBar
<1>5. UNCHANGED <<ownerBar, answerBar>>
  BY AttemptsUnseen
<1>6. Ledger!Grant(s, a, via)
  BY <1>2, <1>3, <1>4, <1>5 DEF Ledger!Grant
<1> QED BY <1>6 DEF Ledger!Next

LEMMA RemovalIsEnd ==
  ASSUME NEW ended \in SUBSET SessionIds,
         sessions' = [s \in SessionIds |-> IF s \in ended THEN NoSession ELSE sessions[s]],
         \A t \in Attempts : /\ attempts'[t].account = attempts[t].account
                             /\ attempts'[t].said = attempts[t].said
  PROVE  Ledger!Next
<1>1. grantedBar' = [s \in SessionIds |-> IF s \in ended THEN Ledger!NoGrant ELSE grantedBar[s]]
  BY DEF grantedBar, NoSession, Ledger!NoGrant
<1>2. Ledger!End(ended)
  BY <1>1, AttemptsUnseen DEF Ledger!End
<1> QED BY <1>2 DEF Ledger!Next

LEMMA StepLedger ==
  ASSUME LedgerInv, [Next]_vars
  PROVE  [Ledger!Next]_(Ledger!ledgerVars)
<1> USE DEF LedgerInv, LoginInv, TypeInv
<1>1. ASSUME NEW h \in Handlers, Statement(h) PROVE [Ledger!Next]_(Ledger!ledgerVars)
  <2>1. CASE DirectSession(h)
    <3>1. handler[h].account \in Accounts
      BY <2>1 DEF DirectSession, At, HandlerFits
    <3> QED BY <2>1, <3>1, AddIsGrant DEF DirectSession
  <2>2. CASE SessionOfAttempt(h)
    <3> DEFINE a == handler[h].account
               t == handler[h].attempt
    <3>1. t \in Attempts /\ attempts[t].account = a /\ attempts[t].said = "approved"
      BY <2>2 DEF SessionOfAttempt, At, CreatesConfirmed, Confirmed
    <3>2. a \in Accounts
      BY <3>1 DEF RowsFit, PendingFits
    <3> QED BY <2>2, <3>1, <3>2, AddIsGrant DEF SessionOfAttempt
  <2>3. CASE InsertAttempt(h)
    BY <2>3, InsertIsAsk
  <2>4. CASE ExpireOthers(h) \/ ExpireOne(h) \/ SendConfirmation(h)
    <3>1. ASSUME NEW t \in Attempts PROVE /\ attempts'[t].account = attempts[t].account
                                          /\ attempts'[t].said = attempts[t].said
      BY <2>4 DEF ExpireOthers, ExpireOne, SendConfirmation, TypeOK, AttemptRow
    <3> QED BY <2>4, <3>1, AttemptsUnseen, SessionsUnseen
            DEF ExpireOthers, ExpireOne, SendConfirmation, Ledger!ledgerVars
  <2>5. CASE ExpireOthersFails(h) \/ StatementFails(h)
    <3>1. UNCHANGED <<attempts, sessions>>
      BY <2>5 DEF ExpireOthersFails, StatementFails
    <3> QED BY <3>1, BothUnseen
  <2> QED BY <1>1, <2>1, <2>2, <2>3, <2>4, <2>5 DEF Statement
<1>2. ASSUME NEW u \in Users, NEW t \in Attempts, NEW verdict \in {"approved", "denied"},
             Press(u, t, verdict)
      PROVE  Ledger!Next
  BY <1>2, PressIsAnswer
<1>3. ASSUME NEW s \in SessionIds, RejectSession(s) \/ Logout(s) PROVE Ledger!Next
  <2>1. sessions' = [r \in SessionIds |-> IF r \in {s} THEN NoSession ELSE sessions[r]]
    BY <1>3 DEF RejectSession, Logout, TypeOK
  <2> QED BY <1>3, <2>1, RemovalIsEnd DEF RejectSession, Logout
<1>4. CASE CleanupSessions
  <2> DEFINE ended == {s \in SessionIds : sessions[s].life = "over"}
  <2>1. sessions' = [s \in SessionIds |-> IF s \in ended THEN NoSession ELSE sessions[s]]
    BY <1>4 DEF CleanupSessions
  <2>2. ASSUME NEW t \in Attempts PROVE /\ attempts'[t].account = attempts[t].account
                                        /\ attempts'[t].said = attempts[t].said
    BY <1>4 DEF CleanupSessions
  <2> QED BY <2>1, <2>2, RemovalIsEnd
<1>5. ASSUME NEW s \in SessionIds, SessionAges(s) PROVE UNCHANGED Ledger!ledgerVars
  <2>1. PICK life \in {"idle", "over"} : sessions' = [sessions EXCEPT ![s].life = life]
    BY <1>5 DEF SessionAges
  <2>2. ASSUME NEW r \in SessionIds PROVE /\ sessions'[r].account = sessions[r].account
                                          /\ sessions'[r].via = sessions[r].via
    BY <2>1 DEF TypeOK, SessionRow
  <2> QED BY <1>5, <2>2, AttemptsUnseen, SessionsUnseen DEF SessionAges, Ledger!ledgerVars
<1>6. ASSUME (\E t \in Attempts : AttemptAges(t)) \/ CleanupAttempts
      PROVE  UNCHANGED Ledger!ledgerVars
  <2>1. ASSUME NEW r \in Attempts PROVE /\ attempts'[r].account = attempts[r].account
                                        /\ attempts'[r].said = attempts[r].said
    BY <1>6 DEF AttemptAges, CleanupAttempts, TypeOK, AttemptRow
  <2> QED BY <1>6, <2>1, AttemptsUnseen, SessionsUnseen
          DEF AttemptAges, CleanupAttempts, Ledger!ledgerVars
<1>7. ASSUME \/ \E h \in Handlers, a \in Accounts : Login(h, a)
             \/ \E h \in Handlers, t \in Attempts : Poll(h, t)
             \/ \E u \in Users, a \in Accounts : LinkUser(u, a)
             \/ \E a \in Accounts : ToggleAccount(a)
             \/ Restart \/ UNCHANGED vars
      PROVE  UNCHANGED Ledger!ledgerVars
  <2>1. UNCHANGED <<attempts, sessions>>
    BY <1>7 DEF Login, Poll, LinkUser, ToggleAccount, Restart, vars
  <2> QED BY <2>1, BothUnseen
<1> QED BY <1>1, <1>2, <1>3, <1>4, <1>5, <1>6, <1>7 DEF Next

(***************************************************************************)
(* The login implements the ledger of sign-ins: an attempt is answered     *)
(* once, and a session comes from a code alone or from an attempt whose    *)
(* answer was yes, for the account it was made for (handler.go,            *)
(* AttemptStatus; callbacks.go, callback2FA).                              *)
(***************************************************************************)
THEOREM LoginImplementsLedger == Spec => LedgerSpec
<1>1. Init => LedgerInv
  BY LoginInit DEF Init, LedgerInv, SlotsBlank
<1>2. Init => Ledger!Init
  BY DEF Init, NoRow, NoSession, ownerBar, answerBar, grantedBar, Ledger!Init, Ledger!NoGrant
<1>3. LedgerInv /\ [Next]_vars => LedgerInv'
  BY LoginStep, SlotsStep DEF LedgerInv, LoginInv
<1>4. LedgerInv /\ [Next]_vars => [Ledger!Next]_(Ledger!ledgerVars)
  BY StepLedger
<1> QED BY <1>1, <1>2, <1>3, <1>4, PTL DEF Spec, LedgerSpec, Ledger!Spec

-----------------------------------------------------------------------------
(***************************************************************************)
(* Pending attempts of an account.  ExpireOthers leaves none, and after it *)
(* a handler that is about to insert one counts like one; where it fails   *)
(* they stay, and the failure counts for the one that is added.            *)
(***************************************************************************)
ActiveInv == \A a \in Accounts :
  /\ IsFiniteSet(ActiveOf(a))
  /\ Cardinality(ActiveOf(a)) + Cardinality(Starting(a)) <= crowd + missed

(***************************************************************************)
(* What a step does to the attempts and the handlers of one account.       *)
(***************************************************************************)
NoMore(a) == /\ ActiveOf(a)' \subseteq ActiveOf(a) /\ Starting(a)' \subseteq Starting(a)
             /\ missed' = missed /\ crowd <= crowd'

PutOut(a) == ActiveOf(a)' = {} /\ Cardinality(Starting(a)') <= crowd' /\ missed' = missed

OneStarted(a) == /\ \E h \in Starting(a), t \in Attempts :
                      ActiveOf(a)' = ActiveOf(a) \cup {t} /\ Starting(a)' = Starting(a) \ {h}
                 /\ UNCHANGED counts

NotPutOut(a) == /\ ActiveOf(a)' \subseteq ActiveOf(a)
                /\ \E h \in Handlers : Starting(a)' \subseteq Starting(a) \cup {h}
                /\ missed' = missed + 1 /\ crowd' = crowd

LEMMA SweepMoves ==
  ASSUME LoginInv, NEW h \in Handlers, NEW a \in Accounts,
         Goto(h, [handler[h] EXCEPT !.at = "insert"])
  PROVE  /\ Starting(a)' \subseteq Starting(a) \cup {h}
         /\ handler[h].account # a => Starting(a)' \subseteq Starting(a)
<1>1. \A k \in Handlers \ {h} : handler'[k] = handler[k]
  BY DEF Goto, LoginInv, TypeInv, TypeOK
<1>2. handler'[h].account = handler[h].account
  BY DEF Goto, LoginInv, TypeInv, TypeOK, HandlerState
<1> QED BY <1>1, <1>2 DEF Starting, At

LEMMA AccountMoves ==
  ASSUME LoginInv, [Next]_vars, NEW a \in Accounts
  PROVE  NoMore(a) \/ PutOut(a) \/ OneStarted(a) \/ NotPutOut(a)
<1> USE DEF LoginInv, TypeInv, TypeOK
<1>0. crowd \in Int /\ (UNCHANGED counts => missed' = missed /\ crowd <= crowd')
  BY DEF counts
<1>1. ASSUME NEW h \in Handlers, ExpireOthers(h) PROVE PutOut(a) \/ NoMore(a)
  <2>1. /\ Starting(a)' \subseteq Starting(a) \cup {h}
        /\ handler[h].account # a => Starting(a)' \subseteq Starting(a)
    BY <1>1, SweepMoves DEF ExpireOthers
  <2>2. missed' = missed /\ crowd <= crowd'
        /\ Cardinality(Starting(handler[h].account) \cup {h}) <= crowd'
        /\ crowd' \in 0..Cardinality(Handlers)
    BY <1>1, CrowdType DEF ExpireOthers
  <2>3. CASE handler[h].account = a
    <3>1. ActiveOf(a)' = {}
      BY <1>1, <2>3 DEF ExpireOthers, ActiveOf, AttemptRow
    <3>2. Cardinality(Starting(a)') <= crowd'
      <4> DEFINE S == Starting(a)'
                 T == Starting(a) \cup {h}
                 c == crowd'
      <4>1. IsFiniteSet(T) /\ Cardinality(T) \in Nat
        BY StartingFinite, FS_AddElement, FS_CardinalityType
      <4>2. S \subseteq T /\ Cardinality(T) <= c /\ c \in Int
        BY <2>1, <2>2, <2>3
      <4> HIDE DEF S, T, c
      <4>3. Cardinality(S) \in Nat /\ Cardinality(S) <= Cardinality(T)
        BY <4>1, <4>2, FS_Subset, FS_CardinalityType
      <4>4. Cardinality(S) <= c
        BY <4>1, <4>2, <4>3
      <4> QED BY <4>4 DEF S, c
    <3> QED BY <2>2, <3>1, <3>2 DEF PutOut
  <2>4. CASE handler[h].account # a
    <3>1. ActiveOf(a)' \subseteq ActiveOf(a)
      BY <1>1 DEF ExpireOthers, ActiveOf, AttemptRow
    <3> QED BY <2>1, <2>2, <2>4, <3>1 DEF NoMore
  <2> QED BY <2>3, <2>4
<1>10. ASSUME NEW h \in Handlers, ExpireOthersFails(h) PROVE NotPutOut(a)
  <2>1. Starting(a)' \subseteq Starting(a) \cup {h}
    BY <1>10, SweepMoves DEF ExpireOthersFails
  <2>2. ActiveOf(a)' \subseteq ActiveOf(a)
    BY <1>10 DEF ExpireOthersFails, ActiveOf
  <2> QED BY <1>10, <2>1, <2>2 DEF ExpireOthersFails, NotPutOut
<1>2. ASSUME NEW h \in Handlers, InsertAttempt(h) PROVE OneStarted(a) \/ NoMore(a)
  <2>1. PICK t \in Attempts :
          /\ attempts[t].status = "none"
          /\ attempts' = [attempts EXCEPT ![t] =
               [NoRow EXCEPT !.status = "pending", !.account = handler[h].account]]
          /\ Goto(h, [handler[h] EXCEPT !.at = "send", !.attempt = t])
    BY <1>2 DEF InsertAttempt
  <2>2. /\ attempts'[t].status = "pending" /\ attempts'[t].account = handler[h].account
        /\ \A r \in Attempts \ {t} : attempts'[r] = attempts[r]
    BY <2>1 DEF NoRow
  <2>3. handler'[h].at = "send" /\ \A k \in Handlers \ {h} : handler'[k] = handler[k]
    BY <2>1 DEF Goto, HandlerState
  <2>4. Starting(a)' = Starting(a) \ {h}
    BY <2>3 DEF Starting, At
  <2>7. UNCHANGED counts
    BY <1>2 DEF InsertAttempt
  <2>5. CASE handler[h].account = a
    <3>1. ActiveOf(a)' = ActiveOf(a) \cup {t}
      BY <2>2, <2>5 DEF ActiveOf
    <3>2. h \in Starting(a)
      BY <1>2, <2>5 DEF InsertAttempt, At, Starting
    <3> QED BY <2>4, <2>7, <3>1, <3>2 DEF OneStarted
  <2>6. CASE handler[h].account # a
    <3>1. ActiveOf(a)' \subseteq ActiveOf(a)
      BY <2>2, <2>6 DEF ActiveOf
    <3> QED BY <1>0, <2>4, <2>7, <3>1 DEF NoMore
  <2> QED BY <2>5, <2>6
<1>3. ASSUME \A t \in Attempts : attempts'[t].status = "pending" =>
               attempts[t].status = "pending" /\ attempts'[t].account = attempts[t].account
      PROVE  ActiveOf(a)' \subseteq ActiveOf(a)
  BY <1>3 DEF ActiveOf
<1>4. ASSUME NEW h \in Handlers, NEW x, Goto(h, x), x.at # "insert"
      PROVE  Starting(a)' \subseteq Starting(a)
  BY <1>4 DEF Goto, Starting, At
<1>5. ASSUME NEW h \in Handlers, \/ DirectSession(h) \/ SendConfirmation(h) \/ ExpireOne(h)
                                  \/ SessionOfAttempt(h) \/ StatementFails(h)
      PROVE  NoMore(a)
  <2>1. Starting(a)' \subseteq Starting(a) /\ missed' = missed /\ crowd <= crowd'
    <3>1. Starting(a)' \subseteq Starting(a)
      BY <1>4, <1>5 DEF DirectSession, SendConfirmation, ExpireOne, SessionOfAttempt,
                       StatementFails, Return, IdleHandler
    <3>2. UNCHANGED counts
      BY <1>5 DEF DirectSession, SendConfirmation, ExpireOne, SessionOfAttempt, StatementFails
    <3> QED BY <1>0, <3>1, <3>2
  <2>2. CASE UNCHANGED attempts
    BY <1>3, <2>1, <2>2 DEF NoMore
  <2>3. ASSUME NEW t, NEW chat, attempts' = [attempts EXCEPT ![t].sentTo = chat]
        PROVE  NoMore(a)
    BY <1>3, <2>1, <2>3 DEF NoMore, AttemptRow
  <2>4. ASSUME NEW t, attempts' = [attempts EXCEPT ![t].status = "expired"]
        PROVE  NoMore(a)
    BY <1>3, <2>1, <2>4 DEF NoMore, AttemptRow
  <2> QED BY <1>5, <2>2, <2>3, <2>4
          DEF DirectSession, SendConfirmation, ExpireOne, SessionOfAttempt, StatementFails
<1>6. ASSUME \/ \E h \in Handlers, b \in Accounts : Login(h, b)
             \/ \E h \in Handlers, t \in Attempts : Poll(h, t)
      PROVE  NoMore(a)
  <2>1. Starting(a)' \subseteq Starting(a)
    BY <1>4, <1>6 DEF Login, Poll, IdleHandler
  <2>2. UNCHANGED <<counts, attempts>>
    BY <1>6 DEF Login, Poll
  <2> QED BY <1>0, <1>3, <2>1, <2>2 DEF NoMore
<1>7. ASSUME \/ \E u \in Users, t \in Attempts, verdict \in {"approved", "denied"} :
                  Press(u, t, verdict)
             \/ \E t \in Attempts : AttemptAges(t)
             \/ CleanupAttempts
      PROVE  NoMore(a)
  <2>1. UNCHANGED <<counts, handler>>
    BY <1>7 DEF Press, AttemptAges, CleanupAttempts
  <2>2. ActiveOf(a)' \subseteq ActiveOf(a)
    <3>1. ASSUME NEW t \in Attempts, NEW u, NEW verdict \in {"approved", "denied"},
                 Press(u, t, verdict)
          PROVE  ActiveOf(a)' \subseteq ActiveOf(a)
      BY <1>3, <3>1 DEF Press, AttemptRow
    <3>2. ASSUME NEW t \in Attempts, AttemptAges(t) PROVE ActiveOf(a)' \subseteq ActiveOf(a)
      BY <1>3, <3>2 DEF AttemptAges, AttemptRow
    <3>3. CASE CleanupAttempts
      BY <1>3, <3>3 DEF CleanupAttempts, AttemptRow
    <3> QED BY <1>7, <3>1, <3>2, <3>3
  <2> QED BY <1>0, <2>1, <2>2 DEF NoMore, Starting, At
<1>8. ASSUME \/ \E u \in Users, b \in Accounts : LinkUser(u, b)
             \/ \E s \in SessionIds : RejectSession(s) \/ Logout(s) \/ SessionAges(s)
             \/ \E b \in Accounts : ToggleAccount(b)
             \/ CleanupSessions \/ UNCHANGED vars
      PROVE  NoMore(a)
  <2>1. UNCHANGED <<counts, attempts, handler>>
    BY <1>8 DEF LinkUser, RejectSession, Logout, SessionAges, ToggleAccount, CleanupSessions,
                counts, vars
  <2> QED BY <1>0, <2>1 DEF NoMore, ActiveOf, Starting, At
<1>9. CASE Restart
  BY <1>0, <1>9 DEF Restart, IdleHandler, NoMore, ActiveOf, Starting, At
<1> QED BY <1>1, <1>10, <1>2, <1>5, <1>6, <1>7, <1>8, <1>9 DEF Next, Statement

LEMMA ActiveStep ==
  ASSUME LoginInv, ActiveInv, [Next]_vars
  PROVE  ActiveInv'
<1> SUFFICES ASSUME NEW a \in Accounts
             PROVE  /\ IsFiniteSet(ActiveOf(a)')
                    /\ Cardinality(ActiveOf(a)') + Cardinality(Starting(a)') <= crowd' + missed'
  BY DEF ActiveInv
<1> DEFINE A == ActiveOf(a)
           S == Starting(a)
           A1 == ActiveOf(a)'
           S1 == Starting(a)'
           c == crowd'
           m == missed'
<1>1. /\ IsFiniteSet(A) /\ Cardinality(A) \in Nat
      /\ Cardinality(A) + Cardinality(S) <= crowd + missed
  BY FS_CardinalityType DEF ActiveInv
<1>2. IsFiniteSet(S) /\ Cardinality(S) \in Nat
  BY HandlersAssumption, FS_Subset, FS_CardinalityType DEF Starting
<1>3. crowd \in Int /\ missed \in Int /\ c \in Int /\ m \in Int
  BY NextTypes DEF LoginInv, TypeInv, TypeOK
<1>4. IsFiniteSet(S1) /\ Cardinality(S1) \in Nat
  <2>1. S1 \in SUBSET Handlers
    BY DEF Starting
  <2> HIDE DEF S1
  <2> QED BY <2>1, HandlersAssumption, FS_Subset, FS_CardinalityType
<1>5. \/ A1 \subseteq A /\ S1 \subseteq S /\ m = missed /\ crowd <= c
      \/ A1 = {} /\ Cardinality(S1) <= c /\ m = missed
      \/ /\ \E h \in S, t \in Attempts : A1 = A \cup {t} /\ S1 = S \ {h}
         /\ m = missed /\ c = crowd
      \/ /\ A1 \subseteq A /\ \E h \in Handlers : S1 \subseteq S \cup {h}
         /\ m = missed + 1 /\ c = crowd
  BY AccountMoves DEF NoMore, PutOut, OneStarted, NotPutOut, counts
<1>6. missed >= 0
  BY DEF LoginInv, TypeInv, TypeOK
<1> HIDE DEF A, S, A1, S1, c, m
<1>7. ASSUME A1 \subseteq A
      PROVE  IsFiniteSet(A1) /\ Cardinality(A1) \in Nat /\ Cardinality(A1) <= Cardinality(A)
  BY <1>1, <1>7, FS_Subset, FS_CardinalityType
<1>8. CASE A1 \subseteq A /\ S1 \subseteq S /\ m = missed /\ crowd <= c
  <2>1. Cardinality(S1) <= Cardinality(S)
    BY <1>2, <1>8, FS_Subset
  <2>2. Cardinality(A1) + Cardinality(S1) <= c + m
    BY <1>1, <1>2, <1>3, <1>4, <1>7, <1>8, <2>1
  <2> QED BY <1>7, <1>8, <2>2 DEF A1, S1, c, m
<1>9. CASE A1 = {} /\ Cardinality(S1) <= c /\ m = missed
  <2>1. IsFiniteSet(A1) /\ Cardinality(A1) = 0
    BY <1>9, FS_EmptySet
  <2>2. Cardinality(A1) + Cardinality(S1) <= c + m
    BY <1>3, <1>4, <1>6, <1>9, <2>1
  <2> QED BY <2>1, <2>2 DEF A1, S1, c, m
<1>10. CASE /\ \E h \in S, t \in Attempts : A1 = A \cup {t} /\ S1 = S \ {h}
            /\ m = missed /\ c = crowd
  <2>1. PICK h \in S, t \in Attempts : A1 = A \cup {t} /\ S1 = S \ {h}
    BY <1>10
  <2>2. IsFiniteSet(A1) /\ Cardinality(A1) \in Nat /\ Cardinality(A1) <= Cardinality(A) + 1
    <3>1. /\ IsFiniteSet(A \cup {t})
          /\ Cardinality(A \cup {t}) = IF t \in A THEN Cardinality(A) ELSE Cardinality(A) + 1
      BY <1>1, FS_AddElement
    <3>2. Cardinality(A \cup {t}) \in Nat /\ Cardinality(A \cup {t}) <= Cardinality(A) + 1
      BY <1>1, <3>1
    <3> QED BY <2>1, <3>1, <3>2
  <2>3. Cardinality(S1) = Cardinality(S) - 1
    BY <1>2, <2>1, FS_RemoveElement
  <2>4. Cardinality(A1) + Cardinality(S1) <= c + m
    BY <1>1, <1>2, <1>3, <1>10, <2>2, <2>3
  <2> QED BY <2>2, <2>4 DEF A1, S1, c, m
<1>11. CASE /\ A1 \subseteq A /\ \E h \in Handlers : S1 \subseteq S \cup {h}
            /\ m = missed + 1 /\ c = crowd
  <2>1. PICK h \in Handlers : S1 \subseteq S \cup {h}
    BY <1>11
  <2>2. /\ IsFiniteSet(S \cup {h})
        /\ Cardinality(S \cup {h}) = IF h \in S THEN Cardinality(S) ELSE Cardinality(S) + 1
    BY <1>2, FS_AddElement
  <2>3. Cardinality(S1) <= Cardinality(S \cup {h})
    BY <2>1, <2>2, FS_Subset
  <2>4. Cardinality(S1) <= Cardinality(S) + 1
    BY <1>2, <1>4, <2>2, <2>3
  <2>5. Cardinality(A1) + Cardinality(S1) <= c + m
    BY <1>1, <1>2, <1>3, <1>4, <1>7, <1>11, <2>4
  <2> QED BY <1>7, <1>11, <2>5 DEF A1, S1, c, m
<1> QED BY <1>5, <1>8, <1>9, <1>10, <1>11

LEMMA ActiveInit == Init => ActiveInv
<1> SUFFICES ASSUME Init, NEW a \in Accounts
             PROVE  /\ IsFiniteSet(ActiveOf(a))
                    /\ Cardinality(ActiveOf(a)) + Cardinality(Starting(a)) <= crowd + missed
  BY DEF ActiveInv
<1>1. ActiveOf(a) = {} /\ Starting(a) = {} /\ crowd = 0 /\ missed = 0
  BY DEF Init, NoRow, IdleHandler, ActiveOf, Starting, At
<1> QED BY <1>1, FS_EmptySet

LEMMA ActiveFollows ==
  ASSUME LoginInv, ActiveInv
  PROVE  ActiveBounded
<1> SUFFICES ASSUME NEW a \in Accounts
             PROVE  Cardinality(ActiveOf(a)) <= crowd + missed
  BY DEF ActiveBounded
<1>1. Cardinality(ActiveOf(a)) \in Nat /\ Cardinality(Starting(a)) \in Nat
  <2>1. IsFiniteSet(Starting(a))
    BY HandlersAssumption, FS_Subset DEF Starting
  <2> QED BY <2>1, FS_CardinalityType DEF ActiveInv
<1>2. crowd \in Int /\ missed \in Int
  BY DEF LoginInv, TypeInv, TypeOK
<1> QED BY <1>1, <1>2 DEF ActiveInv

(***************************************************************************)
(* An account has no more pending attempts than logins of one account have *)
(* stood together between putting the older attempts out and inserting     *)
(* the new one, and one more for each time the first of these two          *)
(* statements failed (service.go, StartAttempt).                           *)
(***************************************************************************)
THEOREM ActiveAlwaysBounded == Spec => []ActiveBounded
<1>1. LoginInv /\ ActiveInv /\ [Next]_vars => (LoginInv /\ ActiveInv)'
  BY LoginStep, ActiveStep
<1>2. LoginInv /\ ActiveInv => ActiveBounded
  BY ActiveFollows
<1> QED BY LoginInit, ActiveInit, <1>1, <1>2, PTL DEF Spec

(***************************************************************************)
(* For any number of handlers the source's comment is true as long as no   *)
(* two logins have overlapped there and the first statement has not        *)
(* failed: an account has a single active attempt.                         *)
(***************************************************************************)
THEOREM SingleWithoutOverlap == Spec => [](crowd <= 1 /\ missed = 0 => SingleActiveAttempt)
<1>1. LoginInv /\ ActiveInv /\ [Next]_vars => (LoginInv /\ ActiveInv)'
  BY LoginStep, ActiveStep
<1>2. ASSUME LoginInv, ActiveInv, crowd <= 1, missed = 0 PROVE SingleActiveAttempt
  <2>1. \A a \in Accounts : Cardinality(ActiveOf(a)) \in Nat
    BY <1>2, FS_CardinalityType DEF ActiveInv
  <2>2. crowd \in Int /\ ActiveBounded
    BY <1>2, ActiveFollows DEF LoginInv, TypeInv, TypeOK
  <2> QED BY <1>2, <2>1, <2>2 DEF ActiveBounded, SingleActiveAttempt
<1>3. LoginInv /\ ActiveInv => (crowd <= 1 /\ missed = 0 => SingleActiveAttempt)
  BY <1>2
<1> QED BY LoginInit, ActiveInit, <1>1, <1>3, PTL DEF Spec
=============================================================================
