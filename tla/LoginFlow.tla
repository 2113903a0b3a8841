------------------------------ MODULE LoginFlow ------------------------------
(***************************************************************************)
(* Signing in: an access code starts a login attempt, the account's owner  *)
(* confirms it with a button in Telegram, the page polls the attempt and   *)
(* receives a session.  With two_factor_enabled off the code alone yields  *)
(* a session.  HTTP handlers run in goroutines of their own, one SQL       *)
(* statement per step, and a statement may fail; the Telegram poll loop    *)
(* handles one update at a time.  Time is what the code compares it with:  *)
(* an attempt is fresh or older than attemptTTL, a session is live, idle   *)
(* longer than idleTTL, or past expires_at.                                *)
(***************************************************************************)
EXTENDS Naturals, FiniteSets

CONSTANTS
  Accounts,    \* rows of v2_accounts
  NoOne,       \* the account of no attempt
  Users,       \* Telegram users who write to the bot
  NoUser,      \* tg_user_id = 0
  Attempts,    \* ids of login attempts (bounds their number)
  NoAttempt,   \* a session that was not created from an attempt
  SessionIds,  \* session tokens (bounds the sessions alive at once)
  Handlers,    \* goroutines serving login and poll requests
  MaxMissed    \* bounds how often putting out the older attempts fails

ASSUME NoOneAssumption == NoOne \notin Accounts
ASSUME NoUserAssumption == NoUser \notin Users
ASSUME NoAttemptAssumption == NoAttempt \notin Attempts
ASSUME HandlersAssumption == IsFiniteSet(Handlers)
ASSUME MissedAssumption == MaxMissed \in Nat

VARIABLES
  missed,      \* history: how often ExpireOthers has failed
  crowd,       \* history: most handlers that were about to insert at once
  active,      \* is_active of each account
  tg,          \* tg_user_id of each account
  writer,      \* per account, the user v2_tg_users knows by its @username
  attempts,    \* v2_login_attempts
  sessions,    \* v2_sessions
  handler      \* where each handler is, and its locals

vars == <<missed, crowd, active, tg, writer, attempts, sessions, handler>>

counts == <<missed, crowd>>

identity == <<active, tg, writer>>

(***************************************************************************)
(* sentTo is the chat the confirmation went to; by and said are history    *)
(* fields, the user whose button decided the attempt and the decision,     *)
(* which outlives the status when that becomes expired.                    *)
(***************************************************************************)
AttemptRow == [status : {"none", "pending", "approved", "denied", "expired"},
               account : Accounts \cup {NoOne}, stale : BOOLEAN,
               sentTo : Users \cup {NoUser}, by : Users \cup {NoUser},
               said : {"none", "approved", "denied"}]

NoRow == [status |-> "none", account |-> NoOne, stale |-> FALSE,
          sentTo |-> NoUser, by |-> NoUser, said |-> "none"]

(***************************************************************************)
(* via and codeOnly are history fields: the attempt a session was created  *)
(* from, and whether it was created by a code alone.                       *)
(***************************************************************************)
SessionRow == [life : {"none", "live", "idle", "over"},
               account : Accounts \cup {NoOne}, via : Attempts \cup {NoAttempt},
               codeOnly : BOOLEAN]

NoSession == [life |-> "none", account |-> NoOne, via |-> NoAttempt, codeOnly |-> FALSE]

HandlerState == [at : {"idle", "direct", "expire", "insert", "send", "expireOne", "create"},
                 account : Accounts \cup {NoOne}, attempt : Attempts \cup {NoAttempt}]

IdleHandler == [at |-> "idle", account |-> NoOne, attempt |-> NoAttempt]

Init ==
  /\ missed = 0 /\ crowd = 0
  /\ active = [a \in Accounts |-> TRUE]
  /\ tg = [a \in Accounts |-> NoUser]
  /\ writer \in [Accounts -> Users \cup {NoUser}]
  /\ attempts = [t \in Attempts |-> NoRow]
  /\ sessions = [s \in SessionIds |-> NoSession]
  /\ handler = [h \in Handlers |-> IdleHandler]

At(h, place) == handler[h].at = place

Goto(h, state) == handler' = [handler EXCEPT ![h] = state]

Return(h) == Goto(h, IdleHandler)

(***************************************************************************)
(* ResolveTGChatID: the linked id, else the user who wrote to the bot      *)
(* under the account's @username.                                          *)
(***************************************************************************)
ChatOf(a) == IF tg[a] # NoUser THEN tg[a] ELSE writer[a]

-----------------------------------------------------------------------------
(***************************************************************************)
(* Handler.Login after the captcha, the limits and the geolocation: a      *)
(* known code of an active account.  two_factor_enabled may be read either *)
(* way: an administrator switches it at any time, and where the read fails *)
(* TWO_FACTOR_ENABLED of the environment decides.                          *)
(***************************************************************************)
Login(h, a) ==
  /\ At(h, "idle") /\ active[a]
  /\ \/ Goto(h, [IdleHandler EXCEPT !.at = "direct", !.account = a])
     \/ /\ ChatOf(a) # NoUser
        /\ Goto(h, [IdleHandler EXCEPT !.at = "expire", !.account = a])
  /\ UNCHANGED <<counts, identity, attempts, sessions>>

MutAddSession(a, via, codeOnly) ==
  \E s \in SessionIds :
    /\ sessions[s].life = "none"
    /\ sessions' = [sessions EXCEPT ![s] =
         [life |-> "live", account |-> via, via |-> a, codeOnly |-> codeOnly]]

AddSession(a, via, codeOnly) ==
  \E s \in SessionIds :
    /\ sessions[s].life = "none"
    /\ sessions' = [sessions EXCEPT ![s] =
         [life |-> "live", account |-> a, via |-> via, codeOnly |-> codeOnly]]

DirectSession(h) ==
  /\ At(h, "direct")
  /\ AddSession(handler[h].account, NoAttempt, TRUE)
  /\ Return(h)
  /\ UNCHANGED <<counts, identity, attempts>>

(***************************************************************************)
(* StartAttempt: expire the account's pending attempts, then insert one.   *)
(* The error of the first statement is dropped, and the insert follows.    *)
(***************************************************************************)
Starting(a) == {h \in Handlers : At(h, "insert") /\ handler[h].account = a}

CountCrowd(h) ==
  LET n == Cardinality(Starting(handler[h].account) \cup {h})
  IN  crowd' = IF n > crowd THEN n ELSE crowd

MutExpireOthers(h) ==
  /\ At(h, "expire")
  /\ attempts' = [t \in Attempts |->
       IF attempts[t].account = handler[h].account /\ attempts[t].status = "pending"
            /\ attempts[t].stale
         THEN [attempts[t] EXCEPT !.status = "expired"] ELSE attempts[t]]
  /\ Goto(h, [handler[h] EXCEPT !.at = "insert"])
  /\ CountCrowd(h)
  /\ UNCHANGED <<missed, identity, sessions>>

ExpireOthers(h) ==
  /\ At(h, "expire")
  /\ attempts' = [t \in Attempts |->
       IF attempts[t].account = handler[h].account /\ attempts[t].status = "pending"
         THEN [attempts[t] EXCEPT !.status = "expired"] ELSE attempts[t]]
  /\ Goto(h, [handler[h] EXCEPT !.at = "insert"])
  /\ CountCrowd(h)
  /\ UNCHANGED <<missed, identity, sessions>>

ExpireOthersFails(h) ==
  /\ At(h, "expire") /\ missed < MaxMissed
  /\ missed' = missed + 1
  /\ Goto(h, [handler[h] EXCEPT !.at = "insert"])
  /\ UNCHANGED <<crowd, identity, attempts, sessions>>

InsertAttempt(h) ==
  /\ At(h, "insert")
  /\ \E t \in Attempts :
       /\ attempts[t].status = "none"
       /\ attempts' = [attempts EXCEPT ![t] =
            [NoRow EXCEPT !.status = "pending", !.account = handler[h].account]]
       /\ Goto(h, [handler[h] EXCEPT !.at = "send", !.attempt = t])
  /\ UNCHANGED <<counts, identity, sessions>>

(***************************************************************************)
(* SendLoginConfirmation: delivered, or an error that leaves the attempt   *)
(* pending.                                                                *)
(***************************************************************************)
SendConfirmation(h) ==
  /\ At(h, "send")
  /\ \/ UNCHANGED attempts
     \/ attempts' = [attempts EXCEPT ![handler[h].attempt].sentTo = ChatOf(handler[h].account)]
  /\ Return(h)
  /\ UNCHANGED <<counts, identity, sessions>>

(***************************************************************************)
(* AttemptStatus.  A page polls once a second and its polls may overlap.   *)
(* The expiry of a stale attempt is written by id alone; every poll of an  *)
(* approved attempt creates a session.                                     *)
(***************************************************************************)
MutPoll(h, t) ==
  /\ At(h, "idle")
  /\ \/ /\ attempts[t].status \in {"pending", "denied"} /\ attempts[t].stale
        /\ Goto(h, [IdleHandler EXCEPT !.at = "expireOne", !.attempt = t])
     \/ /\ attempts[t].status \in {"approved", "pending"} /\ active[attempts[t].account]
        /\ Goto(h, [at |-> "create", account |-> attempts[t].account, attempt |-> t])
  /\ UNCHANGED <<counts, identity, attempts, sessions>>

MutPollExpired(h, t) ==
  /\ At(h, "idle")
  /\ \/ /\ attempts[t].status = "pending" /\ attempts[t].stale
        /\ Goto(h, [IdleHandler EXCEPT !.at = "expireOne", !.attempt = t])
     \/ /\ attempts[t].status \in {"approved", "expired"} /\ active[attempts[t].account]
        /\ Goto(h, [at |-> "create", account |-> attempts[t].account, attempt |-> t])
  /\ UNCHANGED <<counts, identity, attempts, sessions>>

Poll(h, t) ==
  /\ At(h, "idle")
  /\ \/ /\ attempts[t].status = "pending" /\ attempts[t].stale
        /\ Goto(h, [IdleHandler EXCEPT !.at = "expireOne", !.attempt = t])
     \/ /\ attempts[t].status = "approved" /\ active[attempts[t].account]
        /\ Goto(h, [at |-> "create", account |-> attempts[t].account, attempt |-> t])
  /\ UNCHANGED <<counts, identity, attempts, sessions>>

ExpireOne(h) ==
  /\ At(h, "expireOne")
  /\ attempts' = [attempts EXCEPT ![handler[h].attempt].status = "expired"]
  /\ Return(h)
  /\ UNCHANGED <<counts, identity, sessions>>

SessionOfAttempt(h) ==
  /\ At(h, "create")
  /\ AddSession(handler[h].account, handler[h].attempt, FALSE)
  /\ Return(h)
  /\ UNCHANGED <<counts, identity, attempts>>

(***************************************************************************)
(* Any other statement fails: the request ends with an error, or, where    *)
(* the error is dropped, with the answer it would have given.              *)
(***************************************************************************)
StatementFails(h) ==
  /\ handler[h].at \in {"direct", "insert", "expireOne", "create"}
  /\ Return(h)
  /\ UNCHANGED <<counts, identity, attempts, sessions>>

-----------------------------------------------------------------------------
(***************************************************************************)
(* A button of the confirmation message (callback2FA): the id of the user  *)
(* who pressed it must be the account's linked id at that moment, and the  *)
(* attempt must be pending; how old it is does not matter.                 *)
(***************************************************************************)
MutPress(u, t, verdict) ==
  /\ attempts[t].sentTo = u /\ u = tg[attempts[t].account]
  /\ attempts' = [attempts EXCEPT ![t] = [@ EXCEPT !.status = verdict, !.by = u, !.said = verdict]]
  /\ UNCHANGED <<counts, identity, sessions, handler>>

MutPressAnyone(u, t, verdict) ==
  /\ attempts[t].sentTo = u
  /\ attempts[t].status = "pending"
  /\ attempts' = [attempts EXCEPT ![t] = [@ EXCEPT !.status = verdict, !.by = u, !.said = verdict]]
  /\ UNCHANGED <<counts, identity, sessions, handler>>

Press(u, t, verdict) ==
  /\ attempts[t].sentTo = u /\ u = tg[attempts[t].account]
  /\ attempts[t].status = "pending"
  /\ attempts' = [attempts EXCEPT ![t] = [@ EXCEPT !.status = verdict, !.by = u, !.said = verdict]]
  /\ UNCHANGED <<counts, identity, sessions, handler>>

(***************************************************************************)
(* Any message to the bot links its sender to the account with the         *)
(* sender's @username; /start <code> does it for the account of the code.  *)
(* writer is not kept up to date: it is read only while tg is unset, and   *)
(* an account whose tg is set keeps one.                                   *)
(***************************************************************************)
LinkUser(u, a) ==
  /\ tg' = [tg EXCEPT ![a] = u]
  /\ UNCHANGED <<counts, active, writer, attempts, sessions, handler>>

(***************************************************************************)
(* The session middleware: a session past its lifetime or idle for too     *)
(* long is deleted when it is presented; otherwise last_seen is refreshed, *)
(* which in these terms changes nothing.                                   *)
(***************************************************************************)
RejectSession(s) ==
  /\ sessions[s].life \in {"idle", "over"}
  /\ sessions' = [sessions EXCEPT ![s] = NoSession]
  /\ UNCHANGED <<counts, identity, attempts, handler>>

Logout(s) ==
  /\ sessions[s].life # "none"
  /\ sessions' = [sessions EXCEPT ![s] = NoSession]
  /\ UNCHANGED <<counts, identity, attempts, handler>>

(***************************************************************************)
(* Cleanup, hourly: two statements, each of which may fail by itself.      *)
(***************************************************************************)
CleanupSessions ==
  /\ \E s \in SessionIds : sessions[s].life = "over"
  /\ sessions' = [s \in SessionIds |->
       IF sessions[s].life = "over" THEN NoSession ELSE sessions[s]]
  /\ UNCHANGED <<counts, identity, attempts, handler>>

CleanupAttempts ==
  /\ \E t \in Attempts : attempts[t].status = "pending" /\ attempts[t].stale
  /\ attempts' = [t \in Attempts |->
       IF attempts[t].status = "pending" /\ attempts[t].stale
         THEN [attempts[t] EXCEPT !.status = "expired"] ELSE attempts[t]]
  /\ UNCHANGED <<counts, identity, sessions, handler>>

ToggleAccount(a) ==
  /\ active' = [active EXCEPT ![a] = ~@]
  /\ UNCHANGED <<counts, tg, writer, attempts, sessions, handler>>

AttemptAges(t) ==
  /\ attempts[t].status = "pending" /\ ~attempts[t].stale
  /\ attempts' = [attempts EXCEPT ![t].stale = TRUE]
  /\ UNCHANGED <<counts, identity, sessions, handler>>

SessionAges(s) ==
  /\ \/ sessions[s].life = "live"
        /\ sessions' = [sessions EXCEPT ![s].life = "idle"]
     \/ sessions[s].life \in {"live", "idle"}
        /\ sessions' = [sessions EXCEPT ![s].life = "over"]
  /\ UNCHANGED <<counts, identity, attempts, handler>>

Restart ==
  /\ handler' = [h \in Handlers |-> IdleHandler]
  /\ UNCHANGED <<counts, identity, attempts, sessions>>

Statement(h) ==
  \/ DirectSession(h) \/ ExpireOthers(h) \/ ExpireOthersFails(h) \/ InsertAttempt(h)
  \/ SendConfirmation(h) \/ ExpireOne(h) \/ SessionOfAttempt(h) \/ StatementFails(h)

Next ==
  \/ \E h \in Handlers :
       \/ \E a \in Accounts : Login(h, a)
       \/ \E t \in Attempts : Poll(h, t)
       \/ Statement(h)
  \/ \E u \in Users, t \in Attempts, verdict \in {"approved", "denied"} : Press(u, t, verdict)
  \/ \E u \in Users, a \in Accounts : LinkUser(u, a)
  \/ \E s \in SessionIds : RejectSession(s) \/ Logout(s) \/ SessionAges(s)
  \/ \E t \in Attempts : AttemptAges(t)
  \/ \E a \in Accounts : ToggleAccount(a)
  \/ CleanupSessions \/ CleanupAttempts \/ Restart

Spec == Init /\ [][Next]_vars

-----------------------------------------------------------------------------
(***************************************************************************)
(* Type invariant.                                                         *)
(***************************************************************************)
TypeOK ==
  /\ missed \in 0..MaxMissed
  /\ crowd \in 0..Cardinality(Handlers)
  /\ active \in [Accounts -> BOOLEAN]
  /\ tg \in [Accounts -> Users \cup {NoUser}]
  /\ writer \in [Accounts -> Users \cup {NoUser}]
  /\ attempts \in [Attempts -> AttemptRow]
  /\ sessions \in [SessionIds -> SessionRow]
  /\ handler \in [Handlers -> HandlerState]

(***************************************************************************)
(* A session that did not come from the code alone belongs to the account  *)
(* of an attempt that was confirmed by a button press of the user it was   *)
(* sent to, although polls, presses, expiry and failing statements         *)
(* interleave (handler.go, AttemptStatus).                                 *)
(***************************************************************************)
SessionsConfirmed ==
  \A s \in SessionIds :
    sessions[s].life # "none" /\ ~sessions[s].codeOnly =>
      LET t == sessions[s].via IN
        /\ t \in Attempts
        /\ attempts[t].account = sessions[s].account
        /\ attempts[t].by # NoUser /\ attempts[t].by = attempts[t].sentTo
        /\ attempts[t].said = "approved"

(***************************************************************************)
(* An attempt is decided by the user who is linked to its account at that  *)
(* moment, and by nobody else (callbacks.go, callback2FA).                 *)
(***************************************************************************)
DecidedByLinkedUser ==
  [][\A t \in Attempts :
       attempts'[t].by # attempts[t].by => attempts'[t].by = tg[attempts[t].account]]_vars

(***************************************************************************)
(* A decision is taken once: afterwards the attempt can only become        *)
(* expired, by a poll that read it while it was pending (service.go,       *)
(* AttemptByToken and DecideAttempt).                                      *)
(***************************************************************************)
DecidedOnce ==
  [][\A t \in Attempts :
       attempts[t].status \in {"approved", "denied"}
         => attempts'[t].status \in {attempts[t].status, "expired"}]_vars

(***************************************************************************)
(* What a login comes to: statuses, ages, messages and handlers taken      *)
(* away, an attempt is answered once, by whatever interleaving, and a      *)
(* session is granted only by a code alone or by an attempt whose answer   *)
(* was yes, to the account it was made for.                                *)
(***************************************************************************)
ownerBar == [t \in Attempts |-> attempts[t].account]

answerBar == [t \in Attempts |-> attempts[t].said]

grantedBar == [s \in SessionIds |-> [account |-> sessions[s].account, via |-> sessions[s].via]]

Ledger == INSTANCE SignInLedger WITH
  owner <- ownerBar, answer <- answerBar, granted <- grantedBar

LedgerSpec == Ledger!Spec

(***************************************************************************)
(* One active attempt per account: the older ones are put out (comment in  *)
(* service.go, StartAttempt).                                              *)
(***************************************************************************)
ActiveOf(a) == {t \in Attempts : attempts[t].account = a /\ attempts[t].status = "pending"}

SingleActiveAttempt == \A a \in Accounts : Cardinality(ActiveOf(a)) <= 1

(***************************************************************************)
(* What the two statements do give: one for each login of the account that *)
(* stood between them together with others, and one more for every time    *)
(* that putting out the older ones failed and nobody was told.             *)
(***************************************************************************)
ActiveBounded == \A a \in Accounts : Cardinality(ActiveOf(a)) <= crowd + missed
=============================================================================
