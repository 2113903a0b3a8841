------------------------------ MODULE LoginDialog ------------------------------
(***************************************************************************)
(* The login dialog of one page (auth.js): a code is sent, its answer may  *)
(* ask to wait until somebody confirms the attempt, and then the page asks *)
(* every second what became of it, without waiting for the answer before.  *)
(* The dialog is closed and opened, and answers overtake each other.  The  *)
(* browser counts failures and locks the dialog.  LoginFlow has the server.*)
(***************************************************************************)
EXTENDS Integers, FiniteSets

CONSTANTS
  Attempts,   \* the attempts that may be asked to wait for, in order
  MaxLogins,  \* bound on the codes that are sent and not answered
  MaxPolls    \* bound on the questions that are not answered

VARIABLES
  attempts,   \* at the server
  dialog,     \* open; its button spins; it says that it waits
  logins,     \* the codes under way
  poll,       \* the attempt authPollInterval asks for, 0 when it is null
  polls,      \* the questions under way
  entering,   \* attempts, or 0 for none, whose session is being loaded
  fails,      \* localStorage: delta_failed_login_attempts
  locked,     \* localStorage: delta_login_lock_until lies ahead
  wrong       \* history: the codes and attempts refused since a success

lock == <<fails, locked>>

vars == <<attempts, dialog, logins, poll, polls, entering, lock, wrong>>

Settled == {"approved", "denied", "expired"}

Dialog == [open : BOOLEAN, loading : BOOLEAN, pending : BOOLEAN]

(***************************************************************************)
(* A code is answered with a refusal, a session, or an attempt to wait for.*)
(***************************************************************************)
Login == {"sent", "refused", "direct"} \cup {"attempt"} \X (1..Attempts)

Poll == [attempt : 0..Attempts, answer : {"none", "asked", "pending"} \cup Settled]

NoPoll == [attempt |-> 0, answer |-> "none"]

Init ==
  /\ attempts = [a \in 1..Attempts |-> "none"]
  /\ dialog = [open |-> FALSE, loading |-> FALSE, pending |-> FALSE]
  /\ logins = [i \in 1..MaxLogins |-> <<"none">>]
  /\ poll = 0
  /\ polls = [i \in 1..MaxPolls |-> NoPoll]
  /\ entering = {}
  /\ fails = 0 /\ locked = FALSE /\ wrong = 0

-----------------------------------------------------------------------------
(***************************************************************************)
(* The counters of the browser.                                            *)
(***************************************************************************)
RecordBrowserFailedAttempt == fails' = fails + 1 /\ locked' = (locked \/ fails' >= 3)

ClearBrowserLoginLock == fails' = 0 /\ locked' = FALSE /\ wrong' = 0

LockEnds ==
  /\ locked
  /\ ClearBrowserLoginLock
  /\ UNCHANGED <<attempts, dialog, logins, poll, polls, entering>>

OpenAuth ==
  /\ dialog' = [open |-> TRUE, loading |-> FALSE, pending |-> FALSE]
  /\ poll' = 0
  /\ UNCHANGED <<attempts, logins, polls, entering, lock, wrong>>

CloseAuth ==
  /\ dialog.open
  /\ dialog' = [dialog EXCEPT !.open = FALSE]
  /\ poll' = 0
  /\ UNCHANGED <<attempts, logins, polls, entering, lock, wrong>>

-----------------------------------------------------------------------------
(***************************************************************************)
(* The code is sent, after the position was asked for; the server answers. *)
(* An attempt that is new makes the earlier ones expire.                   *)
(***************************************************************************)
Submit(i) ==
  /\ dialog.open /\ ~dialog.loading /\ ~locked /\ logins[i] = <<"none">>
  /\ dialog' = [dialog EXCEPT !.loading = TRUE]
  /\ logins' = [logins EXCEPT ![i] = <<"sent">>]
  /\ UNCHANGED <<attempts, poll, polls, entering, lock, wrong>>

Pending == {a \in 1..Attempts : attempts[a] = "pending"}

Login2FA(i, a) ==
  /\ logins[i] = <<"sent">> /\ attempts[a] = "none"
  /\ \A b \in 1..a - 1 : attempts[b] # "none"
  /\ attempts' = [b \in 1..Attempts |-> IF b = a THEN "pending"
                    ELSE IF b \in Pending THEN "expired" ELSE attempts[b]]
  /\ wrong' = wrong + Cardinality(Pending)
  /\ logins' = [logins EXCEPT ![i] = <<"attempt", a>>]
  /\ UNCHANGED <<dialog, poll, polls, entering, lock>>

LoginAnswered(i, answer) ==
  /\ logins[i] = <<"sent">>
  /\ logins' = [logins EXCEPT ![i] = <<answer>>]
  /\ wrong' = IF answer = "refused" THEN wrong + 1 ELSE wrong
  /\ UNCHANGED <<attempts, dialog, poll, polls, entering, lock>>

Settle(a, status) ==
  /\ attempts[a] = "pending"
  /\ attempts' = [attempts EXCEPT ![a] = status]
  /\ wrong' = IF status = "approved" THEN wrong ELSE wrong + 1
  /\ UNCHANGED <<dialog, logins, poll, polls, entering, lock>>

-----------------------------------------------------------------------------
(***************************************************************************)
(* The answer to a code.                                                   *)
(***************************************************************************)
Answered(i) == logins' = [logins EXCEPT ![i] = <<"none">>]

LoginRefused(i) ==
  /\ logins[i] = <<"refused">> /\ Answered(i)
  /\ RecordBrowserFailedAttempt
  /\ dialog' = [dialog EXCEPT !.loading = FALSE]
  /\ UNCHANGED <<attempts, poll, polls, entering, wrong>>

LoginLost(i) ==
  /\ logins[i] # <<"none">> /\ Answered(i)
  /\ dialog' = [dialog EXCEPT !.loading = FALSE]
  /\ UNCHANGED <<attempts, poll, polls, entering, lock, wrong>>

LoginDirect(i) ==
  /\ logins[i] = <<"direct">> /\ Answered(i)
  /\ ClearBrowserLoginLock
  /\ entering' = entering \cup {0}
  /\ UNCHANGED <<attempts, dialog, poll, polls>>

WaitForAttempt(i, a) ==
  /\ logins[i] = <<"attempt", a>> /\ Answered(i)
  /\ dialog' = [dialog EXCEPT !.pending = TRUE]
  /\ poll' = a
  /\ UNCHANGED <<attempts, polls, entering, lock, wrong>>

(***************************************************************************)
(* The question for an attempt: asked, answered, and what the answer does, *)
(* to whatever interval runs by then.                                      *)
(***************************************************************************)
PollTick(i) ==
  /\ poll # 0 /\ polls[i] = NoPoll
  /\ polls' = [polls EXCEPT ![i] = [attempt |-> poll, answer |-> "asked"]]
  /\ UNCHANGED <<attempts, dialog, logins, poll, entering, lock, wrong>>

AttemptStatus(i) ==
  /\ polls[i].answer = "asked"
  /\ polls' = [polls EXCEPT ![i].answer = attempts[polls[i].attempt]]
  /\ UNCHANGED <<attempts, dialog, logins, poll, entering, lock, wrong>>

(***************************************************************************)
(* The attempt is approved, but its account is switched off, or cannot be  *)
(* read.  Each such answer is counted as another wrong entry.              *)
(***************************************************************************)
AccountUnavailable(i) ==
  /\ polls[i].answer = "asked" /\ attempts[polls[i].attempt] = "approved"
  /\ polls' = [polls EXCEPT ![i].answer = "expired"]
  /\ wrong' = wrong + 1
  /\ UNCHANGED <<attempts, dialog, logins, poll, entering, lock>>

PollPending(i) ==
  /\ polls[i].answer = "pending"
  /\ polls' = [polls EXCEPT ![i] = NoPoll]
  /\ UNCHANGED <<attempts, dialog, logins, poll, entering, lock, wrong>>

PollApproved(i) ==
  /\ polls[i].answer = "approved"
  /\ polls' = [polls EXCEPT ![i] = NoPoll]
  /\ poll' = 0
  /\ ClearBrowserLoginLock
  /\ entering' = entering \cup {polls[i].attempt}
  /\ UNCHANGED <<attempts, dialog, logins>>

PollRefused(i) ==
  /\ polls[i].answer \in {"denied", "expired"}
  /\ polls' = [polls EXCEPT ![i] = NoPoll]
  /\ poll' = 0
  /\ RecordBrowserFailedAttempt
  /\ dialog' = [dialog EXCEPT !.loading = FALSE, !.pending = FALSE]
  /\ UNCHANGED <<attempts, logins, entering, wrong>>

PollLost(i) ==
  /\ polls[i] # NoPoll
  /\ polls' = [polls EXCEPT ![i] = NoPoll]
  /\ poll' = 0
  /\ dialog' = [dialog EXCEPT !.loading = FALSE, !.pending = FALSE]
  /\ UNCHANGED <<attempts, logins, entering, lock, wrong>>

(***************************************************************************)
(* The session is loaded, and the dialog closed.  A login without an       *)
(* attempt stops its spinner.                                              *)
(***************************************************************************)
Enter(a) ==
  /\ a \in entering
  /\ entering' = entering \ {a}
  /\ dialog' = [dialog EXCEPT !.open = FALSE, !.loading = @ /\ a # 0]
  /\ poll' = 0
  /\ UNCHANGED <<attempts, logins, polls, lock, wrong>>

-----------------------------------------------------------------------------
Next ==
  \/ LockEnds
  \/ OpenAuth
  \/ CloseAuth
  \/ \E i \in 1..MaxLogins :
       \/ Submit(i) \/ LoginRefused(i) \/ LoginLost(i) \/ LoginDirect(i)
       \/ \E a \in 1..Attempts : Login2FA(i, a) \/ WaitForAttempt(i, a)
       \/ \E answer \in {"refused", "direct"} : LoginAnswered(i, answer)
  \/ \E a \in 1..Attempts, status \in Settled : Settle(a, status)
  \/ \E i \in 1..MaxPolls :
       \/ PollTick(i) \/ AttemptStatus(i) \/ AccountUnavailable(i) \/ PollPending(i)
       \/ PollApproved(i) \/ PollRefused(i) \/ PollLost(i)
  \/ \E a \in 0..Attempts : Enter(a)

Spec == Init /\ [][Next]_vars

-----------------------------------------------------------------------------
(***************************************************************************)
(* The message of a locked dialog: it is locked after three wrong entries. *)
(* The code locks it after three answers, and one attempt that is refused  *)
(* answers every question for it that is under way.                        *)
(***************************************************************************)
LockAfterThreeEntries == locked => wrong >= 3
=============================================================================
