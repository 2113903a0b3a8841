------------------------------ MODULE PayoutDesk ------------------------------
(***************************************************************************)
(* The request part of the portal as a whole: submitters and deciders run  *)
(* concurrently on the two tables, an administrator manages the stock of   *)
(* keys, the weekly window opens and closes, and the process may crash,    *)
(* which loses every goroutine and keeps the tables.                       *)
(***************************************************************************)
EXTENDS Intake, Desk

vars == <<requests, sub, latest, open, miscounts, pool, dec, notices>>

Init == RequestsInit /\ IntakeInit /\ DeskInit

Submission == IntakeStep /\ UNCHANGED deskVars

Decision ==
  /\ \E d \in Deciders :
       \/ \E r \in RequestIds, verdict \in Decided, text \in Typed :
            GetPending(d, r, verdict, text)
       \/ PopForRequest(d) \/ PopFails(d)
       \/ DecideWins(d) \/ DecideLoses(d)
       \/ NotifyApplicant(d)
  /\ UNCHANGED intakeVars

Stock == (AddKeys \/ DeleteFreeKey) /\ UNCHANGED intakeVars

Weeks == Clock /\ UNCHANGED deskVars

Crash ==
  /\ sub' = [s \in Submitters |-> IdleSub]
  /\ dec' = [d \in Deciders |-> IdleDec]
  /\ UNCHANGED <<requests, latest, open, miscounts, pool, notices>>

Next == Submission \/ Decision \/ Stock \/ Weeks \/ Crash

Spec == Init /\ [][Next]_vars

-----------------------------------------------------------------------------
(***************************************************************************)
(* Type invariant of the composed system.                                  *)
(***************************************************************************)
TypeOK == IntakeTypeOK /\ DeskTypeOK

(***************************************************************************)
(* Two administrators, or an administrator and the Telegram button, may    *)
(* decide the same request at the same time: the first UPDATE wins and     *)
(* nothing the slower one does alters the row (requests.go, Decide).       *)
(***************************************************************************)
DecisionFinal ==
  [][\A r \in RequestIds :
       requests[r].status \in Decided => requests'[r] = requests[r]]_vars

(***************************************************************************)
(* A request that was approved with a key of the stock owns that key: the  *)
(* key is in the table, issued, and issued to this request, whatever       *)
(* deciders, deletions, additions and crashes came between the pop and     *)
(* the decision (admin_payouts.go, subkeys.go).  Hence no two requests     *)
(* receive the same key of the stock.                                      *)
(***************************************************************************)
AutoKeyReserved ==
  \A r \in RequestIds : requests[r].auto =>
    /\ requests[r].status = "approved"
    /\ requests[r].text \in Keys
    /\ InPool(requests[r].text)
    /\ pool[requests[r].text].holder = r

(***************************************************************************)
(* A request whose approval hands over a key is never approved without     *)
(* one: a decider whose pop failed does not reach the decision.            *)
(***************************************************************************)
KeyApprovalHasKey ==
  \A r \in RequestIds :
    requests[r].status = "approved" /\ NeedsKey(requests[r].shape)
      => requests[r].text # NoText

(***************************************************************************)
(* The applicant is told at most once, and told what the row says: the     *)
(* notice is sent after the decision by the goroutine that made it, from   *)
(* locals, and must agree with the row although others raced for it        *)
(* (admin_payouts.go, tgNotifyPayout).                                     *)
(***************************************************************************)
NoticeTruthful ==
  \A r \in RequestIds :
    /\ Len(notices[r]) <= 1
    /\ \A i \in DOMAIN notices[r] :
         /\ requests[r].status = notices[r][i].verdict
         /\ requests[r].text = notices[r][i].text

(***************************************************************************)
(* The desk implements the ledger: statuses are the verdicts, issued keys  *)
(* have their holder, and a key is given when it was popped for the        *)
(* request it is stored with.                                              *)
(***************************************************************************)
verdictBar == [r \in RequestIds |-> requests[r].status]
holderBar == [k \in Keys |-> pool[k].holder]
givenBar == [r \in RequestIds |-> IF requests[r].auto THEN requests[r].text ELSE NoText]

Ledger == INSTANCE RequestLedger WITH
  verdict <- verdictBar, holder <- holderBar, given <- givenBar, NoKey <- NoText

LedgerSpec == Ledger!Spec
=============================================================================
