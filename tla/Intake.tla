-------------------------------- MODULE Intake --------------------------------
(***************************************************************************)
(* Submitting a request: payouts.Service.Create, called by the cabinet     *)
(* handlers and by the Telegram paste handler, each in a goroutine of its  *)
(* own.  Create is three statements with no transaction round them: read   *)
(* the week, count the pending duplicates, insert.  A payout is accepted   *)
(* only while the weekly window is open; the other kinds always are and    *)
(* are filed under the latest week.  Each statement may fail: without the  *)
(* week there is no payout, but a lot is filed under none; the error of    *)
(* the count is dropped, and the request is inserted all the same.         *)
(***************************************************************************)
EXTENDS RequestTable

CONSTANTS
  Submitters,    \* goroutines that run Create
  MaxMiscounts   \* bound on the number of counts that fail

ASSUME SubmittersAssumption == IsFiniteSet(Submitters)
ASSUME MiscountsAssumption == MaxMiscounts \in Nat

VARIABLES
  sub,      \* where each submitter is in Create, and its locals
  latest,   \* the latest week row, 0 the one of before the first window
  open,     \* whether that week's window is open
  miscounts \* history: how many counts of duplicates failed

intakeVars == <<sub, latest, open, miscounts>>

SubState == [at : {"idle", "count", "insert"}, account : Accounts \cup {NoOne},
             shape : AllShapes, week : 0..MaxWeek]

IdleSub == [at |-> "idle", account |-> NoOne, shape |-> BlankRow.shape, week |-> 0]

IntakeInit ==
  /\ sub = [s \in Submitters |-> IdleSub]
  /\ latest = 0
  /\ open = FALSE
  /\ miscounts = 0

(***************************************************************************)
(* The weekly window, driven by the clock (module PayoutWeeks has the      *)
(* details).                                                               *)
(***************************************************************************)
WindowOpens ==
  /\ ~open /\ latest < MaxWeek
  /\ latest' = latest + 1
  /\ open' = TRUE
  /\ UNCHANGED <<sub, requests, miscounts>>

WindowCloses ==
  /\ open
  /\ open' = FALSE
  /\ UNCHANGED <<sub, latest, requests, miscounts>>

ReadWeek(s, a, shape) ==
  /\ sub[s].at = "idle"
  /\ shape.kind = "payout" => open
  /\ \E w \in IF shape.kind = "payout" THEN {latest} ELSE {0, latest} :
       sub' = [sub EXCEPT ![s] = [at |-> "count", account |-> a, shape |-> shape,
                                  week |-> w]]
  /\ UNCHANGED <<latest, open, miscounts, requests>>

(***************************************************************************)
(* The number of pending requests the count finds, and the number at which *)
(* the request is refused.                                                 *)
(***************************************************************************)
PendingFound(a, shape, w) ==
  Cardinality(IF shape.kind = "payout" THEN PendingInWeek(a, w)
                                       ELSE PendingOf(a, shape.kind))

PendingLimit(kind) == IF kind = "payout" THEN 2 ELSE 1

MutCountPending(s) ==
  /\ sub[s].at = "count"
  /\ sub' = [sub EXCEPT ![s] =
       IF PendingFound(sub[s].account, sub[s].shape, sub[s].week)
            <= PendingLimit(sub[s].shape.kind)
         THEN [sub[s] EXCEPT !.at = "insert"]
         ELSE IdleSub]
  /\ UNCHANGED <<latest, open, miscounts, requests>>

CountPending(s) ==
  /\ sub[s].at = "count"
  /\ sub' = [sub EXCEPT ![s] =
       IF PendingFound(sub[s].account, sub[s].shape, sub[s].week)
            < PendingLimit(sub[s].shape.kind)
         THEN [sub[s] EXCEPT !.at = "insert"]
         ELSE IdleSub]
  /\ UNCHANGED <<latest, open, miscounts, requests>>

(***************************************************************************)
(* The count fails: its error is dropped, and zero is below every limit.   *)
(***************************************************************************)
CountFails(s) ==
  /\ sub[s].at = "count" /\ miscounts < MaxMiscounts
  /\ sub' = [sub EXCEPT ![s].at = "insert"]
  /\ miscounts' = miscounts + 1
  /\ UNCHANGED <<latest, open, requests>>

InsertRow(s) ==
  /\ sub[s].at = "insert"
  /\ InsertRequest(sub[s].account, sub[s].shape, sub[s].week)
  /\ sub' = [sub EXCEPT ![s] = IdleSub]
  /\ UNCHANGED <<latest, open, miscounts>>

InsertFails(s) ==
  /\ sub[s].at = "insert"
  /\ sub' = [sub EXCEPT ![s] = IdleSub]
  /\ UNCHANGED <<latest, open, miscounts, requests>>

(***************************************************************************)
(* The four ways into Create.  What they validate (numbers, links, a       *)
(* banned UID) refuses a form without any effect; what they pass on is the *)
(* kind and the wording.  A giveaway always says so, a pasted request is a *)
(* payout.                                                                 *)
(***************************************************************************)
SubmitPayout(s, a) == \E shape \in Shapes : shape.kind = "payout" /\ ReadWeek(s, a, shape)

SubmitLot(s, a) ==
  \E shape \in Shapes : shape.kind \in {"lot", "giveaway"} /\ ReadWeek(s, a, shape)

SubmitGiveaway(s, a) ==
  \E shape \in Shapes :
    shape.kind = "giveaway" /\ "draw" \in shape.want /\ ReadWeek(s, a, shape)

HandlePaste(s, a) == \E shape \in Shapes : shape.kind = "payout" /\ ReadWeek(s, a, shape)

IntakeStep ==
  \E s \in Submitters :
    \/ \E a \in Accounts :
         SubmitPayout(s, a) \/ SubmitLot(s, a) \/ SubmitGiveaway(s, a) \/ HandlePaste(s, a)
    \/ CountPending(s) \/ CountFails(s)
    \/ InsertRow(s) \/ InsertFails(s)

Clock == WindowOpens \/ WindowCloses

(***************************************************************************)
(* Intake on its own: the rest of the portal only decides pending rows.    *)
(* A crash loses the goroutines and keeps the table.                       *)
(***************************************************************************)
DecidedElsewhere ==
  /\ \E r \in RequestIds, verdict \in Decided : DecideRow(r, verdict, NoText, FALSE)
  /\ UNCHANGED intakeVars

IntakeCrash ==
  /\ sub' = [s \in Submitters |-> IdleSub]
  /\ UNCHANGED <<latest, open, miscounts, requests>>

IntakeNext == IntakeStep \/ Clock \/ DecidedElsewhere \/ IntakeCrash

IntakeAlone == RequestsInit /\ IntakeInit

IntakeSpec == IntakeAlone /\ [][IntakeNext]_<<requests, intakeVars>>

-----------------------------------------------------------------------------
(***************************************************************************)
(* Type invariant of the intake.                                           *)
(***************************************************************************)
IntakeTypeOK ==
  /\ requests \in [RequestIds -> Row]
  /\ sub \in [Submitters -> SubState]
  /\ latest \in 0..MaxWeek
  /\ open \in BOOLEAN
  /\ miscounts \in 0..MaxMiscounts

(***************************************************************************)
(* Create checks for duplicates and inserts without a transaction, and     *)
(* drops the error of the check.  The undecided requests of an account     *)
(* therefore exceed the limit by the number of goroutines that passed the  *)
(* check together, and by one for each count that failed, but by no more,  *)
(* whatever is decided, closed and lost meanwhile (requests.go, Create).   *)
(***************************************************************************)
PendingBounded ==
  \A a \in Accounts :
    /\ \A w \in 1..MaxWeek :
         Cardinality(PendingInWeek(a, w)) <= 1 + Cardinality(Submitters) + miscounts
    /\ \A kind \in Kinds \ {"payout"} :
         Cardinality(PendingOf(a, kind)) <= Cardinality(Submitters) + miscounts

(***************************************************************************)
(* The limit as the source states it: at most two undecided payout         *)
(* requests of an account in a week (comment in requests.go, Create).      *)
(***************************************************************************)
AtMostTwoPending ==
  \A a \in Accounts, w \in 1..MaxWeek : Cardinality(PendingInWeek(a, w)) <= 2
=============================================================================
