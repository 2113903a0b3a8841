----------------------------- MODULE RequestTable -----------------------------
(***************************************************************************)
(* The table v2_requests: one row per cabinet request (payout, lot or      *)
(* giveaway key), its statements, and the SQL each of them runs as one     *)
(* atomic step.  Row identity is all that matters of the serial id, so     *)
(* ids are an unordered set and an INSERT takes any id not yet used.       *)
(***************************************************************************)
EXTENDS Integers, FiniteSets

CONSTANTS
  RequestIds,   \* ids the table may hand out (bounds the number of requests)
  Accounts,     \* media accounts that submit requests
  Shapes,       \* request shapes that are submitted, see AllShapes
  MaxWeek,      \* bound on the number of weekly cycles
  Texts,        \* values of decision_comment: reasons, references, keys
  NoText,       \* the empty reason
  NoOne         \* account of a row that does not exist

ASSUME WeekAssumption == MaxWeek \in Nat
ASSUME IdsAssumption == IsFiniteSet(RequestIds)
ASSUME TextAssumption == NoText \in Texts
ASSUME NoOneAssumption == NoOne \notin Accounts

VARIABLE requests

(***************************************************************************)
(* Of the request's fields the decision logic looks at its kind and at     *)
(* the words its free-text "want" contains: "sub" stands for the stems of  *)
(* a subscription, "draw" for the stem of a giveaway.                      *)
(***************************************************************************)
Kinds == {"payout", "lot", "giveaway"}

AllShapes == [kind : Kinds, want : SUBSET {"sub", "draw"}]

ASSUME ShapeAssumption == Shapes \subseteq AllShapes

Statuses == {"absent", "pending", "approved", "rejected"}

Decided == {"approved", "rejected"}

(***************************************************************************)
(* "text" is decision_comment, which for a key request is also tx_ref.     *)
(* "auto" is a history field: the text was popped from the key pool, not   *)
(* typed.                                                                  *)
(***************************************************************************)
Row == [status : Statuses, shape : AllShapes, account : Accounts \cup {NoOne},
        week : 0..MaxWeek, text : Texts, auto : BOOLEAN]

BlankRow == [status |-> "absent", shape |-> [kind |-> "payout", want |-> {}],
             account |-> NoOne, week |-> 0, text |-> NoText, auto |-> FALSE]

RequestsInit == requests = [r \in RequestIds |-> BlankRow]

PendingOf(a, kind) ==
  {r \in RequestIds : /\ requests[r].status = "pending"
                      /\ requests[r].account = a
                      /\ requests[r].shape.kind = kind}

PendingInWeek(a, w) == {r \in PendingOf(a, "payout") : requests[r].week = w}

InsertRequest(a, shape, w) ==
  \E r \in RequestIds :
    /\ requests[r].status = "absent"
    /\ requests' = [requests EXCEPT ![r] =
         [BlankRow EXCEPT !.status = "pending", !.shape = shape,
                          !.account = a, !.week = w]]

(***************************************************************************)
(* UPDATE v2_requests ... WHERE id = ? AND status = 'pending', the case of *)
(* one row affected.                                                       *)
(***************************************************************************)
MutDecideRow(r, verdict, text, auto) ==
  /\ requests[r].status # "absent"
  /\ requests' = [requests EXCEPT ![r].status = verdict, ![r].text = text,
                                  ![r].auto = auto]

MutSwapColumns(r, verdict, text, auto) ==
  /\ requests[r].status = "pending"
  /\ requests' = [requests EXCEPT ![r].status = text, ![r].text = verdict,
                                  ![r].auto = auto]

DecideRow(r, verdict, text, auto) ==
  /\ requests[r].status = "pending"
  /\ requests' = [requests EXCEPT ![r].status = verdict, ![r].text = text,
                                  ![r].auto = auto]
=============================================================================
