--------------------------------- MODULE Desk ---------------------------------
(***************************************************************************)
(* Deciding a request: Admin.DecidePayoutInternal, run by any number of    *)
(* site handlers and by the Telegram poll loop.  It reads the row, may pop *)
(* a key from the pool, updates the row while it is still pending, and     *)
(* tells the applicant.  Each of these is a step of its own.               *)
(***************************************************************************)
EXTENDS KeyPool, Sequences

CONSTANTS
  Deciders,   \* goroutines that run DecidePayoutInternal
  Typed       \* texts administrators type: a reason, a reference or a key

ASSUME TypedAssumption == Typed \subseteq Texts
ASSUME PoolAssumption == Keys \subseteq Texts /\ NoText \notin Keys

VARIABLES
  dec,      \* where each decider is, and its locals
  notices   \* per request, the verdicts Telegram delivered to the applicant

deskVars == <<dec, notices, pool>>

(***************************************************************************)
(* The stock a request is served from when it is approved: isGiveaway is   *)
(* tested first, and a payout whose want mentions a giveaway counts.       *)
(***************************************************************************)
IsGiveaway(shape) == shape.kind = "giveaway" \/ "draw" \in shape.want

IsSub(shape) == shape.kind = "lot" /\ "sub" \in shape.want

KeyCategory(shape) ==
  IF IsGiveaway(shape) THEN "giveaway"
  ELSE IF IsSub(shape) THEN "sub" ELSE "none"

NeedsKey(shape) == KeyCategory(shape) # "none"

DecState == [at : {"idle", "pop", "decide", "notify"},
             req : RequestIds \cup {NoRequest}, verdict : Decided,
             text : Texts, auto : BOOLEAN]

IdleDec == [at |-> "idle", req |-> NoRequest, verdict |-> "rejected",
            text |-> NoText, auto |-> FALSE]

DeskInit ==
  /\ PoolInit
  /\ dec = [d \in Deciders |-> IdleDec]
  /\ notices = [r \in RequestIds |-> <<>>]

(***************************************************************************)
(* pays.Get and the test of its status; a request that is not pending is   *)
(* refused without any effect.                                             *)
(***************************************************************************)
GetPending(d, r, verdict, text) ==
  /\ dec[d].at = "idle"
  /\ requests[r].status = "pending"
  /\ dec' = [dec EXCEPT ![d] =
       [at |-> IF verdict = "approved" /\ NeedsKey(requests[r].shape) /\ text = NoText
                 THEN "pop" ELSE "decide",
        req |-> r, verdict |-> verdict, text |-> text, auto |-> FALSE]]
  /\ UNCHANGED <<requests, notices, pool>>

PopForRequest(d) ==
  /\ dec[d].at = "pop"
  /\ \E k \in Keys :
       /\ PopKey(KeyCategory(requests[dec[d].req].shape), dec[d].req, k)
       /\ dec' = [dec EXCEPT ![d].at = "decide", ![d].text = k, ![d].auto = TRUE]
  /\ UNCHANGED <<requests, notices>>

MutPopFails(d) ==
  /\ dec[d].at = "pop"
  /\ dec' = [dec EXCEPT ![d].at = "decide"]
  /\ UNCHANGED <<requests, notices, pool>>

(***************************************************************************)
(* PopKey returns an error: no free key in the stock, or the statement     *)
(* failed.  The request stays pending.                                     *)
(***************************************************************************)
PopFails(d) ==
  /\ dec[d].at = "pop"
  /\ dec' = [dec EXCEPT ![d] = IdleDec]
  /\ UNCHANGED <<requests, notices, pool>>

DecideWins(d) ==
  /\ dec[d].at = "decide"
  /\ DecideRow(dec[d].req, dec[d].verdict, dec[d].text, dec[d].auto)
  /\ dec' = [dec EXCEPT ![d].at = "notify"]
  /\ UNCHANGED <<notices, pool>>

(***************************************************************************)
(* Another decider was faster, or the UPDATE failed: an error is returned, *)
(* the row is left as it is, and a key popped on the way stays issued.     *)
(***************************************************************************)
DecideLoses(d) ==
  /\ dec[d].at = "decide"
  /\ dec' = [dec EXCEPT ![d] = IdleDec]
  /\ UNCHANGED <<requests, notices, pool>>

(***************************************************************************)
(* tgNotifyPayout on the row read again.  An approval that mentions a key  *)
(* is never announced.  Otherwise the message goes out or it does not: the *)
(* setting is off, no chat is known, or Telegram fails, and the error is   *)
(* dropped.                                                                *)
(***************************************************************************)
Announced(row, verdict) ==
  ~(verdict = "approved" /\ (IsGiveaway(row.shape) \/ "sub" \in row.shape.want))

NotifyApplicant(d) ==
  LET r == dec[d].req IN
  /\ dec[d].at = "notify"
  /\ \/ /\ Announced(requests[r], dec[d].verdict)
        /\ notices' = [notices EXCEPT ![r] =
             Append(@, [verdict |-> dec[d].verdict, text |-> dec[d].text])]
     \/ UNCHANGED notices
  /\ dec' = [dec EXCEPT ![d] = IdleDec]
  /\ UNCHANGED <<requests, pool>>

(***************************************************************************)
(* The administrator's stock management.                                   *)
(***************************************************************************)
AddKeys == /\ \E cat \in Categories, k \in Keys : AddKey(cat, k)
           /\ UNCHANGED <<requests, dec, notices>>

DeleteFreeKey == /\ \E k \in Keys : DeleteKey(k)
                 /\ UNCHANGED <<requests, dec, notices>>

DeskTypeOK ==
  /\ requests \in [RequestIds -> Row]
  /\ pool \in [Keys -> KeyRow]
  /\ dec \in [Deciders -> DecState]
  /\ notices \in [RequestIds -> Seq([verdict : Decided, text : Texts])]
=============================================================================
