--------------------------- MODULE PayoutDeskProofs ---------------------------
(***************************************************************************)
(* Proofs about PayoutDesk, for any number of requests, keys, submitters,  *)
(* deciders and weeks.                                                     *)
(***************************************************************************)
EXTENDS PayoutDesk, FiniteSetTheorems, TLAPS

(***************************************************************************)
(* Each step of the system is one of these.                                *)
(***************************************************************************)
LEMMA StepCases ==
  ASSUME [Next]_vars
  PROVE  \/ \E s \in Submitters, a \in Accounts, shape \in Shapes :
              ReadWeek(s, a, shape) /\ UNCHANGED deskVars
         \/ \E s \in Submitters : CountPending(s) /\ UNCHANGED deskVars
         \/ \E s \in Submitters : CountFails(s) /\ UNCHANGED deskVars
         \/ \E s \in Submitters : InsertRow(s) /\ UNCHANGED deskVars
         \/ \E s \in Submitters : InsertFails(s) /\ UNCHANGED deskVars
         \/ \E d \in Deciders, r \in RequestIds, verdict \in Decided, text \in Typed :
              GetPending(d, r, verdict, text) /\ UNCHANGED intakeVars
         \/ \E d \in Deciders : PopForRequest(d) /\ UNCHANGED intakeVars
         \/ \E d \in Deciders : PopFails(d) /\ UNCHANGED intakeVars
         \/ \E d \in Deciders : DecideWins(d) /\ UNCHANGED intakeVars
         \/ \E d \in Deciders : DecideLoses(d) /\ UNCHANGED intakeVars
         \/ \E d \in Deciders : NotifyApplicant(d) /\ UNCHANGED intakeVars
         \/ \E cat \in Categories, k \in Keys :
              AddKey(cat, k) /\ UNCHANGED <<requests, dec, notices, intakeVars>>
         \/ \E k \in Keys :
              DeleteKey(k) /\ UNCHANGED <<requests, dec, notices, intakeVars>>
         \/ WindowOpens /\ UNCHANGED deskVars
         \/ WindowCloses /\ UNCHANGED deskVars
         \/ Crash
         \/ UNCHANGED vars
  BY Zenon
  DEF Next, Submission, IntakeStep, SubmitPayout, SubmitLot, SubmitGiveaway, HandlePaste,
      Decision, Stock, AddKeys, DeleteFreeKey, Weeks, Clock

-----------------------------------------------------------------------------
(***************************************************************************)
(* Rows and idle goroutines are of their types.                            *)
(***************************************************************************)
LEMMA BlankShape == BlankRow.shape \in AllShapes
  BY DEF BlankRow, AllShapes, Kinds

LEMMA BlankTypes ==
  /\ BlankRow \in Row
  /\ IdleSub \in SubState
  /\ IdleDec \in DecState
  /\ Missing \in KeyRow
<1>1. 0 \in 0..MaxWeek
  BY WeekAssumption
<1>2. BlankRow \in Row
  BY <1>1, TextAssumption DEF BlankRow, Row, Statuses, AllShapes, Kinds
<1>3. IdleSub \in SubState
  BY <1>1, BlankShape DEF IdleSub, SubState
<1>4. IdleDec \in DecState
  BY TextAssumption DEF IdleDec, DecState, Decided
<1> QED BY <1>2, <1>3, <1>4 DEF Missing, KeyRow, Categories

LEMMA DecidedRow ==
  ASSUME NEW row \in Row, NEW verdict \in Decided, NEW text \in Texts, NEW auto \in BOOLEAN
  PROVE  [row EXCEPT !.status = verdict, !.text = text, !.auto = auto] \in Row
  BY DEF Row, Statuses, Decided

LEMMA InitTypeOK == Init => TypeOK
<1>1. 0 \in 0..MaxWeek /\ 0 \in 0..MaxMiscounts
  BY WeekAssumption, MiscountsAssumption
<1>2. ASSUME Init
      PROVE  notices \in [RequestIds -> Seq([verdict : Decided, text : Texts])]
  BY <1>2 DEF Init, DeskInit
<1> QED
  BY <1>1, <1>2, BlankTypes
  DEF Init, RequestsInit, IntakeInit, DeskInit, PoolInit, TypeOK, IntakeTypeOK, DeskTypeOK

LEMMA ReadType ==
  ASSUME IntakeTypeOK, NEW s \in Submitters, NEW a \in Accounts, NEW shape \in Shapes,
         ReadWeek(s, a, shape)
  PROVE  sub' \in [Submitters -> SubState]
<1>0. latest \in 0..MaxWeek /\ 0 \in 0..MaxWeek
  BY WeekAssumption DEF IntakeTypeOK
<1>1. PICK w \in 0..MaxWeek :
        sub' = [sub EXCEPT ![s] = [at |-> "count", account |-> a, shape |-> shape,
                                   week |-> w]]
  <2>1. PICK w \in IF shape.kind = "payout" THEN {latest} ELSE {0, latest} :
          sub' = [sub EXCEPT ![s] = [at |-> "count", account |-> a, shape |-> shape,
                                     week |-> w]]
    BY DEF ReadWeek
  <2>2. w \in 0..MaxWeek
    BY <1>0
  <2> QED BY <2>1, <2>2
<1>2. [at |-> "count", account |-> a, shape |-> shape, week |-> w] \in SubState
  BY ShapeAssumption DEF SubState
<1> QED BY <1>1, <1>2 DEF IntakeTypeOK

LEMMA StepTypeOK ==
  ASSUME TypeOK, [Next]_vars
  PROVE  TypeOK'
<1> USE DEF TypeOK, IntakeTypeOK, DeskTypeOK
<1>1. ASSUME NEW s \in Submitters, NEW a \in Accounts, NEW shape \in Shapes,
             ReadWeek(s, a, shape), UNCHANGED deskVars
      PROVE  TypeOK'
  BY <1>1, ReadType DEF ReadWeek, deskVars
<1>2. ASSUME NEW s \in Submitters, CountPending(s), UNCHANGED deskVars
      PROVE  TypeOK'
  <2>1. sub' \in [Submitters -> SubState]
    BY <1>2, BlankTypes DEF CountPending, SubState
  <2> QED BY <1>2, <2>1 DEF CountPending, deskVars
<1>3. ASSUME NEW s \in Submitters, InsertRow(s), UNCHANGED deskVars
      PROVE  TypeOK'
  <2> DEFINE row == [BlankRow EXCEPT !.status = "pending", !.shape = sub[s].shape,
                                     !.account = sub[s].account, !.week = sub[s].week]
  <2>1. row \in Row
    <3>1. sub[s] \in SubState
      OBVIOUS
    <3> QED BY <3>1, BlankTypes DEF Row, SubState, Statuses
  <2>2. requests' \in [RequestIds -> Row]
    BY <1>3, <2>1 DEF InsertRow, InsertRequest
  <2>3. sub' \in [Submitters -> SubState]
    BY <1>3, BlankTypes DEF InsertRow
  <2> QED BY <1>3, <2>2, <2>3 DEF InsertRow, deskVars
<1>4. ASSUME NEW d \in Deciders, NEW r \in RequestIds, NEW verdict \in Decided,
             NEW text \in Typed, GetPending(d, r, verdict, text), UNCHANGED intakeVars
      PROVE  TypeOK'
  <2>1. dec' \in [Deciders -> DecState]
    BY <1>4, TypedAssumption DEF GetPending, DecState
  <2> QED BY <1>4, <2>1 DEF GetPending, intakeVars
<1>5. ASSUME NEW d \in Deciders, PopForRequest(d), UNCHANGED intakeVars
      PROVE  TypeOK'
  <2>1. PICK k \in Keys :
          /\ pool' = [pool EXCEPT ![k].holder = dec[d].req]
          /\ dec' = [dec EXCEPT ![d].at = "decide", ![d].text = k, ![d].auto = TRUE]
    BY <1>5 DEF PopForRequest, PopKey
  <2>2. [pool[k] EXCEPT !.holder = dec[d].req] \in KeyRow
    BY DEF DecState, KeyRow
  <2>3. pool' \in [Keys -> KeyRow]
    BY <2>1, <2>2
  <2>4. [dec[d] EXCEPT !.at = "decide", !.text = k, !.auto = TRUE] \in DecState
    BY PoolAssumption DEF DecState
  <2>5. dec' \in [Deciders -> DecState]
    BY <2>1, <2>4
  <2> QED BY <1>5, <2>3, <2>5 DEF PopForRequest, intakeVars
<1>6. ASSUME NEW d \in Deciders, PopFails(d), UNCHANGED intakeVars
      PROVE  TypeOK'
  BY <1>6, BlankTypes DEF PopFails, intakeVars
<1>7. ASSUME NEW d \in Deciders, DecideWins(d), UNCHANGED intakeVars
      PROVE  TypeOK'
  <2>1. /\ dec[d].verdict \in Decided /\ dec[d].text \in Texts
        /\ dec[d].auto \in BOOLEAN
    BY DEF DecState
  <2>2. requests' \in [RequestIds -> Row]
    BY <1>7, <2>1, DecidedRow DEF DecideWins, DecideRow
  <2>3. dec' \in [Deciders -> DecState]
    BY <1>7 DEF DecideWins, DecState
  <2> QED BY <1>7, <2>2, <2>3 DEF DecideWins, intakeVars
<1>8. ASSUME NEW d \in Deciders, DecideLoses(d), UNCHANGED intakeVars
      PROVE  TypeOK'
  BY <1>8, BlankTypes DEF DecideLoses, intakeVars
<1>9. ASSUME NEW d \in Deciders, NotifyApplicant(d), UNCHANGED intakeVars
      PROVE  TypeOK'
  <2> DEFINE Notice == [verdict : Decided, text : Texts]
             notice == [verdict |-> dec[d].verdict, text |-> dec[d].text]
  <2>1. notice \in Notice
    BY DEF DecState
  <2>2. notices' \in [RequestIds -> Seq(Notice)]
    <3>1. ASSUME NEW r \in RequestIds
          PROVE  Append(notices[r], notice) \in Seq(Notice)
      <4>1. notices[r] \in Seq(Notice)
        OBVIOUS
      <4> HIDE DEF Notice, notice
      <4> QED BY <2>1, <4>1
    <3> HIDE DEF Notice, notice
    <3>2. [notices EXCEPT ![dec[d].req] = Append(@, notice)] \in [RequestIds -> Seq(Notice)]
      BY <3>1 DEF Notice
    <3> QED BY <1>9, <3>2 DEF NotifyApplicant, Notice, notice
  <2>3. dec' \in [Deciders -> DecState]
    BY <1>9, BlankTypes DEF NotifyApplicant
  <2> QED BY <1>9, <2>2, <2>3 DEF NotifyApplicant, intakeVars
<1>10. ASSUME NEW cat \in Categories, NEW k \in Keys, AddKey(cat, k),
              UNCHANGED <<requests, dec, notices, intakeVars>>
       PROVE  TypeOK'
  <2>1. [cat |-> cat, holder |-> NoRequest] \in KeyRow
    BY DEF KeyRow
  <2> QED BY <1>10, <2>1 DEF AddKey, intakeVars
<1>11. ASSUME NEW k \in Keys, DeleteKey(k),
              UNCHANGED <<requests, dec, notices, intakeVars>>
       PROVE  TypeOK'
  BY <1>11, BlankTypes DEF DeleteKey, intakeVars
<1>12. ASSUME WindowOpens, UNCHANGED deskVars
       PROVE  TypeOK'
  <2>1. latest' \in 0..MaxWeek
    BY <1>12, WeekAssumption DEF WindowOpens
  <2> QED BY <1>12, <2>1 DEF WindowOpens, deskVars
<1>13. ASSUME WindowCloses, UNCHANGED deskVars
       PROVE  TypeOK'
  BY <1>13 DEF WindowCloses, deskVars
<1>14. ASSUME Crash
       PROVE  TypeOK'
  BY <1>14, BlankTypes DEF Crash
<1>15. ASSUME UNCHANGED vars
       PROVE  TypeOK'
  BY <1>15 DEF vars
<1>16. ASSUME NEW s \in Submitters, CountFails(s), UNCHANGED deskVars
       PROVE  TypeOK'
  <2>1. sub' \in [Submitters -> SubState]
    BY <1>16 DEF CountFails, SubState
  <2>2. miscounts' \in 0..MaxMiscounts
    BY <1>16, MiscountsAssumption DEF CountFails
  <2> QED BY <1>16, <2>1, <2>2 DEF CountFails, deskVars
<1>17. ASSUME NEW s \in Submitters, InsertFails(s), UNCHANGED deskVars
       PROVE  TypeOK'
  BY <1>17, BlankTypes DEF InsertFails, deskVars
<1> QED
  BY StepCases, <1>1, <1>2, <1>3, <1>4, <1>5, <1>6, <1>7, <1>8, <1>9, <1>10, <1>11,
     <1>12, <1>13, <1>14, <1>15, <1>16, <1>17

(***************************************************************************)
(* The composed system is typed correctly.                                 *)
(***************************************************************************)
THEOREM TypeCorrect == Spec => []TypeOK
  BY InitTypeOK, StepTypeOK, PTL DEF Spec

-----------------------------------------------------------------------------
(***************************************************************************)
(* AutoKeyReserved is not inductive: what a decider carries to the         *)
(* decision must already be right.  Whoever is past GetPending works on a  *)
(* request that exists, hence whose shape is settled; only approvals of    *)
(* key requests pop;                                                       *)
(* a key popped and not yet stored is held for the decider's request; an   *)
(* approval that needs a key carries a text; and a code that is not in the *)
(* table has no holder, so that adding it again disturbs none.             *)
(***************************************************************************)
HeldFor(k, r) == k \in Keys /\ InPool(k) /\ pool[k].holder = r

Known(d) == dec[d].req \in RequestIds /\ requests[dec[d].req].status # "absent"

PoppedKeyHeld(d) ==
  dec[d].auto => dec[d].verdict = "approved" /\ HeldFor(dec[d].text, dec[d].req)

ApprovalCarriesKey(d) ==
  dec[d].verdict = "approved" /\ NeedsKey(requests[dec[d].req].shape) => dec[d].text # NoText

DeciderOK(d) ==
  /\ dec[d].at # "idle" => Known(d)
  /\ dec[d].at = "pop" => dec[d].verdict = "approved" /\ NeedsKey(requests[dec[d].req].shape)
  /\ dec[d].at = "decide" => PoppedKeyHeld(d) /\ ApprovalCarriesKey(d)

DeciderInv == \A d \in Deciders : DeciderOK(d)

PoolConsistent == \A k \in Keys : ~InPool(k) => ~Issued(k)

KeyInv == TypeOK /\ PoolConsistent /\ DeciderInv /\ AutoKeyReserved /\ KeyApprovalHasKey

LEMMA InitKeyInv == Init => KeyInv
<1>1. Init => TypeOK
  BY InitTypeOK
<1>2. Init => PoolConsistent
  BY DEF Init, DeskInit, PoolInit, PoolConsistent, Missing, InPool, Issued
<1>3. Init => DeciderInv
  BY DEF Init, DeskInit, IdleDec, DeciderInv, DeciderOK
<1>4. Init => AutoKeyReserved /\ KeyApprovalHasKey
  BY DEF Init, RequestsInit, BlankRow, AutoKeyReserved, KeyApprovalHasKey
<1> QED BY <1>1, <1>2, <1>3, <1>4 DEF KeyInv

(***************************************************************************)
(* A key that is held stays held, whatever the stock management and other  *)
(* deciders do.                                                            *)
(***************************************************************************)
LEMMA AddKeyKeeps ==
  ASSUME TypeOK, PoolConsistent, NEW cat \in Categories, NEW k \in Keys, AddKey(cat, k)
  PROVE  /\ PoolConsistent'
         /\ \A x, r : r # NoRequest /\ HeldFor(x, r) => HeldFor(x, r)'
  BY DEF TypeOK, DeskTypeOK, KeyRow, PoolConsistent, AddKey, InPool, Issued, HeldFor, Categories

LEMMA DeleteKeyKeeps ==
  ASSUME TypeOK, PoolConsistent, NEW k \in Keys, DeleteKey(k)
  PROVE  /\ PoolConsistent'
         /\ \A x, r : r # NoRequest /\ HeldFor(x, r) => HeldFor(x, r)'
  BY DEF TypeOK, DeskTypeOK, KeyRow, PoolConsistent, DeleteKey, InPool, Issued, HeldFor, Missing

LEMMA PopKeyKeeps ==
  ASSUME TypeOK, PoolConsistent, NEW cat \in Categories, NEW q \in RequestIds, NEW k \in Keys,
         PopKey(cat, q, k)
  PROVE  /\ PoolConsistent'
         /\ \A x, r : r # NoRequest /\ HeldFor(x, r) => HeldFor(x, r)'
         /\ HeldFor(k, q)'
  BY DEF TypeOK, DeskTypeOK, KeyRow, PoolConsistent, PopKey, FreeKeys, InPool, Issued, HeldFor,
     Categories

(***************************************************************************)
(* What the steps of others leave intact of a decider's locals and of the  *)
(* decided rows: a request keeps its shape once it exists, a key its       *)
(* holder.                                                                 *)
(***************************************************************************)
SettledRows ==
  \A r \in RequestIds : requests[r].status # "absent" =>
    requests'[r].status # "absent" /\ requests'[r].shape = requests[r].shape

HeldKeys == \A x : \A r \in RequestIds : HeldFor(x, r) => HeldFor(x, r)'

LEMMA DeciderKept ==
  ASSUME NEW e \in Deciders, DeciderOK(e), SettledRows, HeldKeys, dec'[e] = dec[e]
  PROVE  DeciderOK(e)'
<1>1. dec[e].at # "idle" => Known(e)'
  BY DEF DeciderOK, Known, SettledRows
<1>2. dec[e].at = "decide" => PoppedKeyHeld(e)'
  BY DEF DeciderOK, Known, PoppedKeyHeld, HeldKeys
<1>3. dec[e].at = "decide" => ApprovalCarriesKey(e)'
  BY DEF DeciderOK, Known, ApprovalCarriesKey, SettledRows
<1>4. dec[e].at = "pop" => NeedsKey(requests'[dec[e].req].shape)
  BY DEF DeciderOK, Known, SettledRows
<1> QED BY <1>1, <1>2, <1>3, <1>4 DEF DeciderOK, NeedsKey, KeyCategory, IsGiveaway, IsSub

LEMMA DeciderIdle ==
  ASSUME NEW e \in Deciders, dec'[e] = IdleDec
  PROVE  DeciderOK(e)'
  BY DEF DeciderOK, IdleDec

LEMMA RowsKept ==
  ASSUME AutoKeyReserved, KeyApprovalHasKey, requests' = requests, HeldKeys
  PROVE  AutoKeyReserved' /\ KeyApprovalHasKey'
<1>1. AutoKeyReserved'
  BY DEF AutoKeyReserved, HeldKeys, HeldFor
<1> QED BY <1>1 DEF KeyApprovalHasKey

LEMMA StepKeyInv ==
  ASSUME KeyInv, [Next]_vars
  PROVE  KeyInv'
<1> USE DEF KeyInv
<1>0. TypeOK'
  BY StepTypeOK
<1>1. ASSUME UNCHANGED <<requests, pool, dec>>
      PROVE  KeyInv'
  <2>1. SettledRows /\ HeldKeys
    BY <1>1 DEF SettledRows, HeldKeys, HeldFor, InPool
  <2>2. DeciderInv'
    BY <1>1, <2>1, DeciderKept DEF DeciderInv
  <2>3. PoolConsistent'
    BY <1>1 DEF PoolConsistent, InPool, Issued
  <2> QED BY <1>0, <1>1, <2>1, <2>2, <2>3, RowsKept
<1>2. ASSUME NEW s \in Submitters, InsertRow(s), UNCHANGED deskVars
      PROVE  KeyInv'
  <2>1. PICK r \in RequestIds :
          /\ requests[r].status = "absent"
          /\ requests' = [requests EXCEPT ![r] =
               [BlankRow EXCEPT !.status = "pending", !.shape = sub[s].shape,
                                !.account = sub[s].account, !.week = sub[s].week]]
    BY <1>2 DEF InsertRow, InsertRequest
  <2>2. /\ requests'[r].status = "pending" /\ requests'[r].auto = FALSE
        /\ \A q \in RequestIds \ {r} : requests'[q] = requests[q]
    BY <2>1 DEF TypeOK, DeskTypeOK, BlankRow
  <2>3. SettledRows /\ HeldKeys
    BY <1>2, <2>1, <2>2 DEF SettledRows, HeldKeys, HeldFor, InPool, deskVars
  <2>4. DeciderInv'
    BY <1>2, <2>3, DeciderKept DEF DeciderInv, deskVars
  <2>5. PoolConsistent'
    BY <1>2 DEF PoolConsistent, InPool, Issued, deskVars
  <2>6. AutoKeyReserved'
    BY <1>2, <2>2 DEF AutoKeyReserved, InPool, deskVars
  <2>7. KeyApprovalHasKey'
    BY <2>2 DEF KeyApprovalHasKey
  <2> QED BY <1>0, <2>4, <2>5, <2>6, <2>7
<1>3. ASSUME NEW d \in Deciders, NEW r \in RequestIds, NEW verdict \in Decided,
             NEW text \in Typed, GetPending(d, r, verdict, text)
      PROVE  KeyInv'
  <2>1. SettledRows /\ HeldKeys
    BY <1>3 DEF GetPending, SettledRows, HeldKeys, HeldFor, InPool
  <2>2. DeciderOK(d)'
    BY <1>3 DEF GetPending, DeciderOK, Known, PoppedKeyHeld, ApprovalCarriesKey, TypeOK, DeskTypeOK
  <2>3. \A e \in Deciders \ {d} : dec'[e] = dec[e]
    BY <1>3 DEF GetPending, TypeOK, DeskTypeOK
  <2>4. DeciderInv'
    BY <2>1, <2>2, <2>3, DeciderKept DEF DeciderInv
  <2>5. PoolConsistent'
    BY <1>3 DEF GetPending, PoolConsistent, InPool, Issued
  <2> QED BY <1>0, <1>3, <2>1, <2>4, <2>5, RowsKept DEF GetPending
<1>4. ASSUME NEW d \in Deciders, PopForRequest(d)
      PROVE  KeyInv'
  <2>1. dec[d].at = "pop" /\ requests' = requests
    BY <1>4 DEF PopForRequest
  <2>2. PICK q \in RequestIds : q = dec[d].req
    BY <2>1 DEF DeciderInv, DeciderOK, Known
  <2>3. PICK k \in Keys :
          /\ PopKey(KeyCategory(requests[q].shape), q, k)
          /\ dec' = [dec EXCEPT ![d].at = "decide", ![d].text = k, ![d].auto = TRUE]
    BY <1>4, <2>2 DEF PopForRequest
  <2>4. Known(d) /\ dec[d].verdict = "approved"
    BY <2>1 DEF DeciderInv, DeciderOK
  <2>5. KeyCategory(requests[q].shape) \in Categories
    BY <2>2, <2>1 DEF DeciderInv, DeciderOK, NeedsKey, KeyCategory, Categories
  <2>6. PoolConsistent' /\ HeldKeys /\ HeldFor(k, q)'
    BY <2>3, <2>5, PopKeyKeeps, NoRequestAssumption DEF HeldKeys
  <2>7. SettledRows
    BY <2>1 DEF SettledRows
  <2>8. dec'[d] = [dec[d] EXCEPT !.at = "decide", !.text = k, !.auto = TRUE]
    BY <2>3 DEF TypeOK, DeskTypeOK
  <2>9. /\ dec'[d].at = "decide" /\ dec'[d].text = k /\ dec'[d].req = q
        /\ dec'[d].verdict = "approved"
    BY <2>2, <2>4, <2>8 DEF TypeOK, DeskTypeOK, DecState
  <2>10. DeciderOK(d)'
    <3>1. Known(d)'
      BY <2>2, <2>1, <2>4, <2>9 DEF Known
    <3>2. PoppedKeyHeld(d)'
      BY <2>6, <2>9 DEF PoppedKeyHeld, HeldFor
    <3>3. ApprovalCarriesKey(d)'
      BY <2>9, PoolAssumption DEF ApprovalCarriesKey
    <3> QED BY <2>9, <3>1, <3>2, <3>3 DEF DeciderOK
  <2>11. \A e \in Deciders \ {d} : dec'[e] = dec[e]
    BY <2>3 DEF TypeOK, DeskTypeOK
  <2>12. DeciderInv'
    BY <2>6, <2>7, <2>10, <2>11, DeciderKept DEF DeciderInv
  <2> QED BY <1>0, <2>1, <2>6, <2>12, RowsKept
<1>5. ASSUME NEW d \in Deciders, dec' = [dec EXCEPT ![d] = IdleDec],
             UNCHANGED <<requests, pool>>
      PROVE  KeyInv'
  <2>1. SettledRows /\ HeldKeys
    BY <1>5 DEF SettledRows, HeldKeys, HeldFor, InPool
  <2>2. DeciderOK(d)' /\ \A e \in Deciders \ {d} : dec'[e] = dec[e]
    BY <1>5, DeciderIdle DEF TypeOK, DeskTypeOK
  <2>3. DeciderInv'
    BY <2>1, <2>2, DeciderKept DEF DeciderInv
  <2>4. PoolConsistent'
    BY <1>5 DEF PoolConsistent, InPool, Issued
  <2> QED BY <1>0, <1>5, <2>1, <2>3, <2>4, RowsKept
<1>6. ASSUME NEW d \in Deciders, DecideWins(d)
      PROVE  KeyInv'
  <2> DEFINE q == dec[d].req
  <2>1. /\ dec[d].at = "decide" /\ requests[q].status = "pending"
        /\ dec' = [dec EXCEPT ![d].at = "notify"]
        /\ requests' = [requests EXCEPT ![q].status = dec[d].verdict,
                          ![q].text = dec[d].text, ![q].auto = dec[d].auto]
        /\ pool' = pool
    BY <1>6 DEF DecideWins, DecideRow
  <2>2. q \in RequestIds /\ PoppedKeyHeld(d) /\ ApprovalCarriesKey(d)
    BY <2>1 DEF DeciderInv, DeciderOK, Known
  <2>3. requests'[q] = [requests[q] EXCEPT !.status = dec[d].verdict,
                          !.text = dec[d].text, !.auto = dec[d].auto]
    BY <2>1, <2>2 DEF TypeOK, DeskTypeOK
  <2>4. /\ requests'[q].status = dec[d].verdict /\ requests'[q].text = dec[d].text
        /\ requests'[q].auto = dec[d].auto /\ requests'[q].shape = requests[q].shape
    BY <2>2, <2>3 DEF TypeOK, DeskTypeOK, Row
  <2>5. \A r \in RequestIds \ {q} : requests'[r] = requests[r]
    BY <2>1 DEF TypeOK, DeskTypeOK
  <2>6. dec[d].verdict # "absent"
    BY DEF TypeOK, DeskTypeOK, DecState, Decided
  <2>7. SettledRows /\ HeldKeys
    BY <2>1, <2>4, <2>5, <2>6 DEF SettledRows, HeldKeys, HeldFor, InPool
  <2>8. \A e \in Deciders \ {d} : dec'[e] = dec[e]
    BY <2>1 DEF TypeOK, DeskTypeOK
  <2>9. dec'[d].at = "notify" /\ dec'[d].req = q
    BY <2>1 DEF TypeOK, DeskTypeOK, DecState
  <2>10. DeciderOK(d)'
    BY <2>2, <2>4, <2>6, <2>9 DEF DeciderOK, Known
  <2>11. DeciderInv'
    BY <2>7, <2>8, <2>10, DeciderKept DEF DeciderInv
  <2>12. PoolConsistent'
    BY <2>1 DEF PoolConsistent, InPool, Issued
  <2>13. AutoKeyReserved'
    <3>1. requests'[q].auto => requests'[q].status = "approved" /\ HeldFor(requests'[q].text, q)
      BY <2>2, <2>4 DEF PoppedKeyHeld
    <3>2. \A r \in RequestIds \ {q} : requests'[r].auto =>
            requests'[r].status = "approved" /\ HeldFor(requests'[r].text, r)
      BY <2>5 DEF AutoKeyReserved, HeldFor
    <3> QED BY <2>1, <2>2, <3>1, <3>2 DEF AutoKeyReserved, HeldFor, InPool
  <2>14. KeyApprovalHasKey'
    BY <2>2, <2>4, <2>5 DEF KeyApprovalHasKey, ApprovalCarriesKey
  <2> QED BY <1>0, <2>11, <2>12, <2>13, <2>14
<1>7. ASSUME PoolConsistent', HeldKeys, UNCHANGED <<requests, dec>>
      PROVE  KeyInv'
  <2>1. SettledRows
    BY <1>7 DEF SettledRows
  <2>2. DeciderInv'
    BY <1>7, <2>1, DeciderKept DEF DeciderInv
  <2> QED BY <1>0, <1>7, <2>2, RowsKept
<1>8. ASSUME NEW cat \in Categories, NEW k \in Keys, AddKey(cat, k),
             UNCHANGED <<requests, dec>>
      PROVE  KeyInv'
  BY <1>7, <1>8, AddKeyKeeps, NoRequestAssumption DEF HeldKeys
<1>9. ASSUME NEW k \in Keys, DeleteKey(k), UNCHANGED <<requests, dec>>
      PROVE  KeyInv'
  BY <1>7, <1>9, DeleteKeyKeeps, NoRequestAssumption DEF HeldKeys
<1>10. ASSUME Crash
       PROVE  KeyInv'
  <2>1. HeldKeys
    BY <1>10 DEF Crash, HeldKeys, HeldFor, InPool
  <2>2. DeciderInv'
    BY <1>10, DeciderIdle DEF Crash, DeciderInv
  <2>3. PoolConsistent'
    BY <1>10 DEF Crash, PoolConsistent, InPool, Issued
  <2> QED BY <1>0, <1>10, <2>1, <2>2, <2>3, RowsKept DEF Crash
<1> QED
  BY StepCases, <1>1, <1>2, <1>3, <1>4, <1>5, <1>6, <1>8, <1>9, <1>10
  DEF ReadWeek, CountPending, CountFails, InsertFails, PopFails, DecideLoses,
      NotifyApplicant, WindowOpens, WindowCloses, deskVars, vars

(***************************************************************************)
(* A key handed over from the stock belongs to the request it was handed   *)
(* over with, however deciders, administrators and crashes interleave.     *)
(***************************************************************************)
THEOREM KeysReserved == Spec => []AutoKeyReserved
<1>1. KeyInv => AutoKeyReserved
  BY DEF KeyInv
<1> QED BY InitKeyInv, StepKeyInv, <1>1, PTL DEF Spec

(***************************************************************************)
(* No key request is approved empty-handed.                                *)
(***************************************************************************)
THEOREM ApprovalsCarryKeys == Spec => []KeyApprovalHasKey
<1>1. KeyInv => KeyApprovalHasKey
  BY DEF KeyInv
<1> QED BY InitKeyInv, StepKeyInv, <1>1, PTL DEF Spec

-----------------------------------------------------------------------------
(***************************************************************************)
(* A row changes when it is inserted and when it is decided.               *)
(***************************************************************************)
LEMMA RowChanges ==
  ASSUME TypeOK, [Next]_vars, NEW r \in RequestIds, requests'[r] # requests[r]
  PROVE  requests[r].status \in {"absent", "pending"}
<1>1. ASSUME NEW s \in Submitters, InsertRow(s)
      PROVE  requests[r].status = "absent"
  BY <1>1 DEF InsertRow, InsertRequest, TypeOK, DeskTypeOK
<1>2. ASSUME NEW d \in Deciders, DecideWins(d)
      PROVE  requests[r].status = "pending"
  BY <1>2 DEF DecideWins, DecideRow, TypeOK, DeskTypeOK
<1> QED
  BY StepCases, <1>1, <1>2
  DEF ReadWeek, CountPending, CountFails, InsertFails, GetPending, PopForRequest,
      PopFails, DecideLoses, NotifyApplicant, WindowOpens, WindowCloses, Crash, vars

(***************************************************************************)
(* A decision is final.                                                    *)
(***************************************************************************)
THEOREM DecisionsFinal == Spec => DecisionFinal
<1>1. ASSUME TypeOK, [Next]_vars
      PROVE  \A r \in RequestIds :
               requests[r].status \in Decided => requests'[r] = requests[r]
  BY <1>1, RowChanges DEF Decided
<1> QED BY TypeCorrect, <1>1, PTL DEF Spec, DecisionFinal

-----------------------------------------------------------------------------
(***************************************************************************)
(* PayoutDesk implements RequestLedger: initial states map to initial      *)
(* states, and each step maps to a step of the ledger or to a stutter.     *)
(* The invariant KeyInv is what makes the steps match: it says that a      *)
(* decider's key is held for its request (Approve), that only existing     *)
(* requests receive keys (Issue), and that a code which is not in the      *)
(* table has no holder (AddKey is a stutter).                              *)
(***************************************************************************)

LEMMA InitLedger == Init => Ledger!Init
  BY DEF Init, RequestsInit, DeskInit, PoolInit, Missing, BlankRow,
     Ledger!Init, verdictBar, holderBar, givenBar

(***************************************************************************)
(* Steps that leave the rows and the holders alone are stutters.           *)
(***************************************************************************)
LEMMA LedgerStutter ==
  ASSUME requests' = requests, holderBar' = holderBar
  PROVE  UNCHANGED Ledger!ledgerVars
  BY DEF Ledger!ledgerVars, verdictBar, givenBar

LEMMA InsertIsSubmit ==
  ASSUME KeyInv, NEW s \in Submitters, InsertRow(s), UNCHANGED deskVars
  PROVE  Ledger!Next
<1> USE DEF KeyInv
<1>1. PICK r \in RequestIds :
        /\ requests[r].status = "absent"
        /\ requests' = [requests EXCEPT ![r] =
             [BlankRow EXCEPT !.status = "pending", !.shape = sub[s].shape,
                              !.account = sub[s].account, !.week = sub[s].week]]
  BY DEF InsertRow, InsertRequest
<1>2. /\ requests'[r].status = "pending" /\ requests'[r].auto = FALSE
      /\ \A q \in RequestIds \ {r} : requests'[q] = requests[q]
  BY <1>1 DEF TypeOK, DeskTypeOK, BlankRow
<1>3. requests[r].auto = FALSE
  BY <1>1 DEF TypeOK, DeskTypeOK, Row, AutoKeyReserved
<1>4. verdictBar' = [verdictBar EXCEPT ![r] = "pending"]
  BY <1>2 DEF verdictBar
<1>5. givenBar' = givenBar
  BY <1>2, <1>3 DEF givenBar
<1>6. holderBar' = holderBar
  BY DEF holderBar, deskVars
<1>7. Ledger!Submit(r)
  BY <1>1, <1>4, <1>5, <1>6 DEF Ledger!Submit, verdictBar
<1> QED BY <1>7 DEF Ledger!Next

LEMMA PopIsIssue ==
  ASSUME KeyInv, NEW d \in Deciders, PopForRequest(d)
  PROVE  Ledger!Next
<1> USE DEF KeyInv
<1>1. PICK r \in RequestIds : r = dec[d].req /\ requests[r].status # "absent"
  BY DEF PopForRequest, DeciderInv, DeciderOK, Known
<1>2. PICK k \in Keys : PopKey(KeyCategory(requests[r].shape), r, k)
  BY <1>1 DEF PopForRequest
<1>3. pool[k].holder = NoRequest /\ pool' = [pool EXCEPT ![k].holder = r]
  BY <1>2 DEF PopKey, FreeKeys, Issued
<1>4. pool'[k].holder = r /\ \A x \in Keys \ {k} : pool'[x] = pool[x]
  BY <1>3 DEF TypeOK, DeskTypeOK, KeyRow
<1>5. holderBar' = [holderBar EXCEPT ![k] = r]
  BY <1>4 DEF holderBar
<1>6. verdictBar' = verdictBar /\ givenBar' = givenBar
  BY DEF PopForRequest, verdictBar, givenBar
<1>7. Ledger!Issue(k, r)
  BY <1>1, <1>3, <1>5, <1>6 DEF Ledger!Issue, verdictBar, holderBar
<1> QED BY <1>7 DEF Ledger!Next

LEMMA DecideIsVerdict ==
  ASSUME KeyInv, NEW d \in Deciders, DecideWins(d)
  PROVE  Ledger!Next
<1> USE DEF KeyInv
<1>1. PICK r \in RequestIds : r = dec[d].req
  BY DEF DecideWins, DeciderInv, DeciderOK, Known
<1>2. /\ dec[d].at = "decide" /\ requests[r].status = "pending" /\ pool' = pool
      /\ requests' = [requests EXCEPT ![r].status = dec[d].verdict,
                        ![r].text = dec[d].text, ![r].auto = dec[d].auto]
  BY <1>1 DEF DecideWins, DecideRow
<1>3. /\ requests'[r].status = dec[d].verdict /\ requests'[r].text = dec[d].text
      /\ requests'[r].auto = dec[d].auto
      /\ \A q \in RequestIds \ {r} : requests'[q] = requests[q]
  <2>1. requests'[r] = [requests[r] EXCEPT !.status = dec[d].verdict,
                          !.text = dec[d].text, !.auto = dec[d].auto]
    BY <1>2 DEF TypeOK, DeskTypeOK
  <2>2. \A q \in RequestIds \ {r} : requests'[q] = requests[q]
    BY <1>2 DEF TypeOK, DeskTypeOK
  <2> QED BY <2>1, <2>2 DEF TypeOK, DeskTypeOK, Row
<1>4. verdictBar' = [verdictBar EXCEPT ![r] = dec[d].verdict]
  BY <1>3 DEF verdictBar
<1>5. givenBar' = [givenBar EXCEPT ![r] = IF dec[d].auto THEN dec[d].text ELSE NoText]
  BY <1>3 DEF givenBar
<1>6. givenBar[r] = NoText
  BY <1>2 DEF givenBar, AutoKeyReserved
<1>7. holderBar' = holderBar
  BY <1>2 DEF holderBar
<1>8. verdictBar[r] = "pending"
  BY <1>2 DEF verdictBar
<1>9. dec[d].auto => /\ dec[d].verdict = "approved" /\ dec[d].text \in Keys
                     /\ holderBar[dec[d].text] = r
  BY <1>1, <1>2 DEF DeciderInv, DeciderOK, PoppedKeyHeld, HeldFor, holderBar
<1>10. CASE dec[d].verdict = "approved"
  <2>1. (IF dec[d].auto THEN dec[d].text ELSE NoText)
          \in {NoText} \cup {x \in Keys : holderBar[x] = r}
    BY <1>9
  <2>2. Ledger!Approve(r)
    BY <1>4, <1>5, <1>7, <1>8, <1>10, <2>1 DEF Ledger!Approve
  <2> QED BY <2>2 DEF Ledger!Next
<1>11. CASE dec[d].verdict = "rejected"
  <2>1. givenBar' = givenBar
    <3>1. dec[d].auto = FALSE
      BY <1>9, <1>11 DEF TypeOK, DeskTypeOK, DecState
    <3> QED BY <1>5, <1>6, <3>1 DEF givenBar
  <2>2. Ledger!Reject(r)
    BY <1>4, <1>7, <1>8, <1>11, <2>1 DEF Ledger!Reject
  <2> QED BY <2>2 DEF Ledger!Next
<1> QED BY <1>10, <1>11 DEF TypeOK, DeskTypeOK, DecState, Decided

LEMMA StockIsStutter ==
  ASSUME KeyInv, requests' = requests,
         \/ \E cat \in Categories, k \in Keys : AddKey(cat, k)
         \/ \E k \in Keys : DeleteKey(k)
  PROVE  UNCHANGED Ledger!ledgerVars
<1> USE DEF KeyInv
<1>1. ASSUME NEW cat \in Categories, NEW k \in Keys, AddKey(cat, k)
      PROVE  holderBar' = holderBar
  BY <1>1 DEF AddKey, PoolConsistent, Issued, holderBar, TypeOK, DeskTypeOK
<1>2. ASSUME NEW k \in Keys, DeleteKey(k)
      PROVE  holderBar' = holderBar
  BY <1>2 DEF DeleteKey, Issued, Missing, holderBar, TypeOK, DeskTypeOK
<1> QED BY <1>1, <1>2, LedgerStutter

LEMMA StepLedger ==
  ASSUME KeyInv, [Next]_vars
  PROVE  [Ledger!Next]_(Ledger!ledgerVars)
<1>1. ASSUME UNCHANGED <<requests, pool>>
      PROVE  UNCHANGED Ledger!ledgerVars
  BY <1>1, LedgerStutter DEF holderBar
<1> QED
  BY StepCases, <1>1, InsertIsSubmit, PopIsIssue, DecideIsVerdict, StockIsStutter
  DEF ReadWeek, CountPending, CountFails, InsertFails, GetPending, PopFails, DecideLoses,
      NotifyApplicant, WindowOpens, WindowCloses, Crash, deskVars, vars

(***************************************************************************)
(* The desk implements the ledger.                                         *)
(***************************************************************************)
THEOREM DeskImplementsLedger == Spec => LedgerSpec
<1>1. ASSUME KeyInv, [Next]_vars
      PROVE  [Ledger!Next]_(Ledger!ledgerVars)
  BY <1>1, StepLedger
<1> QED
  BY InitLedger, InitKeyInv, StepKeyInv, <1>1, PTL DEF Spec, LedgerSpec, Ledger!Spec

-----------------------------------------------------------------------------
(***************************************************************************)
(* Proof that applicants are told the truth, once.                         *)
(***************************************************************************)

(***************************************************************************)
(* NoticeTruthful is not inductive: it needs that a request nobody decided *)
(* was not announced, that a decider about to announce carries what it     *)
(* wrote in the row and is the only one about to announce that request,    *)
(* and that nothing was announced about it before.                         *)
(***************************************************************************)
QuietUntilDecided ==
  \A r \in RequestIds : requests[r].status \notin Decided => notices[r] = <<>>

Announcing(d) == dec[d].at = "notify"

AboutToTell(d) ==
  LET r == dec[d].req IN
  /\ r \in RequestIds
  /\ requests[r].status = dec[d].verdict
  /\ requests[r].text = dec[d].text
  /\ notices[r] = <<>>

OneAnnouncer ==
  \A d, e \in Deciders : Announcing(d) /\ Announcing(e) /\ dec[d].req = dec[e].req => d = e

TellersReady == \A d \in Deciders : Announcing(d) => AboutToTell(d)

NoticeInv == KeyInv /\ QuietUntilDecided /\ TellersReady /\ OneAnnouncer /\ NoticeTruthful

LEMMA InitNoticeInv == Init => NoticeInv
<1>1. Init => QuietUntilDecided /\ TellersReady /\ OneAnnouncer /\ NoticeTruthful
  BY DEF Init, DeskInit, IdleDec, QuietUntilDecided, TellersReady, OneAnnouncer,
     NoticeTruthful, Announcing
<1> QED BY <1>1, InitKeyInv DEF NoticeInv

LEMMA StepNoticeInv ==
  ASSUME NoticeInv, [Next]_vars
  PROVE  NoticeInv'
<1> USE DEF NoticeInv
<1>0. KeyInv' /\ TypeOK
  BY StepKeyInv DEF KeyInv
<1>1. ASSUME UNCHANGED <<requests, notices>>,
             \A e \in Deciders : dec'[e] = dec[e] \/ dec'[e].at # "notify"
      PROVE  NoticeInv'
  <2>1. QuietUntilDecided' /\ NoticeTruthful'
    BY <1>1 DEF QuietUntilDecided, NoticeTruthful
  <2>2. TellersReady'
    BY <1>1 DEF TellersReady, Announcing, AboutToTell
  <2>3. OneAnnouncer'
    BY <1>1 DEF OneAnnouncer, Announcing
  <2> QED BY <1>0, <2>1, <2>2, <2>3
<1>2. ASSUME NEW s \in Submitters, InsertRow(s), UNCHANGED deskVars
      PROVE  NoticeInv'
  <2>1. PICK r \in RequestIds :
          /\ requests[r].status = "absent"
          /\ requests' = [requests EXCEPT ![r] =
               [BlankRow EXCEPT !.status = "pending", !.shape = sub[s].shape,
                                !.account = sub[s].account, !.week = sub[s].week]]
    BY <1>2 DEF InsertRow, InsertRequest
  <2>2. \A q \in RequestIds \ {r} : requests'[q] = requests[q]
    BY <1>0, <2>1 DEF TypeOK, DeskTypeOK
  <2>3. notices[r] = <<>> /\ notices' = notices /\ dec' = dec
    BY <1>2, <2>1 DEF QuietUntilDecided, Decided, deskVars
  <2>4. QuietUntilDecided' /\ NoticeTruthful'
    BY <2>2, <2>3 DEF QuietUntilDecided, NoticeTruthful
  <2>5. \A e \in Deciders : Announcing(e) => dec[e].req # r
    BY <1>0, <2>1 DEF TellersReady, AboutToTell, TypeOK, DeskTypeOK, DecState, Decided
  <2>6. TellersReady'
    BY <2>2, <2>3, <2>5 DEF TellersReady, Announcing, AboutToTell
  <2>7. OneAnnouncer'
    BY <2>3 DEF OneAnnouncer, Announcing
  <2> QED BY <1>0, <2>4, <2>6, <2>7
<1>3. ASSUME NEW d \in Deciders, DecideWins(d)
      PROVE  NoticeInv'
  <2>1. PICK r \in RequestIds : r = dec[d].req
    BY <1>3 DEF DecideWins, KeyInv, DeciderInv, DeciderOK, Known
  <2>2. /\ requests[r].status = "pending" /\ notices' = notices
        /\ dec' = [dec EXCEPT ![d].at = "notify"]
        /\ requests' = [requests EXCEPT ![r].status = dec[d].verdict,
                          ![r].text = dec[d].text, ![r].auto = dec[d].auto]
    BY <1>3, <2>1 DEF DecideWins, DecideRow
  <2>3. \A q \in RequestIds \ {r} : requests'[q] = requests[q]
    BY <1>0, <2>2 DEF TypeOK, DeskTypeOK
  <2>4. requests'[r].status = dec[d].verdict /\ requests'[r].text = dec[d].text
    <3>1. requests'[r] = [requests[r] EXCEPT !.status = dec[d].verdict,
                            !.text = dec[d].text, !.auto = dec[d].auto]
      BY <1>0, <2>2 DEF TypeOK, DeskTypeOK
    <3> QED BY <1>0, <3>1 DEF TypeOK, DeskTypeOK, Row
  <2>5. /\ dec'[d].at = "notify" /\ dec'[d].req = r
        /\ dec'[d].verdict = dec[d].verdict /\ dec'[d].text = dec[d].text
        /\ \A e \in Deciders \ {d} : dec'[e] = dec[e]
    <3>1. /\ dec'[d] = [dec[d] EXCEPT !.at = "notify"]
          /\ \A e \in Deciders \ {d} : dec'[e] = dec[e]
      BY <1>0, <2>2 DEF TypeOK, DeskTypeOK
    <3> QED BY <1>0, <2>1, <3>1 DEF TypeOK, DeskTypeOK, DecState
  <2>6. notices[r] = <<>>
    BY <2>2 DEF QuietUntilDecided, Decided
  <2>7. \A e \in Deciders : Announcing(e) => dec[e].req # r
    BY <1>0, <2>2 DEF TellersReady, AboutToTell, TypeOK, DeskTypeOK, DecState, Decided
  <2>8. QuietUntilDecided' /\ NoticeTruthful'
    <3>1. QuietUntilDecided'
      BY <2>2, <2>3, <2>6 DEF QuietUntilDecided
    <3>2. Len(notices[r]) <= 1 /\ DOMAIN notices[r] = {}
      BY <2>6
    <3>3. NoticeTruthful'
      <4>1. ASSUME NEW q \in RequestIds \ {r}
            PROVE  /\ Len(notices[q]) <= 1
                   /\ \A i \in DOMAIN notices[q] :
                        /\ requests'[q].status = notices[q][i].verdict
                        /\ requests'[q].text = notices[q][i].text
        BY <2>3 DEF NoticeTruthful
      <4>2. \A i \in DOMAIN notices[r] : FALSE
        BY <3>2
      <4>3. notices' = notices
        BY <2>2
      <4> QED BY <3>2, <4>1, <4>2, <4>3, Zenon DEF NoticeTruthful
    <3> QED BY <3>1, <3>3
  <2>9. TellersReady'
    <3> SUFFICES ASSUME NEW e \in Deciders, dec'[e].at = "notify"
                 PROVE  AboutToTell(e)'
      BY DEF TellersReady, Announcing
    <3>1. CASE e = d
      BY <2>2, <2>4, <2>5, <2>6, <3>1 DEF AboutToTell
    <3>2. CASE e # d
      <4>1. dec'[e] = dec[e] /\ AboutToTell(e) /\ dec[e].req # r
        BY <2>5, <2>7, <3>2 DEF TellersReady, Announcing
      <4> QED BY <2>2, <2>3, <4>1 DEF AboutToTell
    <3> QED BY <3>1, <3>2
  <2>10. OneAnnouncer'
    BY <2>5, <2>7 DEF OneAnnouncer, Announcing
  <2> QED BY <1>0, <2>8, <2>9, <2>10
<1>4. ASSUME NEW d \in Deciders, NotifyApplicant(d)
      PROVE  NoticeInv'
  <2>1. PICK r \in RequestIds : r = dec[d].req /\ notices[r] = <<>>
    BY <1>4 DEF NotifyApplicant, TellersReady, Announcing, AboutToTell
  <2>2. /\ requests' = requests /\ Announcing(d)
        /\ requests[r].status = dec[d].verdict /\ requests[r].text = dec[d].text
    BY <1>4, <2>1 DEF NotifyApplicant, TellersReady, Announcing, AboutToTell
  <2>3. dec'[d].at = "idle" /\ \A e \in Deciders \ {d} : dec'[e] = dec[e]
    BY <1>0, <1>4 DEF NotifyApplicant, TypeOK, DeskTypeOK, IdleDec
  <2>4. \A q \in RequestIds \ {r} : notices'[q] = notices[q]
    BY <1>0, <1>4, <2>1 DEF NotifyApplicant, TypeOK, DeskTypeOK
  <2> DEFINE notice == [verdict |-> dec[d].verdict, text |-> dec[d].text]
  <2>5. notices'[r] = <<>> \/ notices'[r] = <<notice>>
    <3>1. notices' = notices \/ notices' = [notices EXCEPT ![r] = Append(@, notice)]
      BY <1>4, <2>1 DEF NotifyApplicant
    <3>2. Append(<<>>, notice) = <<notice>>
      OBVIOUS
    <3> QED BY <1>0, <2>1, <3>1, <3>2 DEF TypeOK, DeskTypeOK
  <2>6. QuietUntilDecided'
    <3>1. requests[r].status \in Decided
      BY <1>0, <2>2 DEF TypeOK, DeskTypeOK, DecState
    <3> QED BY <2>2, <2>4, <3>1 DEF QuietUntilDecided
  <2>7. NoticeTruthful'
    <3>1. /\ Len(notices'[r]) <= 1
          /\ \A i \in DOMAIN notices'[r] : notices'[r][i] = notice
      <4>1. CASE notices'[r] = <<>>
        BY <4>1
      <4>2. CASE notices'[r] = <<notice>>
        <5> HIDE DEF notice
        <5> QED BY <4>2
      <4> QED BY <2>5, <4>1, <4>2
    <3>2. \A i \in DOMAIN notices'[r] : /\ requests'[r].status = notices'[r][i].verdict
                                        /\ requests'[r].text = notices'[r][i].text
      BY <2>2, <3>1
    <3> QED BY <2>2, <2>4, <3>1, <3>2 DEF NoticeTruthful
  <2>8. TellersReady'
    <3>1. \A e \in Deciders \ {d} : Announcing(e) => dec[e].req # r
      BY <2>1, <2>2 DEF OneAnnouncer
    <3> QED BY <2>2, <2>3, <2>4, <3>1 DEF TellersReady, Announcing, AboutToTell
  <2>9. OneAnnouncer'
    BY <2>3 DEF OneAnnouncer, Announcing
  <2> QED BY <1>0, <2>6, <2>7, <2>8, <2>9
<1>5. ASSUME NEW d \in Deciders, NEW r \in RequestIds, NEW verdict \in Decided,
             NEW text \in Typed, GetPending(d, r, verdict, text)
      PROVE  NoticeInv'
  <2>1. \A e \in Deciders : dec'[e] = dec[e] \/ dec'[e].at # "notify"
    BY <1>0, <1>5 DEF GetPending, TypeOK, DeskTypeOK
  <2> QED BY <1>1, <1>5, <2>1 DEF GetPending
<1>6. ASSUME NEW d \in Deciders, PopForRequest(d)
      PROVE  NoticeInv'
  <2>1. \A e \in Deciders : dec'[e] = dec[e] \/ dec'[e].at # "notify"
    BY <1>0, <1>6 DEF PopForRequest, TypeOK, DeskTypeOK, DecState
  <2> QED BY <1>1, <1>6, <2>1 DEF PopForRequest
<1>7. ASSUME NEW d \in Deciders, PopFails(d) \/ DecideLoses(d)
      PROVE  NoticeInv'
  <2>1. \A e \in Deciders : dec'[e] = dec[e] \/ dec'[e].at # "notify"
    BY <1>0, <1>7 DEF PopFails, DecideLoses, TypeOK, DeskTypeOK, IdleDec
  <2> QED BY <1>1, <1>7, <2>1 DEF PopFails, DecideLoses
<1>8. ASSUME Crash
      PROVE  NoticeInv'
  BY <1>1, <1>8 DEF Crash, IdleDec
<1> QED
  BY StepCases, <1>1, <1>2, <1>3, <1>4, <1>5, <1>6, <1>7, <1>8
  DEF ReadWeek, CountPending, CountFails, InsertFails, WindowOpens, WindowCloses, deskVars, vars

(***************************************************************************)
(* The applicant is told at most once, and told what the row says.         *)
(***************************************************************************)
THEOREM NoticesTruthful == Spec => []NoticeTruthful
<1>1. NoticeInv => NoticeTruthful
  BY DEF NoticeInv
<1> QED BY InitNoticeInv, StepNoticeInv, <1>1, PTL DEF Spec

-----------------------------------------------------------------------------
(***************************************************************************)
(* PendingBounded.  Whoever has passed the check and has not inserted yet  *)
(* counts like a pending row: the two together exceed the limit by no more *)
(* than the goroutines there are and the counts that failed.  Of the rows  *)
(* and goroutines of one account and kind those of one week count for a    *)
(* payout, all for the other kinds.                                        *)
(***************************************************************************)
SameLimit(kind, v, w) == kind = "payout" => v = w

Filed(a, kind, w) == {r \in PendingOf(a, kind) : SameLimit(kind, requests[r].week, w)}

Passed(a, kind, w) ==
  {s \in Submitters : /\ sub[s].at = "insert"
                      /\ sub[s].account = a
                      /\ sub[s].shape.kind = kind
                      /\ SameLimit(kind, sub[s].week, w)}

CountInv ==
  \A a \in Accounts, kind \in Kinds, w \in 0..MaxWeek :
    Cardinality(Filed(a, kind, w)) + Cardinality(Passed(a, kind, w))
      <= PendingLimit(kind) - 1 + Cardinality(Submitters) + miscounts

IntakeInv == IntakeTypeOK /\ CountInv

(***************************************************************************)
(* Of what the desk, the clock and a crash do, this is what the requests   *)
(* and the submitters notice.                                              *)
(***************************************************************************)
IntakeChange ==
  \/ \E s \in Submitters, a \in Accounts, shape \in Shapes : ReadWeek(s, a, shape)
  \/ \E s \in Submitters : CountPending(s)
  \/ \E s \in Submitters : CountFails(s)
  \/ \E s \in Submitters : InsertRow(s)
  \/ \E s \in Submitters : InsertFails(s)
  \/ /\ \E r \in RequestIds, verdict \in Decided, text \in Texts, auto \in BOOLEAN :
          DecideRow(r, verdict, text, auto)
     /\ UNCHANGED intakeVars
  \/ WindowOpens
  \/ WindowCloses
  \/ IntakeCrash
  \/ UNCHANGED <<requests, intakeVars>>

LEMMA CountsFinite ==
  \A a, kind, w :
    /\ IsFiniteSet(Filed(a, kind, w)) /\ Cardinality(Filed(a, kind, w)) \in Nat
    /\ IsFiniteSet(Passed(a, kind, w)) /\ Cardinality(Passed(a, kind, w)) \in Nat
    /\ Cardinality(Passed(a, kind, w)) <= Cardinality(Submitters)
    /\ Cardinality(Submitters) \in Nat
<1> TAKE a, kind, w
<1>1. Filed(a, kind, w) \subseteq RequestIds /\ Passed(a, kind, w) \subseteq Submitters
  BY DEF Filed, PendingOf, Passed
<1> QED BY <1>1, IdsAssumption, SubmittersAssumption, FS_Subset, FS_CardinalityType

LEMMA MiscountsNat == ASSUME IntakeTypeOK PROVE miscounts \in Nat
  BY MiscountsAssumption DEF IntakeTypeOK

(***************************************************************************)
(* Neither a step that only removes rows and goroutines from the counts    *)
(* can break the bound,                                                    *)
(***************************************************************************)
LEMMA FewerKeep ==
  ASSUME IntakeInv, NEW a \in Accounts, NEW kind \in Kinds, NEW w \in 0..MaxWeek,
         miscounts' = miscounts,
         Filed(a, kind, w)' \subseteq Filed(a, kind, w),
         Passed(a, kind, w)' \subseteq Passed(a, kind, w)
  PROVE  Cardinality(Filed(a, kind, w)') + Cardinality(Passed(a, kind, w)')
           <= PendingLimit(kind) - 1 + Cardinality(Submitters) + miscounts'
<1> DEFINE f == Cardinality(Filed(a, kind, w))
           p == Cardinality(Passed(a, kind, w))
           f1 == Cardinality(Filed(a, kind, w)')
           p1 == Cardinality(Passed(a, kind, w)')
           n == Cardinality(Submitters)
<1>1. f \in Nat /\ p \in Nat /\ n \in Nat
  BY CountsFinite
<1>2. f1 \in Nat /\ p1 \in Nat /\ f1 <= f /\ p1 <= p
  BY CountsFinite, FS_Subset, FS_CardinalityType
<1>3. f + p <= PendingLimit(kind) - 1 + n + miscounts
  BY DEF IntakeInv, CountInv
<1>4. PendingLimit(kind) \in Nat /\ miscounts \in Nat
  BY MiscountsNat DEF PendingLimit, IntakeInv
<1> HIDE DEF f, p, f1, p1, n
<1>5. f1 + p1 <= PendingLimit(kind) - 1 + n + miscounts'
  BY <1>1, <1>2, <1>3, <1>4
<1> QED BY <1>5 DEF f1, p1, n

(***************************************************************************)
(* nor one that passes the check, which found the limit not reached,       *)
(***************************************************************************)
LEMMA PassKeeps ==
  ASSUME IntakeInv, NEW a \in Accounts, NEW kind \in Kinds, NEW w \in 0..MaxWeek,
         miscounts' = miscounts,
         Cardinality(Filed(a, kind, w)) < PendingLimit(kind),
         Filed(a, kind, w)' = Filed(a, kind, w)
  PROVE  Cardinality(Filed(a, kind, w)') + Cardinality(Passed(a, kind, w)')
           <= PendingLimit(kind) - 1 + Cardinality(Submitters) + miscounts'
<1>1. Passed(a, kind, w)' \subseteq Submitters
  BY DEF Passed
<1> DEFINE f == Cardinality(Filed(a, kind, w))
           p1 == Cardinality(Passed(a, kind, w)')
           n == Cardinality(Submitters)
<1>2. f \in Nat /\ n \in Nat
  BY CountsFinite
<1>3. p1 \in Nat /\ p1 <= n
  BY <1>1, SubmittersAssumption, FS_Subset, FS_CardinalityType
<1>4. PendingLimit(kind) \in Nat /\ miscounts \in Nat
  BY MiscountsNat DEF PendingLimit, IntakeInv
<1>5. f < PendingLimit(kind)
  OBVIOUS
<1> HIDE DEF f, p1, n
<1>6. f + p1 <= PendingLimit(kind) - 1 + n + miscounts'
  BY <1>2, <1>3, <1>4, <1>5
<1> QED BY <1>6 DEF f, p1, n

(***************************************************************************)
(* nor a count that failed, which lets one goroutine pass and adds one to  *)
(* the bound,                                                              *)
(***************************************************************************)
LEMMA FailedCountKeeps ==
  ASSUME IntakeInv, NEW a \in Accounts, NEW kind \in Kinds, NEW w \in 0..MaxWeek,
         miscounts' = miscounts + 1, NEW s,
         Filed(a, kind, w)' = Filed(a, kind, w),
         Passed(a, kind, w)' \subseteq Passed(a, kind, w) \cup {s}
  PROVE  Cardinality(Filed(a, kind, w)') + Cardinality(Passed(a, kind, w)')
           <= PendingLimit(kind) - 1 + Cardinality(Submitters) + miscounts'
<1> DEFINE f == Cardinality(Filed(a, kind, w))
           p == Cardinality(Passed(a, kind, w))
           p1 == Cardinality(Passed(a, kind, w)')
           u == Cardinality(Passed(a, kind, w) \cup {s})
           n == Cardinality(Submitters)
<1>1. f \in Nat /\ p \in Nat /\ n \in Nat
  BY CountsFinite
<1>2. IsFiniteSet(Passed(a, kind, w) \cup {s}) /\ u \in {p, p + 1}
  BY CountsFinite, FS_AddElement
<1>3. p1 \in Nat /\ p1 <= u
  BY <1>2, FS_Subset, FS_CardinalityType
<1>4. f + p <= PendingLimit(kind) - 1 + n + miscounts
  BY DEF IntakeInv, CountInv
<1>5. PendingLimit(kind) \in Nat /\ miscounts \in Nat
  BY MiscountsNat DEF PendingLimit, IntakeInv
<1> HIDE DEF f, p, p1, u, n
<1>6. f + p1 <= PendingLimit(kind) - 1 + n + miscounts'
  BY <1>1, <1>2, <1>3, <1>4, <1>5
<1> QED BY <1>6 DEF f, p1, n

(***************************************************************************)
(* nor an insertion, which turns a goroutine into a row.                   *)
(***************************************************************************)
LEMMA InsertKeeps ==
  ASSUME IntakeInv, NEW a \in Accounts, NEW kind \in Kinds, NEW w \in 0..MaxWeek,
         miscounts' = miscounts,
         NEW r, Filed(a, kind, w)' \subseteq Filed(a, kind, w) \cup {r},
         NEW s \in Passed(a, kind, w), Passed(a, kind, w)' \subseteq Passed(a, kind, w) \ {s}
  PROVE  Cardinality(Filed(a, kind, w)') + Cardinality(Passed(a, kind, w)')
           <= PendingLimit(kind) - 1 + Cardinality(Submitters) + miscounts'
<1> DEFINE f == Cardinality(Filed(a, kind, w))
           p == Cardinality(Passed(a, kind, w))
           f1 == Cardinality(Filed(a, kind, w)')
           p1 == Cardinality(Passed(a, kind, w)')
           n == Cardinality(Submitters)
<1>1. f \in Nat /\ p \in Nat /\ n \in Nat
  BY CountsFinite
<1>2. f1 \in Nat /\ f1 <= f + 1
  <2> DEFINE u == Cardinality(Filed(a, kind, w) \cup {r})
  <2>1. IsFiniteSet(Filed(a, kind, w) \cup {r}) /\ u \in {f, f + 1}
    BY CountsFinite, FS_AddElement
  <2>2. f1 <= u
    BY <2>1, FS_Subset
  <2>3. f1 \in Nat
    BY <2>1, FS_Subset, FS_CardinalityType
  <2> HIDE DEF f, f1, u
  <2> QED BY <2>1, <2>2, <2>3, <1>1
<1>3. p1 \in Nat /\ p1 <= p - 1
  <2>1. IsFiniteSet(Passed(a, kind, w) \ {s})
        /\ Cardinality(Passed(a, kind, w) \ {s}) = p - 1
    BY CountsFinite, FS_RemoveElement
  <2> QED BY <2>1, FS_Subset, FS_CardinalityType
<1>4. f + p <= PendingLimit(kind) - 1 + n + miscounts
  BY DEF IntakeInv, CountInv
<1>5. PendingLimit(kind) \in Nat /\ miscounts \in Nat
  BY MiscountsNat DEF PendingLimit, IntakeInv
<1> HIDE DEF f, p, f1, p1, n
<1>6. f1 + p1 <= PendingLimit(kind) - 1 + n + miscounts'
  BY <1>1, <1>2, <1>3, <1>4, <1>5
<1> QED BY <1>6 DEF f1, p1, n

LEMMA StepCountInv ==
  ASSUME IntakeInv, IntakeChange
  PROVE  CountInv'
<1> USE DEF IntakeInv
<1> SUFFICES ASSUME NEW a \in Accounts, NEW kind \in Kinds, NEW w \in 0..MaxWeek
             PROVE  Cardinality(Filed(a, kind, w)') + Cardinality(Passed(a, kind, w)')
                      <= PendingLimit(kind) - 1 + Cardinality(Submitters) + miscounts'
  BY DEF CountInv, PendingLimit
<1>1. ASSUME requests' = requests
      PROVE  Filed(a, kind, w)' = Filed(a, kind, w)
  BY <1>1 DEF Filed, PendingOf
<1>2. ASSUME sub' = sub
      PROVE  Passed(a, kind, w)' = Passed(a, kind, w)
  BY <1>2 DEF Passed
<1>3. ASSUME NEW s \in Submitters, NEW b \in Accounts, NEW shape \in Shapes,
             ReadWeek(s, b, shape)
      PROVE  /\ Passed(a, kind, w)' \subseteq Passed(a, kind, w)
             /\ requests' = requests /\ miscounts' = miscounts
  BY <1>3 DEF ReadWeek, Passed, IntakeTypeOK
<1>4. CASE \E s \in Submitters, b \in Accounts, shape \in Shapes : ReadWeek(s, b, shape)
  BY <1>4, <1>3, <1>1, FewerKeep
<1>5. ASSUME NEW s \in Submitters, CountPending(s)
      PROVE  Cardinality(Filed(a, kind, w)') + Cardinality(Passed(a, kind, w)')
               <= PendingLimit(kind) - 1 + Cardinality(Submitters) + miscounts'
  <2>1. requests' = requests /\ miscounts' = miscounts
    BY <1>5 DEF CountPending
  <2>2. Filed(a, kind, w)' = Filed(a, kind, w)
    BY <2>1, <1>1
  <2>3. \A q \in Submitters \ {s} : sub'[q] = sub[q]
    BY <1>5 DEF CountPending, IntakeTypeOK
  <2>4. CASE s \in Passed(a, kind, w)'
    <3>1. sub'[s].at = "insert"
      BY <2>4 DEF Passed
    <3>2. /\ PendingFound(sub[s].account, sub[s].shape, sub[s].week)
               < PendingLimit(sub[s].shape.kind)
          /\ sub'[s] = [sub[s] EXCEPT !.at = "insert"]
      BY <1>5, <3>1 DEF CountPending, IntakeTypeOK, IdleSub
    <3>3. /\ sub'[s].account = sub[s].account /\ sub'[s].shape = sub[s].shape
          /\ sub'[s].week = sub[s].week
      BY <3>2 DEF IntakeTypeOK, SubState
    <3>4. /\ sub[s].account = a /\ sub[s].shape.kind = kind
          /\ SameLimit(kind, sub[s].week, w)
      BY <2>4, <3>3 DEF Passed, SameLimit
    <3>5. PendingFound(sub[s].account, sub[s].shape, sub[s].week)
            = Cardinality(Filed(a, kind, w))
      <4>1. CASE kind = "payout"
        <5>1. PendingInWeek(a, w) = Filed(a, kind, w)
          BY <4>1 DEF PendingInWeek, Filed, SameLimit
        <5>2. sub[s].week = w
          BY <3>4, <4>1 DEF SameLimit
        <5> QED BY <5>1, <5>2, <3>4, <4>1 DEF PendingFound
      <4>2. CASE kind # "payout"
        <5>1. PendingOf(a, kind) = Filed(a, kind, w)
          BY <4>2 DEF PendingOf, Filed, SameLimit
        <5> QED BY <5>1, <3>4, <4>2 DEF PendingFound
      <4> QED BY <4>1, <4>2
    <3> QED BY <2>1, <2>2, <3>2, <3>4, <3>5, PassKeeps
  <2>5. CASE s \notin Passed(a, kind, w)'
    <3>1. Passed(a, kind, w)' \subseteq Passed(a, kind, w)
      BY <2>3, <2>5 DEF Passed, SameLimit
    <3> QED BY <2>1, <2>2, <3>1, FewerKeep
  <2> QED BY <2>4, <2>5
<1>6. ASSUME NEW s \in Submitters, InsertRow(s)
      PROVE  Cardinality(Filed(a, kind, w)') + Cardinality(Passed(a, kind, w)')
               <= PendingLimit(kind) - 1 + Cardinality(Submitters) + miscounts'
  <2>1. PICK r \in RequestIds :
          requests' = [requests EXCEPT ![r] =
            [BlankRow EXCEPT !.status = "pending", !.shape = sub[s].shape,
                             !.account = sub[s].account, !.week = sub[s].week]]
    BY <1>6 DEF InsertRow, InsertRequest
  <2>2. /\ requests'[r].account = sub[s].account /\ requests'[r].shape = sub[s].shape
        /\ requests'[r].week = sub[s].week
        /\ \A q \in RequestIds \ {r} : requests'[q] = requests[q]
    BY <2>1 DEF IntakeTypeOK, BlankRow
  <2>3. /\ sub[s].at = "insert" /\ sub'[s].at = "idle" /\ miscounts' = miscounts
        /\ \A q \in Submitters \ {s} : sub'[q] = sub[q]
    BY <1>6 DEF InsertRow, IntakeTypeOK, IdleSub
  <2>4. Filed(a, kind, w)' \subseteq Filed(a, kind, w) \cup {r}
    BY <2>2 DEF Filed, PendingOf, SameLimit
  <2>5. Passed(a, kind, w)' \subseteq Passed(a, kind, w) \ {s}
    BY <2>3 DEF Passed, SameLimit
  <2>6. CASE s \in Passed(a, kind, w)
    BY <2>3, <2>4, <2>5, <2>6, InsertKeeps
  <2>7. CASE s \notin Passed(a, kind, w)
    <3>1. r \notin Filed(a, kind, w)'
      BY <2>2, <2>3, <2>7 DEF Filed, PendingOf, Passed, SameLimit
    <3> QED BY <2>3, <2>4, <2>5, <3>1, FewerKeep
  <2> QED BY <2>6, <2>7
<1>7. ASSUME NEW r \in RequestIds, NEW verdict \in Decided, NEW text \in Texts,
             NEW auto \in BOOLEAN, DecideRow(r, verdict, text, auto), sub' = sub,
             miscounts' = miscounts
      PROVE  Cardinality(Filed(a, kind, w)') + Cardinality(Passed(a, kind, w)')
               <= PendingLimit(kind) - 1 + Cardinality(Submitters) + miscounts'
  <2>1. /\ requests'[r] = [requests[r] EXCEPT !.status = verdict, !.text = text,
                                              !.auto = auto]
        /\ \A q \in RequestIds \ {r} : requests'[q] = requests[q]
    BY <1>7 DEF DecideRow, IntakeTypeOK
  <2>2. requests'[r].status # "pending"
    BY <2>1 DEF IntakeTypeOK, Row, Decided
  <2>3. Filed(a, kind, w)' \subseteq Filed(a, kind, w)
    BY <2>1, <2>2 DEF Filed, PendingOf, SameLimit
  <2> QED BY <2>3, <1>7, <1>2, FewerKeep
<1>8. CASE IntakeCrash
  <2>1. requests' = requests /\ Passed(a, kind, w)' = {} /\ miscounts' = miscounts
    BY <1>8 DEF IntakeCrash, Passed, IdleSub
  <2> QED BY <2>1, <1>1, FewerKeep
<1>9. CASE requests' = requests /\ sub' = sub /\ miscounts' = miscounts
  BY <1>9, <1>1, <1>2, FewerKeep
<1>10. ASSUME NEW s \in Submitters, CountFails(s)
       PROVE  Cardinality(Filed(a, kind, w)') + Cardinality(Passed(a, kind, w)')
                <= PendingLimit(kind) - 1 + Cardinality(Submitters) + miscounts'
  <2>1. /\ requests' = requests /\ miscounts' = miscounts + 1
        /\ \A q \in Submitters \ {s} : sub'[q] = sub[q]
    BY <1>10 DEF CountFails, IntakeTypeOK
  <2>2. Passed(a, kind, w)' \subseteq Passed(a, kind, w) \cup {s}
    BY <2>1 DEF Passed
  <2> QED BY <2>1, <2>2, <1>1, FailedCountKeeps
<1>11. ASSUME NEW s \in Submitters, InsertFails(s)
       PROVE  Cardinality(Filed(a, kind, w)') + Cardinality(Passed(a, kind, w)')
                <= PendingLimit(kind) - 1 + Cardinality(Submitters) + miscounts'
  <2>1. /\ requests' = requests /\ miscounts' = miscounts
        /\ sub'[s].at = "idle" /\ \A q \in Submitters \ {s} : sub'[q] = sub[q]
    BY <1>11 DEF InsertFails, IntakeTypeOK, IdleSub
  <2>2. Passed(a, kind, w)' \subseteq Passed(a, kind, w)
    BY <2>1 DEF Passed
  <2> QED BY <2>1, <2>2, <1>1, FewerKeep
<1> QED BY <1>4, <1>5, <1>6, <1>7, <1>8, <1>9, <1>10, <1>11
        DEF IntakeChange, WindowOpens, WindowCloses, intakeVars

-----------------------------------------------------------------------------
LEMMA InitIntakeInv == RequestsInit /\ IntakeInit => IntakeTypeOK /\ CountInv
<1> SUFFICES ASSUME RequestsInit, IntakeInit
             PROVE  IntakeTypeOK /\ CountInv
  OBVIOUS
<1>1. IntakeTypeOK
  <2>1. 0 \in 0..MaxWeek /\ 0 \in 0..MaxMiscounts
    BY WeekAssumption, MiscountsAssumption
  <2> QED BY <2>1, BlankTypes DEF RequestsInit, IntakeInit, IntakeTypeOK
<1>2. CountInv
  <2> SUFFICES ASSUME NEW a \in Accounts, NEW kind \in Kinds, NEW w \in 0..MaxWeek
               PROVE  Cardinality(Filed(a, kind, w)) + Cardinality(Passed(a, kind, w))
                        <= PendingLimit(kind) - 1 + Cardinality(Submitters) + miscounts
    BY DEF CountInv
  <2>1. Filed(a, kind, w) = {} /\ Passed(a, kind, w) = {}
    BY DEF RequestsInit, IntakeInit, BlankRow, IdleSub, Filed, PendingOf, Passed
  <2>2. Cardinality({}) = 0
    BY FS_EmptySet
  <2>3. 0 <= PendingLimit(kind) - 1 + Cardinality(Submitters) + miscounts
    BY CountsFinite DEF PendingLimit, IntakeInit
  <2> QED BY <2>1, <2>2, <2>3
<1> QED BY <1>1, <1>2

LEMMA StepIntakeInv ==
  ASSUME IntakeInv, IntakeChange
  PROVE  IntakeInv'
<1> USE DEF IntakeInv
<1>1. IntakeTypeOK'
  <2> USE DEF IntakeTypeOK
  <2>1. ASSUME NEW s \in Submitters, NEW a \in Accounts, NEW shape \in Shapes,
               ReadWeek(s, a, shape)
        PROVE  IntakeTypeOK'
    BY <2>1, ReadType DEF ReadWeek
  <2>2. ASSUME NEW s \in Submitters, CountPending(s)
        PROVE  IntakeTypeOK'
    <3>1. sub' \in [Submitters -> SubState]
      BY <2>2, BlankTypes DEF CountPending, SubState
    <3> QED BY <2>2, <3>1 DEF CountPending
  <2>3. ASSUME NEW s \in Submitters, InsertRow(s)
        PROVE  IntakeTypeOK'
    <3> DEFINE row == [BlankRow EXCEPT !.status = "pending", !.shape = sub[s].shape,
                                       !.account = sub[s].account, !.week = sub[s].week]
    <3>1. row \in Row
      <4>1. sub[s] \in SubState
        OBVIOUS
      <4> QED BY <4>1, BlankTypes DEF Row, SubState, Statuses
    <3>2. requests' \in [RequestIds -> Row]
      BY <2>3, <3>1 DEF InsertRow, InsertRequest
    <3>3. sub' \in [Submitters -> SubState]
      BY <2>3, BlankTypes DEF InsertRow
    <3> QED BY <2>3, <3>2, <3>3 DEF InsertRow
  <2>4. ASSUME NEW r \in RequestIds, NEW verdict \in Decided, NEW text \in Texts,
               NEW auto \in BOOLEAN, DecideRow(r, verdict, text, auto),
               UNCHANGED intakeVars
        PROVE  IntakeTypeOK'
    <3>1. requests' \in [RequestIds -> Row]
      BY <2>4, DecidedRow DEF DecideRow
    <3> QED BY <2>4, <3>1 DEF intakeVars
  <2>5. CASE WindowOpens
    <3>1. latest' \in 0..MaxWeek
      BY <2>5, WeekAssumption DEF WindowOpens
    <3> QED BY <2>5, <3>1 DEF WindowOpens
  <2>6. CASE WindowCloses
    BY <2>6 DEF WindowCloses
  <2>7. CASE IntakeCrash
    BY <2>7, BlankTypes DEF IntakeCrash
  <2>8. CASE UNCHANGED <<requests, intakeVars>>
    BY <2>8 DEF intakeVars
  <2>9. ASSUME NEW s \in Submitters, CountFails(s)
        PROVE  IntakeTypeOK'
    <3>1. sub' \in [Submitters -> SubState]
      BY <2>9 DEF CountFails, SubState
    <3>2. miscounts' \in 0..MaxMiscounts
      BY <2>9, MiscountsAssumption DEF CountFails
    <3> QED BY <2>9, <3>1, <3>2 DEF CountFails
  <2>10. ASSUME NEW s \in Submitters, InsertFails(s)
         PROVE  IntakeTypeOK'
    BY <2>10, BlankTypes DEF InsertFails
  <2> QED BY <2>1, <2>2, <2>3, <2>4, <2>5, <2>6, <2>7, <2>8, <2>9, <2>10 DEF IntakeChange
<1> QED BY <1>1, StepCountInv

LEMMA BoundFromCount == IntakeInv => PendingBounded
<1> SUFFICES ASSUME IntakeInv, NEW a \in Accounts
             PROVE  /\ \A w \in 1..MaxWeek :
                         Cardinality(PendingInWeek(a, w)) <= 1 + Cardinality(Submitters) + miscounts
                    /\ \A kind \in Kinds \ {"payout"} :
                         Cardinality(PendingOf(a, kind)) <= Cardinality(Submitters) + miscounts
  BY DEF PendingBounded
<1>0. miscounts \in Nat
  BY MiscountsNat DEF IntakeInv
<1>1. ASSUME NEW w \in 1..MaxWeek
      PROVE  Cardinality(PendingInWeek(a, w)) <= 1 + Cardinality(Submitters) + miscounts
  <2>1. PendingInWeek(a, w) = Filed(a, "payout", w)
    BY DEF PendingInWeek, Filed, SameLimit
  <2>2. Cardinality(Filed(a, "payout", w)) + Cardinality(Passed(a, "payout", w))
          <= 1 + Cardinality(Submitters) + miscounts
    <3>1. "payout" \in Kinds /\ w \in 0..MaxWeek /\ PendingLimit("payout") = 2
      BY WeekAssumption DEF Kinds, PendingLimit
    <3> QED BY <3>1, <1>0, CountsFinite DEF IntakeInv, CountInv
  <2>3. /\ Cardinality(Filed(a, "payout", w)) \in Nat
        /\ Cardinality(Passed(a, "payout", w)) \in Nat /\ Cardinality(Submitters) \in Nat
    BY CountsFinite
  <2> QED BY <1>0, <2>1, <2>2, <2>3
<1>2. ASSUME NEW kind \in Kinds \ {"payout"}
      PROVE  Cardinality(PendingOf(a, kind)) <= Cardinality(Submitters) + miscounts
  <2>1. PendingOf(a, kind) = Filed(a, kind, 0)
    BY DEF PendingOf, Filed, SameLimit
  <2>2. Cardinality(Filed(a, kind, 0)) + Cardinality(Passed(a, kind, 0))
          <= Cardinality(Submitters) + miscounts
    <3>1. 0 \in 0..MaxWeek /\ PendingLimit(kind) = 1
      BY WeekAssumption DEF PendingLimit
    <3> QED BY <3>1, <1>0, CountsFinite DEF IntakeInv, CountInv
  <2>3. /\ Cardinality(Filed(a, kind, 0)) \in Nat
        /\ Cardinality(Passed(a, kind, 0)) \in Nat /\ Cardinality(Submitters) \in Nat
    BY CountsFinite
  <2> QED BY <1>0, <2>1, <2>2, <2>3
<1> QED BY <1>1, <1>2

(***************************************************************************)
(* Both the intake by itself and the composed system make no other change. *)
(***************************************************************************)
LEMMA AloneChanges == ASSUME [IntakeNext]_<<requests, intakeVars>> PROVE IntakeChange
<1>1. ASSUME DecidedElsewhere
      PROVE  IntakeChange
  BY <1>1, TextAssumption DEF DecidedElsewhere, IntakeChange
<1>2. ASSUME IntakeStep \/ Clock \/ IntakeCrash \/ UNCHANGED <<requests, intakeVars>>
      PROVE  IntakeChange
  BY <1>2, Zenon
  DEF IntakeStep, SubmitPayout, SubmitLot, SubmitGiveaway, HandlePaste, Clock, IntakeChange
<1> QED BY <1>1, <1>2 DEF IntakeNext

LEMMA DeskChanges == ASSUME TypeOK, [Next]_vars PROVE IntakeChange
<1>1. ASSUME NEW d \in Deciders, DecideWins(d), UNCHANGED intakeVars
      PROVE  IntakeChange
  <2>1. /\ dec[d].verdict \in Decided /\ dec[d].text \in Texts /\ dec[d].auto \in BOOLEAN
    BY DEF TypeOK, DeskTypeOK, DecState
  <2>2. CASE dec[d].req \in RequestIds
    BY <1>1, <2>1, <2>2 DEF DecideWins, IntakeChange
  <2>3. CASE dec[d].req \notin RequestIds
    <3>1. requests' = requests
      BY <1>1, <2>3 DEF DecideWins, DecideRow, TypeOK, DeskTypeOK, IntakeTypeOK
    <3> QED BY <1>1, <3>1 DEF IntakeChange
  <2> QED BY <2>2, <2>3
<1>2. ASSUME NEW d \in Deciders, UNCHANGED intakeVars,
             \/ \E r \in RequestIds, verdict \in Decided, text \in Typed :
                  GetPending(d, r, verdict, text)
             \/ PopForRequest(d) \/ PopFails(d) \/ DecideLoses(d) \/ NotifyApplicant(d)
      PROVE  IntakeChange
  <2>1. requests' = requests
    BY <1>2 DEF GetPending, PopForRequest, PopFails, DecideLoses, NotifyApplicant
  <2> QED BY <1>2, <2>1 DEF IntakeChange
<1>3. ASSUME Crash \/ UNCHANGED vars
      PROVE  IntakeChange
  BY <1>3 DEF Crash, IntakeCrash, vars, IntakeChange, intakeVars
<1>4. ASSUME UNCHANGED <<requests, intakeVars>>
      PROVE  IntakeChange
  BY <1>4 DEF IntakeChange
<1> QED BY StepCases, <1>1, <1>2, <1>3, <1>4, Zenon DEF IntakeChange

(***************************************************************************)
(* The intake by itself is typed correctly.                                *)
(***************************************************************************)
THEOREM IntakeTypeCorrect == IntakeSpec => []IntakeTypeOK
<1>1. IntakeAlone => IntakeInv
  BY InitIntakeInv DEF IntakeAlone, IntakeInv
<1>2. IntakeInv /\ [IntakeNext]_<<requests, intakeVars>> => IntakeInv'
  BY AloneChanges, StepIntakeInv
<1>3. IntakeInv => IntakeTypeOK
  BY DEF IntakeInv
<1> QED BY <1>1, <1>2, <1>3, PTL DEF IntakeSpec

(***************************************************************************)
(* However many goroutines submit at once, however often the count of      *)
(* duplicates fails, and whatever is decided, closed and lost meanwhile,   *)
(* the pending requests of an account exceed the limit by less than those  *)
(* goroutines and failures together: of the intake by itself,              *)
(***************************************************************************)
THEOREM PendingAlwaysBounded == IntakeSpec => []PendingBounded
<1>1. IntakeAlone => IntakeInv
  BY InitIntakeInv DEF IntakeAlone, IntakeInv
<1>2. IntakeInv /\ [IntakeNext]_<<requests, intakeVars>> => IntakeInv'
  BY AloneChanges, StepIntakeInv
<1> QED BY <1>1, <1>2, BoundFromCount, PTL DEF IntakeSpec

(***************************************************************************)
(* and of the composed system.                                             *)
(***************************************************************************)
THEOREM DeskPendingBounded == Spec => []PendingBounded
<1>1. Init => TypeOK /\ IntakeInv
  BY InitTypeOK, InitIntakeInv DEF Init, IntakeInv
<1>2. TypeOK /\ IntakeInv /\ [Next]_vars => (TypeOK /\ IntakeInv)'
  BY StepTypeOK, DeskChanges, StepIntakeInv
<1> QED BY <1>1, <1>2, BoundFromCount, PTL DEF Spec

(***************************************************************************)
(* With one goroutine submitting, and as long as no count has failed, the  *)
(* limit is the one the source states: two undecided payouts of an account *)
(* in a week (requests.go, Create).                                        *)
(***************************************************************************)
THEOREM TwoPendingWithOneSubmitter ==
  ASSUME Cardinality(Submitters) = 1
  PROVE  IntakeSpec => [](miscounts = 0 => AtMostTwoPending)
<1>1. PendingBounded => (miscounts = 0 => AtMostTwoPending)
  BY DEF PendingBounded, AtMostTwoPending
<1> QED BY PendingAlwaysBounded, <1>1, PTL
=============================================================================
