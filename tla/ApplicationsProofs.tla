-------------------------- MODULE ApplicationsProofs --------------------------
(***************************************************************************)
(* Proofs about Applications, for any number of rows, applicants,          *)
(* submitting and deciding goroutines.                                     *)
(***************************************************************************)
EXTENDS Applications, FiniteSetTheorems, TLAPS

(***************************************************************************)
(* Each step of the system is one of these.                                *)
(***************************************************************************)
LEMMA StepCases ==
  ASSUME [Next]_vars
  PROVE  \/ \E s \in Submitters, h \in Handles : CountPending(s, h)
         \/ \E s \in Submitters, h \in Handles : CountFails(s, h)
         \/ \E s \in Submitters : InsertApplication(s)
         \/ \E s \in Submitters : InsertFails(s)
         \/ PlainForm
         \/ \E d \in Deciders, i \in Ids, verdict \in Decided : ReadStatus(d, i, verdict)
         \/ \E d \in Deciders : WriteVerdict(d)
         \/ \E d \in Deciders : WriteFails(d)
         \/ \E d \in Deciders : SendVerdict(d)
         \/ \E i \in Ids, v \in Decided : Deliver(i, v)
         \/ Restart
         \/ UNCHANGED vars
  BY Zenon DEF Next, Submission, Decision

(***************************************************************************)
(* A form without a count inserts one new pending row.                     *)
(***************************************************************************)
LEMMA PlainRow ==
  ASSUME PlainForm
  PROVE  \E kind \in Kinds, h \in Handles, byAdmin \in BOOLEAN :
           InsertRow(kind, h, byAdmin) /\ (kind = "media" => byAdmin)
<1>1. PICK h \in Handles :
        SubmitAsAdmin(h) \/ SubmitHWID(h) \/ SubmitDiscord(h) \/ SubmitIdeaBug(h)
  BY DEF PlainForm
<1>2. {"hwid", "discord", "idea"} \subseteq Kinds \ {"media"} /\ "media" \in Kinds
  BY DEF Kinds
<1>3. CASE SubmitAsAdmin(h)
  BY <1>2, <1>3 DEF SubmitAsAdmin
<1>4. CASE SubmitHWID(h) \/ SubmitDiscord(h) \/ SubmitIdeaBug(h)
  <2>1. PICK kind \in Kinds \ {"media"} : InsertRow(kind, h, FALSE)
    BY <1>2, <1>4, Zenon DEF SubmitHWID, SubmitDiscord, SubmitIdeaBug
  <2> QED BY <2>1
<1> QED BY <1>1, <1>3, <1>4

-----------------------------------------------------------------------------
(***************************************************************************)
(* Rows and idle goroutines are of their types, and so is what a form or a *)
(* decision writes.                                                        *)
(***************************************************************************)
LEMMA BlankTypes ==
  NoRow \in Row /\ IdleSub \in SubState /\ IdleDec \in DecState
                /\ NoMessages \in [Decided -> Nat]
  BY DEF NoRow, Row, Kinds, IdleSub, SubState, IdleDec, DecState, Decided, NoMessages

LEMMA InsertedRow ==
  ASSUME TypeOK, NEW kind \in Kinds, NEW h \in Handles \cup {NoHandle}, NEW byAdmin \in BOOLEAN,
         InsertRow(kind, h, byAdmin)
  PROVE  /\ apps' \in [Ids -> Row]
         /\ \E i \in Ids :
              /\ apps[i].status = "absent"
              /\ apps'[i].status = "pending" /\ apps'[i].writes = 0
              /\ apps'[i].kind = kind /\ apps'[i].handle = h /\ apps'[i].byAdmin = byAdmin
              /\ \A j \in Ids \ {i} : apps'[j] = apps[j]
<1> DEFINE row == [status |-> "pending", kind |-> kind, handle |-> h,
                   byAdmin |-> byAdmin, writes |-> 0]
<1>1. PICK i \in Ids : apps[i].status = "absent" /\ apps' = [apps EXCEPT ![i] = row]
  BY DEF InsertRow
<1>2. row \in Row
  BY DEF Row
<1>3. apps' \in [Ids -> Row]
  BY <1>1, <1>2 DEF TypeOK
<1>4. apps'[i] = row /\ \A j \in Ids \ {i} : apps'[j] = apps[j]
  BY <1>1 DEF TypeOK
<1> QED BY <1>1, <1>3, <1>4

LEMMA WrittenRow ==
  ASSUME TypeOK, NEW d \in Deciders, NEW i \in Ids, WriteVerdict(d), dec[d].id = i
  PROVE  /\ apps' \in [Ids -> Row]
         /\ apps'[i].status = dec[d].verdict /\ apps'[i].writes = apps[i].writes + 1
         /\ apps'[i].kind = apps[i].kind /\ apps'[i].handle = apps[i].handle
         /\ apps'[i].byAdmin = apps[i].byAdmin
         /\ \A j \in Ids \ {i} : apps'[j] = apps[j]
<1>1. dec[d].verdict \in Decided /\ apps[i] \in Row
  BY DEF TypeOK, DecState
<1>2. apps[i].writes + 1 \in Nat
  BY <1>1 DEF Row
<1> DEFINE New(row, v, n) == [row EXCEPT !.status = v, !.writes = n]
           new == New(apps[i], dec[d].verdict, apps[i].writes + 1)
<1>3. ASSUME NEW row \in Row, NEW v \in Decided, NEW n \in Nat
      PROVE  /\ New(row, v, n) \in Row
             /\ New(row, v, n).status = v /\ New(row, v, n).writes = n
             /\ New(row, v, n).kind = row.kind /\ New(row, v, n).handle = row.handle
             /\ New(row, v, n).byAdmin = row.byAdmin
  BY <1>3 DEF Row
<1>4. apps' = [apps EXCEPT ![i] = new]
  BY DEF WriteVerdict, TypeOK
<1> HIDE DEF New
<1>5. /\ new \in Row /\ new.status = dec[d].verdict /\ new.writes = apps[i].writes + 1
      /\ new.kind = apps[i].kind /\ new.handle = apps[i].handle
      /\ new.byAdmin = apps[i].byAdmin
  BY <1>1, <1>2, <1>3
<1> HIDE DEF new
<1>6. apps' \in [Ids -> Row] /\ apps'[i] = new /\ \A j \in Ids \ {i} : apps'[j] = apps[j]
  BY <1>4, <1>5 DEF TypeOK
<1> QED BY <1>5, <1>6

(***************************************************************************)
(* One entry of a table of message counts is replaced.                     *)
(***************************************************************************)
Messages == [Ids -> [Decided -> Nat]]

LEMMA CountReplaced ==
  ASSUME NEW box \in Messages, NEW i \in Ids, NEW v \in Decided, NEW n \in Nat,
         NEW new, new = [box EXCEPT ![i][v] = n]
  PROVE  /\ new \in Messages
         /\ new[i][v] = n
         /\ \A w \in Decided \ {v} : new[i][w] = box[i][w]
         /\ \A j \in Ids \ {i} : new[j] = box[j]
  BY DEF Messages

LEMMA MessageSent ==
  ASSUME TypeOK, NEW d \in Deciders, NEW i \in Ids, NEW v \in Decided,
         SendVerdict(d), dec[d].id = i, dec[d].verdict = v
  PROVE  /\ outbox' \in Messages
         /\ outbox'[i][v] \in {outbox[i][v], outbox[i][v] + 1}
         /\ \A w \in Decided \ {v} : outbox'[i][w] = outbox[i][w]
         /\ \A j \in Ids \ {i} : outbox'[j] = outbox[j]
<1>1. outbox \in Messages /\ outbox[i][v] + 1 \in Nat
  BY DEF TypeOK, Messages
<1>2. outbox' = [outbox EXCEPT ![i][v] = outbox[i][v] + 1] \/ outbox' = outbox
  BY DEF SendVerdict
<1> QED BY <1>1, <1>2, CountReplaced

LEMMA MessageDelivered ==
  ASSUME TypeOK, NEW i \in Ids, NEW v \in Decided, Deliver(i, v)
  PROVE  /\ outbox' \in Messages /\ told' \in Messages
         /\ outbox[i][v] > 0 /\ outbox'[i][v] = outbox[i][v] - 1
         /\ told'[i][v] \in {told[i][v], told[i][v] + 1}
         /\ \A w \in Decided \ {v} : outbox'[i][w] = outbox[i][w] /\ told'[i][w] = told[i][w]
         /\ \A j \in Ids \ {i} : outbox'[j] = outbox[j] /\ told'[j] = told[j]
<1>1. outbox \in Messages /\ told \in Messages
  BY DEF TypeOK, Messages
<1>2. outbox[i][v] > 0 /\ outbox[i][v] - 1 \in Nat /\ told[i][v] + 1 \in Nat
  BY <1>1 DEF Deliver, Messages
<1>3. outbox' = [outbox EXCEPT ![i][v] = outbox[i][v] - 1]
  BY DEF Deliver
<1>4. told' = [told EXCEPT ![i][v] = told[i][v] + 1] \/ told' = told
  BY DEF Deliver
<1>5. ASSUME NEW n \in Nat, outbox' = [outbox EXCEPT ![i][v] = n]
      PROVE  /\ outbox' \in Messages /\ outbox'[i][v] = n
             /\ \A w \in Decided \ {v} : outbox'[i][w] = outbox[i][w]
             /\ \A j \in Ids \ {i} : outbox'[j] = outbox[j]
  BY <1>1, <1>5 DEF Messages
<1>6. /\ told' \in Messages /\ told'[i][v] \in {told[i][v], told[i][v] + 1}
      /\ \A w \in Decided \ {v} : told'[i][w] = told[i][w]
      /\ \A j \in Ids \ {i} : told'[j] = told[j]
  BY <1>1, <1>2, <1>4, CountReplaced
<1> QED BY <1>2, <1>3, <1>5, <1>6

-----------------------------------------------------------------------------
(***************************************************************************)
(* The type invariant needs to know that whoever is past ReadStatus works  *)
(* on a row that exists.                                                   *)
(***************************************************************************)
RowsRead ==
  \A d \in Deciders :
    dec[d].at # "idle" => dec[d].id \in Ids /\ apps[dec[d].id].status # "absent"

TypeInv == TypeOK /\ RowsRead

LEMMA InitTypeInv == Init => TypeInv
  BY BlankTypes, WritesAssumption DEF Init, TypeOK, TypeInv, RowsRead, IdleDec

LEMMA RowsKept ==
  ASSUME TypeOK, RowsRead, UNCHANGED dec,
         \A i \in Ids : apps[i].status # "absent" => apps'[i].status # "absent"
  PROVE  RowsRead'
  BY DEF RowsRead

LEMMA StepTypeInv ==
  ASSUME TypeInv, [Next]_vars
  PROVE  TypeInv'
<1> USE DEF TypeInv
<1>1. ASSUME NEW s \in Submitters, NEW h \in Handles, CountPending(s, h) \/ CountFails(s, h)
      PROVE  TypeInv'
  <2>1. sub' \in [Submitters -> SubState] /\ UNCHANGED <<apps, dec, outbox, told>>
    BY <1>1 DEF CountPending, CountFails, Passes, TypeOK, SubState
  <2>2. miscounts' \in 0..MaxMiscounts
    BY <1>1, WritesAssumption DEF CountPending, CountFails, TypeOK
  <2>3. RowsRead'
    BY <2>1, RowsKept
  <2> QED BY <2>1, <2>2, <2>3 DEF TypeOK
<1>3. ASSUME NEW kind \in Kinds, NEW h \in Handles \cup {NoHandle}, NEW byAdmin \in BOOLEAN,
             InsertRow(kind, h, byAdmin), sub' \in [Submitters -> SubState],
             UNCHANGED <<dec, outbox, told, miscounts>>
      PROVE  TypeInv'
  <2>1. RowsRead'
    BY <1>3, InsertedRow, RowsKept
  <2> QED BY <1>3, <2>1, InsertedRow DEF TypeOK
<1>4. ASSUME NEW s \in Submitters, InsertApplication(s)
      PROVE  TypeInv'
  <2>1. sub' \in [Submitters -> SubState]
    BY <1>4, BlankTypes DEF InsertApplication, TypeOK
  <2>2. sub[s].handle \in Handles \cup {NoHandle}
    BY DEF TypeOK, SubState
  <2> QED BY <1>3, <1>4, <2>1, <2>2 DEF InsertApplication, Kinds
<1>4a. ASSUME NEW s \in Submitters, InsertFails(s)
       PROVE  TypeInv'
  BY <1>4a, BlankTypes, RowsKept DEF InsertFails, TypeOK
<1>5. ASSUME PlainForm
      PROVE  TypeInv'
  BY <1>3, <1>5, PlainRow DEF PlainForm, TypeOK
<1>6. ASSUME NEW d \in Deciders, NEW i \in Ids, NEW verdict \in Decided,
             ReadStatus(d, i, verdict)
      PROVE  TypeInv'
  <2>1. dec' \in [Deciders -> DecState]
    BY <1>6 DEF ReadStatus, TypeOK, DecState
  <2>2. RowsRead'
    BY <1>6 DEF ReadStatus, TypeOK, RowsRead
  <2> QED BY <1>6, <2>1, <2>2 DEF ReadStatus, TypeOK
<1>7. ASSUME NEW d \in Deciders, WriteVerdict(d)
      PROVE  TypeInv'
  <2>1. PICK i \in Ids : i = dec[d].id
    BY <1>7 DEF WriteVerdict, RowsRead
  <2>2. dec' \in [Deciders -> DecState]
    BY <1>7 DEF WriteVerdict, TypeOK, DecState
  <2>3. dec[d].verdict # "absent"
    BY DEF TypeOK, DecState, Decided
  <2>4. \A e \in Deciders : dec'[e].id = dec[e].id /\ (dec'[e].at # "idle" => dec[e].at # "idle")
    BY <1>7 DEF WriteVerdict, TypeOK, DecState
  <2>5. RowsRead'
    BY <1>7, <2>1, <2>3, <2>4, WrittenRow DEF RowsRead
  <2> QED BY <1>7, <2>1, <2>2, <2>5, WrittenRow DEF WriteVerdict, TypeOK
<1>7a. ASSUME NEW d \in Deciders, WriteFails(d)
       PROVE  TypeInv'
  BY <1>7a, BlankTypes DEF WriteFails, TypeOK, RowsRead, IdleDec
<1>8. ASSUME NEW d \in Deciders, SendVerdict(d)
      PROVE  TypeInv'
  <2>1. dec' \in [Deciders -> DecState]
    BY <1>8, BlankTypes DEF SendVerdict, TypeOK
  <2>2. outbox' \in Messages
    <3>1. dec[d].id \in Ids /\ dec[d].verdict \in Decided
      BY <1>8 DEF SendVerdict, RowsRead, TypeOK, DecState
    <3> QED BY <1>8, <3>1, MessageSent
  <2>3. RowsRead'
    BY <1>8 DEF SendVerdict, TypeOK, RowsRead, IdleDec
  <2> QED BY <1>8, <2>1, <2>2, <2>3 DEF SendVerdict, TypeOK, Messages
<1>9. ASSUME NEW i \in Ids, NEW v \in Decided, Deliver(i, v)
      PROVE  TypeInv'
  <2>1. outbox' \in Messages /\ told' \in Messages
    BY <1>9, MessageDelivered
  <2>2. RowsRead'
    BY <1>9, RowsKept DEF Deliver
  <2> QED BY <1>9, <2>1, <2>2 DEF Deliver, TypeOK, Messages
<1>10. ASSUME Restart
       PROVE  TypeInv'
  BY <1>10, BlankTypes DEF Restart, TypeOK, RowsRead, IdleDec
<1>11. ASSUME UNCHANGED vars
       PROVE  TypeInv'
  BY <1>11 DEF vars, TypeOK, RowsRead
<1> QED
  BY StepCases, <1>1, <1>4, <1>4a, <1>5, <1>6, <1>7, <1>7a, <1>8, <1>9, <1>10, <1>11

(***************************************************************************)
(* The applications, and the goroutines that submit, decide and announce   *)
(* them, are typed correctly.                                              *)
(***************************************************************************)
THEOREM TypeCorrect == Spec => []TypeOK
<1>1. TypeInv => TypeOK
  BY DEF TypeInv
<1> QED BY <1>1, InitTypeInv, StepTypeInv, PTL DEF Spec

-----------------------------------------------------------------------------
(***************************************************************************)
(* How the size of a finite set of goroutines or rows changes when it is   *)
(* joined or left.                                                         *)
(***************************************************************************)
LEMMA CountChange ==
  ASSUME NEW S, IsFiniteSet(S), NEW f \in SUBSET S, NEW g \in SUBSET S, NEW x
  PROVE  /\ Cardinality(f) \in Nat /\ Cardinality(g) \in Nat
         /\ g \subseteq f => Cardinality(g) <= Cardinality(f)
         /\ g \subseteq f \cup {x} => Cardinality(g) <= Cardinality(f) + 1
         /\ x \in f /\ g \subseteq f \ {x} => Cardinality(g) <= Cardinality(f) - 1
<1>1. IsFiniteSet(f) /\ IsFiniteSet(g) /\ Cardinality(f) \in Nat /\ Cardinality(g) \in Nat
  BY FS_Subset, FS_CardinalityType
<1>2. g \subseteq f => Cardinality(g) <= Cardinality(f)
  BY <1>1, FS_Subset
<1>3. ASSUME g \subseteq f \cup {x}
      PROVE  Cardinality(g) <= Cardinality(f) + 1
  <2>1. IsFiniteSet(f \cup {x}) /\ Cardinality(f \cup {x}) <= Cardinality(f) + 1
    BY <1>1, FS_AddElement
  <2>2. Cardinality(f \cup {x}) \in Nat
    BY <2>1, FS_CardinalityType
  <2>3. Cardinality(g) <= Cardinality(f \cup {x})
    BY <1>3, <2>1, FS_Subset
  <2> QED BY <1>1, <2>1, <2>2, <2>3
<1>4. ASSUME x \in f, g \subseteq f \ {x}
      PROVE  Cardinality(g) <= Cardinality(f) - 1
  <2>1. IsFiniteSet(f \ {x}) /\ Cardinality(f \ {x}) = Cardinality(f) - 1
    BY <1>1, <1>4, FS_RemoveElement
  <2>2. Cardinality(g) <= Cardinality(f \ {x})
    BY <1>4, <2>1, FS_Subset
  <2> QED BY <2>1, <2>2
<1> QED BY <1>1, <1>2, <1>3, <1>4

(***************************************************************************)
(* OverwritesBounded is not inductive: a decider that has read the row and *)
(* not yet written it will add one more.  Those and the decisions written  *)
(* are no more than the deciders, since whoever reads finds a row that     *)
(* nobody has written.                                                     *)
(***************************************************************************)
Writing(i) == {d \in Deciders : dec[d].at = "write" /\ dec[d].id = i}

Undecided == \A i \in Ids : apps[i].status \in {"absent", "pending"} => apps[i].writes = 0

WritersCounted ==
  \A i \in Ids :
    apps[i].kind # "idea" => apps[i].writes + Cardinality(Writing(i)) <= Cardinality(Deciders)

OverwriteInv == TypeInv /\ Undecided /\ WritersCounted

LEMMA InitOverwriteInv == Init => OverwriteInv
<1> SUFFICES ASSUME Init PROVE OverwriteInv
  OBVIOUS
<1>1. Undecided /\ \A i \in Ids : apps[i].writes = 0
  BY DEF Init, NoRow, Undecided
<1>2. \A i \in Ids : Writing(i) \subseteq Deciders
  BY DEF Writing
<1>3. WritersCounted
  BY <1>1, <1>2, CountChange, FiniteAssumption DEF WritersCounted
<1> QED BY <1>1, <1>3, InitTypeInv DEF OverwriteInv

LEMMA WritersKept ==
  ASSUME OverwriteInv, NEW i \in Ids, apps'[i].writes = apps[i].writes,
         apps'[i].kind = apps[i].kind, Writing(i)' \subseteq Writing(i)
  PROVE  apps'[i].kind # "idea"
           => apps'[i].writes + Cardinality(Writing(i)') <= Cardinality(Deciders)
<1>1. Writing(i) \subseteq Deciders
  BY DEF Writing
<1>2. Cardinality(Writing(i)) \in Nat /\ Cardinality(Writing(i)') <= Cardinality(Writing(i))
      /\ Cardinality(Writing(i)') \in Nat /\ Cardinality(Deciders) \in Nat
  BY <1>1, CountChange, FiniteAssumption
<1>3. apps[i].writes \in Nat
  BY DEF OverwriteInv, TypeInv, TypeOK, Row
<1> QED BY <1>2, <1>3 DEF OverwriteInv, WritersCounted

LEMMA WritersNew ==
  ASSUME TypeOK', NEW i \in Ids, apps'[i].writes = 0
  PROVE  apps'[i].writes + Cardinality(Writing(i)') <= Cardinality(Deciders)
<1>1. Writing(i)' \subseteq Deciders
  BY DEF Writing
<1> QED BY <1>1, CountChange, FiniteAssumption

(***************************************************************************)
(* A step that inserts no row, reads none and writes none leaves the       *)
(* bookkeeping of decisions alone.                                         *)
(***************************************************************************)
LEMMA OverwriteInvKept ==
  ASSUME OverwriteInv, TypeInv', UNCHANGED apps, \A i \in Ids : Writing(i)' \subseteq Writing(i)
  PROVE  OverwriteInv'
<1>1. Undecided'
  BY DEF OverwriteInv, Undecided
<1>2. WritersCounted'
  BY WritersKept DEF WritersCounted
<1> QED BY <1>1, <1>2 DEF OverwriteInv

LEMMA OverwriteInvInserted ==
  ASSUME OverwriteInv, TypeInv', UNCHANGED dec,
         NEW kind \in Kinds, NEW h \in Handles \cup {NoHandle}, NEW byAdmin \in BOOLEAN,
         InsertRow(kind, h, byAdmin)
  PROVE  OverwriteInv'
<1>1. PICK i \in Ids : apps'[i].writes = 0 /\ \A j \in Ids \ {i} : apps'[j] = apps[j]
  BY InsertedRow DEF OverwriteInv, TypeInv
<1>2. Undecided'
  BY <1>1 DEF OverwriteInv, Undecided
<1>3. WritersCounted'
  <2>1. \A j \in Ids : Writing(j)' \subseteq Writing(j)
    BY DEF Writing
  <2> QED BY <1>1, <2>1, WritersKept, WritersNew DEF WritersCounted, TypeInv
<1> QED BY <1>2, <1>3 DEF OverwriteInv

LEMMA StepOverwriteInv ==
  ASSUME OverwriteInv, [Next]_vars
  PROVE  OverwriteInv'
<1>0. TypeInv /\ TypeOK /\ TypeInv'
  BY StepTypeInv DEF OverwriteInv, TypeInv
<1>1. ASSUME UNCHANGED <<apps, dec>>
      PROVE  OverwriteInv'
  BY <1>0, <1>1, OverwriteInvKept DEF Writing
<1>2. ASSUME NEW s \in Submitters, InsertApplication(s)
      PROVE  OverwriteInv'
  <2>1. sub[s].handle \in Handles \cup {NoHandle}
    BY <1>0 DEF TypeOK, SubState
  <2> QED BY <1>0, <1>2, <2>1, OverwriteInvInserted DEF InsertApplication, Kinds
<1>3. ASSUME PlainForm
      PROVE  OverwriteInv'
  BY <1>0, <1>3, PlainRow, OverwriteInvInserted DEF PlainForm
<1>4. ASSUME NEW d \in Deciders, NEW i \in Ids, NEW verdict \in Decided,
             ReadStatus(d, i, verdict)
      PROVE  OverwriteInv'
  <2>1. UNCHANGED apps /\ \A j \in Ids \ {i} : Writing(j)' \subseteq Writing(j)
    BY <1>0, <1>4 DEF ReadStatus, TypeOK, DecState, Writing
  <2>2. Undecided'
    BY <2>1 DEF OverwriteInv, Undecided
  <2>3. apps'[i].kind # "idea" => apps'[i].writes = 0
    BY <1>4 DEF ReadStatus, OverwriteInv, Undecided
  <2>4. WritersCounted'
    BY <1>0, <2>1, <2>3, WritersKept, WritersNew DEF WritersCounted, TypeInv
  <2> QED BY <1>0, <2>2, <2>4 DEF OverwriteInv
<1>5. ASSUME NEW d \in Deciders, WriteVerdict(d)
      PROVE  OverwriteInv'
  <2>1. PICK i \in Ids : i = dec[d].id
    BY <1>0, <1>5 DEF WriteVerdict, TypeInv, RowsRead
  <2>2. /\ apps'[i].status = dec[d].verdict /\ apps'[i].writes = apps[i].writes + 1
        /\ apps'[i].kind = apps[i].kind
        /\ \A j \in Ids \ {i} : apps'[j] = apps[j]
    BY <1>0, <1>5, <2>1, WrittenRow
  <2>3. d \in Writing(i) /\ Writing(i)' \subseteq Writing(i) \ {d}
    BY <1>0, <1>5, <2>1 DEF WriteVerdict, TypeOK, DecState, Writing
  <2>4. \A j \in Ids : Writing(j)' \subseteq Writing(j) /\ Writing(j) \subseteq Deciders
    BY <1>0, <1>5 DEF WriteVerdict, TypeOK, DecState, Writing
  <2>5. Undecided'
    <3>1. dec[d].verdict \in Decided
      BY <1>0 DEF TypeOK, DecState
    <3> QED BY <2>2, <3>1 DEF OverwriteInv, Undecided, Decided
  <2>6. apps'[i].kind # "idea"
          => apps'[i].writes + Cardinality(Writing(i)') <= Cardinality(Deciders)
    <3>1. apps[i].writes \in Nat
      BY <1>0 DEF TypeOK, Row
    <3>2. /\ Cardinality(Writing(i)) \in Nat /\ Cardinality(Writing(i)') \in Nat
          /\ Cardinality(Writing(i)') <= Cardinality(Writing(i)) - 1
      BY <2>3, <2>4, CountChange, FiniteAssumption
    <3>3. Cardinality(Deciders) \in Nat
      BY FiniteAssumption, FS_CardinalityType
    <3> QED BY <2>2, <3>1, <3>2, <3>3 DEF OverwriteInv, WritersCounted
  <2>7. WritersCounted'
    BY <2>2, <2>4, <2>6, WritersKept DEF WritersCounted
  <2> QED BY <1>0, <2>5, <2>7 DEF OverwriteInv
<1>6. ASSUME NEW d \in Deciders, WriteFails(d) \/ SendVerdict(d)
      PROVE  OverwriteInv'
  <2>1. \A j \in Ids : Writing(j)' \subseteq Writing(j)
    BY <1>0, <1>6 DEF WriteFails, SendVerdict, TypeOK, Writing, IdleDec
  <2> QED BY <1>0, <1>6, <2>1, OverwriteInvKept DEF WriteFails, SendVerdict
<1>7. ASSUME Restart
      PROVE  OverwriteInv'
  <2>1. \A j \in Ids : Writing(j)' \subseteq Writing(j)
    BY <1>7 DEF Restart, Writing, IdleDec
  <2> QED BY <1>0, <1>7, <2>1, OverwriteInvKept DEF Restart
<1>8. UNCHANGED <<apps, dec>> \/ OverwriteInv'
  BY StepCases, <1>2, <1>3, <1>4, <1>5, <1>6, <1>7
  DEF CountPending, CountFails, Passes, InsertFails, Deliver, vars
<1> QED BY <1>1, <1>8

(***************************************************************************)
(* A decided application is overwritten only by decisions that overlapped  *)
(* the first: never more often than there are deciders.                    *)
(***************************************************************************)
THEOREM OverwritesOnlyOverlap == Spec => []OverwritesBounded
<1>1. ASSUME OverwriteInv
      PROVE  OverwritesBounded
  <2>1. \A i \in Ids : apps[i].writes \in Nat /\ Cardinality(Writing(i)) \in Nat
    <3>1. \A i \in Ids : Writing(i) \subseteq Deciders
      BY DEF Writing
    <3> QED BY <1>1, <3>1, CountChange, FiniteAssumption DEF OverwriteInv, TypeInv, TypeOK, Row
  <2>2. Cardinality(Deciders) \in Nat
    BY FiniteAssumption, FS_CardinalityType
  <2> QED BY <1>1, <2>1, <2>2 DEF OverwriteInv, WritersCounted, OverwritesBounded
<1> QED BY <1>1, InitOverwriteInv, StepOverwriteInv, PTL DEF Spec

-----------------------------------------------------------------------------
(***************************************************************************)
(* NoticesMatchDecisions is not inductive: it must also count the messages *)
(* on their way and the deciders about to send one, and of a row decided   *)
(* once these must carry its verdict.                                      *)
(***************************************************************************)
Telling(i) == {d \in Deciders : dec[d].at = "tell" /\ dec[d].id = i}

Sent(i, v) == told[i][v] + outbox[i][v]

Announced(i) == Sent(i, "approved") + Sent(i, "rejected") + Cardinality(Telling(i))

SingleVerdict(i) ==
  /\ \A v \in Decided : Sent(i, v) > 0 => v = apps[i].status
  /\ \A d \in Telling(i) : dec[d].verdict = apps[i].status

NoticeOK(i) ==
  /\ Announced(i) <= apps[i].writes
  /\ apps[i].writes = 1 => SingleVerdict(i)

NoticeInv == OverwriteInv /\ \A i \in Ids : NoticeOK(i)

LEMMA CountTypes ==
  ASSUME TypeOK, NEW i \in Ids
  PROVE  /\ apps[i].writes \in Nat
         /\ Sent(i, "approved") \in Nat /\ Sent(i, "rejected") \in Nat
         /\ \A v \in Decided : Sent(i, v) \in Nat /\ told[i][v] \in Nat /\ outbox[i][v] \in Nat
         /\ Telling(i) \in SUBSET Deciders
         /\ Cardinality(Telling(i)) \in Nat
<1>1. Telling(i) \in SUBSET Deciders
  BY DEF Telling
<1>2. \A v \in Decided : Sent(i, v) \in Nat /\ told[i][v] \in Nat /\ outbox[i][v] \in Nat
  BY DEF TypeOK, Sent
<1> QED BY <1>1, <1>2, CountChange, FiniteAssumption DEF TypeOK, Row, Decided

LEMMA InitNoticeInv == Init => NoticeInv
<1> SUFFICES ASSUME Init, NEW i \in Ids PROVE NoticeOK(i)
  BY InitOverwriteInv DEF NoticeInv
<1>1. Telling(i) = {}
  BY DEF Init, Telling, IdleDec
<1>2. apps[i].writes = 0 /\ Sent(i, "approved") = 0 /\ Sent(i, "rejected") = 0
  BY DEF Init, NoRow, Sent, NoMessages, Decided
<1> QED BY <1>1, <1>2, FS_EmptySet DEF NoticeOK, Announced

(***************************************************************************)
(* What is kept of a row when nothing more is announced of it.             *)
(***************************************************************************)
LEMMA NoticeKept ==
  ASSUME NoticeInv, TypeOK', NEW i \in Ids,
         apps'[i].writes = apps[i].writes,
         apps'[i].writes = 1 => apps'[i].status = apps[i].status,
         \A v \in Decided : Sent(i, v)' <= Sent(i, v),
         Telling(i)' \subseteq Telling(i),
         \A d \in Telling(i)' : dec'[d].verdict = dec[d].verdict
  PROVE  NoticeOK(i)'
<1>1. TypeOK /\ NoticeOK(i)
  BY DEF NoticeInv, OverwriteInv, TypeInv
<1>2. /\ Cardinality(Telling(i)') <= Cardinality(Telling(i))
      /\ Cardinality(Telling(i)') \in Nat /\ Cardinality(Telling(i)) \in Nat
  BY <1>1, CountTypes, CountChange, FiniteAssumption
<1>3. \A v \in Decided : Sent(i, v) \in Nat /\ Sent(i, v)' \in Nat /\ Sent(i, v)' <= Sent(i, v)
  <2>1. \A v \in Decided : Sent(i, v)' \in Nat
    BY DEF TypeOK, Sent
  <2> QED BY <1>1, <2>1, CountTypes
<1>4. Announced(i)' <= Announced(i)
  BY <1>2, <1>3 DEF Announced, Decided
<1>5. Announced(i)' <= apps'[i].writes
  <2>1. Announced(i) \in Nat /\ Announced(i)' \in Nat /\ apps[i].writes \in Nat
    BY <1>1, <1>2, <1>3, CountTypes DEF Announced, Decided
  <2> QED BY <1>1, <1>4, <2>1 DEF NoticeOK
<1>6. ASSUME apps'[i].writes = 1
      PROVE  SingleVerdict(i)'
  <2>1. SingleVerdict(i) /\ apps'[i].status = apps[i].status
    BY <1>1, <1>6 DEF NoticeOK
  <2>2. \A v \in Decided : Sent(i, v)' > 0 => Sent(i, v) > 0
    BY <1>3
  <2> QED BY <2>1, <2>2 DEF SingleVerdict
<1> QED BY <1>5, <1>6 DEF NoticeOK

LEMMA NoticeInserted ==
  ASSUME NoticeInv, TypeOK', UNCHANGED <<dec, told, outbox>>,
         NEW kind \in Kinds, NEW h \in Handles \cup {NoHandle}, NEW byAdmin \in BOOLEAN,
         InsertRow(kind, h, byAdmin), NEW j \in Ids
  PROVE  NoticeOK(j)'
<1>1. PICK i \in Ids : /\ apps[i].status = "absent" /\ apps'[i].writes = 0
                       /\ \A k \in Ids \ {i} : apps'[k] = apps[k]
  BY InsertedRow DEF NoticeInv, OverwriteInv, TypeInv
<1>2. apps'[j].writes = apps[j].writes
      /\ (apps'[j].writes = 1 => apps'[j].status = apps[j].status)
  BY <1>1 DEF NoticeInv, OverwriteInv, Undecided
<1>3. \A v \in Decided : Sent(j, v)' <= Sent(j, v)
  <2>1. \A v \in Decided : Sent(j, v) \in Nat
    BY CountTypes DEF NoticeInv, OverwriteInv, TypeInv
  <2>2. \A v \in Decided : Sent(j, v)' = Sent(j, v)
    BY DEF Sent
  <2> QED BY <2>1, <2>2
<1>4. Telling(j)' = Telling(j)
  BY DEF Telling
<1> QED BY <1>2, <1>3, <1>4, NoticeKept

LEMMA NoticeWritten ==
  ASSUME NoticeInv, TypeOK', NEW d \in Deciders, WriteVerdict(d), NEW i \in Ids, i = dec[d].id
  PROVE  NoticeOK(i)'
<1>1. TypeOK /\ NoticeOK(i)
  BY DEF NoticeInv, OverwriteInv, TypeInv
<1>2. apps'[i].status = dec[d].verdict /\ apps'[i].writes = apps[i].writes + 1
  BY <1>1, WrittenRow
<1>3. \A v \in Decided : Sent(i, v)' = Sent(i, v)
  BY DEF WriteVerdict, Sent
<1>4. Telling(i)' \in SUBSET (Telling(i) \cup {d}) /\ dec'[d].verdict = dec[d].verdict
  BY <1>1 DEF WriteVerdict, TypeOK, DecState, Telling
<1>5. Telling(i)' \in SUBSET Deciders /\ Telling(i) \in SUBSET Deciders
  BY DEF Telling
<1>6. /\ Cardinality(Telling(i)') \in Nat /\ Cardinality(Telling(i)) \in Nat
      /\ Cardinality(Telling(i)') <= Cardinality(Telling(i)) + 1
  BY <1>4, <1>5, CountChange, FiniteAssumption
<1>7. Announced(i)' <= apps'[i].writes
  BY <1>1, <1>2, <1>3, <1>6, CountTypes DEF Announced, NoticeOK, Decided
<1>8. ASSUME apps'[i].writes = 1
      PROVE  SingleVerdict(i)'
  <2>1. Announced(i) = 0
    BY <1>1, <1>2, <1>6, <1>8, CountTypes DEF Announced, NoticeOK
  <2>2. /\ Sent(i, "approved") = 0 /\ Sent(i, "rejected") = 0
        /\ Cardinality(Telling(i)) = 0
    BY <1>1, <2>1, CountTypes DEF Announced
  <2>3. Telling(i) = {}
    BY <1>5, <2>2, FS_EmptySet, FS_Subset, FiniteAssumption
  <2> QED BY <1>2, <1>3, <1>4, <2>2, <2>3 DEF SingleVerdict, Decided
<1> QED BY <1>7, <1>8 DEF NoticeOK

LEMMA NoticeSent ==
  ASSUME NoticeInv, TypeOK', NEW d \in Deciders, SendVerdict(d), NEW i \in Ids, i = dec[d].id
  PROVE  NoticeOK(i)'
<1>1. TypeOK /\ NoticeOK(i) /\ UNCHANGED <<apps, told>>
  BY DEF NoticeInv, OverwriteInv, TypeInv, SendVerdict
<1>2. PICK v \in Decided : v = dec[d].verdict
  BY <1>1 DEF TypeOK, DecState
<1>3. /\ Sent(i, v)' \in {Sent(i, v), Sent(i, v) + 1}
      /\ \A w \in Decided \ {v} : Sent(i, w)' = Sent(i, w)
  <2>1. /\ outbox'[i][v] \in {outbox[i][v], outbox[i][v] + 1}
        /\ \A w \in Decided \ {v} : outbox'[i][w] = outbox[i][w]
    BY <1>1, <1>2, MessageSent
  <2>2. told[i][v] \in Nat /\ outbox[i][v] \in Nat /\ told' = told
    BY <1>1, CountTypes
  <2> QED BY <2>1, <2>2 DEF Sent
<1>4. /\ d \in Telling(i) /\ Telling(i)' \in SUBSET (Telling(i) \ {d})
      /\ \A e \in Telling(i)' : dec'[e].verdict = dec[e].verdict
  BY <1>1 DEF SendVerdict, TypeOK, DecState, Telling, IdleDec
<1>5. Telling(i)' \in SUBSET Deciders /\ Telling(i) \in SUBSET Deciders
  BY DEF Telling
<1>6. /\ Cardinality(Telling(i)') \in Nat /\ Cardinality(Telling(i)) \in Nat
      /\ Cardinality(Telling(i)') <= Cardinality(Telling(i)) - 1
  BY <1>4, <1>5, CountChange, FiniteAssumption
<1>7. Sent(i, "approved")' + Sent(i, "rejected")' <= Sent(i, "approved") + Sent(i, "rejected") + 1
  BY <1>1, <1>3, CountTypes DEF Decided
<1>8. Sent(i, "approved")' \in Nat /\ Sent(i, "rejected")' \in Nat
  BY <1>1, <1>3, CountTypes DEF Decided
<1>9. Announced(i)' <= apps'[i].writes
  BY <1>1, <1>6, <1>7, <1>8, CountTypes DEF Announced, NoticeOK
<1>10. ASSUME apps'[i].writes = 1
       PROVE  SingleVerdict(i)'
  <2>1. SingleVerdict(i) /\ v = apps[i].status
    BY <1>1, <1>2, <1>4, <1>10 DEF NoticeOK, SingleVerdict
  <2> QED BY <1>1, <1>3, <1>4, <2>1 DEF SingleVerdict
<1> QED BY <1>9, <1>10 DEF NoticeOK

LEMMA NoticeDelivered ==
  ASSUME NoticeInv, TypeOK', NEW i \in Ids, NEW v \in Decided, Deliver(i, v), NEW j \in Ids
  PROVE  NoticeOK(j)'
<1>1. TypeOK
  BY DEF NoticeInv, OverwriteInv, TypeInv
<1>2. ASSUME NEW w \in Decided
      PROVE  Sent(j, w)' <= Sent(j, w)
  <2>1. /\ told[j][w] \in Nat /\ outbox[j][w] \in Nat
        /\ told'[j][w] \in Nat /\ outbox'[j][w] \in Nat
    BY <1>1 DEF TypeOK
  <2>2. CASE j = i /\ w = v
    BY <1>1, <2>1, <2>2, MessageDelivered DEF Sent
  <2>3. CASE ~(j = i /\ w = v)
    <3>1. told'[j][w] = told[j][w] /\ outbox'[j][w] = outbox[j][w]
      BY <1>1, <2>3, MessageDelivered
    <3> QED BY <2>1, <3>1 DEF Sent
  <2> QED BY <2>2, <2>3
<1>3. UNCHANGED <<apps, dec>>
  BY DEF Deliver
<1>4. Telling(j)' = Telling(j)
  BY <1>3 DEF Telling
<1> QED BY <1>2, <1>3, <1>4, NoticeKept

(***************************************************************************)
(* A row none of whose deciders wrote or announced in this step.           *)
(***************************************************************************)
LEMMA NoticeUntouched ==
  ASSUME NoticeInv, TypeOK', NEW j \in Ids,
         apps'[j] = apps[j], told'[j] = told[j], outbox'[j] = outbox[j],
         Telling(j)' \subseteq Telling(j),
         \A d \in Telling(j)' : dec'[d].verdict = dec[d].verdict
  PROVE  NoticeOK(j)'
<1>1. \A v \in Decided : Sent(j, v) \in Nat /\ Sent(j, v)' = Sent(j, v)
  BY CountTypes DEF NoticeInv, OverwriteInv, TypeInv, Sent
<1> QED BY <1>1, NoticeKept

LEMMA StepNoticeInv ==
  ASSUME NoticeInv, [Next]_vars
  PROVE  NoticeInv'
<1>0. OverwriteInv' /\ TypeInv /\ TypeOK /\ TypeOK'
  BY StepOverwriteInv DEF NoticeInv, OverwriteInv, TypeInv
<1> SUFFICES ASSUME NEW j \in Ids PROVE NoticeOK(j)'
  BY <1>0 DEF NoticeInv
<1>1. ASSUME UNCHANGED <<apps, dec, told, outbox>>
      PROVE  NoticeOK(j)'
  BY <1>0, <1>1, NoticeUntouched DEF Telling
<1>2. ASSUME NEW s \in Submitters, InsertApplication(s)
      PROVE  NoticeOK(j)'
  <2>1. sub[s].handle \in Handles \cup {NoHandle}
    BY <1>0 DEF TypeOK, SubState
  <2> QED BY <1>0, <1>2, <2>1, NoticeInserted DEF InsertApplication, Kinds
<1>3. ASSUME PlainForm
      PROVE  NoticeOK(j)'
  BY <1>0, <1>3, PlainRow, NoticeInserted DEF PlainForm
<1>4. ASSUME NEW d \in Deciders, NEW i \in Ids, NEW verdict \in Decided,
             ReadStatus(d, i, verdict)
      PROVE  NoticeOK(j)'
  <2>1. /\ Telling(j)' \subseteq Telling(j)
        /\ \A e \in Telling(j)' : dec'[e].verdict = dec[e].verdict
    BY <1>0, <1>4 DEF ReadStatus, TypeOK, DecState, Telling
  <2> QED BY <1>0, <1>4, <2>1, NoticeUntouched DEF ReadStatus
<1>5. ASSUME NEW d \in Deciders, WriteVerdict(d)
      PROVE  NoticeOK(j)'
  <2>1. PICK i \in Ids : i = dec[d].id
    BY <1>0, <1>5 DEF WriteVerdict, TypeInv, RowsRead
  <2>2. CASE j = i
    BY <1>0, <1>5, <2>1, <2>2, NoticeWritten
  <2>3. CASE j # i
    <3>1. apps'[j] = apps[j]
      BY <1>0, <1>5, <2>1, <2>3, WrittenRow
    <3>2. /\ Telling(j)' \subseteq Telling(j)
          /\ \A e \in Telling(j)' : dec'[e].verdict = dec[e].verdict
      BY <1>0, <1>5, <2>1, <2>3 DEF WriteVerdict, TypeOK, DecState, Telling
    <3> QED BY <1>0, <1>5, <3>1, <3>2, NoticeUntouched DEF WriteVerdict
  <2> QED BY <2>2, <2>3
<1>6. ASSUME NEW d \in Deciders, SendVerdict(d)
      PROVE  NoticeOK(j)'
  <2>1. PICK i \in Ids : i = dec[d].id
    BY <1>0, <1>6 DEF SendVerdict, TypeInv, RowsRead
  <2>2. CASE j = i
    BY <1>0, <1>6, <2>1, <2>2, NoticeSent
  <2>3. CASE j # i
    <3>1. outbox'[j] = outbox[j]
      <4>1. dec[d].verdict \in Decided
        BY <1>0 DEF TypeOK, DecState
      <4> QED BY <1>0, <1>6, <2>1, <2>3, <4>1, MessageSent
    <3>2. /\ Telling(j)' \subseteq Telling(j)
          /\ \A e \in Telling(j)' : dec'[e].verdict = dec[e].verdict
      BY <1>0, <1>6 DEF SendVerdict, TypeOK, DecState, Telling, IdleDec
    <3> QED BY <1>0, <1>6, <3>1, <3>2, NoticeUntouched DEF SendVerdict
  <2> QED BY <2>2, <2>3
<1>6a. ASSUME NEW d \in Deciders, WriteFails(d)
       PROVE  NoticeOK(j)'
  <2>1. /\ Telling(j)' \subseteq Telling(j)
        /\ \A e \in Telling(j)' : dec'[e].verdict = dec[e].verdict
    BY <1>0, <1>6a DEF WriteFails, TypeOK, DecState, Telling, IdleDec
  <2> QED BY <1>0, <1>6a, <2>1, NoticeUntouched DEF WriteFails
<1>7. ASSUME NEW i \in Ids, NEW v \in Decided, Deliver(i, v)
      PROVE  NoticeOK(j)'
  BY <1>0, <1>7, NoticeDelivered
<1>8. ASSUME Restart
      PROVE  NoticeOK(j)'
  <2>1. Telling(j)' = {}
    BY <1>8 DEF Restart, Telling, IdleDec
  <2>2. \A v \in Decided : Sent(j, v)' <= Sent(j, v)
    <3>1. \A v \in Decided : told[j][v] \in Nat /\ outbox[j][v] \in Nat
      BY <1>0 DEF TypeOK
    <3>2. \A v \in Decided : told'[j][v] = told[j][v] /\ outbox'[j][v] = 0
      BY <1>8 DEF Restart, NoMessages
    <3> QED BY <3>1, <3>2 DEF Sent
  <2> QED BY <1>0, <1>8, <2>1, <2>2, NoticeKept DEF Restart
<1>9. UNCHANGED <<apps, dec, told, outbox>> \/ NoticeOK(j)'
  BY StepCases, <1>2, <1>3, <1>4, <1>5, <1>6, <1>6a, <1>7, <1>8
  DEF CountPending, CountFails, Passes, InsertFails, vars
<1> QED BY <1>1, <1>9

(***************************************************************************)
(* The applicant gets no more messages than decisions were written, and of *)
(* an application decided once none with another verdict.                  *)
(***************************************************************************)
THEOREM NoticesAgree == Spec => []NoticesMatchDecisions
<1>1. ASSUME NoticeInv, NEW i \in Ids
      PROVE  /\ told[i]["approved"] + told[i]["rejected"] <= apps[i].writes
             /\ \A v \in Decided : apps[i].writes = 1 /\ told[i][v] > 0 => v = apps[i].status
  <2>1. NoticeOK(i) /\ TypeOK
    BY <1>1 DEF NoticeInv, OverwriteInv, TypeInv
  <2>2. /\ told[i]["approved"] \in Nat /\ told[i]["rejected"] \in Nat
        /\ outbox[i]["approved"] \in Nat /\ outbox[i]["rejected"] \in Nat
        /\ Cardinality(Telling(i)) \in Nat /\ apps[i].writes \in Nat
    BY <2>1, CountTypes DEF Decided
  <2>3. told[i]["approved"] + told[i]["rejected"] <= apps[i].writes
    BY <2>1, <2>2 DEF NoticeOK, Announced, Sent
  <2>4. \A v \in Decided : told[i][v] > 0 => Sent(i, v) > 0
    BY <2>1, CountTypes DEF Sent
  <2> QED BY <2>1, <2>3, <2>4 DEF NoticeOK, SingleVerdict
<1>2. NoticeInv => NoticesMatchDecisions
  BY <1>1 DEF NoticesMatchDecisions
<1> QED BY <1>2, InitNoticeInv, StepNoticeInv, PTL DEF Spec

-----------------------------------------------------------------------------
(***************************************************************************)
(* PendingPerHandle is not inductive: the submitters that have passed the  *)
(* duplicate check and not yet inserted will add one row each.  Whoever    *)
(* passes the check finds no pending row or had it fail, so rows and       *)
(* submitters together are never more than the submitters and the failed   *)
(* checks.                                                                 *)
(***************************************************************************)
PublicPending(h) == {i \in PendingOf(h) : ~apps[i].byAdmin}

Inserting(h) == {s \in Submitters : sub[s].at = "insert" /\ sub[s].handle = h}

PendingOK(h) ==
  Cardinality(PublicPending(h)) + Cardinality(Inserting(h))
    <= Cardinality(Submitters) + miscounts

PendingInv == TypeInv /\ \A h \in Handles : PendingOK(h)

LEMMA PendingTypes ==
  ASSUME NEW h
  PROVE  /\ PublicPending(h) \in SUBSET Ids /\ Inserting(h) \in SUBSET Submitters
         /\ PublicPending(h)' \in SUBSET Ids /\ Inserting(h)' \in SUBSET Submitters
  BY DEF PublicPending, PendingOf, Inserting

(***************************************************************************)
(* No row is added and nobody passes the check; or nobody's row is pending *)
(* yet; or a submitter turns into a row; or a check fails.                 *)
(***************************************************************************)
LEMMA PendingKept ==
  ASSUME NEW h, PendingOK(h), miscounts \in Nat, miscounts' = miscounts,
         PublicPending(h)' \subseteq PublicPending(h), Inserting(h)' \subseteq Inserting(h)
  PROVE  PendingOK(h)'
<1>1. /\ Cardinality(PublicPending(h)) \in Nat /\ Cardinality(PublicPending(h)') \in Nat
      /\ Cardinality(PublicPending(h)') <= Cardinality(PublicPending(h))
  BY PendingTypes, CountChange, FiniteAssumption
<1>2. /\ Cardinality(Inserting(h)) \in Nat /\ Cardinality(Inserting(h)') \in Nat
      /\ Cardinality(Inserting(h)') <= Cardinality(Inserting(h))
  BY PendingTypes, CountChange, FiniteAssumption
<1>3. Cardinality(Submitters) \in Nat
  BY FiniteAssumption, FS_CardinalityType
<1> QED BY <1>1, <1>2, <1>3 DEF PendingOK

LEMMA PendingNone ==
  ASSUME NEW h, miscounts' \in Nat, PublicPending(h)' = {}
  PROVE  PendingOK(h)'
<1>1. Cardinality(PublicPending(h)') = 0
  BY FS_EmptySet
<1>2. Cardinality(Inserting(h)') \in Nat /\ Cardinality(Inserting(h)') <= Cardinality(Submitters)
  BY PendingTypes, FiniteAssumption, FS_Subset, FS_CardinalityType
<1>3. Cardinality(Submitters) \in Nat
  BY FiniteAssumption, FS_CardinalityType
<1> QED BY <1>1, <1>2, <1>3 DEF PendingOK

LEMMA PendingInserted ==
  ASSUME NEW h, PendingOK(h), miscounts \in Nat, miscounts' = miscounts, NEW i, NEW s,
         PublicPending(h)' \subseteq PublicPending(h) \cup {i},
         s \in Inserting(h), Inserting(h)' \subseteq Inserting(h) \ {s}
  PROVE  PendingOK(h)'
<1>1. /\ Cardinality(PublicPending(h)) \in Nat /\ Cardinality(PublicPending(h)') \in Nat
      /\ Cardinality(PublicPending(h)') <= Cardinality(PublicPending(h)) + 1
  BY PendingTypes, CountChange, FiniteAssumption
<1>2. /\ Cardinality(Inserting(h)) \in Nat /\ Cardinality(Inserting(h)') \in Nat
      /\ Cardinality(Inserting(h)') <= Cardinality(Inserting(h)) - 1
  BY PendingTypes, CountChange, FiniteAssumption
<1>3. Cardinality(Submitters) \in Nat
  BY FiniteAssumption, FS_CardinalityType
<1> QED BY <1>1, <1>2, <1>3 DEF PendingOK

LEMMA PendingMiscounted ==
  ASSUME NEW h, PendingOK(h), miscounts \in Nat, miscounts' = miscounts + 1, NEW s,
         PublicPending(h)' \subseteq PublicPending(h),
         Inserting(h)' \subseteq Inserting(h) \cup {s}
  PROVE  PendingOK(h)'
<1>1. /\ Cardinality(PublicPending(h)) \in Nat /\ Cardinality(PublicPending(h)') \in Nat
      /\ Cardinality(PublicPending(h)') <= Cardinality(PublicPending(h))
  BY PendingTypes, CountChange, FiniteAssumption
<1>2. /\ Cardinality(Inserting(h)) \in Nat /\ Cardinality(Inserting(h)') \in Nat
      /\ Cardinality(Inserting(h)') <= Cardinality(Inserting(h)) + 1
  BY PendingTypes, CountChange, FiniteAssumption
<1>3. Cardinality(Submitters) \in Nat
  BY FiniteAssumption, FS_CardinalityType
<1> QED BY <1>1, <1>2, <1>3 DEF PendingOK

LEMMA InitPendingInv == Init => PendingInv
<1> SUFFICES ASSUME Init, NEW h \in Handles PROVE PendingOK(h)
  BY InitTypeInv DEF PendingInv
<1>1. PublicPending(h) = {} /\ Inserting(h) = {}
  BY DEF Init, PublicPending, PendingOf, Inserting, NoRow, IdleSub
<1>2. Cardinality(Submitters) \in Nat /\ miscounts = 0
  BY FiniteAssumption, FS_CardinalityType DEF Init
<1> QED BY <1>1, <1>2, FS_EmptySet DEF PendingOK

LEMMA StepPendingInv ==
  ASSUME PendingInv, [Next]_vars
  PROVE  PendingInv'
<1>0. TypeInv' /\ TypeInv /\ TypeOK
  BY StepTypeInv DEF PendingInv, TypeInv
<1> SUFFICES ASSUME NEW h \in Handles PROVE PendingOK(h)'
  BY <1>0 DEF PendingInv
<1>a. PendingOK(h) /\ miscounts \in Nat
  BY <1>0, WritesAssumption DEF PendingInv, TypeOK
<1>1. ASSUME UNCHANGED <<apps, sub, miscounts>>
      PROVE  PendingOK(h)'
  BY <1>a, <1>1, PendingKept DEF PublicPending, PendingOf, Inserting
<1>2. ASSUME NEW s \in Submitters, NEW g \in Handles, CountPending(s, g)
      PROVE  PendingOK(h)'
  <2>1. PublicPending(h)' = PublicPending(h) /\ miscounts' = miscounts
    BY <1>2 DEF CountPending, Passes, PublicPending, PendingOf
  <2>2. CASE g = h
    BY <1>2, <1>a, <2>1, <2>2, PendingNone DEF CountPending, PublicPending
  <2>3. CASE g # h
    <3>1. Inserting(h)' \subseteq Inserting(h)
      BY <1>0, <1>2, <2>3 DEF CountPending, Passes, TypeOK, Inserting
    <3> QED BY <1>a, <2>1, <3>1, PendingKept
  <2> QED BY <2>2, <2>3
<1>3. ASSUME NEW s \in Submitters, NEW g \in Handles, CountFails(s, g)
      PROVE  PendingOK(h)'
  <2>1. PublicPending(h)' = PublicPending(h) /\ miscounts' = miscounts + 1
    BY <1>3 DEF CountFails, Passes, PublicPending, PendingOf
  <2>2. Inserting(h)' \subseteq Inserting(h) \cup {s}
    BY <1>0, <1>3 DEF CountFails, Passes, TypeOK, Inserting
  <2> QED BY <1>a, <2>1, <2>2, PendingMiscounted
<1>4. ASSUME NEW s \in Submitters, InsertApplication(s)
      PROVE  PendingOK(h)'
  <2>1. sub[s].handle \in Handles \cup {NoHandle}
    BY <1>0 DEF TypeOK, SubState
  <2>2. PICK i \in Ids : /\ apps'[i].handle = sub[s].handle
                         /\ \A j \in Ids \ {i} : apps'[j] = apps[j]
    <3>1. "media" \in Kinds /\ FALSE \in BOOLEAN
      BY DEF Kinds
    <3>2. InsertRow("media", sub[s].handle, FALSE)
      BY <1>4 DEF InsertApplication
    <3>3. ASSUME NEW kind \in Kinds, NEW g \in Handles \cup {NoHandle},
                 NEW byAdmin \in BOOLEAN, InsertRow(kind, g, byAdmin)
          PROVE  \E i \in Ids : /\ apps'[i].handle = g
                                /\ \A j \in Ids \ {i} : apps'[j] = apps[j]
      BY <1>0, <3>3, InsertedRow
    <3> QED BY <2>1, <3>1, <3>2, <3>3
  <2>3. Inserting(h)' \subseteq Inserting(h) \ {s} /\ miscounts' = miscounts
    BY <1>0, <1>4 DEF InsertApplication, TypeOK, Inserting, IdleSub
  <2>4. CASE sub[s].handle = h
    <3>1. s \in Inserting(h)
      BY <1>4, <2>4 DEF InsertApplication, Inserting
    <3>2. PublicPending(h)' \subseteq PublicPending(h) \cup {i}
      BY <2>2 DEF PublicPending, PendingOf
    <3> QED BY <1>a, <2>3, <3>1, <3>2, PendingInserted
  <2>5. CASE sub[s].handle # h
    <3>1. PublicPending(h)' \subseteq PublicPending(h)
      BY <2>2, <2>5 DEF PublicPending, PendingOf
    <3> QED BY <1>a, <2>3, <3>1, PendingKept
  <2> QED BY <2>4, <2>5
<1>5. ASSUME PlainForm
      PROVE  PendingOK(h)'
  <2>1. PICK kind \in Kinds, g \in Handles, byAdmin \in BOOLEAN :
          InsertRow(kind, g, byAdmin) /\ (kind = "media" => byAdmin)
    BY <1>5, PlainRow
  <2>2. PICK i \in Ids : /\ apps'[i].kind = "media" => apps'[i].byAdmin
                         /\ \A j \in Ids \ {i} : apps'[j] = apps[j]
    BY <1>0, <2>1, InsertedRow
  <2>3. /\ PublicPending(h)' \subseteq PublicPending(h) /\ Inserting(h)' = Inserting(h)
        /\ miscounts' = miscounts
    BY <1>5, <2>2 DEF PlainForm, PublicPending, PendingOf, Inserting
  <2> QED BY <1>a, <2>3, PendingKept
<1>6. ASSUME NEW d \in Deciders, WriteVerdict(d)
      PROVE  PendingOK(h)'
  <2>1. PICK i \in Ids : i = dec[d].id
    BY <1>0, <1>6 DEF WriteVerdict, TypeInv, RowsRead
  <2>2. apps'[i].status # "pending" /\ \A j \in Ids \ {i} : apps'[j] = apps[j]
    BY <1>0, <1>6, <2>1, WrittenRow DEF TypeOK, DecState, Decided
  <2>3. /\ PublicPending(h)' \subseteq PublicPending(h) /\ Inserting(h)' = Inserting(h)
        /\ miscounts' = miscounts
    BY <1>6, <2>2 DEF WriteVerdict, PublicPending, PendingOf, Inserting
  <2> QED BY <1>a, <2>3, PendingKept
<1>7. ASSUME Restart \/ \E s \in Submitters : InsertFails(s)
      PROVE  PendingOK(h)'
  <2>1. /\ PublicPending(h)' = PublicPending(h) /\ Inserting(h)' \subseteq Inserting(h)
        /\ miscounts' = miscounts
    BY <1>0, <1>7 DEF Restart, InsertFails, TypeOK, PublicPending, PendingOf, Inserting, IdleSub
  <2> QED BY <1>a, <2>1, PendingKept
<1>8. UNCHANGED <<apps, sub, miscounts>> \/ PendingOK(h)'
  BY StepCases, <1>2, <1>3, <1>4, <1>5, <1>6, <1>7
  DEF ReadStatus, WriteFails, SendVerdict, Deliver, vars
<1> QED BY <1>1, <1>8

(***************************************************************************)
(* An applicant has no more pending applications than there are goroutines *)
(* that can pass the duplicate check together, and failed checks.          *)
(***************************************************************************)
THEOREM PendingBounded == Spec => []PendingPerHandle
<1>1. ASSUME PendingInv, NEW h \in Handles
      PROVE  Cardinality(PublicPending(h)) <= Cardinality(Submitters) + miscounts
  <2>1. Cardinality(PublicPending(h)) \in Nat /\ Cardinality(Inserting(h)) \in Nat
    BY PendingTypes, CountChange, FiniteAssumption
  <2>2. Cardinality(Submitters) \in Nat /\ miscounts \in Nat
    BY <1>1, WritesAssumption, FiniteAssumption, FS_CardinalityType
    DEF PendingInv, TypeInv, TypeOK
  <2> QED BY <1>1, <2>1, <2>2 DEF PendingInv, PendingOK
<1>2. PendingInv => PendingPerHandle
  BY <1>1 DEF PendingPerHandle, PublicPending
<1> QED BY <1>2, InitPendingInv, StepPendingInv, PTL DEF Spec

-----------------------------------------------------------------------------
(***************************************************************************)
(* "The application is already decided" (handlers/admin.go:357) is refuted *)
(* for two deciders.  With one decider it is true of every kind but ideas: *)
(* the one decider that writes has read the row as it still is.            *)
(***************************************************************************)
DecidedWritten == \A i \in Ids : apps[i].status \in Decided => apps[i].writes > 0

FinalInv == OverwriteInv /\ DecidedWritten

LEMMA InitFinalInv == Init => FinalInv
  BY InitOverwriteInv DEF Init, NoRow, DecidedWritten, Decided, FinalInv

LEMMA StepFinalInv ==
  ASSUME FinalInv, [Next]_vars
  PROVE  FinalInv'
<1>0. TypeInv /\ TypeOK /\ OverwriteInv'
  BY StepOverwriteInv DEF FinalInv, OverwriteInv, TypeInv
<1>1. ASSUME NEW kind \in Kinds, NEW h \in Handles \cup {NoHandle}, NEW byAdmin \in BOOLEAN,
             InsertRow(kind, h, byAdmin)
      PROVE  DecidedWritten'
  <2>1. PICK i \in Ids : /\ apps'[i].status = "pending"
                         /\ \A j \in Ids \ {i} : apps'[j] = apps[j]
    BY <1>0, <1>1, InsertedRow
  <2> QED BY <2>1 DEF FinalInv, DecidedWritten, Decided
<1>2. ASSUME NEW s \in Submitters, InsertApplication(s)
      PROVE  DecidedWritten'
  <2>1. sub[s].handle \in Handles \cup {NoHandle}
    BY <1>0 DEF TypeOK, SubState
  <2> QED BY <1>1, <1>2, <2>1 DEF InsertApplication, Kinds
<1>3. ASSUME PlainForm
      PROVE  DecidedWritten'
  BY <1>1, <1>3, PlainRow
<1>4. ASSUME NEW d \in Deciders, WriteVerdict(d)
      PROVE  DecidedWritten'
  <2>1. PICK i \in Ids : i = dec[d].id
    BY <1>0, <1>4 DEF WriteVerdict, TypeInv, RowsRead
  <2>2. /\ apps'[i].writes = apps[i].writes + 1 /\ apps[i].writes \in Nat
        /\ \A j \in Ids \ {i} : apps'[j] = apps[j]
    BY <1>0, <1>4, <2>1, WrittenRow DEF TypeOK, Row
  <2> QED BY <2>2 DEF FinalInv, DecidedWritten
<1>5. UNCHANGED apps => DecidedWritten'
  BY DEF FinalInv, DecidedWritten
<1>6. UNCHANGED apps \/ DecidedWritten'
  BY StepCases, <1>2, <1>3, <1>4
  DEF CountPending, CountFails, Passes, InsertFails, ReadStatus, WriteFails, SendVerdict,
      Deliver, Restart, vars
<1> QED BY <1>0, <1>5, <1>6 DEF FinalInv

LEMMA DecidedKept ==
  ASSUME FinalInv, [Next]_vars, Cardinality(Deciders) = 1,
         NEW i \in Ids, apps[i].kind # "idea", apps[i].status \in Decided
  PROVE  apps'[i].status = apps[i].status
<1>0. TypeInv /\ TypeOK
  BY DEF FinalInv, OverwriteInv, TypeInv
<1>1. ASSUME NEW kind \in Kinds, NEW h \in Handles \cup {NoHandle}, NEW byAdmin \in BOOLEAN,
             InsertRow(kind, h, byAdmin)
      PROVE  apps'[i].status = apps[i].status
  BY <1>0, <1>1, InsertedRow DEF Decided
<1>2. ASSUME NEW s \in Submitters, InsertApplication(s)
      PROVE  apps'[i].status = apps[i].status
  <2>1. sub[s].handle \in Handles \cup {NoHandle}
    BY <1>0 DEF TypeOK, SubState
  <2> QED BY <1>1, <1>2, <2>1 DEF InsertApplication, Kinds
<1>3. ASSUME PlainForm
      PROVE  apps'[i].status = apps[i].status
  BY <1>1, <1>3, PlainRow
<1>4. ASSUME NEW d \in Deciders, WriteVerdict(d)
      PROVE  apps'[i].status = apps[i].status
  <2>1. PICK j \in Ids : j = dec[d].id
    BY <1>0, <1>4 DEF WriteVerdict, TypeInv, RowsRead
  <2>2. CASE j = i
    <3>1. d \in Writing(i) /\ Writing(i) \in SUBSET Deciders
      BY <1>4, <2>1, <2>2 DEF WriteVerdict, Writing
    <3>2. Cardinality(Writing(i)) \in Nat /\ Cardinality(Writing(i)) # 0
      BY <3>1, FS_EmptySet, FS_Subset, CountChange, FiniteAssumption
    <3>3. apps[i].writes \in Nat /\ apps[i].writes > 0
      BY <1>0 DEF TypeOK, Row, FinalInv, DecidedWritten
    <3> QED BY <3>2, <3>3 DEF FinalInv, OverwriteInv, WritersCounted
  <2>3. CASE j # i
    BY <1>0, <1>4, <2>1, <2>3, WrittenRow
  <2> QED BY <2>2, <2>3
<1>5. UNCHANGED apps \/ apps'[i].status = apps[i].status
  BY StepCases, <1>2, <1>3, <1>4
  DEF CountPending, CountFails, Passes, InsertFails, ReadStatus, WriteFails, SendVerdict,
      Deliver, Restart, vars
<1> QED BY <1>5

(***************************************************************************)
(* With one goroutine deciding, a decided application stays decided.       *)
(***************************************************************************)
THEOREM FinalWithOneDecider ==
  ASSUME Cardinality(Deciders) = 1
  PROVE  Spec => DecisionFinal
<1> DEFINE Stays == \A i \in Ids :
                      apps[i].kind # "idea" /\ apps[i].status \in Decided
                        => apps'[i].status = apps[i].status
<1>1. FinalInv /\ [Next]_vars => [Stays]_vars
  BY DecidedKept
<1> QED BY <1>1, InitFinalInv, StepFinalInv, PTL DEF Spec, DecisionFinal
=============================================================================
