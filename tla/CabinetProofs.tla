----------------------------- MODULE CabinetProofs -----------------------------
(***************************************************************************)
(* Proofs about the cabinet: CabinetPage, for any requests, any comments   *)
(* and any number of polls under way, and CabinetForms with the Uploads in *)
(* it, for any number of submissions, files, chunks and attempts.          *)
(***************************************************************************)
EXTENDS CabinetPage, CabinetForms, TLAPS

(***************************************************************************)
(* A row says how often its request was decided, and carries the comment   *)
(* of the last decision, wherever it was copied to.                        *)
(***************************************************************************)
RowFits(row) ==
  \/ row = Absent
  \/ row = Pending
  \/ /\ row.status = "decided"
     /\ row.version \in 1..Len(Comments) /\ row.comment = Comments[row.version]

Copied(list) ==
  /\ list \in Lists
  /\ \A r \in Requests : RowFits(list[r]) /\ list[r].version <= rows[r].version

(***************************************************************************)
(* All copies of the list were true once.  Announcements are counted       *)
(* against the version that is remembered, which an overtaken answer puts  *)
(* back, and their number with it.                                         *)
(***************************************************************************)
PageInv ==
  /\ TypeOK
  /\ Copied(rows) /\ Copied(seen)
  /\ \A f \in fetches : Copied(f.list)
  /\ \A r \in Requests : told[r] <= seen[r].version

-----------------------------------------------------------------------------
(***************************************************************************)
(* The rows that every request begins with.                                *)
(***************************************************************************)
LEMMA AbsentRow == Absent \in RequestRow /\ RowFits(Absent) /\ Absent.version = 0
  BY CommentsAssumption DEF Absent, RequestRow, RowFits

LEMMA PendingRow == /\ Pending \in RequestRow /\ RowFits(Pending) /\ Pending.version = 0
                    /\ Pending # Absent /\ Pending.status = "pending"
  BY CommentsAssumption DEF Pending, Absent, RequestRow, RowFits

LEMMA DecidedRow ==
  ASSUME NEW v \in 1..Len(Comments)
  PROVE  LET row == [status |-> "decided", comment |-> Comments[v], version |-> v]
         IN row \in RequestRow /\ RowFits(row)
<1>1. Len(Comments) \in Nat /\ Comments[v] \in Range(Comments)
  BY CommentsAssumption
<1> QED BY <1>1 DEF RequestRow, RowFits

LEMMA NothingCopied ==
  ASSUME Copied(rows)
  PROVE  Copied(NothingSeen)
<1>1. \A r \in Requests : rows[r].version \in Nat
  BY CommentsAssumption DEF Copied, Lists, RequestRow
<1> QED BY <1>1, AbsentRow DEF Copied, NothingSeen, Lists

(***************************************************************************)
(* A list that arrives is a copy, and announces a request at most once     *)
(* more than its older version was.                                        *)
(***************************************************************************)
LEMMA NewsIsLater ==
  ASSUME NEW old \in RequestRow, NEW row \in RequestRow, RowFits(old), RowFits(row),
         IsNews(old, row)
  PROVE  row.version >= 1 /\ row.version # old.version
<1>1. row.status = "decided" /\ row.version >= 1
  BY AbsentRow, PendingRow, CommentsAssumption DEF IsNews, RowFits, Absent
<1>2. CASE old = Pending
  BY <1>1, <1>2, PendingRow
<1>3. CASE old # Pending
  <2>1. old.status = "decided" /\ old.comment = Comments[old.version]
    BY <1>3 DEF IsNews, RowFits
  <2>2. row.comment = Comments[row.version]
    BY <1>1, PendingRow DEF RowFits, Absent
  <2> QED BY <1>1, <2>1, <2>2 DEF IsNews
<1> QED BY <1>2, <1>3

LEMMA ArrivalInv ==
  ASSUME PageInv, NEW list, Copied(list), Announce(list), Remember(list),
         UNCHANGED rows
  PROVE  /\ Copied(seen)' /\ told' \in [Requests -> Nat]
         /\ \A r \in Requests : told'[r] <= seen'[r].version
<1>1. seen \in Lists /\ list \in Lists /\ told \in [Requests -> Nat]
  BY DEF PageInv, TypeOK, Copied
<1>2. Copied(seen)'
  BY <1>1 DEF PageInv, Copied, Remember, Lists
<1>3. ASSUME NEW r \in Requests
      PROVE  told'[r] \in Nat /\ told'[r] <= seen'[r].version
  <2> DEFINE before == IF list[r].version < seen[r].version THEN 0 ELSE told[r]
  <2>1. /\ seen[r] \in RequestRow /\ list[r] \in RequestRow
        /\ seen[r].version \in Nat /\ list[r].version \in Nat
        /\ told[r] \in Nat /\ told[r] <= seen[r].version
        /\ RowFits(seen[r]) /\ RowFits(list[r])
    BY <1>1, CommentsAssumption DEF PageInv, Copied, Lists, RequestRow
  <2>2. CASE list[r] = Absent
    BY <2>1, <2>2 DEF Announce, Remember
  <2>3. CASE list[r] # Absent /\ IsNews(seen[r], list[r])
    <3>1. list[r].version >= 1 /\ list[r].version # seen[r].version
      BY <2>1, <2>3, NewsIsLater
    <3>2. told'[r] = before + 1 /\ seen'[r] = list[r]
      BY <2>3 DEF Announce, Remember
    <3> QED BY <2>1, <3>1, <3>2
  <2>4. CASE list[r] # Absent /\ ~IsNews(seen[r], list[r])
    <3>1. told'[r] = before /\ seen'[r] = list[r]
      BY <2>4 DEF Announce, Remember
    <3> QED BY <2>1, <3>1
  <2> QED BY <2>2, <2>3, <2>4
<1>4. told' \in [Requests -> Nat]
  <2>1. told' = [r \in Requests |-> told'[r]]
    BY DEF Announce
  <2> QED BY <1>3, <2>1
<1> QED BY <1>2, <1>3, <1>4

-----------------------------------------------------------------------------
(***************************************************************************)
(* Requests are submitted and decided; rows only grow older.               *)
(***************************************************************************)
LEMMA RowStep ==
  ASSUME PageInv, NEW r \in Requests, Submit(r) \/ Decide(r)
  PROVE  PageInv'
<1>0. /\ rows \in Lists /\ rows[r] \in RequestRow /\ rows[r].version \in Nat
      /\ Len(Comments) \in Nat
  BY CommentsAssumption DEF PageInv, Copied, Lists, RequestRow
<1>1. PICK row \in RequestRow : /\ rows' = [rows EXCEPT ![r] = row]
                                /\ RowFits(row) /\ rows[r].version <= row.version
  <2>1. CASE Submit(r)
    <3>1. rows' = [rows EXCEPT ![r] = Pending] /\ rows[r] = Absent
      BY <2>1 DEF Submit
    <3>2. rows[r].version <= Pending.version
      BY <3>1, AbsentRow, PendingRow
    <3> QED BY <3>1, <3>2, PendingRow
  <2>2. CASE Decide(r)
    <3>1. rows[r].version + 1 \in 1..Len(Comments)
      BY <1>0, <2>2 DEF Decide
    <3> DEFINE v == rows[r].version + 1
               row == [status |-> "decided", comment |-> Comments[v], version |-> v]
    <3>2. row \in RequestRow /\ RowFits(row)
      BY <3>1, DecidedRow
    <3>3. rows[r].version <= row.version
      BY <1>0
    <3>4. rows' = [rows EXCEPT ![r] = row]
      BY <2>2 DEF Decide
    <3> QED BY <3>2, <3>3, <3>4
  <2> QED BY <2>1, <2>2
<1>2. rows' \in Lists /\ \A q \in Requests : RowFits(rows'[q])
                                           /\ rows[q].version <= rows'[q].version
  BY <1>0, <1>1, CommentsAssumption DEF PageInv, Copied, Lists, RequestRow
<1>3. \A q \in Requests : rows'[q].version \in Nat /\ rows[q].version \in Nat
  BY <1>0, <1>2, CommentsAssumption DEF Lists, RequestRow
<1>4. ASSUME NEW list, Copied(list) PROVE Copied(list)'
  <2>1. \A q \in Requests : list[q].version \in Nat
    BY <1>4, CommentsAssumption DEF Copied, Lists, RequestRow
  <2> QED BY <1>2, <1>3, <1>4, <2>1 DEF Copied
<1>5. Copied(rows)'
  BY <1>2, <1>3 DEF Copied
<1>6. UNCHANGED <<cookie, local, page, fetches>>
  BY DEF Submit, Decide
<1> QED BY <1>2, <1>4, <1>5, <1>6 DEF PageInv, TypeOK, local

(***************************************************************************)
(* Steps that leave rows and what is seen alone have to send nothing but   *)
(* lists that were copied.                                                 *)
(***************************************************************************)
LEMMA OtherInv ==
  ASSUME PageInv, UNCHANGED <<role, rows, seen, told>>, cookie' \in BOOLEAN,
         remember' \in {"unset", "yes", "no"}, page' \in Page,
         \A f \in fetches' : f \in Fetch /\ Copied(f.list)
  PROVE  PageInv'
  BY DEF PageInv, TypeOK, Copied

LEMMA SentCopied ==
  ASSUME PageInv, NEW kind \in {"requests", "me", "ping", "logout", "forget"}
  PROVE  Sent(kind) \in Fetch /\ Copied(Sent(kind).list)
  BY NothingCopied, AbsentRow DEF PageInv, TypeOK, Sent, Fetch, NothingSeen, Lists

LEMMA EndedCopied ==
  ASSUME NEW fs, \A f \in fs : f \in Fetch /\ Copied(f.list)
  PROVE  \A f \in Ended(fs) : f \in Fetch /\ Copied(f.list)
  BY DEF Ended, Fetch

LEMMA PageTypes ==
  /\ BlankPage \in Page
  /\ [signedIn |-> TRUE, heart |-> TRUE, watching |-> TRUE] \in Page
  /\ \A p \in Page, b \in BOOLEAN :
       /\ [p EXCEPT !.watching = b] \in Page
       /\ [p EXCEPT !.heart = b] \in Page
       /\ [p EXCEPT !.signedIn = b] \in Page
  BY DEF Page, BlankPage

LEMMA PageStep == PageInv /\ [Next]_vars => PageInv'
<1> SUFFICES ASSUME PageInv, [Next]_vars PROVE PageInv'
  OBVIOUS
<1>0. /\ TypeOK /\ Copied(rows) /\ page \in Page /\ cookie \in BOOLEAN
      /\ remember \in {"unset", "yes", "no"}
      /\ \A f \in fetches : f \in Fetch /\ Copied(f.list)
  BY DEF PageInv, TypeOK
<1>1. ASSUME NEW r \in Requests, Submit(r) \/ Decide(r) PROVE PageInv'
  BY <1>1, RowStep
<1>2. CASE SessionEnds
  <2>1. \A f \in fetches' : f \in Fetch /\ Copied(f.list)
    BY <1>0, <1>2, EndedCopied DEF SessionEnds
  <2> QED BY <1>0, <1>2, <2>1, OtherInv DEF SessionEnds
<1>3. CASE SignInElsewhere
  BY <1>0, <1>3, OtherInv DEF SignInElsewhere
<1>4. CASE PollElsewhere
  BY <1>0, <1>4, ArrivalInv DEF PollElsewhere, PageInv, TypeOK, Copied
<1>5. CASE SignIn
  <2>1. [Sent("me") EXCEPT !.live = TRUE] \in Fetch
        /\ Copied([Sent("me") EXCEPT !.live = TRUE].list)
    BY SentCopied DEF Fetch, Sent
  <2> QED BY <1>0, <1>5, <2>1, OtherInv DEF SignIn
<1>6. CASE OpenCabinet
  <2>1. page' \in Page
    BY <1>0, <1>6, PageTypes DEF OpenCabinet
  <2> QED BY <1>0, <1>6, <2>1, SentCopied, OtherInv DEF OpenCabinet, local
<1>7. CASE WatcherTick
  <2>1. page' \in Page
    BY <1>0, <1>7, PageTypes DEF WatcherTick
  <2> QED BY <1>0, <1>7, <2>1, SentCopied, OtherInv DEF WatcherTick, local
<1>8. CASE HeartTick
  <2>1. page' \in Page
    BY <1>0, <1>8, PageTypes DEF HeartTick
  <2> QED BY <1>0, <1>8, <2>1, SentCopied, OtherInv DEF HeartTick, local
<1>9. CASE LogOut
  BY <1>0, <1>9, SentCopied, OtherInv DEF LogOut, local
<1>10. CASE Reload
  <2>1. fetches' \in {{Sent("forget")}, {Sent("me")}, {}}
    BY <1>0, <1>10 DEF Reload
  <2> QED BY <1>0, <1>10, <2>1, SentCopied, PageTypes, OtherInv DEF Reload, local
<1>11. ASSUME NEW f \in fetches, Answer(f) PROVE PageInv'
  <2>1. [f EXCEPT !.answered = TRUE, !.list = rows] \in Fetch
        /\ Copied([f EXCEPT !.answered = TRUE, !.list = rows].list)
    BY <1>0 DEF Fetch, Copied
  <2> QED BY <1>0, <1>11, <2>1, OtherInv DEF Answer, local
<1>12. ASSUME NEW f \in fetches, PollArrives(f) PROVE PageInv'
  <2>1. CASE page.signedIn
    <3>1. Copied(seen)' /\ told' \in [Requests -> Nat]
          /\ \A r \in Requests : told'[r] <= seen'[r].version
      BY <1>0, <1>12, <2>1, ArrivalInv DEF PollArrives
    <3> QED BY <1>0, <1>12, <3>1 DEF PollArrives, PageInv, TypeOK, Copied
  <2>2. CASE ~page.signedIn
    BY <1>0, <1>12, <2>2, OtherInv DEF PollArrives
  <2> QED BY <2>1, <2>2
<1>13. ASSUME NEW f \in fetches, Refused(f) PROVE PageInv'
  <2> DEFINE watching == page.watching /\ role = "media"
  <2>1. watching \in BOOLEAN
    OBVIOUS
  <2>2. [BlankPage EXCEPT !.watching = watching] \in Page
    BY <2>1, PageTypes
  <2>3. page' \in Page
    BY <1>0, <1>13, <2>2 DEF Refused, SessionExpired
  <2> QED BY <1>0, <1>13, <2>3, OtherInv DEF Refused, local
<1>14. ASSUME NEW f \in fetches, SessionLoaded(f) PROVE PageInv'
  BY <1>0, <1>14, SentCopied, PageTypes, OtherInv DEF SessionLoaded, local
<1>15. ASSUME NEW f \in fetches, NoSessionLoaded(f) PROVE PageInv'
  BY <1>0, <1>15, PageTypes, OtherInv DEF NoSessionLoaded, local
<1>16. ASSUME NEW f \in fetches, LoggedOut(f) PROVE PageInv'
  <2>1. page' \in Page /\ cookie' \in BOOLEAN /\ remember' \in {"unset", "yes", "no"}
    BY <1>0, <1>16, PageTypes DEF LoggedOut
  <2>2. \A g \in fetches' : g \in Fetch /\ Copied(g.list)
    BY <1>0, <1>16, EndedCopied DEF LoggedOut
  <2> QED BY <1>16, <2>1, <2>2, OtherInv DEF LoggedOut
<1>17. ASSUME NEW f \in fetches, Dropped(f) PROVE PageInv'
  BY <1>0, <1>17, OtherInv DEF Dropped, local
<1>18. CASE UNCHANGED vars
  BY <1>0, <1>18, OtherInv DEF vars
<1> QED
  BY <1>1, <1>2, <1>3, <1>4, <1>5, <1>6, <1>7, <1>8, <1>9, <1>10, <1>11, <1>12, <1>13,
     <1>14, <1>15, <1>16, <1>17, <1>18 DEF Next

LEMMA PageInit == Init => PageInv
<1> SUFFICES ASSUME Init PROVE PageInv
  OBVIOUS
<1>1. NothingSeen \in Lists
  BY AbsentRow DEF NothingSeen, Lists
<1>2. Copied(rows) /\ Copied(seen)
  BY <1>1, AbsentRow DEF Init, Copied, NothingSeen
<1>3. \A r \in Requests : told[r] <= seen[r].version
  BY AbsentRow DEF Init, NothingSeen
<1>4. TypeOK
  BY <1>1, PageTypes DEF Init, TypeOK
<1> QED BY <1>2, <1>3, <1>4 DEF PageInv, Init

-----------------------------------------------------------------------------
(***************************************************************************)
(* Every variable keeps its type.                                          *)
(***************************************************************************)
THEOREM PageTypeCorrect == Spec => []TypeOK
<1>1. PageInv => TypeOK
  BY DEF PageInv
<1> QED BY PageInit, PageStep, <1>1, PTL DEF Spec

(***************************************************************************)
(* No decision is announced twice, however many polls of however many tabs *)
(* overtake each other: whatever puts the remembered statuses back to an   *)
(* older version has the announcements of the newer one forgotten.         *)
(***************************************************************************)
THEOREM AnnouncedOnceAlways == Spec => []AnnouncedOnce
<1>1. ASSUME PageInv PROVE AnnouncedOnce
  <2>1. \A r \in Requests :
          told[r] \in Nat /\ seen[r].version \in Nat /\ rows[r].version \in Nat
    BY <1>1, CommentsAssumption DEF PageInv, TypeOK, Lists, RequestRow
  <2> QED BY <1>1, <2>1 DEF PageInv, Copied, AnnouncedOnce
<1> QED BY PageInit, PageStep, <1>1, PTL DEF Spec

-----------------------------------------------------------------------------

(***************************************************************************)
(* An upload, or none.                                                     *)
(***************************************************************************)
UploadType == [chunk : 0..Chunks - 1, attempt : 0..Attempts, sent : BOOLEAN,
               parts : [0..Chunks - 1 -> Part], handlers : SUBSET Handler]

UploadTypes(u) == u \in UploadType /\ (u.attempt = 0 => u = NoUpload)

(***************************************************************************)
(* The parts of the chunks before the present one are whole, or merged, or *)
(* were created anew by a handler that had been given up.                  *)
(***************************************************************************)
Intact(part) == part = NoPart \/ part.data # "torn"

EarlierIntact(u) == \A c \in 0..Chunks - 1 : c < u.chunk => Intact(u.parts[c])

(***************************************************************************)
(* The attempts the handlers work for were sent, each once.                *)
(***************************************************************************)
AttemptsSent(u) == \A h \in u.handlers :
  /\ h.chunk <= u.chunk
  /\ h.chunk = u.chunk => h.attempt <= u.attempt
  /\ h.chunk = u.chunk /\ ~u.sent => h.attempt < u.attempt

OneAwaited(u) == \A h, k \in u.handlers : Awaited(u, h) /\ Awaited(u, k) => h = k

(***************************************************************************)
(* The handler whose answer is awaited created its part last, as long as   *)
(* it writes it, or another did that had been given up; when it is written *)
(* the part is not torn.  All it has read was not torn.                    *)
(***************************************************************************)
Fit(h, parts) ==
  /\ h.data # "torn"
  /\ h.step = "write" => parts[h.chunk].by = h.attempt \/ Intact(parts[h.chunk])
  /\ h.step \in {"lock", "merge", "ok"} => Intact(parts[h.chunk])

AwaitedFits(u) == \A h \in u.handlers : Awaited(u, h) => Fit(h, u.parts)

(***************************************************************************)
(* Handlers of the last chunk merge, and answers reach who awaits them.    *)
(***************************************************************************)
StepsFit(u) == \A h \in u.handlers :
  /\ h.step \in {"lock", "merge"} => IsLast(h.chunk)
  /\ h.step # "ok" => h.next < Chunks
  /\ h.step = "ok" => Awaited(u, h)

UploadInv(u) == /\ UploadTypes(u) /\ EarlierIntact(u) /\ AttemptsSent(u)
                /\ OneAwaited(u) /\ AwaitedFits(u) /\ StepsFit(u)

-----------------------------------------------------------------------------
(***************************************************************************)
(* An upload that begins, and none.                                        *)
(***************************************************************************)
LEMMA NewTypes == NewUpload \in UploadType /\ NoUpload \in UploadType
<1>1. NoPart \in Part /\ 0 \in 0..Chunks - 1 /\ 1 \in 0..Attempts /\ 0 \in 0..Attempts
  BY UploadsAssumption DEF NoPart, Part, Data
<1>2. [c \in 0..Chunks - 1 |-> NoPart] \in [0..Chunks - 1 -> Part]
  BY <1>1
<1>3. NewUpload \in UploadType
  BY <1>1, <1>2 DEF NewUpload, UploadType
<1> QED BY <1>1, <1>3 DEF NoUpload, UploadType

LEMMA NewInv == UploadInv(NewUpload) /\ UploadInv(NoUpload)
<1>1. /\ NewUpload.attempt = 1 /\ NewUpload.chunk = 0 /\ NewUpload.handlers = {}
      /\ NoUpload.attempt = 0 /\ NoUpload.chunk = 0 /\ NoUpload.handlers = {}
  BY DEF NewUpload, NoUpload
<1> QED BY <1>1, NewTypes DEF UploadInv, UploadTypes, EarlierIntact, AttemptsSent, OneAwaited,
           AwaitedFits, StepsFit

(***************************************************************************)
(* The next attempt is lost.                                               *)
(***************************************************************************)
LEMMA SentInv ==
  ASSUME NEW u, UploadInv(u), u # NoUpload, ~u.sent
  PROVE  UploadInv([u EXCEPT !.sent = TRUE])
<1> DEFINE v == [u EXCEPT !.sent = TRUE]
<1>1. /\ v \in UploadType /\ v.chunk = u.chunk /\ v.attempt = u.attempt /\ v.sent
      /\ v.parts = u.parts /\ v.handlers = u.handlers
  BY DEF UploadInv, UploadTypes, UploadType
<1> HIDE DEF v
<1>2. UploadTypes(v)
  BY <1>1 DEF UploadInv, UploadTypes
<1>3. ASSUME NEW h \in v.handlers PROVE ~Awaited(v, h) /\ h.step # "ok"
  BY <1>1 DEF UploadInv, UploadTypes, UploadType, AttemptsSent, StepsFit, Awaited, Handler
<1>4. EarlierIntact(v) /\ AttemptsSent(v)
  BY <1>1 DEF UploadInv, EarlierIntact, AttemptsSent
<1>5. OneAwaited(v) /\ AwaitedFits(v) /\ StepsFit(v)
  BY <1>1, <1>3 DEF UploadInv, OneAwaited, AwaitedFits, StepsFit
<1> QED BY <1>2, <1>4, <1>5 DEF UploadInv, v

(***************************************************************************)
(* It is received.                                                         *)
(***************************************************************************)
Receiver(u) == [chunk |-> u.chunk, attempt |-> u.attempt, step |-> "create", next |-> 0,
                data |-> "whole"]

LEMMA ReceivedInv ==
  ASSUME NEW u, UploadInv(u), u # NoUpload, ~u.sent
  PROVE  UploadInv([[u EXCEPT !.sent = TRUE] EXCEPT !.handlers = @ \cup {Receiver(u)}])
<1> DEFINE g == Receiver(u)
           v == [[u EXCEPT !.sent = TRUE] EXCEPT !.handlers = @ \cup {g}]
<1>1. /\ u \in UploadType /\ u.chunk \in 0..Chunks - 1 /\ u.attempt \in 1..Attempts
      /\ u.handlers \in SUBSET Handler
  BY DEF UploadInv, UploadTypes, UploadType
<1>2. /\ g \in Handler /\ g.chunk = u.chunk /\ g.attempt = u.attempt /\ g.step = "create"
      /\ g.data = "whole" /\ g.next < Chunks
  BY <1>1, UploadsAssumption DEF Receiver, Handler, Data
<1> HIDE DEF g
<1>3. /\ v \in UploadType /\ v.chunk = u.chunk /\ v.attempt = u.attempt /\ v.sent
      /\ v.parts = u.parts /\ v.handlers = u.handlers \cup {g}
  BY <1>1, <1>2 DEF UploadType
<1> HIDE DEF v
<1>4. UploadTypes(v)
  BY <1>1, <1>3 DEF UploadTypes
<1>5. ASSUME NEW h \in u.handlers
      PROVE  /\ ~Awaited(v, h) /\ h.step # "ok"
             /\ h.chunk = u.chunk => h.attempt < u.attempt
  BY <1>1, <1>3 DEF UploadInv, AttemptsSent, StepsFit, Awaited, Handler
<1>6. EarlierIntact(v)
  BY <1>3 DEF UploadInv, EarlierIntact
<1>7. AttemptsSent(v)
  BY <1>1, <1>2, <1>3 DEF UploadInv, AttemptsSent
<1>8. OneAwaited(v) /\ AwaitedFits(v)
  BY <1>2, <1>3, <1>5 DEF OneAwaited, AwaitedFits, Fit
<1>9. StepsFit(v)
  BY <1>2, <1>3, <1>5 DEF UploadInv, StepsFit
<1> QED BY <1>4, <1>6, <1>7, <1>8, <1>9 DEF UploadInv, v, g

(***************************************************************************)
(* A handler h becomes those of G, which work for the same attempt, and    *)
(* the parts become ps: what is left to show of each kind of step.         *)
(***************************************************************************)
Follows(v, u, h, G, ps) ==
  /\ v \in UploadType /\ v.chunk = u.chunk /\ v.attempt = u.attempt /\ v.sent = u.sent
  /\ v.parts = ps
  /\ v.handlers = (u.handlers \ {h}) \cup G

Successor(u, h, g) ==
  /\ g \in Handler /\ g.chunk = h.chunk /\ g.attempt = h.attempt
  /\ g.step \in {"lock", "merge"} => IsLast(g.chunk)
  /\ g.step # "ok" => g.next < Chunks
  /\ g.step = "ok" => Awaited(u, h)

LEMMA BecomesInv ==
  ASSUME NEW u, UploadInv(u), NEW h \in u.handlers,
         NEW ps \in [0..Chunks - 1 -> Part],
         NEW G, \A g \in G : Successor(u, h, g), \A g, k \in G : g = k,
         Awaited(u, h) => \A g \in G : Fit(g, ps),
         \A c \in 0..Chunks - 1 : c < u.chunk /\ Intact(u.parts[c]) => Intact(ps[c]),
         \A k \in u.handlers \ {h} : Awaited(u, k) => Fit(k, ps),
         NEW v, Follows(v, u, h, G, ps)
  PROVE  UploadInv(v)
<1>1. /\ u \in UploadType /\ u.chunk \in 0..Chunks - 1 /\ u.attempt \in 0..Attempts
      /\ u.parts \in [0..Chunks - 1 -> Part] /\ u.handlers \in SUBSET Handler
  BY DEF UploadInv, UploadTypes, UploadType
<1>2. /\ v \in UploadType /\ v.chunk = u.chunk /\ v.attempt = u.attempt /\ v.sent = u.sent
      /\ v.parts = ps /\ v.handlers = (u.handlers \ {h}) \cup G
  BY DEF Follows
<1>3. u.attempt # 0
  BY DEF UploadInv, UploadTypes, NoUpload, NewUpload
<1>4. UploadTypes(v)
  BY <1>2, <1>3 DEF UploadTypes
<1>5. ASSUME NEW k \in v.handlers
      PROVE  /\ Awaited(v, k) <=> Awaited(u, k)
             /\ k \in u.handlers \ {h} \/ k \in G
  BY <1>2 DEF Awaited
<1>6. ASSUME NEW g \in G
      PROVE  /\ g.chunk = h.chunk /\ g.attempt = h.attempt
             /\ Awaited(u, g) <=> Awaited(u, h)
  BY DEF Awaited, Successor
<1>7. EarlierIntact(v)
  BY <1>1, <1>2 DEF UploadInv, EarlierIntact
<1>8. AttemptsSent(v)
  BY <1>2, <1>5, <1>6 DEF UploadInv, AttemptsSent
<1>9. OneAwaited(v)
  <2>1. ASSUME NEW g \in v.handlers, NEW k \in v.handlers, Awaited(v, g), Awaited(v, k)
        PROVE  g = k
    <3>1. Awaited(u, g) /\ Awaited(u, k)
      BY <1>5, <2>1
    <3>2. CASE g \in G /\ k \in G
      BY <3>2
    <3>3. CASE g \in u.handlers \ {h} /\ k \in u.handlers \ {h}
      BY <3>1, <3>3 DEF UploadInv, OneAwaited
    <3>4. CASE (g \in G /\ k \in u.handlers \ {h}) \/ (k \in G /\ g \in u.handlers \ {h})
      BY <1>6, <3>1, <3>4 DEF UploadInv, OneAwaited
    <3> QED BY <1>5, <2>1, <3>2, <3>3, <3>4
  <2> QED BY <2>1 DEF OneAwaited
<1>10. AwaitedFits(v)
  <2>1. ASSUME NEW k \in v.handlers, Awaited(v, k)
        PROVE  Fit(k, ps)
    BY <1>5, <1>6, <2>1
  <2> QED BY <1>2, <2>1 DEF AwaitedFits
<1>11. StepsFit(v)
  <2>1. ASSUME NEW k \in v.handlers
        PROVE  /\ k.step \in {"lock", "merge"} => IsLast(k.chunk)
               /\ k.step # "ok" => k.next < Chunks
               /\ k.step = "ok" => Awaited(v, k)
    <3>1. CASE k \in u.handlers
      BY <1>5, <3>1 DEF UploadInv, StepsFit
    <3>2. CASE k \in G
      BY <1>5, <1>6, <3>2 DEF Successor
    <3> QED BY <1>5, <3>1, <3>2
  <2> QED BY <2>1 DEF StepsFit
<1> QED BY <1>4, <1>7, <1>8, <1>9, <1>10, <1>11 DEF UploadInv

LEMMA UploadFields ==
  ASSUME NEW u, UploadInv(u)
  PROVE  /\ u \in UploadType /\ u.chunk \in 0..Chunks - 1 /\ u.attempt \in 0..Attempts
         /\ u.parts \in [0..Chunks - 1 -> Part] /\ u.handlers \in SUBSET Handler
  BY DEF UploadInv, UploadTypes, UploadType

(***************************************************************************)
(* A handler goes on, or ends, with the parts as they are by then.         *)
(***************************************************************************)
Left(u, h, g) == IF g.step = "ok" /\ ~Awaited(u, h) THEN {} ELSE {g}

LEMMA BecomesFollows ==
  ASSUME NEW u \in UploadType, NEW h \in u.handlers, NEW g \in Handler,
         NEW ps \in [0..Chunks - 1 -> Part], NEW w, w = [u EXCEPT !.parts = ps]
  PROVE  /\ Follows(Becomes(w, h, g), u, h, Left(u, h, g), ps)
         /\ Follows(Ends(w, h), u, h, {}, ps)
<1>1. /\ w \in UploadType /\ w.handlers = u.handlers /\ w.chunk = u.chunk /\ w.parts = ps
      /\ w.attempt = u.attempt /\ w.sent = u.sent
  BY DEF UploadType
<1>2. Awaited(w, h) <=> Awaited(u, h)
  BY <1>1 DEF Awaited
<1>3. u.handlers \in SUBSET Handler
  BY DEF UploadType
<1> QED BY <1>1, <1>2, <1>3 DEF Follows, Becomes, Ends, Left, UploadType

(***************************************************************************)
(* Parts that are written, removed or created by a handler that was given  *)
(* up leave what is intact so, and the one awaited, unless it is at work   *)
(* on them itself, as it was.                                              *)
(***************************************************************************)
LEMMA FitStays ==
  ASSUME NEW u, UploadInv(u), NEW k \in u.handlers, Awaited(u, k),
         NEW ps, \A c \in 0..Chunks - 1 : ps[c] = u.parts[c] \/ Intact(ps[c])
  PROVE  Fit(k, ps)
<1>1. Fit(k, u.parts) /\ k.chunk \in 0..Chunks - 1
  BY UploadFields DEF UploadInv, AwaitedFits, Handler
<1> QED BY <1>1 DEF Fit

LEMMA IntactStep ==
  ASSUME NEW u, UploadInv(u), NEW h \in u.handlers,
         NEW ps \in [0..Chunks - 1 -> Part],
         \A c \in 0..Chunks - 1 : ps[c] = u.parts[c] \/ Intact(ps[c]),
         NEW G, \A g \in G : Successor(u, h, g), \A g, k \in G : g = k,
         Awaited(u, h) => \A g \in G : Fit(g, ps),
         NEW v, Follows(v, u, h, G, ps)
  PROVE  UploadInv(v)
<1>1. \A k \in u.handlers \ {h} : Awaited(u, k) => Fit(k, ps)
  BY FitStays
<1>2. \A c \in 0..Chunks - 1 : c < u.chunk /\ Intact(u.parts[c]) => Intact(ps[c])
  OBVIOUS
<1> QED BY <1>1, <1>2, BecomesInv

-----------------------------------------------------------------------------
(***************************************************************************)
(* The steps of a handler.                                                 *)
(***************************************************************************)
LEMMA CreateInv ==
  ASSUME NEW s \in Submissions, NEW h, UploadInv(uploads[s]),
         uploads \in [Submissions -> UploadType], CreatePart(s, h)
  PROVE  UploadInv(uploads'[s])
<1> DEFINE u == uploads[s]
           g == [h EXCEPT !.step = "write"]
           part == [by |-> h.attempt, data |-> IF Awaited(u, h) THEN "torn" ELSE "late"]
           ps == [u.parts EXCEPT ![h.chunk] = part]
<1>1. /\ u \in UploadType /\ h \in u.handlers /\ h \in Handler
      /\ u.parts \in [0..Chunks - 1 -> Part] /\ h.step = "create"
  BY UploadFields DEF CreatePart
<1>2. /\ g \in Handler /\ g.chunk = h.chunk /\ g.attempt = h.attempt /\ g.data = h.data
      /\ g.step = "write" /\ g.next = h.next
  BY <1>1 DEF Handler
<1>3. /\ part \in Part /\ h.chunk \in 0..Chunks - 1 /\ ps \in [0..Chunks - 1 -> Part]
      /\ ~Awaited(u, h) => Intact(part)
      /\ part.by = h.attempt
  BY <1>1 DEF Part, Data, Handler, Intact
<1>4. h.next < Chunks /\ (Awaited(u, h) => h.data # "torn" /\ h.chunk = u.chunk)
  BY <1>1 DEF UploadInv, StepsFit, AwaitedFits, Fit, Awaited
<1>5. uploads'[s] = Becomes([u EXCEPT !.parts = ps], h, g)
  BY DEF CreatePart
<1>6. Left(u, h, g) = {g}
  BY <1>2 DEF Left
<1>7. /\ ps[h.chunk] = part
      /\ \A c \in (0..Chunks - 1) \ {h.chunk} : ps[c] = u.parts[c]
  BY <1>1, <1>3
<1>8. Successor(u, h, g) /\ UploadInv(u)
  BY <1>2, <1>4 DEF Successor
<1> HIDE DEF u, g, part, ps
<1>9. Follows(uploads'[s], u, h, {g}, ps)
  BY <1>1, <1>2, <1>3, <1>5, <1>6, BecomesFollows
<1>10. CASE Awaited(u, h)
  <2>1. Fit(g, ps)
    BY <1>2, <1>3, <1>4, <1>7, <1>10 DEF Fit
  <2>2. \A k \in u.handlers \ {h} : Awaited(u, k) => Fit(k, ps)
    BY <1>1, <1>8, <1>10 DEF UploadInv, OneAwaited
  <2>3. u.chunk \in Int /\ \A c \in 0..Chunks - 1 : c < u.chunk => ps[c] = u.parts[c]
    BY <1>1, <1>4, <1>7, <1>10 DEF UploadType
  <2> QED BY <1>1, <1>3, <1>8, <1>9, <2>1, <2>2, <2>3, BecomesInv
<1>11. CASE ~Awaited(u, h)
  BY <1>1, <1>3, <1>7, <1>8, <1>9, <1>11, IntactStep
<1> QED BY <1>10, <1>11

LEMMA WriteInv ==
  ASSUME NEW s \in Submissions, NEW h, UploadInv(uploads[s]),
         uploads \in [Submissions -> UploadType], WriteChunk(s, h)
  PROVE  UploadInv(uploads'[s])
<1> DEFINE u == uploads[s]
           g == [h EXCEPT !.step = IF IsLast(h.chunk) THEN "lock" ELSE "ok"]
           whole == [by |-> 0, data |-> "whole"]
           ps == IF u.parts[h.chunk].by = h.attempt
                 THEN [u.parts EXCEPT ![h.chunk] = whole] ELSE u.parts
<1>1. /\ u \in UploadType /\ h \in u.handlers /\ h \in Handler
      /\ u.parts \in [0..Chunks - 1 -> Part] /\ h.step = "write"
  BY UploadFields DEF WriteChunk
<1>2. /\ g \in Handler /\ g.chunk = h.chunk /\ g.attempt = h.attempt
      /\ g.data = h.data /\ g.next = h.next
      /\ g.step = IF IsLast(h.chunk) THEN "lock" ELSE "ok"
  BY <1>1 DEF Handler
<1>3. h.chunk \in 0..Chunks - 1 /\ whole \in Part /\ Intact(whole)
  BY <1>1, UploadsAssumption DEF Part, Data, Handler, Intact
<1>4. ps \in [0..Chunks - 1 -> Part]
  BY <1>1, <1>3
<1>5. \A c \in 0..Chunks - 1 : ps[c] = u.parts[c] \/ Intact(ps[c])
  BY <1>1, <1>3
<1>6. uploads'[s] = Becomes([u EXCEPT !.parts = ps], h, g)
  BY <1>1 DEF WriteChunk, UploadType
<1>7. /\ h.next < Chunks
      /\ Awaited(u, h) => /\ h.data # "torn"
                          /\ u.parts[h.chunk].by = h.attempt \/ Intact(u.parts[h.chunk])
  BY <1>1 DEF UploadInv, StepsFit, AwaitedFits, Fit
<1>8. Awaited(u, h) => Intact(ps[h.chunk])
  BY <1>1, <1>3, <1>7
<1>9. UploadInv(u)
  OBVIOUS
<1> HIDE DEF u, g, ps, whole
<1>10. Follows(uploads'[s], u, h, Left(u, h, g), ps)
  BY <1>1, <1>2, <1>4, <1>6, BecomesFollows
<1>11. \A k \in Left(u, h, g) : k = g /\ Successor(u, h, k)
  BY <1>2, <1>7 DEF Left, Successor
<1>12. Awaited(u, h) => \A k \in Left(u, h, g) : Fit(k, ps)
  BY <1>2, <1>7, <1>8, <1>11 DEF Fit
<1> QED BY <1>1, <1>4, <1>5, <1>9, <1>10, <1>11, <1>12, IntactStep

LEMMA LockInv ==
  ASSUME NEW s \in Submissions, NEW h, UploadInv(uploads[s]),
         uploads \in [Submissions -> UploadType], Lock(s, h)
  PROVE  UploadInv(uploads'[s])
<1> DEFINE u == uploads[s]
           g == [h EXCEPT !.step = "merge"]
<1>1. /\ u \in UploadType /\ h \in u.handlers /\ h \in Handler
      /\ u.parts \in [0..Chunks - 1 -> Part] /\ h.step = "lock"
  BY UploadFields DEF Lock
<1>2. /\ g \in Handler /\ g.chunk = h.chunk /\ g.attempt = h.attempt
      /\ g.data = h.data /\ g.next = h.next /\ g.step = "merge"
  BY <1>1 DEF Handler
<1>3. uploads'[s] = Becomes([u EXCEPT !.parts = u.parts], h, g)
  BY <1>1 DEF Lock, UploadType
<1>4. h.next < Chunks /\ IsLast(h.chunk) /\ (Awaited(u, h) => Fit(h, u.parts))
  BY <1>1 DEF UploadInv, StepsFit, AwaitedFits
<1>5. UploadInv(u)
  OBVIOUS
<1> HIDE DEF u, g
<1>6. Follows(uploads'[s], u, h, Left(u, h, g), u.parts) /\ Left(u, h, g) = {g}
  BY <1>1, <1>2, <1>3, BecomesFollows DEF Left
<1>7. Successor(u, h, g) /\ (Awaited(u, h) => Fit(g, u.parts))
  BY <1>1, <1>2, <1>4 DEF Successor, Fit
<1> QED BY <1>1, <1>5, <1>6, <1>7, IntactStep

(***************************************************************************)
(* What is not torn stays so when it is read with what is not torn.        *)
(***************************************************************************)
LEMMA WorseType ==
  ASSUME NEW a \in Data, NEW b \in Data
  PROVE  Worse(a, b) \in Data /\ (a # "torn" /\ b # "torn" => Worse(a, b) # "torn")
<1>1. CASE "torn" \in {a, b}
  BY <1>1 DEF Worse, Data
<1>2. CASE "torn" \notin {a, b} /\ "late" \in {a, b}
  <2>1. Worse(a, b) = "late"
    BY <1>2 DEF Worse
  <2> QED BY <2>1 DEF Data
<1>3. CASE a = "whole" /\ b = "whole"
  <2>1. Worse(a, b) = "whole"
    BY <1>3 DEF Worse
  <2> QED BY <2>1 DEF Data
<1> QED BY <1>1, <1>2, <1>3 DEF Data

LEMMA NoPartType == NoPart \in Part /\ Intact(NoPart)
  BY UploadsAssumption DEF NoPart, Part, Data, Intact

LEMMA MergeInv ==
  ASSUME NEW s \in Submissions, NEW h, UploadInv(uploads[s]),
         uploads \in [Submissions -> UploadType], Merge(s, h)
  PROVE  UploadInv(uploads'[s])
<1> DEFINE u == uploads[s]
           part == u.parts[h.next]
           g == Read(h, part)
           ps == [u.parts EXCEPT ![h.next] = NoPart]
<1>1. /\ u \in UploadType /\ h \in u.handlers /\ h \in Handler
      /\ u.parts \in [0..Chunks - 1 -> Part] /\ u.chunk \in 0..Chunks - 1
      /\ h.step = "merge" /\ part # NoPart
  BY UploadFields DEF Merge
<1>2. /\ h.next < Chunks /\ IsLast(h.chunk)
      /\ Awaited(u, h) => h.data # "torn" /\ Intact(u.parts[h.chunk]) /\ h.chunk = u.chunk
  BY <1>1 DEF UploadInv, StepsFit, AwaitedFits, Fit, Awaited
<1>3. h.next \in 0..Chunks - 1 /\ h.chunk \in 0..Chunks - 1 /\ h.data \in Data
      /\ part.data \in Data
  BY <1>1, <1>2, UploadsAssumption DEF Handler, Part
<1>4. UploadInv(u)
  OBVIOUS
<1>5. Awaited(u, h) => Intact(part)
  BY <1>1, <1>2, <1>3, <1>4 DEF UploadInv, EarlierIntact, IsLast
<1>6. Worse(h.data, part.data) \in Data
      /\ (Awaited(u, h) => Worse(h.data, part.data) # "torn")
  BY <1>1, <1>2, <1>3, <1>5, WorseType DEF Intact
<1>7. uploads'[s] = Becomes([u EXCEPT !.parts = ps], h, g)
  BY <1>1 DEF Merge, UploadType
<1>8. ps \in [0..Chunks - 1 -> Part]
      /\ \A c \in 0..Chunks - 1 : ps[c] = u.parts[c] \/ Intact(ps[c])
  BY <1>1, <1>3, NoPartType
<1>9. Awaited(u, h) => Intact(ps[h.chunk])
  BY <1>1, <1>2, <1>3 DEF Intact
<1> DEFINE d == Worse(h.data, part.data)
<1>10. /\ g \in Handler /\ g.chunk = h.chunk /\ g.attempt = h.attempt
       /\ g.data = d /\ g.next = h.next + 1
       /\ g.step = IF IsLast(h.next) THEN "ok" ELSE "merge"
  <2>1. d \in Data /\ h.next + 1 \in 0..Chunks
    BY <1>3, <1>6, UploadsAssumption
  <2>2. g = [h EXCEPT !.next = @ + 1, !.data = d, !.step = IF IsLast(h.next) THEN "ok" ELSE @]
    BY DEF Read
  <2> HIDE DEF d, g, part
  <2> QED BY <1>1, <2>1, <2>2 DEF Handler
<1> HIDE DEF u, g, ps, part, d
<1>11. Follows(uploads'[s], u, h, Left(u, h, g), ps)
  BY <1>1, <1>7, <1>8, <1>10, BecomesFollows
<1>12. g.step # "ok" => g.next < Chunks
  BY <1>3, <1>10, UploadsAssumption DEF IsLast
<1>13. \A k \in Left(u, h, g) : k = g /\ Successor(u, h, k)
  BY <1>2, <1>10, <1>12 DEF Left, Successor
<1>14. Awaited(u, h) => \A k \in Left(u, h, g) : Fit(k, ps)
  <2>1. Awaited(u, h) => g.data # "torn"
    BY <1>6, <1>10 DEF d
  <2> QED BY <1>9, <1>10, <1>13, <2>1 DEF Fit
<1> QED BY <1>1, <1>4, <1>8, <1>11, <1>13, <1>14, IntactStep

LEMMA HandlerFailsInv ==
  ASSUME NEW s \in Submissions, NEW h, UploadInv(uploads[s]),
         uploads \in [Submissions -> UploadType], HandlerFails(s, h)
  PROVE  UploadInv(uploads'[s])
<1> DEFINE u == uploads[s]
           removed == [u.parts EXCEPT ![h.next] = NoPart]
<1>1. /\ u \in UploadType /\ h \in u.handlers /\ h \in Handler
      /\ u.parts \in [0..Chunks - 1 -> Part] /\ UploadInv(u)
  BY UploadFields DEF HandlerFails
<1>2. PICK ps \in {u.parts, removed} : uploads'[s] = Ends([u EXCEPT !.parts = ps], h)
  BY <1>1 DEF HandlerFails, UploadType
<1>3. ps \in [0..Chunks - 1 -> Part]
      /\ \A c \in 0..Chunks - 1 : ps[c] = u.parts[c] \/ Intact(ps[c])
  BY <1>1, <1>2, NoPartType
<1> HIDE DEF u, removed
<1>4. Follows(uploads'[s], u, h, {}, ps)
  BY <1>1, <1>2, <1>3, BecomesFollows
<1> QED BY <1>1, <1>3, <1>4, IntactStep

(***************************************************************************)
(* The client's steps: an answer that is awaited, and the end of waiting.  *)
(***************************************************************************)
LEMMA UnansweredSteps ==
  ASSUME NEW u, UploadInv(u), NEW h \in Unanswered(u)
  PROVE  h \in u.handlers /\ h \in Handler /\ h.step # "ok"
  BY UploadFields DEF Unanswered

LEMMA AcceptedInv ==
  ASSUME NEW s \in Submissions, NEW h, UploadInv(uploads[s]),
         uploads \in [Submissions -> UploadType], ChunkAccepted(s, h)
  PROVE  UploadInv(uploads'[s])
<1> DEFINE u == uploads[s]
           v == uploads'[s]
<1>1. /\ u \in UploadType /\ h \in u.handlers /\ h \in Handler
      /\ u.parts \in [0..Chunks - 1 -> Part] /\ u.chunk \in 0..Chunks - 1
      /\ u.attempt \in 0..Attempts /\ u.handlers \in SUBSET Handler
  BY UploadFields DEF ChunkAccepted
<1>2. /\ h.step = "ok" /\ ~IsLast(h.chunk) /\ Awaited(u, h)
  BY <1>1 DEF ChunkAccepted, UploadInv, StepsFit
<1>3. h.chunk = u.chunk /\ h.attempt = u.attempt /\ h.attempt # 0
  BY <1>1, <1>2 DEF Awaited, Handler
<1>4. u.chunk + 1 \in 0..Chunks - 1 /\ 1 \in 0..Attempts
  BY <1>1, <1>2, <1>3, UploadsAssumption DEF IsLast
<1>5. v = [u EXCEPT !.chunk = @ + 1, !.attempt = 1, !.sent = FALSE,
                    !.handlers = Unanswered(u)]
  BY DEF ChunkAccepted
<1>6. UploadInv(u) /\ Unanswered(u) \subseteq u.handlers
  BY DEF Unanswered
<1> HIDE DEF u, v
<1>7. /\ v \in UploadType /\ v.chunk = u.chunk + 1 /\ v.attempt = 1 /\ ~v.sent
      /\ v.parts = u.parts /\ v.handlers = Unanswered(u)
  BY <1>1, <1>4, <1>5, <1>6 DEF UploadType
<1>8. Intact(u.parts[u.chunk])
  BY <1>1, <1>2, <1>3, <1>6 DEF UploadInv, AwaitedFits, Fit
<1>9. EarlierIntact(v)
  BY <1>1, <1>6, <1>7, <1>8 DEF UploadInv, EarlierIntact
<1>10. AttemptsSent(v)
  BY <1>1, <1>6, <1>7 DEF UploadInv, AttemptsSent, Handler
<1>11. OneAwaited(v) /\ AwaitedFits(v)
  BY <1>7 DEF OneAwaited, AwaitedFits, Awaited
<1>12. StepsFit(v)
  BY <1>6, <1>7, UnansweredSteps DEF UploadInv, StepsFit
<1>13. UploadTypes(v)
  BY <1>7 DEF UploadTypes
<1>14. UploadInv(v)
  BY <1>9, <1>10, <1>11, <1>12, <1>13 DEF UploadInv
<1> QED BY <1>14 DEF v

LEMMA FailsInv ==
  ASSUME NEW s \in Submissions, UploadInv(uploads[s]),
         uploads \in [Submissions -> UploadType], ChunkFails(s)
  PROVE  UploadInv(uploads'[s])
<1> DEFINE u == uploads[s]
           v == uploads'[s]
<1>1. /\ u \in UploadType /\ u.chunk \in 0..Chunks - 1
      /\ u.attempt \in 0..Attempts /\ u.handlers \in SUBSET Handler
  BY UploadFields
<1>2. u.sent /\ u.attempt < Attempts
  BY DEF ChunkFails
<1>3. v = [u EXCEPT !.attempt = @ + 1, !.sent = FALSE, !.handlers = Unanswered(u)]
  BY DEF ChunkFails
<1>4. UploadInv(u) /\ Unanswered(u) \subseteq u.handlers
  BY DEF Unanswered
<1> HIDE DEF u, v
<1>5. u.attempt + 1 \in 0..Attempts /\ u.attempt + 1 # 0
  BY <1>1, <1>2, UploadsAssumption
<1>6. /\ v \in UploadType /\ v.chunk = u.chunk /\ v.attempt = u.attempt + 1 /\ ~v.sent
      /\ v.parts = u.parts /\ v.handlers = Unanswered(u)
  BY <1>1, <1>3, <1>4, <1>5 DEF UploadType
<1>7. UploadTypes(v) /\ EarlierIntact(v)
  BY <1>4, <1>5, <1>6 DEF UploadInv, UploadTypes, EarlierIntact
<1>8. AttemptsSent(v)
  BY <1>1, <1>4, <1>6 DEF UploadInv, AttemptsSent, Handler
<1>9. OneAwaited(v) /\ AwaitedFits(v)
  BY <1>6 DEF OneAwaited, AwaitedFits, Awaited
<1>10. StepsFit(v)
  BY <1>4, <1>6, UnansweredSteps DEF UploadInv, StepsFit
<1>11. UploadInv(v)
  BY <1>7, <1>8, <1>9, <1>10 DEF UploadInv
<1> QED BY <1>11 DEF v

-----------------------------------------------------------------------------
(***************************************************************************)
(* All uploads.  A step changes one of them.                               *)
(***************************************************************************)
AllUploads ==
  /\ uploads \in [Submissions -> UploadType]
  /\ \A s \in Submissions : UploadInv(uploads[s])

LEMMA OneChanged ==
  ASSUME AllUploads, NEW s \in Submissions, NEW x, uploads' = [uploads EXCEPT ![s] = x],
         UploadInv(x)
  PROVE  AllUploads'
<1>1. x \in UploadType
  BY DEF UploadInv, UploadTypes
<1> QED BY <1>1 DEF AllUploads

LEMMA OneStepped ==
  ASSUME AllUploads, NEW s \in Submissions, NEW x, uploads' = [uploads EXCEPT ![s] = x],
         UploadInv(uploads'[s])
  PROVE  AllUploads'
<1>1. x = uploads'[s]
  BY DEF AllUploads
<1> QED BY <1>1, OneChanged

LEMMA SendInv ==
  ASSUME AllUploads, NEW s \in Submissions, SendChunk(s)
  PROVE  AllUploads'
<1> DEFINE u == uploads[s]
           lost == [u EXCEPT !.sent = TRUE]
           received == [lost EXCEPT !.handlers = @ \cup {Receiver(u)}]
<1>1. UploadInv(u) /\ u # NoUpload /\ ~u.sent
  BY DEF AllUploads, SendChunk, Started
<1>2. uploads' = [uploads EXCEPT ![s] = received] \/ uploads' = [uploads EXCEPT ![s] = lost]
  BY DEF SendChunk, Receiver
<1> HIDE DEF u
<1>3. UploadInv(received) /\ UploadInv(lost)
  BY <1>1, SentInv, ReceivedInv
<1> QED BY <1>2, <1>3, OneChanged

LEMMA UploadStepInv ==
  ASSUME AllUploads, NEW s \in Submissions, UploadStep(s)
  PROVE  AllUploads'
<1>1. CASE SendChunk(s)
  BY <1>1, SendInv
<1>7. ASSUME NEW h, CreatePart(s, h) PROVE AllUploads'
  BY <1>7, CreateInv, OneStepped DEF AllUploads, CreatePart
<1>8. ASSUME NEW h, HandlerFails(s, h) PROVE AllUploads'
  BY <1>8, HandlerFailsInv, OneStepped DEF AllUploads, HandlerFails
<1>2. ASSUME NEW h, WriteChunk(s, h) PROVE AllUploads'
  BY <1>2, WriteInv, OneStepped DEF AllUploads, WriteChunk
<1>3. ASSUME NEW h, Lock(s, h) PROVE AllUploads'
  BY <1>3, LockInv, OneStepped DEF AllUploads, Lock
<1>4. ASSUME NEW h, Merge(s, h) PROVE AllUploads'
  BY <1>4, MergeInv, OneStepped DEF AllUploads, Merge
<1>5. ASSUME NEW h, ChunkAccepted(s, h) PROVE AllUploads'
  BY <1>5, AcceptedInv, OneStepped DEF AllUploads, ChunkAccepted
<1>6. CASE ChunkFails(s)
  BY <1>6, FailsInv, OneStepped DEF AllUploads, ChunkFails
<1> QED BY <1>1, <1>2, <1>3, <1>4, <1>5, <1>6, <1>7, <1>8 DEF UploadStep

(***************************************************************************)
(* The submissions: what is needed of them is that they are records.       *)
(***************************************************************************)
Fields == {"stage", "form", "i", "paths"}

AllSubmissions ==
  /\ DOMAIN submissions = Submissions
  /\ submissions = [s \in Submissions |-> submissions[s]]
  /\ \A s \in Submissions : DOMAIN submissions[s] = Fields

FileInv == AllUploads /\ AllSubmissions /\ FileWhole

WholePaths(sub) == DOMAIN sub = Fields /\ "torn" \notin sub.paths

LEMMA IdleWhole == WholePaths(Idle) /\ WholePaths([Idle EXCEPT !.i = 1])
                   /\ WholePaths([Idle EXCEPT !.stage = "save"])
  BY DEF Idle, WholePaths, Fields

LEMMA GoOnInv ==
  ASSUME FileInv, NEW s \in Submissions, NEW sub, WholePaths(sub), GoOn(s, sub)
  PROVE  FileInv'
<1>1. AllUploads'
  BY NewInv, OneChanged DEF GoOn, FileInv
<1> DEFINE t == [sub EXCEPT !.stage = IF sub.i <= picked[sub.form] THEN "upload" ELSE "save"]
<1>2. submissions' = [submissions EXCEPT ![s] = t]
  BY DEF GoOn
<1>3. WholePaths(t)
  BY DEF WholePaths, Fields
<1> HIDE DEF t
<1> QED BY <1>1, <1>2, <1>3 DEF FileInv, AllSubmissions, WholePaths, FileWhole

LEMMA OneSubmission ==
  ASSUME FileInv, AllUploads', NEW s \in Submissions, NEW t, WholePaths(t),
         submissions' = [submissions EXCEPT ![s] = t]
  PROVE  FileInv'
  BY DEF FileInv, AllSubmissions, WholePaths, FileWhole

LEMMA ReplaceInv ==
  ASSUME FileInv, UNCHANGED uploads, NEW b, Replace(b)
  PROVE  FileInv'
<1>1. AllUploads'
  BY DEF FileInv, AllUploads
<1>2. ASSUME NEW s \in Submissions PROVE WholePaths(submissions'[s])
  <2>1. submissions'[s] \in {Idle, [submissions[s] EXCEPT !.form = "gone"]}
    BY DEF Replace
  <2>2. WholePaths([submissions[s] EXCEPT !.form = "gone"])
    BY DEF FileInv, AllSubmissions, FileWhole, WholePaths, Fields
  <2> QED BY <2>1, <2>2, IdleWhole
<1>3. DOMAIN submissions' = Submissions /\ submissions' = [s \in Submissions |-> submissions'[s]]
  BY DEF Replace
<1> QED BY <1>1, <1>2, <1>3 DEF FileInv, AllSubmissions, WholePaths, FileWhole

(***************************************************************************)
(* The answer that ends the upload of a file is of a handler that read     *)
(* no torn parts.                                                          *)
(***************************************************************************)
LEMMA UploadedInv ==
  ASSUME FileInv, NEW s \in Submissions, FileUploaded(s)
  PROVE  FileInv'
<1>1. PICK h \in uploads[s].handlers :
        /\ h.step = "ok"
        /\ GoOn(s, [submissions[s] EXCEPT !.i = @ + 1, !.paths = @ \cup {h.data}])
  BY DEF FileUploaded
<1>2. h.data # "torn"
  BY <1>1 DEF FileInv, AllUploads, UploadInv, StepsFit, AwaitedFits, Fit
<1> DEFINE sub == submissions[s]
           more == sub.paths \cup {h.data}
<1>3. DOMAIN sub = Fields /\ "torn" \notin more
  BY <1>2 DEF FileInv, AllSubmissions, FileWhole
<1> HIDE DEF more
<1>4. WholePaths([sub EXCEPT !.i = @ + 1, !.paths = more])
  BY <1>3 DEF WholePaths, Fields
<1> QED BY <1>1, <1>4, GoOnInv DEF more

LEMMA FileStep ==
  ASSUME FileInv, [FormsNext]_formVars
  PROVE  FileInv'
<1>1. ASSUME UNCHANGED <<uploads, submissions>> PROVE FileInv'
  BY <1>1 DEF FileInv, AllUploads, AllSubmissions, FileWhole
<1>2. ASSUME NEW form \in Forms, SwitchTab(form) PROVE FileInv'
  BY <1>2, ReplaceInv DEF SwitchTab
<1>3. CASE SwitchToList \/ RefreshList
  BY <1>3, ReplaceInv DEF SwitchToList, RefreshList
<1>4. ASSUME NEW bind \in BOOLEAN, ListArrives(bind) \/ ListFails(bind) PROVE FileInv'
  BY <1>4, ReplaceInv DEF ListArrives, ListFails
<1>5. ASSUME AddFile \/ RemoveFile PROVE FileInv'
  BY <1>1, <1>5 DEF AddFile, RemoveFile
<1>6. ASSUME NEW s \in Submissions, SubmitFiles(s) PROVE FileInv'
  BY <1>6, IdleWhole, GoOnInv DEF SubmitFiles
<1>7. ASSUME NEW s \in Submissions, SubmitPlain(s) PROVE FileInv'
  <2>1. AllUploads'
    BY <1>7 DEF SubmitPlain, FileInv, AllUploads
  <2> QED BY <1>7, <2>1, IdleWhole, OneSubmission DEF SubmitPlain
<1>8. ASSUME NEW s \in Submissions, Uploading(s) PROVE FileInv'
  <2>1. AllUploads'
    BY <1>8, UploadStepInv DEF Uploading, FileInv
  <2> QED BY <1>8, <2>1 DEF Uploading, FileInv, AllSubmissions, FileWhole
<1>9. ASSUME NEW s \in Submissions, FileUploaded(s) PROVE FileInv'
  BY <1>9, UploadedInv
<1>10. ASSUME NEW s \in Submissions, UploadFails(s) PROVE FileInv'
  <2>1. AllUploads'
    BY <1>10, NewInv, OneChanged DEF UploadFails, FileInv
  <2> QED BY <1>10, <2>1, IdleWhole, OneSubmission DEF UploadFails
<1>11. ASSUME NEW s \in Submissions, Filed(s) \/ PostRefused(s) PROVE FileInv'
  <2>1. AllUploads'
    BY <1>11 DEF Filed, PostRefused, FileInv, AllUploads
  <2> QED BY <1>11, <2>1, IdleWhole, OneSubmission DEF Filed, PostRefused
<1>12. CASE UNCHANGED formVars
  BY <1>1, <1>12 DEF formVars
<1> QED BY <1>2, <1>3, <1>4, <1>5, <1>6, <1>7, <1>8, <1>9, <1>10, <1>11, <1>12
        DEF FormsNext, Progress

(***************************************************************************)
(* Every path that is filed names a file merged from all its chunks, each  *)
(* complete unless a handler that had been given up created its part again *)
(* (uploads.go, UploadChunk, and cabinet.js, uploadFileBig).               *)
(***************************************************************************)
THEOREM FilesWhole == FormsSpec => []FileWhole
<1>1. FormsInit => FileInv
  BY NewInv, NewTypes, IdleWhole
     DEF FormsInit, FileInv, AllUploads, AllSubmissions, FileWhole, WholePaths
<1>2. FileInv /\ [FormsNext]_formVars => FileInv'
  BY FileStep
<1>3. FileInv => FileWhole
  BY DEF FileInv
<1> QED BY <1>1, <1>2, <1>3, PTL DEF FormsSpec

-----------------------------------------------------------------------------
(***************************************************************************)
(* One press of the button submits once: a form in the page is bound once, *)
(* whatever is drawn and bound after it was left (cabinet.js,              *)
(* switchCabinetTab and bindCabinetForms).                                 *)
(***************************************************************************)
THEOREM FormsBoundOnce == FormsSpec => []FormBoundOnce
<1>1. FormsInit => FormBoundOnce
  BY DEF FormsInit, FormBoundOnce, Forms
<1>2. FormBoundOnce /\ [FormsNext]_formVars => FormBoundOnce'
  <2> SUFFICES ASSUME FormBoundOnce, [FormsNext]_formVars PROVE FormBoundOnce'
    OBVIOUS
  <2>1. CASE UNCHANGED body
    BY <2>1 DEF FormBoundOnce
  <2>2. ASSUME NEW form \in Forms, SwitchTab(form) PROVE FormBoundOnce'
    <3>1. body' = [Shown(form) EXCEPT !.handlers = 1]
      <4>1. Shown(form).shown \in Forms /\ Shown(form).handlers = 0
        BY DEF Shown
      <4>2. Bind(Shown(form)) = [Shown(form) EXCEPT !.handlers = Shown(form).handlers + 1]
        BY <4>1 DEF Bind
      <4>3. Shown(form).handlers + 1 = 1
        BY <4>1
      <4> QED BY <2>2, <4>2, <4>3, Zenon DEF SwitchTab, Replace
    <3>2. body'.handlers = 1
      BY <3>1 DEF Shown
    <3> QED BY <3>2 DEF FormBoundOnce
  <2>3. ASSUME SwitchToList \/ RefreshList PROVE body'.shown \notin Forms
    <3>1. body' = Shown("none")
      BY <2>3 DEF SwitchToList, RefreshList, Replace
    <3> QED BY <3>1 DEF Shown, Forms
  <2>4. ASSUME NEW bind \in BOOLEAN, ListArrives(bind) \/ ListFails(bind)
        PROVE  body'.shown \notin Forms
    <3>1. ASSUME NEW what \in {"list", "none"}
          PROVE  Bind(Shown(what)).shown \notin Forms /\ Shown(what).shown \notin Forms
      BY DEF Bind, Shown, Forms
    <3> QED BY <2>4, <3>1 DEF ListArrives, ListFails, Replace
  <2>5. ASSUME \/ AddFile \/ RemoveFile
               \/ \E s \in Submissions : SubmitFiles(s) \/ SubmitPlain(s) \/ Progress(s)
               \/ UNCHANGED formVars
        PROVE  UNCHANGED body
    BY <2>5 DEF AddFile, RemoveFile, SubmitFiles, SubmitPlain, Progress, Uploading, FileUploaded,
                UploadFails, Filed, PostRefused, formVars
  <2> QED BY <2>1, <2>2, <2>3, <2>4, <2>5 DEF FormsNext, FormBoundOnce
<1> QED BY <1>1, <1>2, PTL DEF FormsSpec
=============================================================================
