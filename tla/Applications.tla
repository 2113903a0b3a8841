----------------------------- MODULE Applications -----------------------------
(***************************************************************************)
(* Applications outside the weekly cycle: to join the media programme, a   *)
(* moderator's HWID resets and Discord bans, ideas and bug reports.  They  *)
(* are submitted by HTTP handlers and decided by administrators on the     *)
(* site and through Telegram buttons.  A decision reads the row, then      *)
(* writes it by id alone, then has a goroutine tell the applicant: three   *)
(* steps with nothing round them.                                          *)
(*                                                                         *)
(* Three things are read on the way that others change at any time: two    *)
(* settings (apps_open, and whether verdicts are sent at all) and whether  *)
(* the bot knows a username.  The model allows both answers wherever they  *)
(* are read.                                                               *)
(***************************************************************************)
EXTENDS Integers, FiniteSetsExt

CONSTANTS
  Ids,         \* rows the tables may hold (bounds the number of applications)
  Handles,     \* Telegram usernames of applicants
  NoHandle,    \* the username of a row that does not exist
  Submitters,  \* goroutines submitting
  Deciders,    \* goroutines deciding: handlers, and the Telegram poll loop
  NoId,        \* what an idle decider decides
  MaxWrites,   \* bound on the number of decisions written
  MaxMiscounts \* bound on the number of duplicate counts that fail

ASSUME NoneAssumption == NoHandle \notin Handles /\ NoId \notin Ids
ASSUME WritesAssumption == MaxWrites \in Nat /\ MaxMiscounts \in Nat
ASSUME FiniteAssumption ==
  IsFiniteSet(Ids) /\ IsFiniteSet(Submitters) /\ IsFiniteSet(Deciders)

VARIABLES
  apps,       \* v2_media_apps, v2_hwid_requests, v2_discord_bans, v2_ideas_bugs
  sub,        \* where each submitter is, and its locals
  dec,        \* where each decider is, and its locals
  outbox,     \* per row and verdict, the goroutines about to send it
  told,       \* per row and verdict, the messages Telegram delivered
  miscounts   \* history: how many duplicate counts failed

vars == <<apps, sub, dec, outbox, told, miscounts>>

Kinds == {"media", "hwid", "discord", "idea"}

Decided == {"approved", "rejected"}

(***************************************************************************)
(* An application of an administrator is exempt from every check of the    *)
(* public form.  "writes" is a history field: decisions written so far.    *)
(***************************************************************************)
Row == [status : {"absent", "pending"} \cup Decided, kind : Kinds,
        handle : Handles \cup {NoHandle}, byAdmin : BOOLEAN, writes : Nat]

NoRow == [status |-> "absent", kind |-> "media", handle |-> NoHandle,
          byAdmin |-> FALSE, writes |-> 0]

SubState == [at : {"idle", "insert"}, handle : Handles \cup {NoHandle}]

IdleSub == [at |-> "idle", handle |-> NoHandle]

DecState == [at : {"idle", "write", "tell"}, id : Ids \cup {NoId}, verdict : Decided]

IdleDec == [at |-> "idle", id |-> NoId, verdict |-> "rejected"]

NoMessages == [v \in Decided |-> 0]

Writes == MapThenSumSet(LAMBDA i : apps[i].writes, Ids)

Init ==
  /\ apps = [i \in Ids |-> NoRow]
  /\ sub = [s \in Submitters |-> IdleSub]
  /\ dec = [d \in Deciders |-> IdleDec]
  /\ outbox = [i \in Ids |-> NoMessages]
  /\ told = [i \in Ids |-> NoMessages]
  /\ miscounts = 0

MutInsertRow(kind, handle, byAdmin) ==
  \E i \in Ids :
    /\ apps[i].status = "absent"
    /\ apps' = [apps EXCEPT ![i] =
         [status |-> kind, kind |-> "media", handle |-> handle,
          byAdmin |-> byAdmin, writes |-> 0]]

InsertRow(kind, handle, byAdmin) ==
  \E i \in Ids :
    /\ apps[i].status = "absent"
    /\ apps' = [apps EXCEPT ![i] =
         [status |-> "pending", kind |-> kind, handle |-> handle,
          byAdmin |-> byAdmin, writes |-> 0]]

-----------------------------------------------------------------------------
PendingOf(handle) ==
  {i \in Ids : apps[i].kind = "media" /\ apps[i].status = "pending"
                                      /\ apps[i].handle = handle}

(***************************************************************************)
(* SubmitMediaApp, of anyone but an administrator.  The checks before the  *)
(* count (setting, captcha, ban list, fields, a username the bot knows)    *)
(* only refuse, and so does an application for the same channel.           *)
(***************************************************************************)
Passes(s, handle) ==
  /\ sub[s].at = "idle"
  /\ sub' = [sub EXCEPT ![s] = [at |-> "insert", handle |-> handle]]
  /\ UNCHANGED <<apps, dec, outbox, told>>

MutCountPending(s, handle) ==
  /\ Passes(s, handle)
  /\ UNCHANGED miscounts

CountPending(s, handle) ==
  /\ PendingOf(handle) = {}
  /\ Passes(s, handle)
  /\ UNCHANGED miscounts

(***************************************************************************)
(* The error of the count is dropped: zero was counted.                    *)
(***************************************************************************)
CountFails(s, handle) ==
  /\ miscounts < MaxMiscounts
  /\ Passes(s, handle)
  /\ miscounts' = miscounts + 1

InsertApplication(s) ==
  /\ sub[s].at = "insert"
  /\ InsertRow("media", sub[s].handle, FALSE)
  /\ sub' = [sub EXCEPT ![s] = IdleSub]
  /\ UNCHANGED <<dec, outbox, told, miscounts>>

InsertFails(s) ==
  /\ sub[s].at = "insert"
  /\ sub' = [sub EXCEPT ![s] = IdleSub]
  /\ UNCHANGED <<apps, dec, outbox, told, miscounts>>

(***************************************************************************)
(* A form that is exempt from the count, or has none, is one INSERT.       *)
(***************************************************************************)
SubmitAsAdmin(handle) == InsertRow("media", handle, TRUE)

SubmitHWID(handle) == InsertRow("hwid", handle, FALSE)

SubmitDiscord(handle) == InsertRow("discord", handle, FALSE)

SubmitIdeaBug(handle) == InsertRow("idea", handle, FALSE)

PlainForm ==
  /\ \E handle \in Handles : \/ SubmitAsAdmin(handle) \/ SubmitHWID(handle)
                              \/ SubmitDiscord(handle) \/ SubmitIdeaBug(handle)
  /\ UNCHANGED <<sub, dec, outbox, told, miscounts>>

-----------------------------------------------------------------------------
(***************************************************************************)
(* decideMedia, decideHWID, decideDiscord and decideIdeaBug: the last      *)
(* reads the status and does not look at it.                               *)
(***************************************************************************)
MutReadStatus(d, i, verdict) ==
  /\ dec[d].at = "idle"
  /\ apps[i].status # "absent"
  /\ Writes < MaxWrites
  /\ dec' = [dec EXCEPT ![d] = [at |-> "write", id |-> i, verdict |-> verdict]]
  /\ UNCHANGED <<apps, sub, outbox, told, miscounts>>

ReadStatus(d, i, verdict) ==
  /\ dec[d].at = "idle"
  /\ apps[i].status # "absent"
  /\ apps[i].kind # "idea" => apps[i].status = "pending"
  /\ Writes < MaxWrites
  /\ dec' = [dec EXCEPT ![d] = [at |-> "write", id |-> i, verdict |-> verdict]]
  /\ UNCHANGED <<apps, sub, outbox, told, miscounts>>

WriteVerdict(d) ==
  LET i == dec[d].id IN
  /\ dec[d].at = "write"
  /\ Writes < MaxWrites
  /\ apps' = [apps EXCEPT ![i].status = dec[d].verdict, ![i].writes = @ + 1]
  /\ dec' = [dec EXCEPT ![d].at = "tell"]
  /\ UNCHANGED <<sub, outbox, told, miscounts>>

WriteFails(d) ==
  /\ dec[d].at = "write"
  /\ dec' = [dec EXCEPT ![d] = IdleDec]
  /\ UNCHANGED <<apps, sub, outbox, told, miscounts>>

(***************************************************************************)
(* SendVerdict: if that is switched on and the bot has a chat with the     *)
(* applicant, a goroutine is started to send the message.                  *)
(***************************************************************************)
SendVerdict(d) ==
  LET i == dec[d].id IN
  /\ dec[d].at = "tell"
  /\ \/ /\ apps[i].kind # "hwid"
        /\ outbox' = [outbox EXCEPT ![i][dec[d].verdict] = @ + 1]
     \/ UNCHANGED outbox
  /\ dec' = [dec EXCEPT ![d] = IdleDec]
  /\ UNCHANGED <<apps, sub, told, miscounts>>

(***************************************************************************)
(* The goroutine: Telegram takes the message or the error is dropped.      *)
(***************************************************************************)
MutDeliver(i, v) ==
  /\ outbox[i][v] > 0
  /\ told[i][v] < MaxWrites
  /\ told' = [told EXCEPT ![i][v] = @ + 1]
  /\ UNCHANGED <<apps, sub, dec, outbox, miscounts>>

Deliver(i, v) ==
  /\ outbox[i][v] > 0
  /\ outbox' = [outbox EXCEPT ![i][v] = @ - 1]
  /\ \/ told' = [told EXCEPT ![i][v] = @ + 1]
     \/ UNCHANGED told
  /\ UNCHANGED <<apps, sub, dec, miscounts>>

(***************************************************************************)
(* A restart loses the goroutines and keeps the tables.                    *)
(***************************************************************************)
Restart ==
  /\ sub' = [s \in Submitters |-> IdleSub]
  /\ dec' = [d \in Deciders |-> IdleDec]
  /\ outbox' = [i \in Ids |-> NoMessages]
  /\ UNCHANGED <<apps, told, miscounts>>

Submission ==
  \/ \E s \in Submitters :
       \/ \E handle \in Handles : CountPending(s, handle) \/ CountFails(s, handle)
       \/ InsertApplication(s) \/ InsertFails(s)
  \/ PlainForm

Decision ==
  \/ \E d \in Deciders :
       \/ \E i \in Ids, verdict \in Decided : ReadStatus(d, i, verdict)
       \/ WriteVerdict(d) \/ WriteFails(d)
       \/ SendVerdict(d)
  \/ \E i \in Ids, v \in Decided : Deliver(i, v)

Next == Submission \/ Decision \/ Restart

Spec == Init /\ [][Next]_vars

-----------------------------------------------------------------------------
(***************************************************************************)
(* Type invariant.                                                         *)
(***************************************************************************)
TypeOK ==
  /\ apps \in [Ids -> Row]
  /\ sub \in [Submitters -> SubState]
  /\ dec \in [Deciders -> DecState]
  /\ outbox \in [Ids -> [Decided -> Nat]]
  /\ told \in [Ids -> [Decided -> Nat]]
  /\ miscounts \in 0..MaxMiscounts

(***************************************************************************)
(* A decided application is overwritten only by decisions that overlapped  *)
(* the first one: a decider that comes later is refused, so no row is      *)
(* written more often than there are deciders (handlers/admin.go,          *)
(* decideMedia, decideHWID, decideDiscord).  Ideas and bug reports are     *)
(* decided again at will.                                                  *)
(***************************************************************************)
OverwritesBounded ==
  \A i \in Ids : apps[i].kind # "idea" => apps[i].writes <= Cardinality(Deciders)

(***************************************************************************)
(* What the applicant reads agrees with the record: never more messages    *)
(* than decisions, and of an application decided once, one message at most *)
(* and with that decision, however late Telegram delivers it               *)
(* (telegram/notify.go, SendVerdict).                                      *)
(***************************************************************************)
NoticesMatchDecisions ==
  \A i \in Ids :
    /\ told[i]["approved"] + told[i]["rejected"] <= apps[i].writes
    /\ \A v \in Decided : apps[i].writes = 1 /\ told[i][v] > 0 => v = apps[i].status

(***************************************************************************)
(* An applicant has no more pending applications than there are goroutines *)
(* that can pass the duplicate check together, and one more for each check *)
(* that failed (handlers/public.go, SubmitMediaApp).                       *)
(***************************************************************************)
PendingPerHandle ==
  \A h \in Handles :
    Cardinality({i \in PendingOf(h) : ~apps[i].byAdmin}) <= Cardinality(Submitters) + miscounts

(***************************************************************************)
(* A decided application stays as it was decided ("the application is      *)
(* already decided", handlers/admin.go:357).                               *)
(***************************************************************************)
DecisionFinal ==
  [][\A i \in Ids :
       apps[i].kind # "idea" /\ apps[i].status \in Decided
         => apps'[i].status = apps[i].status]_vars
=============================================================================
