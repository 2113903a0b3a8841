----------------------------- MODULE CabinetForms -----------------------------
(***************************************************************************)
(* The forms of the cabinet (cabinet.js): the tabs that draw and bind them,*)
(* the list of requests that is drawn into the same body when its answer   *)
(* arrives, and what is submitted: a "file" form (HWID, Discord, idea or   *)
(* bug) uploads the files that are picked, one after the other, and then   *)
(* posts; a "plain" one (payout, lot, giveaway) only posts.  The button of *)
(* a form can be pressed again at any time, and files are picked and       *)
(* removed while others are uploaded.                                      *)
(***************************************************************************)
EXTENDS Uploads

CONSTANTS
  MaxFiles,  \* bound on the files that are picked in a form
  MaxLists   \* bound on the lists of requests that are on their way

ASSUME FormsAssumption == MaxFiles \in Nat /\ MaxLists \in Nat

VARIABLES
  tab,          \* cabinetActiveTab
  body,         \* what is in #cabinetBody, and its handlers of a submission
  lists,        \* lists on their way, by whether forms are bound after them
  picked,       \* how many files are picked in the form that is shown, and
                \* in the one before it that still has submissions
  submissions

formVars == <<uploads, tab, body, lists, picked, submissions>>

Forms == {"file", "plain"}

Body == [shown : Forms \cup {"none", "list"}, handlers : Nat]

Which == {"shown", "gone"}

(***************************************************************************)
(* i: the number of the file that is uploaded; paths: what is in the files *)
(* that were uploaded.                                                     *)
(***************************************************************************)
Submission == [stage : {"idle", "upload", "save"}, form : Which, i : Nat, paths : SUBSET Data]

Idle == [stage |-> "idle", form |-> "shown", i |-> 0, paths |-> {}]

Busy(which) == \E s \in Submissions :
  submissions[s].stage # "idle" /\ submissions[s].form = which

FormsInit ==
  /\ uploads = [s \in Submissions |-> NoUpload]
  /\ tab = "none"
  /\ body = [shown |-> "none", handlers |-> 0]
  /\ lists = [bind \in BOOLEAN |-> 0]
  /\ picked = [which \in Which |-> 0]
  /\ submissions = [s \in Submissions |-> Idle]

-----------------------------------------------------------------------------
(***************************************************************************)
(* bindCabinetForms adds a handler to the form that is in the body.        *)
(***************************************************************************)
Shown(what) == [shown |-> what, handlers |-> 0]

Bind(b) == IF b.shown \in Forms THEN [b EXCEPT !.handlers = @ + 1] ELSE b

(***************************************************************************)
(* The body has a new content.  The form that was there is gone, with the  *)
(* files that were picked in it, but what it submits goes on.  Bound: one  *)
(* form that is gone submits at a time.                                    *)
(***************************************************************************)
Replace(b) ==
  /\ ~Busy("gone") \/ ~Busy("shown")
  /\ body' = b
  /\ picked' = [picked EXCEPT !["shown"] = 0,
                  !["gone"] = IF Busy("shown") THEN picked["shown"] ELSE @]
  /\ submissions' = [s \in Submissions |->
       IF submissions[s].stage = "idle" THEN Idle
       ELSE [submissions[s] EXCEPT !.form = "gone"]]

SwitchTab(form) ==
  /\ tab' = form
  /\ Replace(Bind(Shown(form)))
  /\ UNCHANGED <<uploads, lists>>

(***************************************************************************)
(* The tab of one's own requests, which binds when they are drawn, and the *)
(* watcher that has news of them.                                          *)
(***************************************************************************)
HasList == lists[TRUE] + lists[FALSE] < MaxLists

SwitchToList ==
  /\ HasList
  /\ tab' = "list"
  /\ Replace(Shown("none"))
  /\ lists' = [lists EXCEPT ![TRUE] = @ + 1]
  /\ UNCHANGED uploads

RefreshList ==
  /\ HasList /\ tab = "list"
  /\ Replace(Shown("none"))
  /\ lists' = [lists EXCEPT ![FALSE] = @ + 1]
  /\ UNCHANGED <<uploads, tab>>

(***************************************************************************)
(* The list, or the error in its place, replaces what is there by now.     *)
(***************************************************************************)
ListArrives(bind) ==
  /\ lists[bind] > 0
  /\ lists' = [lists EXCEPT ![bind] = @ - 1]
  /\ Replace(IF bind THEN Bind(Shown("list")) ELSE Shown("list"))
  /\ UNCHANGED <<uploads, tab>>

MutListFails(bind) ==
  /\ lists[bind] > 0
  /\ lists' = [lists EXCEPT ![bind] = @ - 1]
  /\ body' = IF bind THEN Bind(body) ELSE body
  /\ UNCHANGED <<uploads, tab, picked, submissions>>

ListFails(bind) ==
  /\ lists[bind] > 0
  /\ lists' = [lists EXCEPT ![bind] = @ - 1]
  /\ Replace(IF bind THEN Bind(Shown("none")) ELSE Shown("none"))
  /\ UNCHANGED <<uploads, tab>>

-----------------------------------------------------------------------------
AddFile ==
  /\ body.shown = "file" /\ picked["shown"] < MaxFiles
  /\ picked' = [picked EXCEPT !["shown"] = @ + 1]
  /\ UNCHANGED <<uploads, tab, body, lists, submissions>>

RemoveFile ==
  /\ body.shown = "file" /\ picked["shown"] > 0
  /\ picked' = [picked EXCEPT !["shown"] = @ - 1]
  /\ UNCHANGED <<uploads, tab, body, lists, submissions>>

(***************************************************************************)
(* Submission s goes on with the i-th of the files that are picked by now, *)
(* or with the post when there is none.                                    *)
(***************************************************************************)
GoOn(s, sub) ==
  LET more == sub.i <= picked[sub.form] IN
  /\ uploads' = [uploads EXCEPT ![s] = IF more THEN NewUpload ELSE NoUpload]
  /\ submissions' = [submissions EXCEPT ![s] =
       [sub EXCEPT !.stage = IF more THEN "upload" ELSE "save"]]

SubmitFiles(s) ==
  /\ body.shown = "file" /\ submissions[s].stage = "idle"
  /\ GoOn(s, [Idle EXCEPT !.i = 1])
  /\ UNCHANGED <<tab, body, lists, picked>>

SubmitPlain(s) ==
  /\ body.shown = "plain" /\ submissions[s].stage = "idle"
  /\ submissions' = [submissions EXCEPT ![s] = [Idle EXCEPT !.stage = "save"]]
  /\ UNCHANGED <<uploads, tab, body, lists, picked>>

Uploading(s) ==
  /\ UploadStep(s)
  /\ UNCHANGED <<tab, body, lists, picked, submissions>>

FileUploaded(s) ==
  /\ \E h \in uploads[s].handlers :
       /\ h.step = "ok" /\ IsLast(h.chunk)
       /\ GoOn(s, [submissions[s] EXCEPT !.i = @ + 1, !.paths = @ \cup {h.data}])
  /\ UNCHANGED <<tab, body, lists, picked>>

(***************************************************************************)
(* The last attempt at a chunk has failed, or the upload could not be      *)
(* opened; nothing is posted, and the form stays as it is.                 *)
(***************************************************************************)
MutUploadFails(s) ==
  /\ Started(s) /\ uploads[s].sent /\ uploads[s].attempt = Attempts
  /\ uploads' = [uploads EXCEPT ![s].sent = FALSE]
  /\ UNCHANGED <<tab, body, lists, picked, submissions>>

UploadFails(s) ==
  /\ Started(s)
  /\ uploads[s] = NewUpload \/ (uploads[s].sent /\ uploads[s].attempt = Attempts)
  /\ uploads' = [uploads EXCEPT ![s] = NoUpload]
  /\ submissions' = [submissions EXCEPT ![s] = Idle]
  /\ UNCHANGED <<tab, body, lists, picked>>

(***************************************************************************)
(* The post is answered.  A request that is filed empties its form.        *)
(***************************************************************************)
Filed(s) ==
  /\ submissions[s].stage = "save"
  /\ submissions' = [submissions EXCEPT ![s] = Idle]
  /\ picked' = [picked EXCEPT ![submissions[s].form] = 0]
  /\ UNCHANGED <<uploads, tab, body, lists>>

PostRefused(s) ==
  /\ submissions[s].stage = "save"
  /\ submissions' = [submissions EXCEPT ![s] = Idle]
  /\ UNCHANGED <<uploads, tab, body, lists, picked>>

-----------------------------------------------------------------------------
Progress(s) == Uploading(s) \/ FileUploaded(s) \/ UploadFails(s) \/ Filed(s) \/ PostRefused(s)

FormsNext ==
  \/ \E form \in Forms : SwitchTab(form)
  \/ SwitchToList
  \/ RefreshList
  \/ \E bind \in BOOLEAN : ListArrives(bind) \/ ListFails(bind)
  \/ AddFile \/ RemoveFile
  \/ \E s \in Submissions : SubmitFiles(s) \/ SubmitPlain(s) \/ Progress(s)

FormsSpec == FormsInit /\ [][FormsNext]_formVars

(***************************************************************************)
(* A submission goes on: requests are answered or fail, and handlers run.  *)
(***************************************************************************)
FormsFairSpec == FormsSpec /\ \A s \in Submissions : WF_formVars(Progress(s))

-----------------------------------------------------------------------------
(***************************************************************************)
(* Every path that is filed with a request names a file that was merged    *)
(* from all its chunks, each complete: whatever was lost and sent again,   *)
(* and whichever handlers worked on the same parts meanwhile, unless one   *)
(* that had been given up by then created a part again and had not written *)
(* it when it was merged.                                                  *)
(***************************************************************************)
FileWhole == \A s \in Submissions : "torn" \notin submissions[s].paths

(***************************************************************************)
(* What the answer "completed" says of the file.  A handler that was given *)
(* up makes it untrue.                                                     *)
(***************************************************************************)
FileComplete == \A s \in Submissions : submissions[s].paths \subseteq {"whole"}

(***************************************************************************)
(* One press of the button submits once: a form in the page has one        *)
(* handler, although forms are bound after answers that come when another  *)
(* tab is open by then.                                                    *)
(***************************************************************************)
FormBoundOnce == body.shown \in Forms => body.handlers = 1

(***************************************************************************)
(* A submission ends, filed or with an error, however many of its requests *)
(* are lost and whatever is picked meanwhile.                              *)
(***************************************************************************)
SubmitEnds == \A s \in Submissions :
  submissions[s].stage # "idle" ~> submissions[s].stage = "idle"
=============================================================================
