------------------------------- MODULE AdminPage -------------------------------
(***************************************************************************)
(* The administrators' page in one browser tab (admin.js): the category    *)
(* that is chosen, what the body of the page shows, the renders that wait  *)
(* for an answer of the server, and the timer that polls the event log.    *)
(* A render draws when its answer arrives, whatever was chosen meanwhile.  *)
(* Answers overtake each other, and requests fail.  Of a drawn table only  *)
(* whose it is and whose filter bar is above it is kept, and of the        *)
(* payouts their week and the text of its summary; AdminDesk has the rows, *)
(* their buttons and dialogs.                                              *)
(***************************************************************************)
EXTENDS Integers, FiniteSets

CONSTANT MaxFetches      \* bound on the renders that wait for an answer

ASSUME FetchesAssumption == MaxFetches \in Nat

VARIABLES
  adminCat,        \* the chosen category
  settingsSubTab,  \* the chosen tab of the settings
  body,            \* what is in #adminBody
  payoutsWeekID,   \* the week whose payouts are asked for
  mixed,           \* history, see DraftArrives
  fetches,         \* the renders that wait for their answer
  poller           \* the intervals that run, and whether logsPollTimer is one

weekVars == <<payoutsWeekID, mixed>>

vars == <<adminCat, settingsSubTab, body, weekVars, fetches, poller>>

Applications == {"media", "hwid", "discord", "ideas"}

Keys == {"subkeys", "giveawaykeys"}

Tables == Applications \cup Keys \cup {"payouts", "lots", "accounts", "bans"}

(***************************************************************************)
(* The categories with a button; that of Keys is for the first of the two. *)
(***************************************************************************)
Sidebar == (Tables \ {"giveawaykeys"}) \cup {"overview", "settings"}

SubTabs == {"texts", "logs"}

(***************************************************************************)
(* The week the server answers with when none is asked for, another one,   *)
(* and none.                                                               *)
(***************************************************************************)
Weeks == {"current", "past"}

NoWeek == "none"

(***************************************************************************)
(* The categories whose filter bar has a menu of statuses.                 *)
(***************************************************************************)
WithStatuses == {"media", "discord", "payouts", "lots"}

(***************************************************************************)
(* shown: "loading" and "error" are the whole body, "content" the settings *)
(* with their tabs and nothing yet below them.  bar: whose render the      *)
(* filter bar in the page calls.  week, summary: whose payouts are drawn,  *)
(* and whose text is in the box below them.                                *)
(***************************************************************************)
Body == [shown : Tables \cup SubTabs \cup {"overview", "loading", "error", "content"},
         bar : Tables \cup {"overview", "logs", "none"},
         week : Weeks \cup {NoWeek}, summary : Weeks \cup {NoWeek}]

(***************************************************************************)
(* load: it was started by renderAdminCategory, which catches a failure.   *)
(* attached: the part of the settings it draws into is in the page.        *)
(* "draft" is no render but the template of a summary, for the week.       *)
(***************************************************************************)
Fetch == [to : Tables \cup SubTabs \cup {"overview", "draft"}, load : BOOLEAN,
          attached : BOOLEAN, week : Weeks \cup {NoWeek}]

Plain(shown) == [shown |-> shown, bar |-> "none", week |-> NoWeek, summary |-> NoWeek]

Asked(to, load, week) ==
  [to |-> to, load |-> load, attached |-> to \in SubTabs,
   week |-> IF to \in {"payouts", "draft"} THEN week ELSE NoWeek]

Init ==
  /\ adminCat = "overview"
  /\ settingsSubTab = "texts"
  /\ body = Plain("loading")
  /\ payoutsWeekID = NoWeek /\ mixed = FALSE
  /\ fetches = {Asked("overview", TRUE, NoWeek)}
  /\ poller = [intervals |-> 0, held |-> FALSE]

-----------------------------------------------------------------------------
ClearInterval(p) ==
  [intervals |-> IF p.held THEN p.intervals - 1 ELSE p.intervals, held |-> FALSE]

SetInterval(p) == [intervals |-> p.intervals + 1, held |-> TRUE]

(***************************************************************************)
(* A new body takes the settings' part of the old one out of the page.     *)
(***************************************************************************)
Detached(fs) == {[f EXCEPT !.attached = FALSE] : f \in fs}

Show(b, fs) == body' = b /\ fetches' = Detached(fs)

HasRoom == Cardinality(fetches) < MaxFetches

-----------------------------------------------------------------------------
(***************************************************************************)
(* What each category puts into the body when its answer arrives.  A table *)
(* replaces the table that is there and keeps the filter bar above it,     *)
(* unless there is none, or one with or without statuses where its own     *)
(* would be the other way round.                                           *)
(***************************************************************************)
NoTable == body.shown \notin Tables

HasStatus == body.bar \in WithStatuses

Table(cat, rebuilt) ==
  [Plain(cat) EXCEPT !.bar = IF rebuilt THEN cat ELSE body.bar]

RenderOverview == [Plain("overview") EXCEPT !.bar = "overview"]

DrawAppsTable(kind) == Table(kind, NoTable \/ (kind \in WithStatuses) # HasStatus)

RenderPayouts(week) ==
  [Table("payouts", NoTable \/ ~HasStatus) EXCEPT !.week = week, !.summary = week]

RenderLots == Table("lots", NoTable \/ ~HasStatus)

RenderSubKeys == Table("subkeys", NoTable \/ HasStatus)

RenderGiveawayKeys == Table("giveawaykeys", NoTable \/ HasStatus)

RenderAccounts == Table("accounts", NoTable)

RenderBans == Table("bans", NoTable)

Drawn(cat, week) ==
  CASE cat = "overview" -> RenderOverview
    [] cat \in Applications -> DrawAppsTable(cat)
    [] cat = "payouts" -> RenderPayouts(week)
    [] cat = "lots" -> RenderLots
    [] cat = "subkeys" -> RenderSubKeys
    [] cat = "giveawaykeys" -> RenderGiveawayKeys
    [] cat = "accounts" -> RenderAccounts
    [] cat = "bans" -> RenderBans

-----------------------------------------------------------------------------
(***************************************************************************)
(* The settings draw their tabs at once and load the chosen one.           *)
(***************************************************************************)
RenderSettings ==
  /\ body' = Plain("content")
  /\ fetches' = Detached(fetches) \cup {Asked(settingsSubTab, TRUE, NoWeek)}
  /\ poller' = ClearInterval(poller)

RenderAdminCategory(cat) ==
  \/ cat = "settings" /\ RenderSettings
  \/ cat # "settings" /\ Show(Plain("loading"), fetches \cup {Asked(cat, TRUE, "current")})

(***************************************************************************)
(* A button of the sidebar, or a figure of the overview, which presses it. *)
(* The button of the category that is chosen does nothing.                 *)
(***************************************************************************)
ClickCategory(cat) ==
  /\ cat # adminCat /\ HasRoom
  /\ adminCat' = cat
  /\ poller' = ClearInterval(poller)
  /\ RenderAdminCategory(cat)
  /\ UNCHANGED <<settingsSubTab, weekVars>>

(***************************************************************************)
(* The two tabs above the tables of keys.                                  *)
(***************************************************************************)
SwitchKeys(cat) ==
  /\ body.shown \in Keys /\ cat # adminCat /\ HasRoom
  /\ adminCat' = cat
  /\ RenderAdminCategory(cat)
  /\ UNCHANGED <<settingsSubTab, weekVars, poller>>

(***************************************************************************)
(* Coming back to the page from another view of the site.                  *)
(***************************************************************************)
OpenAdmin ==
  /\ HasRoom
  /\ RenderAdminCategory(adminCat)
  /\ adminCat # "settings" => UNCHANGED poller
  /\ UNCHANGED <<adminCat, settingsSubTab, weekVars>>

ClickSubTab(tab) ==
  /\ body.shown \in SubTabs \cup {"content"} /\ tab # settingsSubTab /\ HasRoom
  /\ settingsSubTab' = tab
  /\ poller' = ClearInterval(poller)
  /\ body' = Plain("content")
  /\ fetches' = fetches \cup {Asked(tab, FALSE, NoWeek)}
  /\ UNCHANGED <<adminCat, weekVars>>

(***************************************************************************)
(* renderPayouts(true) asks for the week that is chosen by then.           *)
(***************************************************************************)
WeekKept == IF payoutsWeekID = NoWeek THEN "current" ELSE payoutsWeekID

(***************************************************************************)
(* Typing into the filter bar: the applications are drawn again from what  *)
(* is cached, the other categories ask the server.                         *)
(***************************************************************************)
Filter ==
  /\ body.bar # "none"
  /\ IF body.bar \in Applications
       THEN Show(DrawAppsTable(body.bar), fetches)
       ELSE /\ HasRoom /\ fetches' = fetches \cup {Asked(body.bar, FALSE, WeekKept)}
            /\ UNCHANGED body
  /\ UNCHANGED <<adminCat, settingsSubTab, weekVars, poller>>

(***************************************************************************)
(* A button of what is shown has done its work (AdminDesk has the details) *)
(* and the category of the button is rendered again.                       *)
(***************************************************************************)
Refresh ==
  /\ body.shown \in Tables \cup {"overview"} /\ HasRoom
  /\ fetches' = fetches \cup {Asked(body.shown, FALSE, WeekKept)}
  /\ UNCHANGED <<adminCat, settingsSubTab, body, weekVars, poller>>

(***************************************************************************)
(* Choosing another week sets payoutsWeekID at once, and its payouts when  *)
(* they arrive.  A summary is saved under payoutsWeekID.                   *)
(***************************************************************************)
SelectWeek(week) ==
  /\ body.shown = "payouts" /\ week # payoutsWeekID /\ HasRoom
  /\ payoutsWeekID' = week
  /\ fetches' = fetches \cup {Asked("payouts", FALSE, week)}
  /\ UNCHANGED <<adminCat, settingsSubTab, body, mixed, poller>>

GenSummary ==
  /\ body.shown = "payouts" /\ HasRoom
  /\ fetches' = fetches \cup {Asked("draft", FALSE, body.week)}
  /\ UNCHANGED <<adminCat, settingsSubTab, body, weekVars, poller>>

-----------------------------------------------------------------------------
MutCategoryArrives(f) ==
  /\ f \in fetches /\ f.to \notin SubTabs \cup {"draft"}
  /\ Show(Drawn(f.to, f.week), fetches \ {f})
  /\ IF f.to = "payouts" THEN mixed' = FALSE ELSE UNCHANGED mixed
  /\ UNCHANGED <<adminCat, settingsSubTab, payoutsWeekID, poller>>

CategoryArrives(f) ==
  /\ f \in fetches /\ f.to \notin SubTabs \cup {"draft"}
  /\ Show(Drawn(f.to, f.week), fetches \ {f})
  /\ IF f.to = "payouts" THEN payoutsWeekID' = f.week /\ mixed' = FALSE
                         ELSE UNCHANGED weekVars
  /\ UNCHANGED <<adminCat, settingsSubTab, poller>>

(***************************************************************************)
(* The draft of a week's summary goes into whatever box is there by now.   *)
(* mixed: since payouts were last drawn a draft of another week came, or a *)
(* week's payouts did not.                                                 *)
(***************************************************************************)
DraftArrives(f) ==
  /\ f \in fetches /\ f.to = "draft"
  /\ body' = IF body.shown = "payouts" THEN [body EXCEPT !.summary = f.week] ELSE body
  /\ mixed' = (mixed \/ f.week # payoutsWeekID)
  /\ fetches' = fetches \ {f}
  /\ UNCHANGED <<adminCat, settingsSubTab, payoutsWeekID, poller>>

RenderSettingsTexts(f) ==
  /\ f \in fetches /\ f.to = "texts"
  /\ body' = IF f.attached THEN Plain("texts") ELSE body
  /\ fetches' = fetches \ {f}
  /\ UNCHANGED <<adminCat, settingsSubTab, weekVars, poller>>

DrawSettingsLogs(f) ==
  body' = IF f.attached THEN [Plain("logs") EXCEPT !.bar = "logs"] ELSE body

(***************************************************************************)
(* The log starts its timer when it is drawn, also if it was left while    *)
(* its answer was on the way.                                              *)
(***************************************************************************)
MutRenderSettingsLogs(f) ==
  /\ f \in fetches /\ f.to = "logs"
  /\ DrawSettingsLogs(f)
  /\ poller' = SetInterval(poller)
  /\ fetches' = fetches \ {f}
  /\ UNCHANGED <<adminCat, settingsSubTab, weekVars>>

RenderSettingsLogs(f) ==
  /\ f \in fetches /\ f.to = "logs"
  /\ DrawSettingsLogs(f)
  /\ poller' = SetInterval(ClearInterval(poller))
  /\ fetches' = fetches \ {f}
  /\ UNCHANGED <<adminCat, settingsSubTab, weekVars>>

(***************************************************************************)
(* A tick of the log's timer: when the log is not chosen it stops the      *)
(* timer, otherwise it draws the rows again.                               *)
(***************************************************************************)
OnLogs == adminCat = "settings" /\ settingsSubTab = "logs"

MutPollTick ==
  /\ poller.intervals > 0
  /\ UNCHANGED vars

PollTick ==
  /\ poller.intervals > 0
  /\ poller' = IF OnLogs THEN poller ELSE ClearInterval(poller)
  /\ UNCHANGED <<adminCat, settingsSubTab, body, weekVars, fetches>>

(***************************************************************************)
(* A request fails.  Only that of renderAdminCategory is caught, and its   *)
(* error replaces the body of whatever category is there by now.           *)
(***************************************************************************)
Fails(f) ==
  /\ f \in fetches
  /\ IF f.load THEN Show(Plain("error"), fetches \ {f})
               ELSE UNCHANGED body /\ fetches' = fetches \ {f}
  /\ mixed' = (mixed \/ f.to = "payouts")
  /\ UNCHANGED <<adminCat, settingsSubTab, payoutsWeekID, poller>>

-----------------------------------------------------------------------------
Next ==
  \/ \E cat \in Sidebar : ClickCategory(cat)
  \/ \E cat \in Keys : SwitchKeys(cat)
  \/ \E tab \in SubTabs : ClickSubTab(tab)
  \/ \E week \in Weeks : SelectWeek(week)
  \/ GenSummary \/ OpenAdmin \/ Filter \/ Refresh \/ PollTick
  \/ \E f \in fetches :
       \/ CategoryArrives(f) \/ DraftArrives(f)
       \/ RenderSettingsTexts(f) \/ RenderSettingsLogs(f) \/ Fails(f)

Spec == Init /\ [][Next]_vars

(***************************************************************************)
(* An interval that runs ticks.                                            *)
(***************************************************************************)
FairSpec == Spec /\ WF_vars(PollTick)

-----------------------------------------------------------------------------
(***************************************************************************)
(* The log is polled by one interval at most, and logsPollTimer is that    *)
(* interval, so that the next clearInterval stops it: however often the    *)
(* settings, their tabs and the filter are used while answers are on the   *)
(* way (admin.js, renderSettingsLogs).                                     *)
(***************************************************************************)
OnePoller == poller.intervals = IF poller.held THEN 1 ELSE 0

(***************************************************************************)
(* An interval that was started although the log had been left meanwhile   *)
(* stops, unless the log is chosen again (admin.js, the tick of            *)
(* renderSettingsLogs).                                                    *)
(***************************************************************************)
StrayPollerStops == (poller.intervals > 0 /\ ~OnLogs) ~> (poller.intervals = 0 \/ OnLogs)

(***************************************************************************)
(* Whatever weeks are chosen one after the other, and in whatever order    *)
(* their payouts arrive, the week a summary is saved under is the one      *)
(* whose text is in the box, once they have all arrived (admin.js,         *)
(* renderPayouts and the handlers it binds).                               *)
(***************************************************************************)
WeekSettles ==
  (body.shown = "payouts" /\ ~mixed /\ \A f \in fetches : f.to # "payouts")
    => body.summary = payoutsWeekID
=============================================================================
