------------------------------ MODULE AdminProofs ------------------------------
(***************************************************************************)
(* Proofs about the administrators' page: AdminPage, for any number of     *)
(* renders under way, and AdminDesk, for any requests, accounts and number *)
(* of orders under way.                                                    *)
(***************************************************************************)
EXTENDS AdminPage, AdminDesk, FiniteSetTheorems, TLAPS

(***************************************************************************)
(* The timer is a number of intervals, whether or not one of them is held. *)
(***************************************************************************)
PollerType == poller \in [intervals : Int, held : BOOLEAN]

PollerInv == PollerType /\ OnePoller

(***************************************************************************)
(* The two operations on the timer leave at most one interval, held.       *)
(***************************************************************************)
LEMMA PollerCleared ==
  ASSUME PollerInv
  PROVE  /\ ClearInterval(poller) \in [intervals : Int, held : BOOLEAN]
         /\ ClearInterval(poller).intervals = 0
         /\ ~ClearInterval(poller).held
<1>1. CASE poller.held
  BY <1>1 DEF PollerInv, PollerType, OnePoller, ClearInterval
<1>2. CASE ~poller.held
  BY <1>2 DEF PollerInv, PollerType, OnePoller, ClearInterval
<1> QED BY <1>1, <1>2

LEMMA PollerSet ==
  ASSUME PollerInv
  PROVE  /\ SetInterval(ClearInterval(poller)) \in [intervals : Int, held : BOOLEAN]
         /\ SetInterval(ClearInterval(poller)).intervals = 1
         /\ SetInterval(ClearInterval(poller)).held
  BY PollerCleared DEF SetInterval

LEMMA PollerGood ==
  ASSUME poller' \in [intervals : Int, held : BOOLEAN],
         (poller'.intervals = 0 /\ ~poller'.held) \/ (poller'.intervals = 1 /\ poller'.held)
  PROVE  PollerInv'
  BY DEF PollerInv, PollerType, OnePoller

LEMMA PollerStep ==
  ASSUME PollerInv, [Next]_vars
  PROVE  PollerInv'
<1>1. CASE UNCHANGED poller
  BY <1>1 DEF PollerInv, PollerType, OnePoller
<1>2. CASE poller' = ClearInterval(poller)
  BY <1>2, PollerCleared, PollerGood
<1>3. CASE poller' = SetInterval(ClearInterval(poller))
  BY <1>3, PollerSet, PollerGood
<1>4. UNCHANGED poller \/ poller' = ClearInterval(poller)
        \/ poller' = SetInterval(ClearInterval(poller))
  <2>1. ASSUME NEW cat \in Sidebar, ClickCategory(cat) PROVE poller' = ClearInterval(poller)
    BY <2>1 DEF ClickCategory
  <2>2. ASSUME NEW cat \in Keys, SwitchKeys(cat) PROVE UNCHANGED poller
    BY <2>2 DEF SwitchKeys
  <2>3. ASSUME NEW tab \in SubTabs, ClickSubTab(tab) PROVE poller' = ClearInterval(poller)
    BY <2>3 DEF ClickSubTab
  <2>4. ASSUME NEW week \in Weeks, SelectWeek(week) PROVE UNCHANGED poller
    BY <2>4 DEF SelectWeek
  <2>5. CASE GenSummary \/ Filter \/ Refresh
    BY <2>5 DEF GenSummary, Filter, Refresh
  <2>6. CASE OpenAdmin
    BY <2>6 DEF OpenAdmin, RenderAdminCategory, RenderSettings
  <2>7. CASE PollTick
    BY <2>7 DEF PollTick
  <2>8. ASSUME NEW f \in fetches, CategoryArrives(f) PROVE UNCHANGED poller
    BY <2>8 DEF CategoryArrives
  <2>9. ASSUME NEW f \in fetches, DraftArrives(f) \/ RenderSettingsTexts(f) \/ Fails(f)
        PROVE  UNCHANGED poller
    BY <2>9 DEF DraftArrives, RenderSettingsTexts, Fails
  <2>10. ASSUME NEW f \in fetches, RenderSettingsLogs(f)
         PROVE  poller' = SetInterval(ClearInterval(poller))
    BY <2>10 DEF RenderSettingsLogs
  <2>11. CASE UNCHANGED vars
    BY <2>11 DEF vars
  <2> QED BY <2>1, <2>2, <2>3, <2>4, <2>5, <2>6, <2>7, <2>8, <2>9, <2>10, <2>11 DEF Next
<1> QED BY <1>1, <1>2, <1>3, <1>4

(***************************************************************************)
(* The log is polled by one interval at most, and the page can stop it     *)
(* (admin.js, renderSettingsLogs).                                         *)
(***************************************************************************)
THEOREM OnePollerAlways == Spec => []OnePoller
<1>1. Init => PollerInv
  BY DEF Init, PollerInv, PollerType, OnePoller
<1>2. PollerInv /\ [Next]_vars => PollerInv'
  BY PollerStep
<1>3. PollerInv => OnePoller
  BY DEF PollerInv
<1> QED BY <1>1, <1>2, <1>3, PTL DEF Spec

-----------------------------------------------------------------------------
(***************************************************************************)
(* The fields of the body and of what is asked for that the weeks need.    *)
(***************************************************************************)
WeekTypes == body \in Body /\ fetches \subseteq Fetch

LEMMA DrawnBody ==
  ASSUME body \in Body, NEW cat \in Tables \cup {"overview"}, NEW week \in Weeks \cup {NoWeek}
  PROVE  /\ Drawn(cat, week) \in Body
         /\ cat # "payouts" => Drawn(cat, week).shown # "payouts"
         /\ cat = "payouts" => Drawn(cat, week).summary = week
<1>1. CASE cat = "overview"
  BY <1>1 DEF Drawn, RenderOverview, Plain, Body, Weeks, NoWeek, Applications, Keys, Tables
<1>2. CASE cat \in Applications
  BY <1>2 DEF Drawn, DrawAppsTable, Table, Plain, Body, Weeks, NoWeek, Applications, Tables
<1>3. CASE cat = "payouts"
  BY <1>3 DEF Drawn, RenderPayouts, Table, Plain, Body, Weeks, NoWeek, Applications, Tables
<1>4. CASE cat \in {"lots", "accounts", "bans"}
  BY <1>4 DEF Drawn, RenderLots, RenderAccounts, RenderBans, Table, Plain, Body, Weeks,
              NoWeek, Applications, Tables
<1>5. CASE cat \in Keys
  BY <1>5 DEF Drawn, RenderSubKeys, RenderGiveawayKeys, Table, Plain, Body, Weeks,
              NoWeek, Applications, Keys, Tables
<1> QED BY <1>1, <1>2, <1>3, <1>4, <1>5 DEF Tables

(***************************************************************************)
(* What can be asked for, and what a new body does to what was asked for.  *)
(***************************************************************************)
LEMMA AskedType ==
  ASSUME NEW to \in Tables \cup SubTabs \cup {"overview", "draft"}, NEW load \in BOOLEAN,
         NEW week \in Weeks \cup {NoWeek}
  PROVE  Asked(to, load, week) \in Fetch
  BY DEF Asked, Fetch

LEMMA DetachedType ==
  ASSUME NEW fs \in SUBSET Fetch
  PROVE  /\ Detached(fs) \in SUBSET Fetch
         /\ \A f \in Detached(fs) : \E g \in fs : f.to = g.to
         /\ \A g \in fs : \E f \in Detached(fs) : f.to = g.to
<1>1. ASSUME NEW g \in fs
      PROVE  [g EXCEPT !.attached = FALSE] \in Fetch /\ [g EXCEPT !.attached = FALSE].to = g.to
  BY DEF Fetch
<1> QED BY <1>1 DEF Detached

(***************************************************************************)
(* Choosing a category replaces the body by one without payouts.           *)
(***************************************************************************)
LEMMA RenderedCategory ==
  ASSUME WeekTypes, NEW cat \in Sidebar \cup Keys, settingsSubTab \in SubTabs,
         RenderAdminCategory(cat)
  PROVE  WeekTypes' /\ body'.shown # "payouts"
<1>1. CASE cat = "settings" /\ RenderSettings
  <2>1. Asked(settingsSubTab, TRUE, NoWeek) \in Fetch
    BY AskedType
  <2>2. Plain("content") \in Body /\ Plain("content").shown # "payouts"
    BY DEF Plain, Body
  <2> QED BY <1>1, <2>1, <2>2, DetachedType DEF RenderSettings, WeekTypes
<1>2. CASE cat # "settings" /\ Show(Plain("loading"), fetches \cup {Asked(cat, TRUE, "current")})
  <2>1. Asked(cat, TRUE, "current") \in Fetch
    BY <1>2, AskedType DEF Sidebar, Tables, Keys, Weeks
  <2>2. Plain("loading") \in Body /\ Plain("loading").shown # "payouts"
    BY DEF Plain, Body
  <2>3. fetches \cup {Asked(cat, TRUE, "current")} \in SUBSET Fetch
    BY <2>1 DEF WeekTypes
  <2> QED BY <1>2, <2>2, <2>3, DetachedType DEF Show, WeekTypes
<1> QED BY <1>1, <1>2 DEF RenderAdminCategory

(***************************************************************************)
(* A question for payouts keeps the property from speaking of the week, so *)
(* only the end of the last one matters, and a draft.                      *)
(***************************************************************************)
WeekInv ==
  /\ WeekTypes
  /\ adminCat \in Sidebar \cup Keys
  /\ settingsSubTab \in SubTabs
  /\ payoutsWeekID \in Weeks \cup {NoWeek}
  /\ mixed \in BOOLEAN
  /\ WeekSettles

LEMMA WeekStep ==
  ASSUME WeekInv, [Next]_vars
  PROVE  WeekInv'
<1> USE DEF WeekInv
<1>1. ASSUME NEW cat \in Sidebar, ClickCategory(cat) PROVE WeekInv'
  BY <1>1, RenderedCategory DEF ClickCategory, WeekSettles, weekVars
<1>2. ASSUME NEW cat \in Keys, SwitchKeys(cat) PROVE WeekInv'
  BY <1>2, RenderedCategory DEF SwitchKeys, WeekSettles, weekVars
<1>3. CASE OpenAdmin
  BY <1>3, RenderedCategory DEF OpenAdmin, WeekSettles, weekVars
<1>4. ASSUME NEW tab \in SubTabs, ClickSubTab(tab) PROVE WeekInv'
  <2>1. Asked(tab, FALSE, NoWeek) \in Fetch
    BY AskedType
  <2>2. Plain("content") \in Body /\ Plain("content").shown # "payouts"
    BY DEF Plain, Body
  <2> QED BY <1>4, <2>1, <2>2 DEF ClickSubTab, WeekTypes, WeekSettles, weekVars
<1>5. ASSUME NEW week \in Weeks, SelectWeek(week) PROVE WeekInv'
  <2>1. Asked("payouts", FALSE, week) \in Fetch /\ Asked("payouts", FALSE, week).to = "payouts"
    BY AskedType DEF Asked, Tables
  <2> QED BY <1>5, <2>1 DEF SelectWeek, WeekTypes, WeekSettles
<1>6. CASE GenSummary
  <2>1. Asked("draft", FALSE, body.week) \in Fetch
    BY AskedType DEF WeekTypes, Body
  <2> QED BY <1>6, <2>1 DEF GenSummary, WeekTypes, WeekSettles, weekVars
<1>7. CASE Filter
  <2>1. WeekKept \in Weeks \cup {NoWeek}
    BY DEF WeekKept, Weeks
  <2>2. CASE body.bar \in Applications
    <3>1. DrawAppsTable(body.bar) \in Body /\ DrawAppsTable(body.bar).shown # "payouts"
      BY <2>2 DEF DrawAppsTable, Table, Plain, WeekTypes, Body, Applications, Tables, Weeks
    <3> QED BY <1>7, <2>2, <3>1, DetachedType DEF Filter, Show, WeekTypes, WeekSettles, weekVars
  <2>3. CASE body.bar \notin Applications
    <3>1. body.bar = "logs" \/ body.bar \in Tables \cup {"overview"}
      BY <1>7 DEF Filter, WeekTypes, Body
    <3>2. Asked(body.bar, FALSE, WeekKept) \in Fetch
      BY <2>1, <3>1, AskedType DEF SubTabs
    <3> QED BY <1>7, <2>3, <3>2 DEF Filter, WeekTypes, WeekSettles, weekVars
  <2> QED BY <2>2, <2>3
<1>8. CASE Refresh
  <2>1. WeekKept \in Weeks \cup {NoWeek}
    BY DEF WeekKept, Weeks
  <2>2. Asked(body.shown, FALSE, WeekKept) \in Fetch
    BY <1>8, <2>1, AskedType DEF Refresh
  <2> QED BY <1>8, <2>2 DEF Refresh, WeekTypes, WeekSettles, weekVars
<1>9. CASE PollTick
  BY <1>9 DEF PollTick, WeekTypes, WeekSettles, weekVars
<1>10. ASSUME NEW f \in fetches, CategoryArrives(f) PROVE WeekInv'
  <2>1. f.to \in Tables \cup {"overview"} /\ f.week \in Weeks \cup {NoWeek}
    BY <1>10 DEF CategoryArrives, WeekTypes, Fetch
  <2>2. /\ Drawn(f.to, f.week) \in Body
        /\ f.to # "payouts" => Drawn(f.to, f.week).shown # "payouts"
        /\ f.to = "payouts" => Drawn(f.to, f.week).summary = f.week
    BY <2>1, DrawnBody DEF WeekTypes
  <2>3. body' = Drawn(f.to, f.week) /\ fetches' \in SUBSET Fetch
    BY <1>10, DetachedType DEF CategoryArrives, Show, WeekTypes
  <2>4. CASE f.to = "payouts"
    BY <1>10, <2>1, <2>2, <2>3, <2>4 DEF CategoryArrives, WeekTypes, WeekSettles
  <2>5. CASE f.to # "payouts"
    BY <1>10, <2>2, <2>3, <2>5 DEF CategoryArrives, WeekTypes, WeekSettles, weekVars
  <2> QED BY <2>4, <2>5
<1>11. ASSUME NEW f \in fetches, DraftArrives(f) PROVE WeekInv'
  <2>1. f.week \in Weeks \cup {NoWeek} /\ f.to # "payouts"
    BY <1>11 DEF DraftArrives, WeekTypes, Fetch
  <2>2. CASE body.shown = "payouts"
    <3>1. body' \in Body /\ body'.shown = "payouts" /\ body'.summary = f.week
      BY <1>11, <2>1, <2>2 DEF DraftArrives, WeekTypes, Body
    <3> QED BY <1>11, <2>1, <3>1 DEF DraftArrives, WeekTypes, WeekSettles
  <2>3. CASE body.shown # "payouts"
    BY <1>11, <2>3 DEF DraftArrives, WeekTypes, WeekSettles
  <2> QED BY <2>2, <2>3
<1>12. ASSUME NEW f \in fetches, RenderSettingsTexts(f) \/ RenderSettingsLogs(f)
       PROVE  WeekInv'
  <2>1. /\ f.to # "payouts" /\ fetches' = fetches \ {f}
        /\ UNCHANGED <<adminCat, settingsSubTab, weekVars>>
    BY <1>12 DEF RenderSettingsTexts, RenderSettingsLogs
  <2>2. body' = body \/ (body' \in Body /\ body'.shown # "payouts")
    <3>1. Plain("texts") \in Body /\ Plain("texts").shown # "payouts"
      BY DEF Plain, Body, SubTabs
    <3>2. /\ [Plain("logs") EXCEPT !.bar = "logs"] \in Body
          /\ [Plain("logs") EXCEPT !.bar = "logs"].shown # "payouts"
      BY DEF Plain, Body, SubTabs
    <3> QED BY <1>12, <3>1, <3>2 DEF RenderSettingsTexts, RenderSettingsLogs, DrawSettingsLogs
  <2> QED BY <2>1, <2>2 DEF WeekTypes, WeekSettles, weekVars
<1>13. ASSUME NEW f \in fetches, Fails(f) PROVE WeekInv'
  <2>1. Plain("error") \in Body /\ Plain("error").shown # "payouts"
    BY DEF Plain, Body
  <2>2. CASE f.load
    BY <1>13, <2>1, <2>2, DetachedType DEF Fails, Show, WeekTypes, WeekSettles
  <2>3. CASE ~f.load
    BY <1>13, <2>3 DEF Fails, WeekTypes, WeekSettles
  <2> QED BY <2>2, <2>3
<1>14. CASE UNCHANGED vars
  BY <1>14 DEF vars, weekVars, WeekTypes, WeekSettles
<1> QED BY <1>1, <1>2, <1>3, <1>4, <1>5, <1>6, <1>7, <1>8, <1>9, <1>10, <1>11, <1>12,
           <1>13, <1>14 DEF Next

(***************************************************************************)
(* Once the payouts that were asked for have arrived, a summary is saved   *)
(* under the week whose text is in the box (admin.js, renderPayouts).      *)
(***************************************************************************)
THEOREM WeekSettlesAlways == Spec => []WeekSettles
<1>1. Init => WeekInv
  <2>1. Asked("overview", TRUE, NoWeek) \in Fetch
    BY AskedType
  <2>2. Plain("loading") \in Body /\ Plain("loading").shown # "payouts"
    BY DEF Plain, Body
  <2> QED BY <2>1, <2>2 DEF Init, WeekInv, WeekTypes, WeekSettles, SubTabs, Sidebar
<1>2. WeekInv /\ [Next]_vars => WeekInv'
  BY WeekStep
<1>3. WeekInv => WeekSettles
  BY DEF WeekInv
<1> QED BY <1>1, <1>2, <1>3, PTL DEF Spec

-----------------------------------------------------------------------------
(***************************************************************************)
(* AdminDesk.  Each step is one of these.                                  *)
(***************************************************************************)
LEMMA OrderCases ==
  ASSUME [OrdersNext]_orderVars
  PROVE  \/ \E r \in Requests : ShowTable(r) \/ OtherDecides(r) \/ OpenMediaAppModal(r)
         \/ \E r \in Requests, action \in Decisions : PressDecide(r, action)
         \/ \E action \in Decisions : PressInMediaModal(action)
         \/ \E i \in Ideas : OpenIdeaBugAdminModal(i)
         \/ \E b \in Bans \cup {NewBan} : OpenBanModal(b)
         \/ \E text \in {Nothing, modal.item} : EditModal(text)
         \/ \E a \in Admins, action \in {"delete", "toggle"} : PressAccount(a, action)
         \/ Type \/ PressOk \/ Cancel \/ CloseModal \/ PressInBanModal
         \/ EditSubKeys \/ EditGiveawayKeys
         \/ \E o \in orders, available \in BOOLEAN : StockArrives(o, available)
         \/ \E o \in orders : Accept(o) \/ Refuse(o) \/ RenderAfter(o)
         \/ \E o \in orders : CountAdmins(o) \/ ReadState(o)
         \/ \E o \in orders : DeleteAccount(o)
         \/ \E o \in orders : ToggleAccount(o)
         \/ UNCHANGED orderVars
  BY Zenon DEF OrdersNext

(***************************************************************************)
(* DecisionAsConfirmed is not inductive: the window itself must show what  *)
(* it will send.  An open dialog shows what its caller is told, and holds  *)
(* a text typed for what it shows or none; so does the other window.  The  *)
(* record sets only say which fields the two have.                         *)
(***************************************************************************)
DialogRec == [open : BOOLEAN, title : {dialog.title}, resolve : {dialog.resolve},
              required : BOOLEAN, text : {dialog.text}]

DialogFits ==
  /\ dialog \in DialogRec
  /\ dialog.open => dialog.resolve = dialog.title /\ dialog.text \in {Nothing, dialog.title.item}

ModalFits ==
  /\ modal \in [item : {modal.item}, text : {modal.text}]
  /\ modal.text \in {Nothing, modal.item}

Confirmed(o) ==
  o.stage = "sent" =>
    /\ o.item = o.seen.item /\ o.action = o.seen.action
    /\ o.text \in {Nothing, o.item}
    /\ o.seen.required => o.text # Nothing

ConfirmInv == DialogFits /\ ModalFits /\ \A o \in orders : Confirmed(o)

LEMMA OrderFields ==
  ASSUME NEW stage, NEW item, NEW action, NEW text, NEW seen
  PROVE  LET o == Order(stage, item, action, text, seen) IN
         /\ o.stage = stage /\ o.item = item /\ o.action = action /\ o.text = text
         /\ o.seen = seen
  BY DEF Order

LEMMA SeenFields ==
  ASSUME NEW place, NEW item, NEW action, NEW required
  PROVE  LET seen == Seen(place, item, action, required) IN
         seen.item = item /\ seen.action = action /\ seen.required = required
  BY DEF Seen

(***************************************************************************)
(* What is sent at once from a table or from the other window.             *)
(***************************************************************************)
LEMMA SentAtOnce ==
  ASSUME NEW place, NEW item, NEW action, NEW text, text \in {Nothing, item}
  PROVE  Confirmed(Order("sent", item, action, text, Seen(place, item, action, FALSE)))
  BY DEF Confirmed, Order, Seen

LEMMA Asks ==
  ASSUME NEW item, NEW action, NEW required \in BOOLEAN, AskComment(item, action, required)
  PROVE  DialogFits'
  BY DEF AskComment, Asking, DialogFits, DialogRec

(***************************************************************************)
(* An order that is not sent yet, or not any more.                         *)
(***************************************************************************)
LEMMA NotSent ==
  ASSUME NEW o, o.stage # "sent"
  PROVE  Confirmed(o)
  BY DEF Confirmed

LEMMA OrdersKept ==
  ASSUME ConfirmInv, UNCHANGED <<dialog, modal>>, NEW new, Confirmed(new),
         orders' \subseteq orders \cup {new}
  PROVE  ConfirmInv'
  BY DEF ConfirmInv, DialogFits, DialogRec, ModalFits, Confirmed

LEMMA WindowsKept ==
  ASSUME ConfirmInv, DialogFits', ModalFits', orders' \subseteq orders
  PROVE  ConfirmInv'
  BY DEF ConfirmInv, Confirmed

LEMMA PressDecideConfirms ==
  ASSUME ConfirmInv, NEW r \in Requests, NEW action \in Decisions, PressDecide(r, action)
  PROVE  ConfirmInv'
<1>1. CASE DecideApplication(r, action) \/ DecidePayout(r, action)
  <2>1. DialogFits'
    BY <1>1, Asks DEF DecideApplication, DecidePayout
  <2> QED BY <1>1, <2>1, WindowsKept
      DEF PressDecide, DecideApplication, DecidePayout, ModalFits, ConfirmInv
<1>2. CASE DecideLot(r, action)
  <2>1. CASE Kind[r] = "key" /\ action = "approve"
    <3> DEFINE o == Order("stock", r, action, Nothing, OnTable(r, action))
    <3>1. orders' = orders \cup {o} /\ UNCHANGED <<dialog, modal>>
      BY <1>2, <2>1 DEF DecideLot, PressDecide, Begin
    <3>2. Confirmed(o)
      BY OrderFields, NotSent
    <3> QED BY <3>1, <3>2, OrdersKept
  <2>2. CASE ~(Kind[r] = "key" /\ action = "approve")
    <3>1. DialogFits'
      BY <1>2, <2>2, Asks DEF DecideLot
    <3> QED BY <1>2, <2>2, <3>1, WindowsKept DEF PressDecide, DecideLot, ModalFits, ConfirmInv
  <2> QED BY <2>1, <2>2
<1> QED BY <1>1, <1>2 DEF PressDecide

(***************************************************************************)
(* OK sends what the caller was told, and shows it to be what the dialog   *)
(* said.                                                                   *)
(***************************************************************************)
LEMMA PressOkConfirms ==
  ASSUME ConfirmInv, PressOk
  PROVE  ConfirmInv'
<1> DEFINE o == Order("sent", dialog.resolve.item, dialog.resolve.action, dialog.text,
                  Seen("dialog", dialog.title.item, dialog.title.action, dialog.required))
<1>1. orders' = orders \cup {o} /\ dialog' = NoDialog /\ UNCHANGED modal
  BY DEF PressOk, Begin
<1>2. Confirmed(o)
  BY DEF PressOk, ConfirmInv, DialogFits, Confirmed, Order, Seen
<1>3. DialogFits' /\ ModalFits'
  BY <1>1 DEF NoDialog, DialogFits, DialogRec, ConfirmInv, ModalFits
<1> HIDE DEF o
<1> QED BY <1>1, <1>2, <1>3 DEF ConfirmInv, Confirmed

LEMMA ModalConfirms ==
  ASSUME ConfirmInv, NEW action, ConfirmModal(action), UNCHANGED <<dialog, modal>>
  PROVE  ConfirmInv'
<1> DEFINE o == Order("sent", modal.item, action, modal.text,
                  Seen("modal", modal.item, action, FALSE))
<1>1. orders' = orders \cup {o}
  BY DEF ConfirmModal, Begin
<1>2. Confirmed(o)
  BY SentAtOnce DEF ConfirmInv, ModalFits
<1> QED BY <1>1, <1>2, OrdersKept

LEMMA TableConfirms ==
  ASSUME ConfirmInv, NEW item, NEW action, UNCHANGED <<dialog, modal>>,
         Begin(Order("sent", item, action, Nothing, OnTable(item, action)))
  PROVE  ConfirmInv'
<1>1. Confirmed(Order("sent", item, action, Nothing, OnTable(item, action)))
  BY SentAtOnce DEF OnTable
<1> QED BY <1>1, OrdersKept DEF Begin

(***************************************************************************)
(* An order goes on to a stage in which it is not sent, or is done.        *)
(***************************************************************************)
LEMMA OrderGoesOn ==
  ASSUME ConfirmInv, NEW o, NEW stage, stage # "sent", Becomes(o, stage),
         DialogFits', ModalFits'
  PROVE  ConfirmInv'
<1> DEFINE new == Order(stage, o.item, stage, Nothing, OnTable(o.item, stage))
<1>1. orders' = (orders \ {o}) \cup {new}
  BY DEF Becomes
<1>2. Confirmed(new)
  BY OrderFields, NotSent
<1> HIDE DEF new
<1> QED BY <1>1, <1>2 DEF ConfirmInv, Confirmed

LEMMA ConfirmStep ==
  ASSUME ConfirmInv, [OrdersNext]_orderVars
  PROVE  ConfirmInv'
<1> USE DEF page, db
<1>0. DialogFits /\ ModalFits
  BY DEF ConfirmInv
<1>a. UNCHANGED <<dialog, modal>> => DialogFits' /\ ModalFits'
  BY <1>0 DEF DialogFits, DialogRec, ModalFits
<1>1. ASSUME NEW r \in Requests, ShowTable(r) \/ OtherDecides(r)
      PROVE  ConfirmInv'
  BY <1>a, <1>1, WindowsKept DEF ShowTable, OtherDecides
<1>2. ASSUME NEW item, NEW text \in {Nothing, item}, Open(item, text)
      PROVE  ConfirmInv'
  BY <1>0, <1>2, WindowsKept DEF Open, DialogFits, DialogRec, ModalFits
<1>3. ASSUME NEW r \in Requests, NEW action \in Decisions, PressDecide(r, action)
      PROVE  ConfirmInv'
  BY <1>3, PressDecideConfirms
<1>4. ASSUME NEW action \in Decisions, PressInMediaModal(action)
      PROVE  ConfirmInv'
  BY <1>4, ModalConfirms DEF PressInMediaModal
<1>5. ASSUME NEW text \in {Nothing, modal.item}, EditModal(text)
      PROVE  ConfirmInv'
  <2>1. ModalFits' /\ DialogFits'
    BY <1>0, <1>5 DEF EditModal, ModalFits, DialogFits, DialogRec
  <2> QED BY <1>5, <2>1, WindowsKept DEF EditModal
<1>6. ASSUME NEW a \in Admins, NEW action \in {"delete", "toggle"}, PressAccount(a, action)
      PROVE  ConfirmInv'
  BY <1>6, TableConfirms DEF PressAccount
<1>7. CASE Type
  <2>1. DialogFits' /\ ModalFits'
    BY <1>0, <1>7 DEF Type, DialogFits, DialogRec, ModalFits
  <2> QED BY <1>7, <2>1, WindowsKept DEF Type
<1>8. CASE PressOk
  BY <1>8, PressOkConfirms
<1>9. CASE Cancel
  <2>1. DialogFits' /\ ModalFits'
    BY <1>0, <1>9 DEF Cancel, NoDialog, DialogFits, DialogRec, ModalFits
  <2> QED BY <1>9, <2>1, WindowsKept DEF Cancel
<1>10. CASE CloseModal
  <2>1. DialogFits' /\ ModalFits'
    BY <1>0, <1>10 DEF CloseModal, NoModal, DialogFits, DialogRec, ModalFits
  <2> QED BY <1>10, <2>1, WindowsKept DEF CloseModal
<1>11. CASE PressInBanModal
  BY <1>11, ModalConfirms DEF PressInBanModal
<1>12. CASE EditSubKeys \/ EditGiveawayKeys
  BY <1>12, TableConfirms DEF EditSubKeys, EditGiveawayKeys, EditKeys
<1>13. ASSUME NEW o \in orders, NEW available \in BOOLEAN, StockArrives(o, available)
       PROVE  ConfirmInv'
  <2>1. DialogFits' /\ ModalFits' /\ orders' \subseteq orders
    BY <1>0, <1>13, Asks DEF StockArrives, ModalFits
  <2> QED BY <2>1, WindowsKept
<1>14. ASSUME NEW o \in orders, Accept(o)
       PROVE  ConfirmInv'
  <2>1. DialogFits' /\ ModalFits'
    BY <1>0, <1>14 DEF Accept, DialogFits, DialogRec, ModalFits, NoModal
  <2> QED BY <1>14, <2>1, OrderGoesOn DEF Accept
<1>15. ASSUME NEW o \in orders, Refuse(o) \/ RenderAfter(o)
       PROVE  ConfirmInv'
  BY <1>a, <1>15, WindowsKept DEF Refuse, RenderAfter, Done
<1>16. ASSUME NEW o \in orders, CountAdmins(o) \/ DeleteAccount(o) \/ ToggleAccount(o)
       PROVE  ConfirmInv'
  BY <1>a, <1>16, OrderGoesOn DEF CountAdmins, DeleteAccount, ToggleAccount
<1>17. ASSUME NEW o \in orders, ReadState(o)
       PROVE  ConfirmInv'
  BY <1>a, <1>17, OrderGoesOn DEF ReadState
<1>18. CASE UNCHANGED orderVars
  BY <1>a, <1>18, WindowsKept DEF orderVars
<1>19. ASSUME NEW r \in Requests, OpenMediaAppModal(r)
       PROVE  ConfirmInv'
  BY <1>2, <1>19 DEF OpenMediaAppModal
<1>20. ASSUME NEW i \in Ideas, OpenIdeaBugAdminModal(i)
       PROVE  ConfirmInv'
  BY <1>2, <1>20 DEF OpenIdeaBugAdminModal
<1>21. ASSUME NEW b \in Bans \cup {NewBan}, OpenBanModal(b)
       PROVE  ConfirmInv'
  BY <1>2, <1>21 DEF OpenBanModal
<1> QED
  BY OrderCases, <1>1, <1>3, <1>4, <1>5, <1>6, <1>7, <1>8, <1>9, <1>10, <1>11, <1>12, <1>13,
     <1>14, <1>15, <1>16, <1>17, <1>18, <1>19, <1>20, <1>21

(***************************************************************************)
(* What is sent to the server is what the window said in which it was      *)
(* confirmed, with the text typed there.                                   *)
(***************************************************************************)
THEOREM SentAsConfirmed == OrdersSpec => []DecisionAsConfirmed
<1>1. OrdersInit => ConfirmInv
  BY DEF OrdersInit, NoDialog, NoModal, ConfirmInv, DialogFits, DialogRec, ModalFits
<1>2. ConfirmInv => DecisionAsConfirmed
  BY DEF ConfirmInv, Confirmed, DecisionAsConfirmed
<1> QED BY <1>1, <1>2, ConfirmStep, PTL DEF OrdersSpec

-----------------------------------------------------------------------------
(***************************************************************************)
(* RosterRemains is not inductive: an order that has counted must have     *)
(* counted right, as long as nothing is excused.  It has: whatever takes   *)
(* an active administrator away while another order has counted is one of  *)
(* the two excuses.                                                        *)
(***************************************************************************)
AccountTypes ==
  accounts \in [Admins -> {"active", "disabled", "gone"}] /\ excused \in BOOLEAN

CountedRight ==
  \A o \in orders : o.stage = "counted" => o.item \in Admins /\ Cardinality(Active) > 1

RosterInv == AccountTypes /\ (excused \/ (Active # {} /\ CountedRight))

LEMMA ActiveFinite ==
  IsFiniteSet(Active) /\ Cardinality(Active) \in Nat
  BY AdminsAssumption, FS_Subset, FS_CardinalityType DEF Active

(***************************************************************************)
(* Of two active administrators one remains.                               *)
(***************************************************************************)
LEMMA OneRemains ==
  ASSUME Cardinality(Active) > 1, NEW a
  PROVE  Active \ {a} # {}
<1> SUFFICES ASSUME Active \subseteq {a} PROVE FALSE
  OBVIOUS
<1>1. IsFiniteSet({a}) /\ Cardinality({a}) = 1
  BY FS_Singleton
<1>2. Cardinality(Active) <= 1
  BY <1>1, FS_Subset
<1> QED BY <1>2, ActiveFinite

(***************************************************************************)
(* An order that has not counted is added, or orders are done; the         *)
(* accounts stay.                                                          *)
(***************************************************************************)
LEMMA RosterKept ==
  ASSUME RosterInv, UNCHANGED <<accounts, excused>>, NEW new, new.stage # "counted",
         orders' \subseteq orders \cup {new}
  PROVE  RosterInv'
<1>1. Active' = Active
  BY DEF Active
<1> QED BY <1>1 DEF RosterInv, AccountTypes, CountedRight

LEMMA RosterFewer ==
  ASSUME RosterInv, UNCHANGED <<accounts, excused>>, orders' \subseteq orders
  PROVE  RosterInv'
<1>1. Active' = Active
  BY DEF Active
<1> QED BY <1>1 DEF RosterInv, AccountTypes, CountedRight

LEMMA RosterSent ==
  ASSUME RosterInv, UNCHANGED <<accounts, excused>>,
         NEW stage, stage # "counted", NEW item, NEW action, NEW text, NEW seen,
         Begin(Order(stage, item, action, text, seen))
  PROVE  RosterInv'
<1> DEFINE new == Order(stage, item, action, text, seen)
<1>1. orders' \subseteq orders \cup {new} /\ new.stage # "counted"
  BY DEF Begin, Order
<1> HIDE DEF new
<1> QED BY <1>1, RosterKept

LEMMA RosterGoesOn ==
  ASSUME RosterInv, UNCHANGED <<accounts, excused>>, NEW o, NEW stage, stage # "counted",
         Becomes(o, stage)
  PROVE  RosterInv'
<1> DEFINE new == Order(stage, o.item, stage, Nothing, OnTable(o.item, stage))
<1>1. orders' \subseteq orders \cup {new} /\ new.stage # "counted"
  BY DEF Becomes, Order
<1> HIDE DEF new
<1> QED BY <1>1, RosterKept

LEMMA CountedNow ==
  ASSUME RosterInv, NEW o \in orders, CountAdmins(o)
  PROVE  RosterInv'
<1> DEFINE new == Order("counted", o.item, "counted", Nothing, OnTable(o.item, "counted"))
<1>1. /\ orders' \subseteq orders \cup {new} /\ UNCHANGED <<accounts, excused>>
      /\ o.item \in Admins /\ Cardinality(Active) > 1
  BY DEF CountAdmins, Becomes, db
<1>2. new.item = o.item /\ Active' = Active
  BY <1>1 DEF Order, Active
<1> HIDE DEF new
<1> QED BY <1>1, <1>2 DEF RosterInv, AccountTypes, CountedRight

(***************************************************************************)
(* A deletion that is not excused is the only one that has counted.        *)
(***************************************************************************)
LEMMA DeletedOne ==
  ASSUME RosterInv, NEW o \in orders, DeleteAccount(o)
  PROVE  RosterInv'
<1> DEFINE new == Order("refresh", o.item, "refresh", Nothing, OnTable(o.item, "refresh"))
<1>1. /\ orders' \subseteq (orders \ {o}) \cup {new} /\ new.stage # "counted"
      /\ accounts' = [accounts EXCEPT ![o.item] = "gone"]
      /\ excused' = (excused \/ \E p \in orders \ {o} : p.stage = "counted")
      /\ o.stage = "counted"
  BY DEF DeleteAccount, Becomes, Order
<1> HIDE DEF new
<1>2. AccountTypes'
  BY <1>1 DEF RosterInv, AccountTypes
<1>3. ASSUME ~excused'
      PROVE  Active' # {} /\ CountedRight'
  <2>1. ~excused /\ Cardinality(Active) > 1 /\ o.item \in Admins
    BY <1>1, <1>3 DEF RosterInv, CountedRight
  <2>2. Active' = Active \ {o.item}
    BY <1>1, <2>1 DEF Active, RosterInv, AccountTypes
  <2>3. \A p \in orders' : p.stage # "counted"
    BY <1>1, <1>3
  <2> QED BY <2>1, <2>2, <2>3, OneRemains DEF CountedRight
<1> QED BY <1>2, <1>3 DEF RosterInv

LEMMA SwitchedAccount ==
  ASSUME RosterInv, NEW o \in orders, ToggleAccount(o)
  PROVE  RosterInv'
<1> DEFINE new == Order("refresh", o.item, "refresh", Nothing, OnTable(o.item, "refresh"))
<1>1. /\ orders' \subseteq orders \cup {new} /\ new.stage # "counted"
      /\ o.stage \in {"active", "disabled"}
      /\ accounts' = accounts \/ accounts' = [accounts EXCEPT ![o.item] = o.stage]
      /\ excused' = (excused \/ o.stage = "disabled")
  BY DEF ToggleAccount, Becomes, Order
<1> HIDE DEF new
<1>2. AccountTypes'
  BY <1>1 DEF RosterInv, AccountTypes
<1>3. ASSUME ~excused'
      PROVE  Active' # {} /\ CountedRight'
  <2>1. ~excused /\ o.stage = "active"
    BY <1>1, <1>3 DEF RosterInv, AccountTypes
  <2>2. Active \in SUBSET Active' /\ IsFiniteSet(Active')
    <3>1. Active \subseteq Active' /\ Active' \subseteq Admins
      BY <1>1, <2>1 DEF Active, RosterInv, AccountTypes
    <3> QED BY <3>1, AdminsAssumption, FS_Subset
  <2>3. Cardinality(Active) <= Cardinality(Active') /\ Cardinality(Active') \in Nat
    BY <2>2, FS_Subset, FS_CardinalityType
  <2>4. Active # {} /\ CountedRight
    BY <2>1 DEF RosterInv
  <2>5. \A p \in orders' : p.stage = "counted" => p \in orders
    BY <1>1
  <2> QED BY <2>2, <2>3, <2>4, <2>5, ActiveFinite DEF CountedRight
<1> QED BY <1>2, <1>3 DEF RosterInv

LEMMA RosterStep ==
  ASSUME RosterInv, [OrdersNext]_orderVars
  PROVE  RosterInv'
<1> USE DEF page, db
<1>1. ASSUME NEW r \in Requests, ShowTable(r) \/ OtherDecides(r) \/ OpenMediaAppModal(r)
      PROVE  RosterInv'
  BY <1>1, RosterFewer DEF ShowTable, OtherDecides, OpenMediaAppModal, Open
<1>2. ASSUME NEW r \in Requests, NEW action \in Decisions, PressDecide(r, action)
      PROVE  RosterInv'
  <2>1. UNCHANGED orders
          \/ Begin(Order("stock", r, action, Nothing, OnTable(r, action)))
    BY <1>2 DEF PressDecide, DecideApplication, DecidePayout, DecideLot
  <2> QED BY <1>2, <2>1, RosterSent, RosterFewer DEF PressDecide
<1>3. ASSUME NEW action, ConfirmModal(action), UNCHANGED db
      PROVE  RosterInv'
  BY <1>3, RosterSent DEF ConfirmModal
<1>4. ASSUME NEW action \in Decisions, PressInMediaModal(action)
      PROVE  RosterInv'
  BY <1>3, <1>4 DEF PressInMediaModal
<1>5. ASSUME NEW i \in Ideas, OpenIdeaBugAdminModal(i)
      PROVE  RosterInv'
  BY <1>5, RosterFewer DEF OpenIdeaBugAdminModal, Open
<1>6. ASSUME NEW b \in Bans \cup {NewBan}, OpenBanModal(b)
      PROVE  RosterInv'
  BY <1>6, RosterFewer DEF OpenBanModal, Open
<1>7. ASSUME NEW text \in {Nothing, modal.item}, EditModal(text)
      PROVE  RosterInv'
  BY <1>7, RosterFewer DEF EditModal
<1>8. ASSUME NEW item, NEW action, UNCHANGED db,
             Begin(Order("sent", item, action, Nothing, OnTable(item, action)))
      PROVE  RosterInv'
  BY <1>8, RosterSent
<1>9. ASSUME NEW a \in Admins, NEW action \in {"delete", "toggle"}, PressAccount(a, action)
      PROVE  RosterInv'
  BY <1>8, <1>9 DEF PressAccount
<1>10. CASE Type \/ Cancel \/ CloseModal
  BY <1>10, RosterFewer DEF Type, Cancel, CloseModal
<1>11. CASE PressOk
  BY <1>11, RosterSent DEF PressOk
<1>12. CASE PressInBanModal
  BY <1>3, <1>12 DEF PressInBanModal
<1>13. CASE EditSubKeys \/ EditGiveawayKeys
  BY <1>8, <1>13 DEF EditSubKeys, EditGiveawayKeys, EditKeys
<1>14. ASSUME NEW o \in orders, NEW available \in BOOLEAN, StockArrives(o, available)
       PROVE  RosterInv'
  BY <1>14, RosterFewer DEF StockArrives
<1>15. ASSUME NEW o \in orders, Accept(o) \/ Refuse(o) \/ RenderAfter(o)
       PROVE  RosterInv'
  <2>1. CASE Accept(o)
    BY <2>1, RosterGoesOn DEF Accept
  <2>2. CASE Refuse(o) \/ RenderAfter(o)
    BY <2>2, RosterFewer DEF Refuse, RenderAfter, Done
  <2> QED BY <1>15, <2>1, <2>2
<1>16. ASSUME NEW o \in orders, CountAdmins(o) \/ ReadState(o)
       PROVE  RosterInv'
  BY <1>16, CountedNow, RosterGoesOn DEF ReadState
<1>17. ASSUME NEW o \in orders, DeleteAccount(o)
       PROVE  RosterInv'
  BY <1>17, DeletedOne
<1>18. ASSUME NEW o \in orders, ToggleAccount(o)
       PROVE  RosterInv'
  BY <1>18, SwitchedAccount
<1>19. CASE UNCHANGED orderVars
  BY <1>19, RosterFewer DEF orderVars
<1> QED
  BY OrderCases, <1>1, <1>2, <1>4, <1>5, <1>6, <1>7, <1>9, <1>10, <1>11, <1>12, <1>13, <1>14,
     <1>15, <1>16, <1>17, <1>18, <1>19

(***************************************************************************)
(* Deletions leave an active administrator, unless two had counted before  *)
(* either deleted or one was switched off.                                 *)
(***************************************************************************)
THEOREM RosterNeverEmptied == OrdersSpec => []RosterRemains
<1>1. OrdersInit => RosterInv
  BY AdminsAssumption DEF OrdersInit, RosterInv, AccountTypes, CountedRight, Active
<1>2. RosterInv => RosterRemains
  BY DEF RosterInv, RosterRemains
<1> QED BY <1>1, <1>2, RosterStep, PTL DEF OrdersSpec
=============================================================================
