------------------------------- MODULE AdminDesk -------------------------------
(***************************************************************************)
(* What administrators do on the tables of their page (admin.js): the      *)
(* comment dialog all decisions share (ui.js, askComment), the window of a *)
(* media application and that of a ban, the stock of keys and the list of  *)
(* accounts.  A button press becomes an order: a request to the server,    *)
(* then a render of the table.  Orders overlap; the buttons are those of   *)
(* the table as it was drawn last, while others decide the same requests.  *)
(***************************************************************************)
EXTENDS Integers, FiniteSets

CONSTANTS
  Requests,      \* requests that are pending at first
  Kind,          \* of each request
  Ideas,         \* ideas and bug reports, which are only looked at
  Bans,          \* entries of the ban list, NewBan the form for another
  NewBan,
  Admins,        \* accounts of administrators
  Nothing,       \* no item, no text
  MaxOrders      \* bound on the orders under way

AppKinds == {"media", "discord"}

Payouts == {"usdt", "funpay"}

Lots == {"lot", "key"}

ASSUME KindAssumption == Kind \in [Requests -> AppKinds \cup Payouts \cup Lots]

(***************************************************************************)
(* The page is an administrator's: there is the account signed in with.    *)
(***************************************************************************)
ASSUME AdminsAssumption == IsFiniteSet(Admins) /\ Admins # {}

VARIABLES
  open,       \* the requests that are pending in the database
  drawn,      \* those with buttons in the table as it is drawn
  dialog,     \* the comment dialog
  modal,      \* the window of an application, an idea or a ban
  orders,     \* the orders under way
  accounts,   \* the administrators' accounts in the database
  excused     \* history, see RosterRemains

orderVars == <<open, drawn, dialog, modal, orders, accounts, excused>>

page == <<drawn, dialog, modal>>

db == <<open, accounts, excused>>

(***************************************************************************)
(* A text is known by the item it was typed for.  title is what the dialog *)
(* says, resolve the call of askComment that is told the text.  seen: what *)
(* stood in the window in which the order was confirmed.                   *)
(***************************************************************************)
Decisions == {"approve", "reject"}

NoDialog == [open |-> FALSE, title |-> Nothing, resolve |-> Nothing,
             required |-> FALSE, text |-> Nothing]

NoModal == [item |-> Nothing, text |-> Nothing]

Order(stage, item, action, text, seen) ==
  [stage |-> stage, item |-> item, action |-> action, text |-> text, seen |-> seen]

Asking(item, action) == [item |-> item, action |-> action]

Seen(place, item, action, required) ==
  [place |-> place, item |-> item, action |-> action, required |-> required]

OnTable(item, action) == Seen("table", item, action, FALSE)

OrdersInit ==
  /\ open = Requests /\ drawn = {}
  /\ dialog = NoDialog /\ modal = NoModal
  /\ orders = {}
  /\ accounts = [a \in Admins |-> "active"]
  /\ excused = FALSE

-----------------------------------------------------------------------------
(***************************************************************************)
(* A window covers the table and its buttons.                              *)
(***************************************************************************)
Free == ~dialog.open /\ modal = NoModal

RoomForOrder == Cardinality(orders) < MaxOrders

Begin(order) == RoomForOrder /\ orders' = orders \cup {order}

Category(r) ==
  IF Kind[r] \in AppKinds THEN {Kind[r]}
  ELSE IF Kind[r] \in Payouts THEN Payouts ELSE Lots

(***************************************************************************)
(* A table is drawn; pending requests have buttons.                        *)
(***************************************************************************)
Draw(kinds) == drawn' = {r \in open : Kind[r] \in kinds}

ShowTable(r) ==
  /\ Free
  /\ Draw(Category(r))
  /\ UNCHANGED <<dialog, modal, orders, db>>

(***************************************************************************)
(* askComment: the input is cleared, and whoever had opened the dialog     *)
(* before is not told anything any more.                                   *)
(***************************************************************************)
MutAskComment(item, action, required) ==
  dialog' = [open |-> TRUE, title |-> Asking(item, action), required |-> required,
             resolve |-> Asking(item, action), text |-> dialog.text]

AskComment(item, action, required) ==
  dialog' = [open |-> TRUE, title |-> Asking(item, action), required |-> required,
             resolve |-> Asking(item, action), text |-> Nothing]

DecideApplication(r, action) ==
  /\ Kind[r] \in AppKinds
  /\ AskComment(r, action, FALSE)
  /\ UNCHANGED orders

DecidePayout(r, action) ==
  /\ Kind[r] \in Payouts
  /\ AskComment(r, action, action = "reject" \/ Kind[r] = "usdt")
  /\ UNCHANGED orders

(***************************************************************************)
(* Approving a lot that is a key looks into the stock before it asks.      *)
(***************************************************************************)
DecideLot(r, action) ==
  /\ Kind[r] \in Lots
  /\ IF Kind[r] = "key" /\ action = "approve"
       THEN Begin(Order("stock", r, action, Nothing, OnTable(r, action))) /\ UNCHANGED dialog
       ELSE AskComment(r, action, action = "reject") /\ UNCHANGED orders

PressDecide(r, action) ==
  /\ Free /\ r \in drawn
  /\ DecideApplication(r, action) \/ DecidePayout(r, action) \/ DecideLot(r, action)
  /\ UNCHANGED <<drawn, modal, db>>

(***************************************************************************)
(* With an empty stock, or when the request for it fails, a key must be    *)
(* typed.                                                                  *)
(***************************************************************************)
StockArrives(o, available) ==
  /\ o \in orders /\ o.stage = "stock"
  /\ orders' = orders \ {o}
  /\ AskComment(o.item, o.action, ~available)
  /\ UNCHANGED <<drawn, modal, db>>

Type ==
  /\ dialog.open
  /\ dialog' = [dialog EXCEPT !.text = dialog.title.item]
  /\ UNCHANGED <<drawn, modal, orders, db>>

PressOk ==
  /\ dialog.open /\ (dialog.required => dialog.text # Nothing)
  /\ dialog' = NoDialog
  /\ Begin(Order("sent", dialog.resolve.item, dialog.resolve.action, dialog.text,
       Seen("dialog", dialog.title.item, dialog.title.action, dialog.required)))
  /\ UNCHANGED <<drawn, modal, db>>

Cancel ==
  /\ dialog.open
  /\ dialog' = NoDialog
  /\ UNCHANGED <<drawn, modal, orders, db>>

-----------------------------------------------------------------------------
(***************************************************************************)
(* The windows.  That of an application begins with an empty comment, that *)
(* of a ban with the fields of the ban.                                    *)
(***************************************************************************)
Open(item, text) ==
  /\ Free
  /\ modal' = [item |-> item, text |-> text]
  /\ UNCHANGED <<drawn, dialog, orders, db>>

OpenMediaAppModal(r) == r \in drawn /\ Kind[r] = "media" /\ Open(r, Nothing)

OpenIdeaBugAdminModal(i) == Open(i, Nothing)

OpenBanModal(b) == Open(b, IF b = NewBan THEN Nothing ELSE b)

EditModal(text) ==
  /\ ~dialog.open /\ modal.item \in Requests \cup Bans \cup {NewBan}
  /\ modal' = [modal EXCEPT !.text = text]
  /\ UNCHANGED <<drawn, dialog, orders, db>>

CloseModal ==
  /\ ~dialog.open /\ modal # NoModal
  /\ modal' = NoModal
  /\ UNCHANGED <<drawn, dialog, orders, db>>

ConfirmModal(action) ==
  Begin(Order("sent", modal.item, action, modal.text,
    Seen("modal", modal.item, action, FALSE)))

PressInMediaModal(action) ==
  /\ ~dialog.open /\ modal.item \in Requests
  /\ ConfirmModal(action)
  /\ UNCHANGED <<page, db>>

(***************************************************************************)
(* A ban that has no field left is lifted, once that is confirmed, and a   *)
(* new one needs a field.                                                  *)
(***************************************************************************)
PressInBanModal ==
  /\ ~dialog.open /\ modal.item \in Bans \cup {NewBan}
  /\ \/ modal.text # Nothing /\ ConfirmModal("save")
     \/ modal.item # NewBan /\ ConfirmModal("delete")
  /\ UNCHANGED <<page, db>>

-----------------------------------------------------------------------------
(***************************************************************************)
(* Buttons without a window, or with the browser's own question: the stock *)
(* of keys, and the accounts, whose buttons stay on rows that are gone.    *)
(***************************************************************************)
EditKeys(pool) ==
  /\ Free
  /\ Begin(Order("sent", pool, "edit", Nothing, OnTable(pool, "edit")))
  /\ UNCHANGED <<page, db>>

EditSubKeys == EditKeys("subkeys")

EditGiveawayKeys == EditKeys("giveawaykeys")

PressAccount(a, action) ==
  /\ Free
  /\ Begin(Order("sent", a, action, Nothing, OnTable(a, action)))
  /\ UNCHANGED <<page, db>>

-----------------------------------------------------------------------------
(***************************************************************************)
(* The server.  Payouts and lots are decided only while they are pending,  *)
(* see Desk; applications always, see Applications; KeyPool has the stock  *)
(* and BanCache the bans.  An order confirmed in a window closes what is   *)
(* in that window by now; ideas have one of their own.                     *)
(***************************************************************************)
Becomes(o, stage) ==
  orders' = (orders \ {o})
              \cup {Order(stage, o.item, stage, Nothing, OnTable(o.item, stage))}

Done(o) == orders' = orders \ {o}

SameWindow(a, b) == \E items \in {Requests, Bans \cup {NewBan}} : {a, b} \subseteq items

Accept(o) ==
  /\ o \in orders /\ o.stage = "sent" /\ o.item \notin Admins
  /\ o.item \in Requests => (Kind[o.item] \in AppKinds \/ o.item \in open)
  /\ open' = open \ {o.item}
  /\ Becomes(o, "refresh")
  /\ modal' = IF o.seen.place = "modal" /\ SameWindow(o.item, modal.item)
                THEN NoModal ELSE modal
  /\ UNCHANGED <<drawn, dialog, accounts, excused>>

(***************************************************************************)
(* The order is refused, a statement of it or the render after it fails,   *)
(* or an answer is lost.                                                   *)
(***************************************************************************)
Refuse(o) ==
  /\ o \in orders /\ o.stage # "stock"
  /\ Done(o)
  /\ UNCHANGED <<page, db>>

(***************************************************************************)
(* Deleting an account counts the active administrators first, none when   *)
(* the count fails; switching it reads its state first.  Each is two       *)
(* statements.  An account that is gone is found by neither.               *)
(***************************************************************************)
Active == {a \in Admins : accounts[a] = "active"}

MutCountAdmins(o) ==
  /\ o \in orders /\ o.stage = "sent" /\ o.action = "delete" /\ o.item \in Admins
  /\ accounts[o.item] # "gone" /\ Cardinality(Active) > 0
  /\ Becomes(o, "counted")
  /\ UNCHANGED <<page, db>>

CountAdmins(o) ==
  /\ o \in orders /\ o.stage = "sent" /\ o.action = "delete" /\ o.item \in Admins
  /\ accounts[o.item] # "gone" /\ Cardinality(Active) > 1
  /\ Becomes(o, "counted")
  /\ UNCHANGED <<page, db>>

DeleteAccount(o) ==
  /\ o \in orders /\ o.stage = "counted"
  /\ accounts' = [accounts EXCEPT ![o.item] = "gone"]
  /\ excused' = (excused \/ \E p \in orders \ {o} : p.stage = "counted")
  /\ Becomes(o, "refresh")
  /\ UNCHANGED <<page, open>>

ReadState(o) ==
  /\ o \in orders /\ o.stage = "sent" /\ o.action = "toggle"
  /\ accounts[o.item] # "gone"
  /\ Becomes(o, IF accounts[o.item] = "active" THEN "disabled" ELSE "active")
  /\ UNCHANGED <<page, db>>

ToggleAccount(o) ==
  /\ o \in orders /\ o.stage \in {"active", "disabled"}
  /\ accounts' = IF accounts[o.item] = "gone" THEN accounts
                 ELSE [accounts EXCEPT ![o.item] = o.stage]
  /\ excused' = (excused \/ o.stage = "disabled")
  /\ Becomes(o, "refresh")
  /\ UNCHANGED <<page, open>>

(***************************************************************************)
(* The render after an order, also when another table is drawn by then.    *)
(***************************************************************************)
RenderAfter(o) ==
  /\ o \in orders /\ o.stage = "refresh"
  /\ Done(o)
  /\ Draw(IF o.item \in Requests THEN Category(o.item) ELSE {})
  /\ UNCHANGED <<dialog, modal, db>>

OtherDecides(r) ==
  /\ r \in open
  /\ open' = open \ {r}
  /\ UNCHANGED <<page, orders, accounts, excused>>

OrdersNext ==
  \/ \E r \in Requests :
       \/ ShowTable(r) \/ OtherDecides(r) \/ OpenMediaAppModal(r)
       \/ \E action \in Decisions : PressDecide(r, action)
  \/ \E action \in Decisions : PressInMediaModal(action)
  \/ \E i \in Ideas : OpenIdeaBugAdminModal(i)
  \/ \E b \in Bans \cup {NewBan} : OpenBanModal(b)
  \/ \E text \in {Nothing, modal.item} : EditModal(text)
  \/ \E a \in Admins, action \in {"delete", "toggle"} : PressAccount(a, action)
  \/ Type \/ PressOk \/ Cancel \/ CloseModal \/ PressInBanModal
  \/ EditSubKeys \/ EditGiveawayKeys
  \/ \E o \in orders :
       \/ \E available \in BOOLEAN : StockArrives(o, available)
       \/ Accept(o) \/ Refuse(o) \/ RenderAfter(o)
       \/ CountAdmins(o) \/ DeleteAccount(o) \/ ReadState(o) \/ ToggleAccount(o)

OrdersSpec == OrdersInit /\ [][OrdersNext]_orderVars

-----------------------------------------------------------------------------
(***************************************************************************)
(* What is sent to the server is what the window said in which it was      *)
(* confirmed, with the text typed there, and not without one where the     *)
(* window demanded it: also when one dialog took the place of another, and *)
(* when orders overlap (ui.js, askComment, and its callers in admin.js).   *)
(***************************************************************************)
DecisionAsConfirmed ==
  \A o \in orders : o.stage = "sent" =>
    /\ o.item = o.seen.item /\ o.action = o.seen.action
    /\ o.text \in {Nothing, o.item}
    /\ o.seen.required => o.text # Nothing

(***************************************************************************)
(* Deletions leave an active administrator, unless two of them counted     *)
(* before either deleted, or one was switched off, which is not counted    *)
(* (handlers/admin_accounts.go, DeleteAccount and ToggleAccount).          *)
(***************************************************************************)
RosterRemains == excused \/ Active # {}
=============================================================================
