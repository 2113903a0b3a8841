------------------------------ MODULE Maintenance ------------------------------
(***************************************************************************)
(* Maintenance of the site: the two settings the server keeps, the handlers*)
(* that write them one after the other (admin.go, main.go, public.go), and *)
(* what one open page makes of them (app.js, public.js, auth.js): which    *)
(* view it shows to whom, and the countdown at whose end it asks again.    *)
(* Moments are numbers, 0 is none; the browser's clock may run ahead of    *)
(* the server's and see the end of a period early.  The server ignores the *)
(* errors of its settings: a write may leave what was there, and a read    *)
(* that fails finds nothing.                                               *)
(***************************************************************************)
EXTENDS Integers, FiniteSets

CONSTANTS
  MaxTime,      \* bound on the moments
  MaxHandlers,  \* bound on the toggles the server is working on
  MaxLoads      \* bound on the page's questions for the configuration

ASSUME BoundsAssumption == MaxTime \in Nat /\ MaxHandlers \in Nat /\ MaxLoads \in Nat

VARIABLES
  settings,   \* maintenance_enabled and maintenance_until in the database
  clock,      \* of the server
  handlers,   \* the requests that have a write left, or an answer on its way
  boot,       \* what the page's start waits for
  account,    \* who CURRENT_ACCOUNT is
  config,     \* SITE_CONFIG
  view,       \* the active view
  countdown,  \* the countdown's interval runs
  loads       \* the page's questions for the configuration

server == <<settings, clock, handlers>>

page == <<boot, account, config, view, countdown, loads>>

vars == <<server, page>>

Settings == [on : BOOLEAN, until : 0..MaxTime]

Off == [on |-> FALSE, until |-> 0]

Views == {"public", "maintenance", "cabinet", "admin"}

(***************************************************************************)
(* A toggle sets the switch and has the moment left to write; "lapse" has  *)
(* seen a period over and has the switch left.  mine: this page asked.     *)
(***************************************************************************)
Handler == [write : {"until", "lapse"}, to : Settings, mine : BOOLEAN, done : BOOLEAN]

Lapse == [write |-> "lapse", to |-> Off, mine |-> FALSE, done |-> FALSE]

(***************************************************************************)
(* "due" waits for its timeout or for the server; then it has its answer.  *)
(***************************************************************************)
Load == [state : {"none", "due", "answered"}, answer : Settings]

NoLoad == [state |-> "none", answer |-> Off]

DueLoad == [NoLoad EXCEPT !.state = "due"]

StartLoads == [i \in 1..MaxLoads |-> IF i = 1 THEN DueLoad ELSE NoLoad]

Init ==
  /\ settings \in {Off} \cup [on : {TRUE}, until : 1..MaxTime]
  /\ clock = 0
  /\ handlers = {}
  /\ boot = "config" /\ account = "none" /\ config = Off /\ view = "public"
  /\ countdown = FALSE
  /\ loads = StartLoads

-----------------------------------------------------------------------------
(***************************************************************************)
(* The server.  Whoever asks, for the configuration or for something a     *)
(* media account may not have now, ends a period that is over.  Bound: of  *)
(* those that are about to, one.                                           *)
(***************************************************************************)
Over == settings.on /\ settings.until \in 1..clock

TimePasses ==
  /\ clock < MaxTime
  /\ clock' = clock + 1
  /\ UNCHANGED <<settings, handlers, page>>

MaintenanceCheck ==
  /\ Over
  /\ handlers' = handlers \cup {Lapse}
  /\ UNCHANGED <<settings, clock, page>>

(***************************************************************************)
(* The settings another administrator, or this page's, asks for; a period  *)
(* has an end, and its end is ahead.                                       *)
(***************************************************************************)
Askable == {Off} \cup [on : {TRUE}, until : clock + 1..MaxTime]

ToggleMaintenance(to, mine) ==
  /\ Cardinality(handlers \ {Lapse}) < MaxHandlers /\ to \in Askable
  /\ mine => account = "staff" /\ view = "admin"
  /\ settings' \in {settings, [settings EXCEPT !.on = to.on]}
  /\ handlers' = handlers \cup
       {[write |-> "until", to |-> to, mine |-> mine, done |-> FALSE]}
  /\ UNCHANGED <<clock, page>>

Write(h) ==
  /\ h \in handlers /\ ~h.done
  /\ settings' \in {settings, IF h.write = "lapse" THEN [settings EXCEPT !.on = FALSE]
                               ELSE [settings EXCEPT !.until = h.to.until]}
  /\ handlers' = (handlers \ {h}) \cup
       {g \in {[h EXCEPT !.done = TRUE]} : g.mine}
  /\ UNCHANGED <<clock, page>>

(***************************************************************************)
(* /api/health answers; one that ends the period says so first.            *)
(***************************************************************************)
Answers(i, answer) ==
  /\ loads[i].state = "due"
  /\ loads' = [loads EXCEPT ![i] = [state |-> "answered", answer |-> answer]]
  /\ UNCHANGED <<settings, clock, boot, account, config, view, countdown>>

Health(i) ==
  /\ Answers(i, IF Over \/ ~settings.on THEN Off ELSE settings)
  /\ handlers' = IF Over THEN handlers \cup {Lapse} ELSE handlers

(***************************************************************************)
(* A read has failed, or has met a setting between two writes.  Without    *)
(* the switch there is no maintenance, and without the end none is over;   *)
(* the end that is answered is read once more.                             *)
(***************************************************************************)
HealthMisreads(i) ==
  /\ \E until \in {0, settings.until} : \E on \in {FALSE, settings.on} :
       Answers(i, IF on THEN [on |-> TRUE, until |-> until] ELSE Off)
  /\ UNCHANGED handlers

-----------------------------------------------------------------------------
(***************************************************************************)
(* showView, and what updateMaintenanceUI does to the view that is shown.  *)
(* Staff are those who may pass: administrators, moderators and testers.   *)
(***************************************************************************)
MutShowView(name, c, who) == name

ShowView(name, c, who) == IF c.on /\ who # "staff" THEN "maintenance" ELSE name

Updated(c, who) ==
  IF c.on THEN ShowView(view, c, who)
  ELSE IF view = "maintenance" THEN "public" ELSE view

(***************************************************************************)
(* updateMaintenanceUI starts the countdown anew or stops it.  One that    *)
(* finds itself over at once asks for the configuration already now, and   *)
(* its interval runs nonetheless.                                          *)
(***************************************************************************)
Free(ls) == {i \in DOMAIN ls : ls[i].state = "none"}

Due(ls) ==
  {[ls EXCEPT ![i] = DueLoad] : i \in {j \in Free(ls) : \A k \in Free(ls) : j <= k}}

UpdateMaintenanceUI(c, who, ls) ==
  /\ config' = c /\ account' = who
  /\ countdown' = c.on
  /\ loads' \in {ls} \cup (IF c.on /\ c.until # 0 THEN Due(ls) ELSE {})

MutCountdownEnds ==
  /\ countdown /\ config.until # 0
  /\ countdown' = FALSE
  /\ UNCHANGED <<server, boot, account, config, view, loads>>

CountdownEnds ==
  /\ countdown /\ config.until # 0
  /\ countdown' = FALSE
  /\ loads' \in Due(loads)
  /\ UNCHANGED <<server, boot, account, config, view>>

(***************************************************************************)
(* The configuration arrives; one that cannot be had is empty.  The first  *)
(* one of a page goes on to ask for the session, if it is to be remembered,*)
(* or to the view its address names.                                       *)
(***************************************************************************)
LoadSiteConfig(i, c) ==
  /\ loads[i].state # "none" /\ c \in {Off, loads[i].answer}
  /\ UpdateMaintenanceUI(c, account, [loads EXCEPT ![i] = NoLoad])
  /\ \/ /\ boot = "config" /\ boot' = "done"
        /\ view' \in {ShowView(name, c, "none") : name \in {"public", "maintenance"}}
     \/ /\ boot' = IF boot = "config" THEN "session" ELSE boot
        /\ view' = Updated(c, account)
  /\ UNCHANGED server

LoadSession(who) ==
  /\ boot = "session" /\ boot' = "done"
  /\ UpdateMaintenanceUI(config, who, loads)
  /\ view' \in {ShowView(name, config, who) :
       name \in {"maintenance", IF who = "none" THEN "public" ELSE "cabinet"}}
  /\ UNCHANGED server

(***************************************************************************)
(* A login has succeeded; "none" when its session could not be read.       *)
(***************************************************************************)
LogIn(who) ==
  /\ boot = "done" /\ account = "none"
  /\ UpdateMaintenanceUI(config, who, loads)
  /\ view' = ShowView("cabinet", config, who)
  /\ UNCHANGED <<server, boot>>

HandleSessionExpired ==
  /\ account # "none" /\ boot = "done"
  /\ UpdateMaintenanceUI(config, "none", loads)
  /\ view' = LET shown == Updated(config, "none")
             IN IF shown \in {"cabinet", "admin"} THEN ShowView("public", config, "none")
                                                  ELSE shown
  /\ UNCHANGED <<server, boot>>

LogOut ==
  /\ account # "none" /\ boot = "done"
  /\ UpdateMaintenanceUI(config, "none", loads)
  /\ view' = ShowView("public", config, "none")
  /\ UNCHANGED <<server, boot>>

(***************************************************************************)
(* The tabs, the logo, the buttons of the cabinet and of the preview, the  *)
(* browser's history, and a click on a notification.                       *)
(***************************************************************************)
Navigate(name) ==
  /\ boot # "config"
  /\ name = "admin" => account = "staff"
  /\ view' = ShowView(name, config, account)
  /\ UNCHANGED <<server, boot, account, config, countdown, loads>>

(***************************************************************************)
(* The answer to the administrator's own toggle is taken over; or it is    *)
(* lost.                                                                   *)
(***************************************************************************)
SwitchedOn(h) ==
  /\ h \in handlers /\ h.done /\ h.to.on
  /\ UpdateMaintenanceUI(h.to, account, loads)
  /\ view' = ShowView("maintenance", h.to, account)
  /\ handlers' = handlers \ {h}
  /\ UNCHANGED <<settings, clock, boot>>

SwitchedOff(h) ==
  /\ h \in handlers /\ h.done /\ ~h.to.on
  /\ UpdateMaintenanceUI(h.to, account, loads)
  /\ view' = Updated(h.to, account)
  /\ handlers' = handlers \ {h}
  /\ UNCHANGED <<settings, clock, boot>>

ToggleLost(h) ==
  /\ h \in handlers /\ h.done
  /\ handlers' = handlers \ {h}
  /\ UNCHANGED <<settings, clock, page>>

(***************************************************************************)
(* The page is loaded again.                                               *)
(***************************************************************************)
Reload ==
  /\ boot # "config"
  /\ boot' = "config" /\ account' = "none" /\ config' = Off /\ view' = "public"
  /\ countdown' = FALSE
  /\ loads' = StartLoads
  /\ handlers' = {[h EXCEPT !.mine = FALSE] : h \in {g \in handlers : ~g.done}}
  /\ UNCHANGED <<settings, clock>>

-----------------------------------------------------------------------------
Next ==
  \/ TimePasses
  \/ MaintenanceCheck
  \/ \E to \in Settings, mine \in BOOLEAN : ToggleMaintenance(to, mine)
  \/ \E h \in handlers : Write(h)
  \/ \E i \in 1..MaxLoads : Health(i) \/ HealthMisreads(i)
  \/ CountdownEnds
  \/ \E i \in 1..MaxLoads : \E c \in {Off, loads[i].answer} : LoadSiteConfig(i, c)
  \/ \E who \in {"none", "media", "staff"} : LoadSession(who) \/ LogIn(who)
  \/ HandleSessionExpired
  \/ LogOut
  \/ \E name \in Views : Navigate(name)
  \/ \E h \in handlers : SwitchedOn(h) \/ SwitchedOff(h) \/ ToggleLost(h)
  \/ Reload

Spec == Init /\ [][Next]_vars

(***************************************************************************)
(* Clocks go on, each question for the configuration is answered or fails, *)
(* and the database does not fail whenever one is asked.                   *)
(***************************************************************************)
Fairness ==
  /\ WF_vars(TimePasses)
  /\ WF_vars(CountdownEnds)
  /\ \A i \in 1..MaxLoads : WF_vars(\E c \in {Off, loads[i].answer} : LoadSiteConfig(i, c))
  /\ SF_vars(\E i \in 1..MaxLoads : Health(i))

FairSpec == Spec /\ Fairness

-----------------------------------------------------------------------------
(***************************************************************************)
(* Whoever the page does not know as staff sees nothing but the screen of  *)
(* maintenance as long as the page knows of one: whatever is clicked, and  *)
(* whichever of configuration, session and toggle changes, in any order.   *)
(***************************************************************************)
VisitorHeld == config.on /\ account # "staff" => view = "maintenance"

(***************************************************************************)
(* A visitor who waits for the end of a period that the page was told      *)
(* leaves the screen of maintenance, or learns of another end or of none,  *)
(* without loading the page again: whatever is lost, misread or prolonged. *)
(***************************************************************************)
WaitsFor(until) == config.on /\ config.until = until /\ view = "maintenance"

ToldEndMet == \A until \in 1..MaxTime : WaitsFor(until) ~> ~WaitsFor(until)

(***************************************************************************)
(* The code does not keep this one: a page that was told of no end, which  *)
(* it is between the two writes of a switch-on, after the second of them   *)
(* or a read has failed, never asks again.                                 *)
(***************************************************************************)
NobodyStays == WaitsFor(0) ~> ~WaitsFor(0)
=============================================================================
