--------------------------- MODULE MaintenanceProofs ---------------------------
(***************************************************************************)
(* Proofs about Maintenance, for any number of moments, handlers and       *)
(* questions for the configuration.                                        *)
(***************************************************************************)
EXTENDS Maintenance, TLAPS

(***************************************************************************)
(* Both ways in which a view is chosen hold back whoever is not staff.     *)
(***************************************************************************)
LEMMA ShownHeld ==
  ASSUME NEW name, NEW c, NEW who, c.on, who # "staff"
  PROVE  ShowView(name, c, who) = "maintenance"
  BY DEF ShowView

LEMMA UpdatedHeld ==
  ASSUME NEW c, NEW who, c.on, who # "staff"
  PROVE  Updated(c, who) = "maintenance"
  BY ShownHeld DEF Updated

(***************************************************************************)
(* What the page knows of maintenance and of the account changes only      *)
(* together with the view.                                                 *)
(***************************************************************************)
LEMMA HeldStep ==
  ASSUME VisitorHeld, [Next]_vars
  PROVE  VisitorHeld'
<1> USE DEF VisitorHeld
<1>1. CASE UNCHANGED <<config, account, view>>
  BY <1>1
<1>2. ASSUME NEW i \in 1..MaxLoads, NEW c, LoadSiteConfig(i, c)
      PROVE  VisitorHeld'
  <2>1. config' = c /\ account' = account
    BY <1>2 DEF LoadSiteConfig, UpdateMaintenanceUI
  <2>2. ASSUME c.on, account # "staff" PROVE view' = "maintenance"
    <3>1. CASE view' \in {ShowView(name, c, "none") : name \in {"public", "maintenance"}}
      BY <2>2, <3>1, ShownHeld
    <3>2. CASE view' = Updated(c, account)
      BY <2>2, <3>2, UpdatedHeld
    <3> QED BY <1>2, <3>1, <3>2 DEF LoadSiteConfig
  <2> QED BY <2>1, <2>2
<1>3. ASSUME NEW who \in {"none", "media", "staff"}, LoadSession(who) PROVE VisitorHeld'
  BY <1>3, ShownHeld DEF LoadSession, UpdateMaintenanceUI
<1>4. ASSUME NEW who \in {"none", "media", "staff"}, LogIn(who) PROVE VisitorHeld'
  BY <1>4, ShownHeld DEF LogIn, UpdateMaintenanceUI
<1>5. CASE HandleSessionExpired
  <2>1. config' = config /\ account' = "none"
    BY <1>5 DEF HandleSessionExpired, UpdateMaintenanceUI
  <2>2. config.on => view' = "maintenance"
    BY <1>5, UpdatedHeld DEF HandleSessionExpired
  <2> QED BY <2>1, <2>2
<1>6. CASE LogOut
  BY <1>6, ShownHeld DEF LogOut, UpdateMaintenanceUI
<1>7. ASSUME NEW name \in Views, Navigate(name) PROVE VisitorHeld'
  BY <1>7, ShownHeld DEF Navigate
<1>8. ASSUME NEW h \in handlers, SwitchedOn(h) PROVE VisitorHeld'
  BY <1>8, ShownHeld DEF SwitchedOn, UpdateMaintenanceUI
<1>9. ASSUME NEW h \in handlers, SwitchedOff(h) PROVE VisitorHeld'
  BY <1>9 DEF SwitchedOff, UpdateMaintenanceUI
<1>10. CASE Reload
  BY <1>10 DEF Reload, Off
<1>11. ASSUME TimePasses \/ MaintenanceCheck \/ CountdownEnds
                \/ (\E to \in Settings, mine \in BOOLEAN : ToggleMaintenance(to, mine))
                \/ (\E h \in handlers : Write(h) \/ ToggleLost(h))
                \/ (\E i \in 1..MaxLoads : Health(i) \/ HealthMisreads(i))
       PROVE  UNCHANGED <<config, account, view>>
  BY <1>11 DEF TimePasses, MaintenanceCheck, CountdownEnds, ToggleMaintenance, Write,
               ToggleLost, Health, HealthMisreads, Answers, page, server
<1>12. CASE UNCHANGED vars
  BY <1>1, <1>12 DEF vars, page
<1> QED BY <1>1, <1>2, <1>3, <1>4, <1>5, <1>6, <1>7, <1>8, <1>9, <1>10, <1>11, <1>12 DEF Next

(***************************************************************************)
(* Whoever the page does not know as staff sees nothing but the screen of  *)
(* maintenance as long as the page knows of one (app.js, showView, and     *)
(* public.js, updateMaintenanceUI).                                        *)
(***************************************************************************)
THEOREM VisitorHeldAlways == Spec => []VisitorHeld
<1>1. Init => VisitorHeld
  BY DEF Init, VisitorHeld, Off
<1>2. VisitorHeld /\ [Next]_vars => VisitorHeld'
  BY HeldStep
<1> QED BY <1>1, <1>2, PTL DEF Spec
=============================================================================
