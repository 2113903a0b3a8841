------------------------------- MODULE BanCache -------------------------------
(***************************************************************************)
(* The ban list: table v2_bans and the in-memory copy every request is     *)
(* checked against.  An administrator's change is one statement; Reload    *)
(* then reads the table without holding the mutex, builds the lookup maps, *)
(* and installs them under it.  Several administrators may be doing this   *)
(* at once, and visitors are checked against whatever copy is installed.   *)
(***************************************************************************)
EXTENDS Integers

CONSTANTS
  MaxBans,    \* bound on the number of bans: ids are 1..MaxBans
  Hosts,      \* addresses visitors come from
  Loopback,   \* those of them that are loopback addresses
  Canonical,  \* the loopback addresses 127.0.0.1 and ::1
  Uids,       \* values of the other ban fields; uid stands for them all
  NoUid,      \* the empty field
  Bans,       \* the bans an administrator may enter
  Admins      \* goroutines changing the list

(***************************************************************************)
(* A ban names one address ("host"), a subnet ("cidr") or no address, and  *)
(* in the last case some other field.                                      *)
(***************************************************************************)
BanForms == [form : {"none", "host", "cidr"}, ip : SUBSET Hosts, uid : Uids \cup {NoUid}]

ASSUME HostsAssumption ==
  Canonical # {} /\ Canonical \subseteq Loopback /\ Loopback \subseteq Hosts

ASSUME BansAssumption ==
  /\ MaxBans \in Nat /\ NoUid \notin Uids
  /\ Bans \subseteq BanForms
  /\ \A b \in Bans : /\ b.form = "none" => b.ip = {} /\ b.uid # NoUid
                     /\ b.form = "host" => \E h \in Hosts : b.ip = {h}

VARIABLES
  table,     \* v2_bans by id
  nextId,    \* the id the next INSERT takes
  cache,     \* the installed copy, with its lookup maps
  admin,     \* where each administrator is, and the snapshot it read
  settled,   \* history: the last change was made by one undisturbed administrator
  faulty     \* history: some Reload failed or read only a part

vars == <<table, nextId, cache, admin, settled, faulty>>

BanIds == 1..MaxBans

Absent == [form |-> "none", ip |-> {}, uid |-> NoUid]

Empty == [i \in BanIds |-> Absent]

Tables == [BanIds -> Bans \cup {Absent}]

Present(t) == {i \in BanIds : t[i] # Absent}

-----------------------------------------------------------------------------
(***************************************************************************)
(* The maps Reload builds.  The rows come newest first, so of several bans *)
(* with one key the oldest is kept; a ban of any loopback address is kept  *)
(* under the two canonical ones, and raises hasLoopback.                   *)
(***************************************************************************)
Oldest(S) == IF S = {} THEN 0 ELSE CHOOSE i \in S : \A j \in S : i <= j

Newest(S) == IF S = {} THEN 0 ELSE CHOOSE i \in S : \A j \in S : i >= j

LoopbackBans(t) == {i \in Present(t) : t[i].form = "host" /\ t[i].ip \subseteq Loopback}

AddressBans(t, h) ==
  IF h \in Loopback THEN {i \in LoopbackBans(t) : h \in Canonical}
  ELSE {i \in Present(t) : t[i].form = "host" /\ h \in t[i].ip}

MutMaps(t) ==
  [list |-> t,
   byIP |-> [h \in Hosts |-> Oldest({i \in Present(t) : t[i].form = "host" /\ h \in t[i].ip})],
   byUID |-> [u \in Uids |-> Oldest({i \in Present(t) : t[i].uid = u})],
   cidrs |-> {i \in Present(t) : t[i].form = "cidr"},
   hasLoopback |-> \E h \in Canonical, i \in Present(t) : t[i].form = "host" /\ h \in t[i].ip]

Maps(t) ==
  [list |-> t,
   byIP |-> [h \in Hosts |-> Oldest(AddressBans(t, h))],
   byUID |-> [u \in Uids |-> Oldest({i \in Present(t) : t[i].uid = u})],
   cidrs |-> {i \in Present(t) : t[i].form = "cidr"},
   hasLoopback |-> LoopbackBans(t) # {}]

(***************************************************************************)
(* The lookups of a request.  They give the id of a ban, 0 for none.       *)
(***************************************************************************)
SubnetOf(c, h) == Newest({i \in c.cidrs : h \in c.list[i].ip})

IsIPBanned(c, h) ==
  \/ h \in Loopback /\ c.hasLoopback
  \/ c.byIP[h] # 0
  \/ \E i \in c.cidrs : h \in c.list[i].ip

CanonicalBan(c) == Oldest({c.byIP[h] : h \in Canonical})

BanReasonOfIP(c, h) ==
  IF c.byIP[h] # 0 THEN c.byIP[h]
  ELSE IF SubnetOf(c, h) # 0 THEN SubnetOf(c, h)
  ELSE IF h \in Loopback /\ c.hasLoopback THEN CanonicalBan(c) ELSE 0

BannedIp(c, h) ==
  IF h \in Loopback /\ c.hasLoopback /\ CanonicalBan(c) # 0 THEN CanonicalBan(c)
  ELSE IF c.byIP[h] # 0 THEN c.byIP[h] ELSE SubnetOf(c, h)

(***************************************************************************)
(* CheckFields, on a form with user id u from address h.                   *)
(***************************************************************************)
CheckFields(c, u, h) ==
  IF u # NoUid /\ c.byUID[u] # 0 THEN c.byUID[u]
  ELSE IF IsIPBanned(c, h) THEN BanReasonOfIP(c, h) ELSE 0

-----------------------------------------------------------------------------
(***************************************************************************)
(* An administrator: "read" is between the statement and the query of      *)
(* Reload, "install" between the query and the lock.  alone is history: no *)
(* other administrator has been under way since the statement.             *)
(***************************************************************************)
IdleAdmin == [at |-> "idle", snapshot |-> Empty, alone |-> FALSE, whole |-> TRUE]

Init ==
  /\ table = Empty
  /\ nextId = 1
  /\ cache = Maps(Empty)
  /\ admin = [a \in Admins |-> IdleAdmin]
  /\ settled = TRUE
  /\ faulty = FALSE

Idle(a) == admin[a].at = "idle"

OthersIdle(a) == \A b \in Admins \ {a} : Idle(b)

(***************************************************************************)
(* The rest of a change after its statement: Reload is about to run.       *)
(***************************************************************************)
Changed(a) ==
  /\ admin' = [b \in Admins |->
       IF b = a THEN [IdleAdmin EXCEPT !.at = "read", !.alone = OthersIdle(a)]
       ELSE [admin[b] EXCEPT !.alone = FALSE]]
  /\ settled' = FALSE
  /\ UNCHANGED <<cache, faulty>>

Add(a) ==
  /\ Idle(a) /\ nextId \in BanIds
  /\ \E b \in Bans : table' = [table EXCEPT ![nextId] = b]
  /\ nextId' = nextId + 1
  /\ Changed(a)

MutUpdate(a) ==
  /\ Idle(a)
  /\ \E i \in BanIds, b \in Bans : table' = [table EXCEPT ![i] = b]
  /\ UNCHANGED nextId
  /\ Changed(a)

Update(a) ==
  /\ Idle(a)
  /\ \E i \in Present(table), b \in Bans : table' = [table EXCEPT ![i] = b]
  /\ UNCHANGED nextId
  /\ Changed(a)

Remove(a) ==
  /\ Idle(a)
  /\ \E i \in Present(table) : table' = [table EXCEPT ![i] = Absent]
  /\ UNCHANGED nextId
  /\ Changed(a)

(***************************************************************************)
(* The query of Reload.  The loop over the rows ends without looking at    *)
(* rows.Err: when the connection breaks, the rows older than the break are *)
(* missing from the snapshot and nobody is told.                           *)
(***************************************************************************)
NewerThan(t, cut) == [i \in BanIds |-> IF i > cut THEN t[i] ELSE Absent]

MutReadTable(a) ==
  /\ admin[a].at = "read"
  /\ \E cut \in BanIds :
       admin' = [admin EXCEPT ![a].at = "install", ![a].snapshot = NewerThan(table, cut)]
  /\ UNCHANGED <<table, nextId, cache, settled, faulty>>

ReadTable(a) ==
  /\ admin[a].at = "read"
  /\ admin' = [admin EXCEPT ![a].at = "install", ![a].snapshot = table]
  /\ UNCHANGED <<table, nextId, cache, settled, faulty>>

ReadBroken(a) ==
  /\ admin[a].at = "read"
  /\ \E cut \in BanIds :
       admin' = [admin EXCEPT ![a].at = "install",
                              ![a].snapshot = NewerThan(table, cut),
                              ![a].whole = FALSE]
  /\ faulty' = TRUE
  /\ UNCHANGED <<table, nextId, cache, settled>>

Install(a) ==
  /\ admin[a].at = "install"
  /\ cache' = Maps(admin[a].snapshot)
  /\ settled' = (admin[a].alone /\ admin[a].whole)
  /\ admin' = [admin EXCEPT ![a] = IdleAdmin]
  /\ UNCHANGED <<table, nextId, faulty>>

(***************************************************************************)
(* The query of Reload fails: the change stays, the copy is as it was, and *)
(* the administrator is shown an error.                                    *)
(***************************************************************************)
ReloadFails(a) ==
  /\ admin[a].at = "read"
  /\ admin' = [admin EXCEPT ![a] = IdleAdmin]
  /\ faulty' = TRUE
  /\ UNCHANGED <<table, nextId, cache, settled>>

Next ==
  \E a \in Admins :
    \/ Add(a) \/ Update(a) \/ Remove(a)
    \/ ReadTable(a) \/ ReadBroken(a) \/ Install(a) \/ ReloadFails(a)

Spec == Init /\ [][Next]_vars

-----------------------------------------------------------------------------
(***************************************************************************)
(* The variables keep their types, and the maps are those of the list they *)
(* were built with (Service, bans/service.go:19).                          *)
(***************************************************************************)
TypeOK ==
  /\ table \in Tables
  /\ nextId \in 1..(MaxBans + 1)
  /\ \A i \in BanIds : i >= nextId => table[i] = Absent
  /\ cache.list \in Tables /\ cache = Maps(cache.list)
  /\ admin \in [Admins -> [at : {"idle", "read", "install"}, snapshot : Tables,
                           alone : BOOLEAN, whole : BOOLEAN]]
  /\ settled \in BOOLEAN /\ faulty \in BOOLEAN

Covers(t, i, h) ==
  \/ t[i].form = "host" /\ (h \in t[i].ip \/ (h \in Loopback /\ t[i].ip \subseteq Loopback))
  \/ t[i].form = "cidr" /\ h \in t[i].ip

Covered(t, h) == \E i \in Present(t) : Covers(t, i, h)

(***************************************************************************)
(* The lookups, each with its own order of trying the maps, agree: an      *)
(* address is refused exactly when some listed ban covers it, and the text *)
(* a visitor is refused with, and the ban a form is refused for, is that   *)
(* of a ban that really covers the address (bans/service.go:157-308).      *)
(***************************************************************************)
LookupsAgree ==
  \A h \in Hosts :
    /\ IsIPBanned(cache, h) <=> Covered(cache.list, h)
    /\ \A i \in {BannedIp(cache, h), BanReasonOfIP(cache, h), CheckFields(cache, NoUid, h)} :
         IF Covered(cache.list, h) THEN i \in Present(cache.list) /\ Covers(cache.list, i, h)
         ELSE i = 0

(***************************************************************************)
(* When one administrator made the last change with nobody else under way  *)
(* and its Reload read the whole table, the copy requests are checked      *)
(* against is the table, however many lost races came before               *)
(* (Add, Update, Remove, Reload: bans/service.go:72-401).                  *)
(***************************************************************************)
SettledCopyCurrent == settled => cache = Maps(table)

(***************************************************************************)
(* Once no change is under way and no Reload ever failed, an address some  *)
(* ban of the table covers is refused ("blocks any request from a banned   *)
(* IP", middleware/security.go:15).                                        *)
(***************************************************************************)
BannedIPBlocked ==
  (~faulty /\ \A a \in Admins : Idle(a))
    => \A h \in Hosts : Covered(table, h) => IsIPBanned(cache, h)
=============================================================================
