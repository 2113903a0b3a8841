---------------------------- MODULE BanCacheProofs ----------------------------
(***************************************************************************)
(* Proofs about BanCache, for any number of bans, addresses and            *)
(* administrators.                                                         *)
(***************************************************************************)
EXTENDS BanCache, WellFoundedInduction, TLAPS

(***************************************************************************)
(* Whatever the table holds, a row written keeps it a table.               *)
(***************************************************************************)
LEMMA WrittenTable ==
  ASSUME NEW t \in Tables, NEW i \in BanIds, NEW b \in Bans \cup {Absent}
  PROVE  [t EXCEPT ![i] = b] \in Tables
  BY DEF Tables

LEMMA EmptyTable == Empty \in Tables
  BY DEF Empty, Tables

LEMMA PartTable ==
  ASSUME NEW t \in Tables, NEW cut \in BanIds
  PROVE  NewerThan(t, cut) \in Tables
  BY DEF Tables, NewerThan

Modes == {"idle", "read", "install"}

AdminStates == [at : Modes, snapshot : Tables, alone : BOOLEAN, whole : BOOLEAN]

LEMMA IdleState == IdleAdmin \in AdminStates
  BY EmptyTable DEF IdleAdmin, AdminStates, Modes

(***************************************************************************)
(* The invariant's parts.                                                  *)
(***************************************************************************)
Types ==
  /\ table \in Tables
  /\ nextId \in 1..(MaxBans + 1)
  /\ cache.list \in Tables
  /\ admin \in [Admins -> AdminStates]
  /\ settled \in BOOLEAN
  /\ faulty \in BOOLEAN

UnusedIds == \A i \in BanIds : i >= nextId => table[i] = Absent

MapsOfList == cache = Maps(cache.list)

LEMMA TypeParts == Types /\ UnusedIds /\ MapsOfList <=> TypeOK
  BY DEF Types, UnusedIds, MapsOfList, TypeOK, AdminStates, Modes

LEMMA ListOfMaps == \A t : Maps(t).list = t
  BY DEF Maps

-----------------------------------------------------------------------------
(***************************************************************************)
(* The initial state.                                                      *)
(***************************************************************************)
LEMMA InitTypes == Init => Types /\ UnusedIds /\ MapsOfList
<1> SUFFICES ASSUME Init PROVE Types /\ UnusedIds /\ MapsOfList
  OBVIOUS
<1>1. Types
  <2>1. cache.list = Empty
    BY ListOfMaps DEF Init
  <2>2. admin \in [Admins -> AdminStates]
    BY IdleState DEF Init
  <2>3. nextId \in 1..(MaxBans + 1)
    BY BansAssumption DEF Init
  <2> QED BY <2>1, <2>2, <2>3, EmptyTable DEF Init, Types
<1>2. UnusedIds
  BY DEF Init, UnusedIds, Empty
<1>3. MapsOfList
  BY ListOfMaps DEF Init, MapsOfList
<1> QED BY <1>1, <1>2, <1>3

(***************************************************************************)
(* A change of the table leaves administrators of their type.              *)
(***************************************************************************)
LEMMA ChangedTypes ==
  ASSUME Types, NEW a \in Admins, Changed(a)
  PROVE  /\ admin' \in [Admins -> AdminStates]
         /\ settled' \in BOOLEAN /\ faulty' \in BOOLEAN
         /\ cache'.list \in Tables
<1>1. [IdleAdmin EXCEPT !.at = "read", !.alone = OthersIdle(a)] \in AdminStates
  <2>1. OthersIdle(a) \in BOOLEAN
    BY DEF OthersIdle
  <2> QED BY <2>1, EmptyTable DEF IdleAdmin, AdminStates, Modes
<1>2. ASSUME NEW b \in Admins PROVE [admin[b] EXCEPT !.alone = FALSE] \in AdminStates
  BY DEF Types, AdminStates
<1> QED BY <1>1, <1>2 DEF Changed, Types

(***************************************************************************)
(* Every step keeps the types.                                             *)
(***************************************************************************)
LEMMA NextTypes ==
  ASSUME Types, UnusedIds, MapsOfList, [Next]_vars
  PROVE  Types' /\ UnusedIds' /\ MapsOfList'
<1>1. ASSUME NEW a \in Admins, Add(a) PROVE Types' /\ UnusedIds' /\ MapsOfList'
  <2>1. PICK b \in Bans : table' = [table EXCEPT ![nextId] = b]
    BY <1>1 DEF Add
  <2>2. table' \in Tables
    BY <1>1, <2>1, WrittenTable DEF Add, Types
  <2>3. nextId' \in 1..(MaxBans + 1)
    BY <1>1, BansAssumption DEF Add, BanIds
  <2>4. Types'
    BY <1>1, <2>2, <2>3, ChangedTypes DEF Add, Types
  <2>5. UnusedIds'
    BY <1>1, <2>1, BansAssumption DEF Add, UnusedIds, Types, Tables, BanIds
  <2>6. MapsOfList'
    BY <1>1 DEF Add, Changed, MapsOfList
  <2> QED BY <2>4, <2>5, <2>6
<1>2. ASSUME NEW a \in Admins, Update(a) PROVE Types' /\ UnusedIds' /\ MapsOfList'
  <2>1. PICK i \in Present(table), b \in Bans : table' = [table EXCEPT ![i] = b]
    BY <1>2 DEF Update
  <2>2. table' \in Tables
    BY <2>1, WrittenTable DEF Types, Present
  <2>3. Types'
    BY <1>2, <2>2, ChangedTypes DEF Update, Types
  <2>4. UnusedIds'
    BY <1>2, <2>1 DEF Update, UnusedIds, Types, Tables, Present
  <2>5. MapsOfList'
    BY <1>2 DEF Update, Changed, MapsOfList
  <2> QED BY <2>3, <2>4, <2>5
<1>3. ASSUME NEW a \in Admins, Remove(a) PROVE Types' /\ UnusedIds' /\ MapsOfList'
  <2>1. PICK i \in Present(table) : table' = [table EXCEPT ![i] = Absent]
    BY <1>3 DEF Remove
  <2>2. table' \in Tables
    BY <2>1, WrittenTable DEF Types, Present
  <2>3. Types'
    BY <1>3, <2>2, ChangedTypes DEF Remove, Types
  <2>4. UnusedIds'
    BY <1>3, <2>1 DEF Remove, UnusedIds, Types, Tables, Present
  <2>5. MapsOfList'
    BY <1>3 DEF Remove, Changed, MapsOfList
  <2> QED BY <2>3, <2>4, <2>5
<1>4. ASSUME NEW a \in Admins, ReadTable(a) PROVE Types' /\ UnusedIds' /\ MapsOfList'
  <2>1. admin' \in [Admins -> AdminStates]
    BY <1>4 DEF ReadTable, Types, AdminStates, Modes
  <2> QED BY <1>4, <2>1 DEF ReadTable, Types, UnusedIds, MapsOfList
<1>5. ASSUME NEW a \in Admins, ReadBroken(a) PROVE Types' /\ UnusedIds' /\ MapsOfList'
  <2>1. PICK cut \in BanIds :
          admin' = [admin EXCEPT ![a].at = "install",
                                 ![a].snapshot = NewerThan(table, cut),
                                 ![a].whole = FALSE]
    BY <1>5 DEF ReadBroken
  <2>2. NewerThan(table, cut) \in Tables
    BY PartTable DEF Types
  <2>3. admin' \in [Admins -> AdminStates]
    BY <2>1, <2>2 DEF Types, AdminStates, Modes
  <2> QED BY <1>5, <2>3 DEF ReadBroken, Types, UnusedIds, MapsOfList
<1>6. ASSUME NEW a \in Admins, Install(a) PROVE Types' /\ UnusedIds' /\ MapsOfList'
  <2>1. admin[a].snapshot \in Tables /\ admin[a].alone \in BOOLEAN /\ admin[a].whole \in BOOLEAN
    BY DEF Types, AdminStates
  <2>2. cache'.list = admin[a].snapshot
    BY <1>6, ListOfMaps DEF Install
  <2>3. admin' \in [Admins -> AdminStates]
    BY <1>6, IdleState DEF Install, Types
  <2>4. settled' \in BOOLEAN
    BY <1>6, <2>1 DEF Install
  <2>5. Types'
    BY <1>6, <2>1, <2>2, <2>3, <2>4 DEF Install, Types
  <2>6. UnusedIds'
    BY <1>6 DEF Install, UnusedIds
  <2>7. MapsOfList'
    BY <1>6, <2>2 DEF Install, MapsOfList
  <2> QED BY <2>5, <2>6, <2>7
<1>7. ASSUME NEW a \in Admins, ReloadFails(a) PROVE Types' /\ UnusedIds' /\ MapsOfList'
  <2>1. admin' \in [Admins -> AdminStates]
    BY <1>7, IdleState DEF ReloadFails, Types
  <2> QED BY <1>7, <2>1 DEF ReloadFails, Types, UnusedIds, MapsOfList
<1>8. ASSUME UNCHANGED vars PROVE Types' /\ UnusedIds' /\ MapsOfList'
  BY <1>8 DEF vars, Types, UnusedIds, MapsOfList
<1> QED BY <1>1, <1>2, <1>3, <1>4, <1>5, <1>6, <1>7, <1>8 DEF Next

(***************************************************************************)
(* The variables keep their types, no id that was never given out holds a  *)
(* ban, and the maps installed are those of the list installed with them.  *)
(***************************************************************************)
THEOREM BanTypeCorrect == Spec => []TypeOK
<1>1. Init => Types /\ UnusedIds /\ MapsOfList
  BY InitTypes
<1>2. Types /\ UnusedIds /\ MapsOfList /\ [Next]_vars => (Types /\ UnusedIds /\ MapsOfList)'
  BY NextTypes
<1>3. Types /\ UnusedIds /\ MapsOfList => TypeOK
  BY TypeParts
<1> QED BY <1>1, <1>2, <1>3, PTL DEF Spec

-----------------------------------------------------------------------------
(***************************************************************************)
(* Why an undisturbed change takes effect: an administrator marked alone   *)
(* has nobody else under way, so what it read whole is still the table     *)
(* when it installs it; and once it has, nobody is under way at all.       *)
(***************************************************************************)
AloneIsAlone == \A a \in Admins : admin[a].alone => OthersIdle(a)

AloneReadCurrent ==
  \A a \in Admins :
    (admin[a].at = "install" /\ admin[a].alone /\ admin[a].whole)
      => admin[a].snapshot = table

SettledIdle == settled => \A a \in Admins : Idle(a)

CopyInv ==
  /\ Types
  /\ UnusedIds
  /\ MapsOfList
  /\ AloneIsAlone
  /\ AloneReadCurrent
  /\ SettledIdle
  /\ SettledCopyCurrent

LEMMA InitCopy == Init => CopyInv
<1> SUFFICES ASSUME Init PROVE CopyInv
  OBVIOUS
<1>1. \A a \in Admins : admin[a] = IdleAdmin
  BY DEF Init
<1>2. AloneIsAlone /\ AloneReadCurrent /\ SettledIdle
  BY <1>1 DEF AloneIsAlone, AloneReadCurrent, SettledIdle, Idle, IdleAdmin
<1>3. SettledCopyCurrent
  BY DEF Init, SettledCopyCurrent
<1> QED BY <1>2, <1>3, InitTypes DEF CopyInv

(***************************************************************************)
(* After a statement only its administrator can be alone, and only when it *)
(* found the others idle; nothing is settled.                              *)
(***************************************************************************)
LEMMA ChangedCopy ==
  ASSUME CopyInv, NEW a \in Admins, Idle(a), Changed(a)
  PROVE  AloneIsAlone' /\ AloneReadCurrent' /\ SettledIdle' /\ SettledCopyCurrent'
<1>1. admin'[a].at = "read" /\ (admin'[a].alone = OthersIdle(a))
  BY DEF Changed, IdleAdmin
<1>2. \A b \in Admins \ {a} : ~admin'[b].alone /\ admin'[b].at = admin[b].at
  BY DEF Changed, CopyInv, Types, AdminStates
<1>3. AloneIsAlone'
  <2> SUFFICES ASSUME NEW c \in Admins, admin'[c].alone, NEW b \in Admins \ {c}
               PROVE  admin'[b].at = "idle"
    BY DEF AloneIsAlone, OthersIdle, Idle
  <2>1. c = a
    BY <1>2
  <2>2. OthersIdle(a)
    BY <1>1, <2>1
  <2> QED BY <1>2, <2>1, <2>2 DEF OthersIdle, Idle
<1>4. AloneReadCurrent'
  <2> SUFFICES ASSUME NEW c \in Admins, admin'[c].at = "install", admin'[c].alone
               PROVE  FALSE
    BY DEF AloneReadCurrent
  <2> QED BY <1>1, <1>2
<1>5. SettledIdle' /\ SettledCopyCurrent'
  BY DEF Changed, SettledIdle, SettledCopyCurrent
<1> QED BY <1>3, <1>4, <1>5

LEMMA NextCopy ==
  ASSUME CopyInv, [Next]_vars
  PROVE  CopyInv'
<1> DEFINE Goal == AloneIsAlone' /\ AloneReadCurrent' /\ SettledIdle' /\ SettledCopyCurrent'
<1>1. ASSUME NEW a \in Admins, Add(a) \/ Update(a) \/ Remove(a) PROVE Goal
  BY <1>1, ChangedCopy DEF Add, Update, Remove
<1>2. ASSUME NEW a \in Admins, ReadTable(a) PROVE Goal
  <2>1. admin'[a].at = "install" /\ admin'[a].snapshot = table
    BY <1>2 DEF ReadTable, CopyInv, Types, AdminStates
  <2>2. \A b \in Admins : admin'[b].alone = admin[b].alone /\ (b # a => admin'[b] = admin[b])
    BY <1>2 DEF ReadTable, CopyInv, Types, AdminStates
  <2>3. ~settled
    BY <1>2 DEF ReadTable, CopyInv, SettledIdle, Idle
  <2>4. AloneIsAlone'
    BY <1>2, <2>2 DEF AloneIsAlone, OthersIdle, Idle, ReadTable, CopyInv
  <2>5. AloneReadCurrent'
    BY <1>2, <2>1, <2>2 DEF AloneReadCurrent, ReadTable, CopyInv
  <2> QED BY <1>2, <2>3, <2>4, <2>5 DEF ReadTable, SettledIdle, SettledCopyCurrent
<1>3. ASSUME NEW a \in Admins, ReadBroken(a) PROVE Goal
  <2>1. ~admin'[a].whole
    BY <1>3 DEF ReadBroken, CopyInv, Types, AdminStates
  <2>2. \A b \in Admins : admin'[b].alone = admin[b].alone /\ (b # a => admin'[b] = admin[b])
    BY <1>3 DEF ReadBroken, CopyInv, Types, AdminStates
  <2>3. ~settled
    BY <1>3 DEF ReadBroken, CopyInv, SettledIdle, Idle
  <2>4. AloneIsAlone'
    BY <1>3, <2>2 DEF AloneIsAlone, OthersIdle, Idle, ReadBroken, CopyInv
  <2>5. AloneReadCurrent'
    BY <1>3, <2>1, <2>2 DEF AloneReadCurrent, ReadBroken, CopyInv
  <2> QED BY <1>3, <2>3, <2>4, <2>5 DEF ReadBroken, SettledIdle, SettledCopyCurrent
<1>4. ASSUME NEW a \in Admins, Install(a) PROVE Goal
  <2>1. admin'[a] = IdleAdmin /\ \A b \in Admins \ {a} : admin'[b] = admin[b]
    BY <1>4 DEF Install, CopyInv, Types
  <2>2. AloneIsAlone'
    BY <2>1 DEF AloneIsAlone, OthersIdle, Idle, IdleAdmin, CopyInv
  <2>3. AloneReadCurrent'
    BY <1>4, <2>1 DEF AloneReadCurrent, IdleAdmin, Install, CopyInv
  <2>4. ASSUME settled' PROVE OthersIdle(a) /\ admin[a].snapshot = table
    BY <1>4, <2>4 DEF Install, CopyInv, AloneIsAlone, AloneReadCurrent
  <2>5. SettledIdle'
    BY <2>1, <2>4 DEF SettledIdle, OthersIdle, Idle, IdleAdmin
  <2>6. SettledCopyCurrent'
    BY <1>4, <2>4 DEF SettledCopyCurrent, Install
  <2> QED BY <2>2, <2>3, <2>5, <2>6
<1>5. ASSUME NEW a \in Admins, ReloadFails(a) PROVE Goal
  <2>1. admin'[a] = IdleAdmin /\ \A b \in Admins \ {a} : admin'[b] = admin[b]
    BY <1>5 DEF ReloadFails, CopyInv, Types
  <2>2. AloneIsAlone'
    BY <2>1 DEF AloneIsAlone, OthersIdle, Idle, IdleAdmin, CopyInv
  <2>3. AloneReadCurrent'
    BY <1>5, <2>1 DEF AloneReadCurrent, IdleAdmin, ReloadFails, CopyInv
  <2>4. ~settled
    BY <1>5 DEF ReloadFails, CopyInv, SettledIdle, Idle
  <2> QED BY <1>5, <2>2, <2>3, <2>4 DEF ReloadFails, SettledIdle, SettledCopyCurrent
<1>6. ASSUME UNCHANGED vars PROVE Goal
  BY <1>6 DEF vars, CopyInv, AloneIsAlone, AloneReadCurrent, SettledIdle,
              SettledCopyCurrent, OthersIdle, Idle
<1>7. Goal
  BY <1>1, <1>2, <1>3, <1>4, <1>5, <1>6 DEF Next
<1>8. (Types /\ UnusedIds /\ MapsOfList)'
  BY NextTypes DEF CopyInv
<1> QED BY <1>7, <1>8 DEF CopyInv

(***************************************************************************)
(* After a change nobody disturbed, whose Reload read the whole table, the *)
(* copy visitors are checked against is the table until the next change.   *)
(***************************************************************************)
THEOREM CopyCurrent == Spec => []SettledCopyCurrent
<1>1. Init => CopyInv
  BY InitCopy
<1>2. CopyInv /\ [Next]_vars => CopyInv'
  BY NextCopy
<1>3. CopyInv => SettledCopyCurrent
  BY DEF CopyInv
<1> QED BY <1>1, <1>2, <1>3, PTL DEF Spec
-----------------------------------------------------------------------------
(***************************************************************************)
(* Oldest and Newest pick a member of any nonempty set of ids: the order   *)
(* on numbers is well founded.                                             *)
(***************************************************************************)
LEMMA LeastNumber ==
  ASSUME NEW S \in SUBSET Nat, S # {}
  PROVE  \E i \in S : \A j \in S : i <= j
<1>1. PICK i \in S : \A j \in S : ~ (<<j, i>> \in OpToRel(<, Nat))
  BY NatLessThanWellFounded, WFMin
<1>2. \A j \in S : ~ (j < i)
  BY <1>1 DEF OpToRel
<1> QED BY <1>2

LEMMA OldestMember ==
  ASSUME NEW S \in SUBSET Nat, S # {}
  PROVE  Oldest(S) \in S
  BY LeastNumber DEF Oldest

LEMMA NewestMember ==
  ASSUME NEW S \in SUBSET BanIds, S # {}
  PROVE  Newest(S) \in S
<1> DEFINE Mirror == {MaxBans - i : i \in S}
<1>1. Mirror \in SUBSET Nat /\ Mirror # {}
  <2>1. \A i \in S : i \in Int /\ i <= MaxBans
    BY BansAssumption DEF BanIds
  <2>2. \A i \in S : MaxBans - i \in Nat
    BY <2>1, BansAssumption
  <2> QED BY <2>2
<1>2. PICK m \in Mirror : \A k \in Mirror : m <= k
  BY <1>1, LeastNumber
<1>3. PICK i \in S : m = MaxBans - i
  BY <1>2
<1>4. \A j \in S : i >= j
  <2> SUFFICES ASSUME NEW j \in S PROVE i >= j
    OBVIOUS
  <2>1. MaxBans - i <= MaxBans - j
    BY <1>2, <1>3
  <2> QED BY <2>1, BansAssumption DEF BanIds
<1> QED BY <1>4 DEF Newest

(***************************************************************************)
(* The bans of a table that cover an address are those kept for it by      *)
(* address, those of its subnets and, for a loopback address, those of any *)
(* loopback address.                                                       *)
(***************************************************************************)
SubnetBans(t, h) == {i \in Present(t) : t[i].form = "cidr" /\ h \in t[i].ip}

LEMMA PresentBan ==
  ASSUME NEW t \in Tables, NEW i \in Present(t)
  PROVE  t[i] \in Bans /\ i \in BanIds
  BY DEF Tables, Present

LEMMA CoverSplit ==
  ASSUME NEW t \in Tables, NEW h \in Hosts, NEW i \in Present(t)
  PROVE  /\ i \in AddressBans(t, h) => Covers(t, i, h)
         /\ i \in SubnetBans(t, h) => Covers(t, i, h)
         /\ h \in Loopback /\ i \in LoopbackBans(t) => Covers(t, i, h)
         /\ Covers(t, i, h) =>
              \/ i \in AddressBans(t, h)
              \/ i \in SubnetBans(t, h)
              \/ h \in Loopback /\ i \in LoopbackBans(t)
<1>1. t[i].form = "host" => \E g \in Hosts : t[i].ip = {g}
  BY PresentBan, BansAssumption
<1>2. ASSUME t[i].form = "host", h \in t[i].ip, h \in Loopback PROVE t[i].ip \subseteq Loopback
  BY <1>1, <1>2
<1> QED BY <1>2 DEF AddressBans, SubnetBans, LoopbackBans, Covers

(***************************************************************************)
(* What the maps of a table hold for an address.                           *)
(***************************************************************************)
LEMMA MapsHold ==
  ASSUME NEW t \in Tables, NEW h \in Hosts
  PROVE  /\ Maps(t).byIP[h] = Oldest(AddressBans(t, h))
         /\ {i \in Maps(t).cidrs : h \in Maps(t).list[i].ip} = SubnetBans(t, h)
         /\ SubnetOf(Maps(t), h) = Newest(SubnetBans(t, h))
         /\ Maps(t).hasLoopback <=> LoopbackBans(t) # {}
  BY DEF Maps, SubnetOf, SubnetBans

LEMMA PickedBan ==
  ASSUME NEW t \in Tables, NEW h \in Hosts
  PROVE  /\ IF AddressBans(t, h) = {} THEN Oldest(AddressBans(t, h)) = 0
            ELSE Oldest(AddressBans(t, h)) \in AddressBans(t, h) /\ Oldest(AddressBans(t, h)) # 0
         /\ IF SubnetBans(t, h) = {} THEN Newest(SubnetBans(t, h)) = 0
            ELSE Newest(SubnetBans(t, h)) \in SubnetBans(t, h) /\ Newest(SubnetBans(t, h)) # 0
<1>1. 0 \notin BanIds /\ BanIds \subseteq Nat
  BY BansAssumption DEF BanIds
<1>2. AddressBans(t, h) \in SUBSET BanIds /\ SubnetBans(t, h) \in SUBSET BanIds
  BY DEF AddressBans, SubnetBans, LoopbackBans, Present
<1>3. AddressBans(t, h) # {} => Oldest(AddressBans(t, h)) \in AddressBans(t, h)
  BY <1>1, <1>2, OldestMember
<1>4. SubnetBans(t, h) # {} => Newest(SubnetBans(t, h)) \in SubnetBans(t, h)
  BY <1>2, NewestMember
<1> QED BY <1>1, <1>2, <1>3, <1>4 DEF Oldest, Newest

(***************************************************************************)
(* Once some loopback address is banned, the ban kept under the canonical  *)
(* ones is a ban of a loopback address.                                    *)
(***************************************************************************)
LEMMA CanonicalMember ==
  ASSUME NEW t \in Tables, LoopbackBans(t) # {}
  PROVE  CanonicalBan(Maps(t)) \in LoopbackBans(t) /\ CanonicalBan(Maps(t)) # 0
<1>1. \A h \in Canonical : AddressBans(t, h) = LoopbackBans(t)
  BY HostsAssumption DEF AddressBans
<1>2. \A h \in Canonical : Maps(t).byIP[h] = Oldest(LoopbackBans(t))
  BY <1>1, MapsHold, HostsAssumption
<1>3. {Maps(t).byIP[h] : h \in Canonical} = {Oldest(LoopbackBans(t))}
  BY <1>2, HostsAssumption
<1>4. LoopbackBans(t) \in SUBSET BanIds
  BY DEF LoopbackBans, Present
<1>5. BanIds \subseteq Nat /\ 0 \notin BanIds
  BY BansAssumption DEF BanIds
<1>6. Oldest(LoopbackBans(t)) \in LoopbackBans(t)
  BY <1>4, <1>5, OldestMember
<1>7. Oldest({Oldest(LoopbackBans(t))}) \in {Oldest(LoopbackBans(t))}
  BY <1>4, <1>5, <1>6, OldestMember
<1> QED BY <1>3, <1>4, <1>5, <1>6, <1>7 DEF CanonicalBan

(***************************************************************************)
(* The lookups agree over the maps of any table.                           *)
(***************************************************************************)
LEMMA LookupsOverMaps ==
  ASSUME NEW t \in Tables, NEW h \in Hosts
  PROVE  /\ IsIPBanned(Maps(t), h) <=> Covered(t, h)
         /\ \A i \in {BannedIp(Maps(t), h), BanReasonOfIP(Maps(t), h),
                      CheckFields(Maps(t), NoUid, h)} :
              IF Covered(t, h) THEN i \in Present(t) /\ Covers(t, i, h) ELSE i = 0
<1> DEFINE c == Maps(t)
           byAddress == AddressBans(t, h) # {}
           bySubnet == SubnetBans(t, h) # {}
           byLoopback == h \in Loopback /\ LoopbackBans(t) # {}
<1>1. Covered(t, h) <=> byAddress \/ bySubnet \/ byLoopback
  BY CoverSplit DEF Covered, AddressBans, SubnetBans, LoopbackBans
<1>2. byAddress => c.byIP[h] # 0 /\ c.byIP[h] \in Present(t) /\ Covers(t, c.byIP[h], h)
  <2> DEFINE i == Oldest(AddressBans(t, h))
  <2>1. c.byIP[h] = i
    BY MapsHold
  <2>2. byAddress => i \in AddressBans(t, h) /\ i # 0
    BY PickedBan
  <2>3. AddressBans(t, h) \subseteq Present(t)
    BY DEF AddressBans, LoopbackBans
  <2> HIDE DEF i
  <2> QED BY <2>1, <2>2, <2>3, CoverSplit
<1>3. ~byAddress => c.byIP[h] = 0
  BY MapsHold, PickedBan
<1>4. bySubnet => SubnetOf(c, h) # 0 /\ SubnetOf(c, h) \in Present(t)
                    /\ Covers(t, SubnetOf(c, h), h)
  <2> DEFINE i == Newest(SubnetBans(t, h))
  <2>1. SubnetOf(c, h) = i
    BY MapsHold
  <2>2. bySubnet => i \in SubnetBans(t, h) /\ i # 0
    BY PickedBan
  <2>3. SubnetBans(t, h) \subseteq Present(t)
    BY DEF SubnetBans
  <2> HIDE DEF i
  <2> QED BY <2>1, <2>2, <2>3, CoverSplit
<1>5. ~bySubnet => SubnetOf(c, h) = 0
  BY MapsHold, PickedBan
<1>6. c.hasLoopback <=> LoopbackBans(t) # {}
  BY MapsHold
<1>7. byLoopback => CanonicalBan(c) # 0 /\ CanonicalBan(c) \in Present(t)
                      /\ Covers(t, CanonicalBan(c), h)
  BY CanonicalMember, CoverSplit DEF LoopbackBans
<1>8. IsIPBanned(c, h) <=> byAddress \/ bySubnet \/ byLoopback
  BY <1>2, <1>3, <1>6, MapsHold DEF IsIPBanned
<1>9. ASSUME NEW i \in {BannedIp(c, h), BanReasonOfIP(c, h), CheckFields(c, NoUid, h)}
      PROVE  IF Covered(t, h) THEN i \in Present(t) /\ Covers(t, i, h) ELSE i = 0
  <2> HIDE DEF c
  <2>1. CASE i = BannedIp(c, h)
    BY <2>1, <1>1, <1>2, <1>3, <1>4, <1>5, <1>6, <1>7 DEF BannedIp
  <2>2. CASE i = BanReasonOfIP(c, h)
    BY <2>2, <1>1, <1>2, <1>3, <1>4, <1>5, <1>6, <1>7 DEF BanReasonOfIP
  <2>3. CASE i = CheckFields(c, NoUid, h)
    BY <2>3, <1>1, <1>2, <1>3, <1>4, <1>5, <1>6, <1>7, <1>8 DEF BanReasonOfIP, CheckFields
  <2> QED BY <1>9, <2>1, <2>2, <2>3
<1> QED BY <1>1, <1>8, <1>9

(***************************************************************************)
(* In every state, the gate of IPBanCheck and the three other lookups give *)
(* one answer for every address, that of the list installed.               *)
(***************************************************************************)
THEOREM LookupsAgreeAlways == Spec => []LookupsAgree
<1>1. Init => CopyInv
  BY InitCopy
<1>2. CopyInv /\ [Next]_vars => CopyInv'
  BY NextCopy
<1>3. CopyInv => LookupsAgree
  <2> SUFFICES ASSUME CopyInv PROVE LookupsAgree
    OBVIOUS
  <2> DEFINE t == cache.list
  <2>1. t \in Tables /\ cache = Maps(t)
    BY DEF CopyInv, Types, MapsOfList
  <2>2. \A h \in Hosts :
          /\ IsIPBanned(Maps(t), h) <=> Covered(t, h)
          /\ \A i \in {BannedIp(Maps(t), h), BanReasonOfIP(Maps(t), h),
                       CheckFields(Maps(t), NoUid, h)} :
               IF Covered(t, h) THEN i \in Present(t) /\ Covers(t, i, h) ELSE i = 0
    BY <2>1, LookupsOverMaps
  <2>3. \A h \in Hosts :
          /\ IsIPBanned(cache, h) <=> Covered(t, h)
          /\ \A i \in {BannedIp(cache, h), BanReasonOfIP(cache, h), CheckFields(cache, NoUid, h)} :
               IF Covered(t, h) THEN i \in Present(t) /\ Covers(t, i, h) ELSE i = 0
    BY <2>1, <2>2, Zenon
  <2> QED BY <2>3 DEF LookupsAgree
<1> QED BY <1>1, <1>2, <1>3, PTL DEF Spec
=============================================================================
