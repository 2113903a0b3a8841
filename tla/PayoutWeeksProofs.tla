--------------------------- MODULE PayoutWeeksProofs ---------------------------
(***************************************************************************)
(* Proofs about PayoutWeeks, for any number of goroutines, weeks, rows,    *)
(* restarts and failed statements, and any of the zones of the server.     *)
(***************************************************************************)
EXTENDS PayoutWeeks, FiniteSetTheorems, TLAPS, WellFoundedInduction

(***************************************************************************)
(* The first of a set of rows is one of them.                              *)
(***************************************************************************)
LEMMA FirstMember ==
  ASSUME NEW S \in SUBSET Nat, S # {}
  PROVE  FirstOf(S) \in S
<1>1. PICK i \in S : \A j \in S : ~ (<<j, i>> \in OpToRel(<, Nat))
  BY NatLessThanWellFounded, WFMin
<1>2. \A j \in S : ~ (j < i)
  BY <1>1 DEF OpToRel
<1>3. \A j \in S : i <= j
  BY <1>2
<1> QED BY <1>3 DEF FirstOf

(***************************************************************************)
(* What a goroutine remembers stays true while others go on: the Monday it *)
(* computed is not ahead of the present one, the row it found exists, and  *)
(* the rows it is about to close exist and are over.                       *)
(***************************************************************************)
Over(i) == i \in RowIds /\ Elapsed(rows[i].opens)

LocalsFit(s) ==
  /\ s.at \in {"find", "flip", "insert", "findLast", "insertLast"} => s.week <= Monday(now)
  /\ s.at = "flip" => s.row \in RowIds
  /\ s.at \in {"update", "tell"} => s.due # {} /\ \A i \in s.due : Over(i)

RowsPast == \A i \in RowIds : rows[i].opens <= Monday(now)

WeeksInv == TypeOK /\ RowsPast /\ \A p \in Procs : LocalsFit(proc[p])

-----------------------------------------------------------------------------
(***************************************************************************)
(* A statement ends in a state the goroutine may be in.                    *)
(***************************************************************************)
Good(s) == s \in ProcState /\ LocalsFit(s)

LEMMA IdleGood == Good(Idle)
  BY BoundAssumption DEF Good, Idle, ProcState, LocalsFit

Jobs == {"call", "page", "tick", "tickAgain", "close"}

LEMMA StartedGood ==
  ASSUME NEW job \in Jobs, NEW ok \in BOOLEAN
  PROVE  /\ Good([Idle EXCEPT !.at = "select", !.job = job])
         /\ Good([Idle EXCEPT !.at = "due", !.job = job, !.ok = ok])
  BY IdleGood DEF Good, ProcState, LocalsFit, Jobs

LEMMA ReturnedGood ==
  ASSUME NEW s \in ProcState, NEW ok \in BOOLEAN
  PROVE  Good(Returned(s, ok))
  BY IdleGood, BoundAssumption DEF Good, Returned, Idle, ProcState, LocalsFit

LEMMA ClosedGood ==
  ASSUME NEW s \in ProcState
  PROVE  Good(Closed(s))
<1>1. s.ok \in BOOLEAN
  BY DEF ProcState
<1> QED BY <1>1, IdleGood, ReturnedGood DEF Closed

(***************************************************************************)
(* The clock, and the row ids, as numbers.                                 *)
(***************************************************************************)
LEMMA Numbers ==
  ASSUME TypeOK
  PROVE  /\ Monday(now) \in 0..MaxWeek
         /\ RowIds \subseteq 1..MaxRows
         /\ \A i \in RowIds : rows[i] \in WeekRow
<1>1. now \in 0..(4 * MaxWeek + 3) /\ MaxWeek \in Nat /\ MaxRows \in Nat
  BY BoundAssumption DEF TypeOK
<1>2. Monday(now) \in 0..MaxWeek
  BY <1>1 DEF Monday
<1>3. Len(rows) \in Nat /\ Len(rows) <= MaxRows /\ RowIds = 1..Len(rows)
  BY DEF TypeOK, RowIds
<1>4. RowIds \subseteq 1..MaxRows
  BY <1>1, <1>3
<1>5. \A i \in RowIds : rows[i] \in WeekRow
  BY <1>3 DEF TypeOK
<1> QED BY <1>2, <1>4, <1>5

(***************************************************************************)
(* A step that keeps rows and clock, and takes one goroutine to a state it *)
(* may be in, keeps the invariant.                                         *)
(***************************************************************************)
LEMMA StateInv ==
  ASSUME WeeksInv, NEW p \in Procs, NEW s, Good(s), Continue(p, s),
         UNCHANGED <<now, rows, crashes>>, failures' \in 0..MaxFaults
  PROVE  WeeksInv'
<1>1. TypeOK' /\ RowsPast'
  BY DEF WeeksInv, TypeOK, RowsPast, RowIds, Good, Continue
<1>2. \A q \in Procs : LocalsFit(proc'[q])
  BY DEF WeeksInv, TypeOK, Good, Continue
<1>3. \A q \in Procs : LocalsFit(proc[q])'
  BY <1>2 DEF LocalsFit, Over, Elapsed, RowIds
<1> QED BY <1>1, <1>3 DEF WeeksInv

LEMMA MoveInv ==
  ASSUME WeeksInv, NEW p \in Procs, NEW s, Good(s), Continue(p, s),
         UNCHANGED <<now, rows, crashes, failures>>
  PROVE  WeeksInv'
<1>1. failures' \in 0..MaxFaults
  BY DEF WeeksInv, TypeOK
<1> QED BY <1>1, StateInv

(***************************************************************************)
(* The same when rows are changed or added, but keep their Mondays.        *)
(***************************************************************************)
RowsKept ==
  /\ rows' \in Seq(WeekRow) /\ Len(rows') <= MaxRows
  /\ RowIds \subseteq RowIds'
  /\ \A i \in RowIds : rows'[i].opens = rows[i].opens
  /\ \A i \in RowIds' \ RowIds : rows'[i].opens <= Monday(now)

LEMMA RowsInv ==
  ASSUME WeeksInv, NEW p \in Procs, NEW s, Good(s), Continue(p, s), RowsKept,
         UNCHANGED <<now, crashes, failures>>
  PROVE  WeeksInv'
<1>1. TypeOK'
  BY DEF WeeksInv, TypeOK, RowsKept, Good, Continue
<1>2. RowsPast'
  BY DEF WeeksInv, RowsPast, RowsKept, Monday
<1>3. \A q \in Procs : LocalsFit(proc'[q])
  BY DEF WeeksInv, TypeOK, Good, Continue
<1>4. \A i : Over(i) => Over(i)'
  BY DEF RowsKept, Over, Elapsed, ClosesAt
<1>5. ASSUME NEW q \in Procs PROVE LocalsFit(proc[q])'
  BY <1>3, <1>4 DEF LocalsFit, RowsKept, Monday
<1> QED BY <1>1, <1>2, <1>5 DEF WeeksInv

LEMMA ChangedRow ==
  ASSUME WeeksInv, NEW i \in RowIds, NEW row \in WeekRow, row.opens = rows[i].opens,
         rows' = [rows EXCEPT ![i] = row]
  PROVE  RowsKept
<1>1. rows' \in Seq(WeekRow) /\ Len(rows') = Len(rows)
  BY DEF WeeksInv, TypeOK, RowIds
<1>2. RowIds' = RowIds
  BY DEF WeeksInv, TypeOK, RowIds
<1>3. \A j \in RowIds : rows'[j].opens = rows[j].opens
  BY DEF WeeksInv, TypeOK, RowIds
<1> QED BY <1>1, <1>2, <1>3 DEF RowsKept, WeeksInv, TypeOK

LEMMA AddedRow ==
  ASSUME WeeksInv, NEW row \in WeekRow, row.opens <= Monday(now), Len(rows) < MaxRows,
         rows' = Append(rows, row)
  PROVE  RowsKept
<1>1. rows \in Seq(WeekRow) /\ Len(rows) \in Nat /\ MaxRows \in Nat
  BY BoundAssumption DEF WeeksInv, TypeOK
<1>2. rows' \in Seq(WeekRow) /\ Len(rows') = Len(rows) + 1
  BY <1>1
<1>3. RowIds = 1..Len(rows) /\ RowIds' = 1..(Len(rows) + 1)
  BY <1>1, <1>2 DEF RowIds
<1>4. \A i \in RowIds : rows'[i] = rows[i]
  BY <1>1, <1>3
<1>5. \A i \in RowIds' \ RowIds : rows'[i] = row
  BY <1>1, <1>3
<1> QED BY <1>1, <1>2, <1>3, <1>4, <1>5 DEF RowsKept

-----------------------------------------------------------------------------
(***************************************************************************)
(* The statements of EnsureCurrentWeek.                                    *)
(***************************************************************************)
LEMMA EnsureInv ==
  ASSUME WeeksInv, NEW p \in Procs,
         SelectCurrent(p) \/ ComputeWindow(p) \/ FindWeek(p) \/ FlipCurrent(p) \/ InsertWeek(p)
  PROVE  WeeksInv'
<1> proc[p] \in ProcState /\ LocalsFit(proc[p]) /\ TypeOK
  BY DEF WeeksInv, TypeOK
<1>1. CASE SelectCurrent(p)
  <2>1. Good([proc[p] EXCEPT !.at = "window"])
    BY DEF Good, ProcState, LocalsFit
  <2> QED BY <1>1, <2>1, ReturnedGood, MoveInv DEF SelectCurrent, Go
<1>2. CASE ComputeWindow(p)
  <2>1. Good([proc[p] EXCEPT !.at = "find", !.week = Monday(now)])
    <3>1. ASSUME NEW week \in 0..MaxWeek, week <= Monday(now)
          PROVE  Good([proc[p] EXCEPT !.at = "find", !.week = week])
      BY <3>1 DEF Good, ProcState, LocalsFit
    <3>2. Monday(now) \in 0..MaxWeek /\ Monday(now) <= Monday(now)
      BY Numbers, BoundAssumption
    <3> QED BY <3>1, <3>2
  <2>2. Good([proc[p] EXCEPT !.at = "due", !.ok = FALSE])
    BY DEF Good, ProcState, LocalsFit
  <2>3. PICK s : Good(s) /\ Continue(p, s)
    BY <1>2, <2>1, <2>2 DEF ComputeWindow
  <2> QED BY <1>2, <2>3, MoveInv DEF ComputeWindow, Go
<1>3. CASE FindWeek(p)
  <2> DEFINE found == RowsOf(proc[p].week)
  <2>1. found \subseteq RowIds /\ RowIds \subseteq 1..MaxRows
    BY Numbers DEF RowsOf
  <2>2. proc[p].week <= Monday(now)
    BY <1>3 DEF FindWeek, Go, LocalsFit
  <2>3. Good([proc[p] EXCEPT !.at = "insert"])
    BY <2>2 DEF Good, ProcState, LocalsFit
  <2>4. found # {} => FirstOf(found) \in RowIds
    <3>1. found \in SUBSET Nat
      <4>1. 1..MaxRows \subseteq Nat
        BY BoundAssumption
      <4> QED BY <2>1, <4>1
    <3> QED BY <2>1, <3>1, FirstMember
  <2>5. ASSUME NEW i \in RowIds
        PROVE  Good([proc[p] EXCEPT !.at = "flip", !.row = i])
    <3>1. i \in 0..MaxRows
      BY <2>1, BoundAssumption
    <3> QED BY <2>2, <3>1 DEF Good, ProcState, LocalsFit
  <2>6. CASE found = {}
    BY <1>3, <2>3, <2>6, MoveInv DEF FindWeek, Go
  <2>7. CASE found # {}
    BY <1>3, <2>4, <2>5, <2>7, ReturnedGood, MoveInv DEF FindWeek, Go
  <2> QED BY <2>6, <2>7
<1>4. CASE FlipCurrent(p)
  <2> DEFINE i == proc[p].row
             row == [rows[i] EXCEPT !.current = TRUE, !.owed = TRUE]
  <2>1. i \in RowIds
    BY <1>4 DEF FlipCurrent, Go, LocalsFit
  <2>2. rows[i] \in WeekRow
    BY <2>1, Numbers
  <2>3. row \in WeekRow /\ row.opens = rows[i].opens
    BY <2>2 DEF WeekRow
  <2>4. rows' = [rows EXCEPT ![i] = row]
    BY <1>4, <2>1, <2>2 DEF FlipCurrent, WeekRow, TypeOK, RowIds
  <2>5. RowsKept
    BY <2>1, <2>3, <2>4, ChangedRow
  <2>6. Good(Returned(proc[p], TRUE))
    BY ReturnedGood
  <2> QED BY <1>4, <2>5, <2>6, RowsInv DEF FlipCurrent, Go
<1>5. CASE InsertWeek(p)
  <2>1. NewRow(proc[p].week, TRUE) \in WeekRow /\ NewRow(proc[p].week, TRUE).opens <= Monday(now)
    BY <1>5 DEF InsertWeek, Go, LocalsFit, NewRow, WeekRow, ProcState
  <2>2. RowsKept
    BY <1>5, <2>1, AddedRow DEF InsertWeek
  <2>3. Good([Idle EXCEPT !.at = "due", !.job = proc[p].job, !.ok = TRUE])
    BY StartedGood DEF Jobs, ProcState
  <2> QED BY <1>5, <2>2, <2>3, RowsInv DEF InsertWeek, Go
<1> QED BY <1>1, <1>2, <1>3, <1>4, <1>5

(***************************************************************************)
(* Those of CloseDue, which works from all due rows or from some of them.  *)
(***************************************************************************)
LEMMA ListedGood ==
  ASSUME WeeksInv, NEW p \in Procs, NEW list \in SUBSET DueRows
  PROVE  Good(Listed(proc[p], list))
<1>1. proc[p] \in ProcState /\ LocalsFit(proc[p]) /\ TypeOK
  BY DEF WeeksInv, TypeOK
<1>2. list \in SUBSET (1..MaxRows) /\ \A j \in list : Over(j)
  BY <1>1, Numbers DEF DueRows, Over
<1>3. list # {} => Good([proc[p] EXCEPT !.at = "update", !.due = list])
  BY <1>1, <1>2 DEF Good, ProcState, LocalsFit
<1> QED BY <1>1, <1>3, ClosedGood DEF Listed

LEMMA CloseInv ==
  ASSUME WeeksInv, NEW p \in Procs, SelectDue(p) \/ CloseRow(p) \/ TellOwners(p)
  PROVE  WeeksInv'
<1> DEFINE i == FirstOf(proc[p].due)
           rest == proc[p].due \ {i}
<1>0. proc[p] \in ProcState /\ LocalsFit(proc[p]) /\ TypeOK
  BY DEF WeeksInv, TypeOK
<1>1. CASE SelectDue(p)
  BY <1>1, ListedGood, MoveInv DEF SelectDue, Go
<1>2. ASSUME proc[p].at \in {"update", "tell"}
      PROVE  /\ i \in proc[p].due /\ i \in RowIds /\ Over(i) /\ rows[i] \in WeekRow
             /\ \A j \in proc[p].due : Over(j)
  <2>1. proc[p].due \in SUBSET Nat /\ proc[p].due # {} /\ \A j \in proc[p].due : Over(j)
    BY <1>0, <1>2, BoundAssumption DEF ProcState, LocalsFit
  <2>2. i \in proc[p].due
    BY <2>1, FirstMember
  <2> QED BY <1>0, <2>1, <2>2, Numbers DEF Over
<1>3. CASE CloseRow(p)
  <2> DEFINE row == [rows[i] EXCEPT !.current = FALSE]
  <2>1. i \in RowIds /\ rows[i] \in WeekRow /\ proc[p].at = "update"
    BY <1>2, <1>3 DEF CloseRow, Go
  <2>2. row \in WeekRow /\ row.opens = rows[i].opens
    BY <2>1 DEF WeekRow
  <2>3. rows' = [rows EXCEPT ![i] = row]
    BY <1>0, <1>3, <2>1 DEF CloseRow, WeekRow, TypeOK, RowIds
  <2>4. RowsKept
    BY <2>1, <2>2, <2>3, ChangedRow
  <2>5. Good([proc[p] EXCEPT !.at = "tell"])
    BY <1>0, <1>2, <2>1 DEF Good, ProcState, LocalsFit
  <2> QED BY <1>3, <2>4, <2>5, RowsInv DEF CloseRow, Go
<1>4. CASE TellOwners(p)
  <2> DEFINE row == [rows[i] EXCEPT !.owed = FALSE]
  <2>1. i \in RowIds /\ rows[i] \in WeekRow /\ proc[p].at = "tell"
    BY <1>2, <1>4 DEF TellOwners, Go
  <2>2. row \in WeekRow /\ row.opens = rows[i].opens
    BY <2>1 DEF WeekRow
  <2>3. rows' = [rows EXCEPT ![i] = row]
    BY <1>0, <1>4, <2>1 DEF TellOwners, WeekRow, TypeOK, RowIds
  <2>4. RowsKept
    BY <2>1, <2>2, <2>3, ChangedRow
  <2>5. rest # {} => Good([proc[p] EXCEPT !.at = "update", !.due = rest])
    <3>1. ASSUME NEW D \in SUBSET proc[p].due, D # {}
          PROVE  Good([proc[p] EXCEPT !.at = "update", !.due = D])
      BY <1>0, <1>2, <2>1, <3>1 DEF Good, ProcState, LocalsFit
    <3> QED BY <3>1
  <2>6. PICK s : Good(s) /\ Continue(p, s)
    BY <1>0, <1>4, <2>5, ClosedGood DEF TellOwners, Listed
  <2> QED BY <1>4, <2>4, <2>6, RowsInv DEF TellOwners, Go
<1> QED BY <1>1, <1>3, <1>4

(***************************************************************************)
(* Those of GetOrCreateWeek.                                               *)
(***************************************************************************)
LEMMA LatestInv ==
  ASSUME WeeksInv, NEW p \in Procs, LatestRow(p) \/ FindLastMonday(p) \/ InsertLastMonday(p)
  PROVE  WeeksInv'
<1>0. proc[p] \in ProcState /\ LocalsFit(proc[p]) /\ TypeOK
  BY DEF WeeksInv, TypeOK
<1>1. CASE LatestRow(p)
  <2>1. Good([Idle EXCEPT !.at = "findLast", !.week = Monday(now)])
    <3>1. ASSUME NEW week \in 0..MaxWeek, week <= Monday(now)
          PROVE  Good([Idle EXCEPT !.at = "findLast", !.week = week])
      BY <3>1, IdleGood DEF Good, ProcState, LocalsFit
    <3>2. Monday(now) \in 0..MaxWeek /\ Monday(now) <= Monday(now)
      BY <1>0, Numbers, BoundAssumption
    <3> QED BY <3>1, <3>2
  <2>2. PICK s : Good(s) /\ Continue(p, s)
    BY <1>1, <2>1, IdleGood DEF LatestRow
  <2> QED BY <1>1, <2>2, MoveInv DEF LatestRow, Go
<1>2. CASE FindLastMonday(p)
  <2>1. Good([proc[p] EXCEPT !.at = "insertLast"])
    BY <1>0, <1>2 DEF FindLastMonday, Go, Good, ProcState, LocalsFit
  <2> QED BY <1>2, <2>1, IdleGood, MoveInv DEF FindLastMonday, Go
<1>3. CASE InsertLastMonday(p)
  <2>1. NewRow(proc[p].week, FALSE) \in WeekRow /\ NewRow(proc[p].week, FALSE).opens <= Monday(now)
    BY <1>0, <1>3 DEF InsertLastMonday, Go, LocalsFit, NewRow, WeekRow, ProcState
  <2>2. RowsKept
    BY <1>3, <2>1, AddedRow DEF InsertLastMonday
  <2> QED BY <1>3, <2>2, IdleGood, RowsInv DEF InsertLastMonday, Go
<1> QED BY <1>1, <1>2, <1>3

(***************************************************************************)
(* And those that fail.                                                    *)
(***************************************************************************)
LEMMA AfterFailureGood ==
  ASSUME WeeksInv, NEW p \in Procs, proc[p].at \in Failing
  PROVE  Good(AfterFailure(proc[p]))
<1> DEFINE s == proc[p]
<1>0. s \in ProcState /\ LocalsFit(s) /\ TypeOK
  BY DEF WeeksInv, TypeOK
<1>1. Good(Returned(s, TRUE)) /\ Good(Returned(s, FALSE)) /\ Good(Idle)
  BY <1>0, ReturnedGood, IdleGood
<1>2. Monday(now) \in 0..MaxWeek /\ Monday(now) <= Monday(now)
  BY <1>0, Numbers, BoundAssumption
<1>3. ASSUME NEW week \in 0..MaxWeek, week <= Monday(now)
      PROVE  Good([Idle EXCEPT !.at = "findLast", !.week = week])
  BY <1>3, IdleGood DEF Good, ProcState, LocalsFit
<1>4. /\ s.at = "select" => Good([s EXCEPT !.at = "window"])
      /\ s.at = "find" => Good([s EXCEPT !.at = "insert"])
      /\ s.at = "update" => Good([s EXCEPT !.at = "tell"])
      /\ s.at = "findLast" => Good([s EXCEPT !.at = "insertLast"])
  BY <1>0 DEF Good, ProcState, LocalsFit
<1>5. Good([Idle EXCEPT !.at = "findLast", !.week = Monday(now)])
  BY <1>2, <1>3
<1> HIDE DEF s
<1> QED BY <1>1, <1>4, <1>5 DEF AfterFailure, s

LEMMA FailureInv ==
  ASSUME WeeksInv, NEW p \in Procs, StatementFails(p)
  PROVE  WeeksInv'
<1>1. PICK s : Good(s) /\ Continue(p, s)
  BY AfterFailureGood, ListedGood DEF StatementFails
<1>2. failures' \in 0..MaxFaults
  BY BoundAssumption DEF StatementFails, WeeksInv, TypeOK
<1> QED BY <1>1, <1>2, StateInv DEF StatementFails

-----------------------------------------------------------------------------
(***************************************************************************)
(* The clock only goes on, so what is over stays over.                     *)
(***************************************************************************)
LEMMA AdvanceInv ==
  ASSUME WeeksInv, Advance
  PROVE  WeeksInv'
<1>1. now \in Nat /\ now' = now + 1 /\ now' \in 0..(4 * MaxWeek + 3)
  BY BoundAssumption DEF WeeksInv, TypeOK, Advance
<1>2. Monday(now) \in Nat /\ Monday(now)' \in Nat /\ Monday(now) <= Monday(now)'
  BY <1>1 DEF Monday
<1>3. TypeOK'
  BY <1>1 DEF WeeksInv, TypeOK, Advance
<1>4. \A i \in RowIds : rows[i].opens \in Nat
  BY Numbers, BoundAssumption DEF WeeksInv, WeekRow
<1>5. RowsPast'
  BY <1>2, <1>4 DEF WeeksInv, RowsPast, Advance, RowIds
<1>6. \A i : Over(i) => Over(i)'
  BY <1>1, <1>4, AheadAssumption DEF Over, Elapsed, ClosesAt, Advance, RowIds
<1>7. ASSUME NEW p \in Procs PROVE LocalsFit(proc[p])'
  <2>1. proc[p].week \in Nat /\ LocalsFit(proc[p]) /\ proc'[p] = proc[p] /\ RowIds' = RowIds
    BY BoundAssumption DEF WeeksInv, TypeOK, ProcState, Advance, RowIds
  <2> QED BY <1>2, <1>6, <2>1 DEF LocalsFit
<1> QED BY <1>3, <1>5, <1>7 DEF WeeksInv

LEMMA WeeksStep == WeeksInv /\ [Next]_vars => WeeksInv'
<1> SUFFICES ASSUME WeeksInv, [Next]_vars PROVE WeeksInv'
  OBVIOUS
<1>1. ASSUME NEW p \in Procs, Call(p) PROVE WeeksInv'
  <2>1. ASSUME NEW job \in {"call", "page"}
        PROVE  Good([Idle EXCEPT !.at = "select", !.job = job])
    BY StartedGood DEF Jobs
  <2> QED BY <1>1, <2>1, MoveInv DEF Call, Go
<1>2. ASSUME NEW p \in Procs, Statement(p) PROVE WeeksInv'
  BY <1>2, EnsureInv, CloseInv, LatestInv DEF Statement
<1>2a. ASSUME NEW p \in Procs, StatementFails(p) PROVE WeeksInv'
  BY <1>2a, FailureInv
<1>3. CASE Tick
  <2>1. Good([Idle EXCEPT !.at = "select", !.job = "tick"])
    BY StartedGood DEF Jobs
  <2> QED BY <1>3, <2>1, MoveInv DEF Tick, Go, Procs
<1>4. CASE Advance
  BY <1>4, AdvanceInv
<1>5. CASE Restart
  <2>1. TypeOK' /\ RowsPast'
    BY <1>5, IdleGood, BoundAssumption DEF Restart, WeeksInv, TypeOK, RowsPast, RowIds, Good
  <2>2. \A p \in Procs : LocalsFit(Idle)' /\ proc'[p] = Idle
    BY <1>5 DEF Restart, LocalsFit, Idle
  <2>3. \A p \in Procs : LocalsFit(proc[p])'
    BY <2>2 DEF LocalsFit
  <2> QED BY <2>1, <2>3 DEF WeeksInv
<1>6. CASE UNCHANGED vars
  BY <1>6 DEF vars, WeeksInv, TypeOK, RowsPast, RowIds, LocalsFit, Over, Elapsed
<1> QED BY <1>1, <1>2, <1>2a, <1>3, <1>4, <1>5, <1>6 DEF Next

LEMMA WeeksInit == Init => WeeksInv
<1> SUFFICES ASSUME Init PROVE WeeksInv
  OBVIOUS
<1>1. now \in 0..(4 * MaxWeek + 3) /\ crashes \in 0..MaxFaults /\ failures \in 0..MaxFaults
  BY BoundAssumption DEF Init
<1>2. rows \in Seq(WeekRow) /\ Len(rows) <= MaxRows /\ RowIds = {}
  BY BoundAssumption DEF Init, RowIds
<1>3. \A p \in Procs : proc[p] = Idle
  BY DEF Init
<1>4. proc \in [Procs -> ProcState] /\ \A p \in Procs : LocalsFit(proc[p])
  BY <1>3, IdleGood DEF Init, Good
<1> QED BY <1>1, <1>2, <1>4 DEF WeeksInv, TypeOK, RowsPast

-----------------------------------------------------------------------------
(***************************************************************************)
(* Every variable keeps its type.                                          *)
(***************************************************************************)
THEOREM WeeksTypeCorrect == Spec => []TypeOK
<1>1. WeeksInv => TypeOK
  BY DEF WeeksInv
<1> QED BY WeeksInit, WeeksStep, <1>1, PTL DEF Spec

(***************************************************************************)
(* Only the present Monday accepts payouts: no row is ahead of the clock,  *)
(* and one that is behind has closed.                                      *)
(***************************************************************************)
THEOREM OneMondayAlways == Spec => []OneAcceptingMonday
<1>1. ASSUME WeeksInv PROVE OneAcceptingMonday
  <2> SUFFICES ASSUME NEW i \in RowIds, Accepting(i) PROVE rows[i].opens = Monday(now)
    BY DEF OneAcceptingMonday
  <2>1. now \in Nat /\ rows[i].opens \in Nat
    <3>1. TypeOK /\ rows[i] \in WeekRow
      BY <1>1, Numbers DEF WeeksInv
    <3> QED BY <3>1, BoundAssumption DEF TypeOK, WeekRow
  <2>2. rows[i].opens <= now \div 4 /\ 4 * rows[i].opens + 2 > now + Ahead
    BY <1>1, <2>1, AheadAssumption
    DEF WeeksInv, RowsPast, Monday, Accepting, Elapsed, ClosesAt
  <2> QED BY <2>1, <2>2, AheadAssumption DEF Monday
<1> QED BY WeeksInit, WeeksStep, <1>1, PTL DEF Spec

(***************************************************************************)
(* No row is closed before its end by the server's clock, however old the  *)
(* list is the closing goroutine works from.                               *)
(***************************************************************************)
THEOREM NeverClosedEarly == Spec => NoEarlyClose
<1>1. ASSUME WeeksInv, [Next]_vars,
             NEW i \in RowIds, rows[i].current, ~rows'[i].current
      PROVE  Elapsed(rows[i].opens)
  <2>0. TypeOK
    BY <1>1 DEF WeeksInv
  <2>1. ASSUME NEW p \in Procs, CloseRow(p) PROVE Elapsed(rows[i].opens)
    <3> DEFINE j == FirstOf(proc[p].due)
    <3>1. proc[p].due \in SUBSET Nat /\ proc[p].due # {} /\ \A k \in proc[p].due : Over(k)
      BY <1>1, <2>1, BoundAssumption DEF WeeksInv, TypeOK, ProcState, LocalsFit, CloseRow, Go
    <3>2. j \in proc[p].due /\ Over(j)
      BY <3>1, FirstMember
    <3>3. i = j
      BY <1>1, <2>0, <2>1 DEF CloseRow, TypeOK, RowIds
    <3> QED BY <3>2, <3>3 DEF Over
  <2>2. ASSUME NEW p \in Procs, FlipCurrent(p) PROVE FALSE
    BY <1>1, <2>0, <2>2, Numbers DEF FlipCurrent, TypeOK, RowIds, WeekRow
  <2>3. ASSUME NEW p \in Procs, TellOwners(p) PROVE FALSE
    BY <1>1, <2>0, <2>3, Numbers DEF TellOwners, TypeOK, RowIds, WeekRow
  <2>4. ASSUME NEW p \in Procs, InsertWeek(p) \/ InsertLastMonday(p) PROVE FALSE
    <3>1. Len(rows) \in Nat /\ RowIds = 1..Len(rows)
      BY <2>0 DEF TypeOK, RowIds
    <3>2. PICK row \in WeekRow : rows' = Append(rows, row)
      <4>1. proc[p] \in ProcState
        BY <2>0 DEF TypeOK
      <4> QED BY <2>4, <4>1 DEF InsertWeek, InsertLastMonday, NewRow, WeekRow, ProcState
    <3>3. rows'[i] = rows[i]
      BY <2>0, <3>1, <3>2 DEF TypeOK
    <3> QED BY <1>1, <3>3
  <2>5. CASE UNCHANGED rows
    BY <1>1, <2>5
  <2>6. \/ UNCHANGED rows
        \/ \E p \in Procs : \/ CloseRow(p) \/ FlipCurrent(p) \/ TellOwners(p)
                            \/ InsertWeek(p) \/ InsertLastMonday(p)
    BY <1>1 DEF Next, vars, Call, Tick, Advance, Restart, Statement, StatementFails, SelectCurrent,
       ComputeWindow, FindWeek, SelectDue, LatestRow, FindLastMonday
  <2> QED BY <2>1, <2>2, <2>3, <2>4, <2>5, <2>6
<1>2. ASSUME WeeksInv, [Next]_vars
      PROVE  \A i \in RowIds : rows[i].current /\ ~rows'[i].current
                                 => Elapsed(rows[i].opens)
  BY <1>1, <1>2
<1> QED BY WeeksInit, WeeksStep, <1>2, PTL DEF Spec, NoEarlyClose

(***************************************************************************)
(* Where the server's wall clock is not ahead of WEEK_TZ, that is never    *)
(* before Monday 23:00 of WEEK_TZ.                                         *)
(***************************************************************************)
THEOREM NeverClosedInWindow ==
  ASSUME Ahead <= 0
  PROVE  Spec => ClosedAfterWindow
<1>1. ASSUME TypeOK, NEW i \in RowIds, Elapsed(rows[i].opens)
      PROVE  ClosesAt(rows[i].opens) <= now
  <2>1. now \in Nat /\ rows[i].opens \in Nat
    BY <1>1, Numbers, BoundAssumption DEF TypeOK, WeekRow
  <2> QED BY <1>1, <2>1, AheadAssumption DEF Elapsed, ClosesAt
<1>2. ASSUME TypeOK,
             \A i \in RowIds : rows[i].current /\ ~rows'[i].current => Elapsed(rows[i].opens)
      PROVE  \A i \in RowIds : rows[i].current /\ ~rows'[i].current
                                 => ClosesAt(rows[i].opens) <= now
  BY <1>1, <1>2
<1> QED BY WeeksTypeCorrect, NeverClosedEarly, <1>2, PTL DEF NoEarlyClose, ClosedAfterWindow

-----------------------------------------------------------------------------
(***************************************************************************)
(* RowsBounded.  A goroutine about to insert a row for a Monday counts     *)
(* like one: once the Monday has a row, nobody comes to that point any     *)
(* more but by a failed lookup, so the two together are never more than    *)
(* the goroutines and the failures.                                        *)
(***************************************************************************)
Quiet(s) == s.at \notin {"insert", "insertLast"}

Inserting(w) == {p \in Procs : ~Quiet(proc[p]) /\ proc[p].week = w}

SlotsInv ==
  \A w \in 0..MaxWeek :
    Cardinality(RowsOf(w)) + Cardinality(Inserting(w)) <= Cardinality(Procs) + failures

(***************************************************************************)
(* Failures are only added.                                                *)
(***************************************************************************)
Count == failures \in Nat /\ failures' \in Nat /\ failures <= failures'

LEMMA ProcsFinite == IsFiniteSet(Procs) /\ Cardinality(Procs) \in Nat
  BY CallersAssumption, FS_AddElement, FS_CardinalityType DEF Procs

LEMMA SubsetOfProcs ==
  ASSUME NEW S \in SUBSET Procs
  PROVE  IsFiniteSet(S) /\ Cardinality(S) \in Nat /\ Cardinality(S) <= Cardinality(Procs)
  BY ProcsFinite, FS_Subset, FS_CardinalityType

LEMMA RowsFinite ==
  ASSUME TypeOK, NEW w
  PROVE  IsFiniteSet(RowsOf(w)) /\ Cardinality(RowsOf(w)) \in Nat
<1>1. RowsOf(w) \subseteq 1..MaxRows
  BY Numbers DEF RowsOf
<1>2. IsFiniteSet(1..MaxRows)
  <2>1. 1 \in Int /\ MaxRows \in Int
    BY BoundAssumption
  <2> QED BY <2>1, FS_Interval
<1> QED BY <1>1, <1>2, FS_Subset, FS_CardinalityType

LEMMA ReturnedQuiet ==
  ASSUME NEW s \in ProcState
  PROVE  Quiet(Idle) /\ Quiet(Closed(s)) /\ \A ok \in BOOLEAN : Quiet(Returned(s, ok))
<1>1. \A ok \in BOOLEAN : Quiet(Returned(s, ok))
  BY DEF Quiet, Returned, Idle
<1>2. s.ok \in BOOLEAN
  BY DEF ProcState
<1> QED BY <1>1, <1>2 DEF Quiet, Closed, Idle

LEMMA MovedQuiet ==
  ASSUME NEW s \in ProcState, NEW x, NEW y
  PROVE  /\ Quiet([s EXCEPT !.at = "window"]) /\ Quiet([s EXCEPT !.at = "tell"])
         /\ Quiet([s EXCEPT !.at = "find", !.week = x])
         /\ Quiet([s EXCEPT !.at = "flip", !.row = x])
         /\ Quiet([s EXCEPT !.at = "due", !.ok = x])
         /\ Quiet([s EXCEPT !.at = "update", !.due = x])
         /\ Quiet([Idle EXCEPT !.at = "select", !.job = x])
         /\ Quiet([Idle EXCEPT !.at = "due", !.job = x, !.ok = y])
         /\ Quiet([Idle EXCEPT !.at = "findLast", !.week = x])
  BY DEF Quiet, Idle, ProcState

(***************************************************************************)
(* The bound is kept when no row is added and nobody comes to insert,      *)
(***************************************************************************)
LEMMA FewerInsert ==
  ASSUME TypeOK, SlotsInv, Count, NEW w \in 0..MaxWeek,
         RowsOf(w)' = RowsOf(w), Inserting(w)' \subseteq Inserting(w)
  PROVE  Cardinality(RowsOf(w)') + Cardinality(Inserting(w)') <= Cardinality(Procs) + failures'
<1> DEFINE f == Cardinality(RowsOf(w))
           p == Cardinality(Inserting(w))
           p1 == Cardinality(Inserting(w)')
           n == Cardinality(Procs)
           e == failures
           e1 == failures'
<1>1. f \in Nat /\ n \in Nat /\ e \in Nat /\ e1 \in Nat /\ e <= e1
  BY RowsFinite, ProcsFinite DEF Count
<1>2. IsFiniteSet(Inserting(w)) /\ p \in Nat
  BY SubsetOfProcs DEF Inserting
<1>3. p1 \in Nat /\ p1 <= p
  BY <1>2, FS_Subset, FS_CardinalityType
<1>4. f + p <= n + e
  BY DEF SlotsInv
<1> HIDE DEF f, p, p1, n, e, e1
<1>5. f + p1 <= n + e1
  BY <1>1, <1>2, <1>3, <1>4
<1> QED BY <1>5 DEF f, p1, n, e1

(***************************************************************************)
(* when there is no row for the Monday yet,                                *)
(***************************************************************************)
LEMMA FirstInsert ==
  ASSUME Count, NEW w, RowsOf(w)' = {}
  PROVE  Cardinality(RowsOf(w)') + Cardinality(Inserting(w)') <= Cardinality(Procs) + failures'
<1>1. Inserting(w)' \subseteq Procs
  BY DEF Inserting
<1>2. Cardinality(RowsOf(w)') = 0
  BY FS_EmptySet
<1>3. Cardinality(Inserting(w)') \in Nat /\ Cardinality(Inserting(w)') <= Cardinality(Procs)
  BY <1>1, SubsetOfProcs
<1>4. Cardinality(Procs) \in Nat /\ failures' \in Nat
  BY ProcsFinite DEF Count
<1> QED BY <1>2, <1>3, <1>4

(***************************************************************************)
(* when an inserting goroutine becomes a row,                              *)
(***************************************************************************)
LEMMA InsertCounts ==
  ASSUME TypeOK, SlotsInv, Count, NEW w \in 0..MaxWeek,
         NEW i, RowsOf(w)' \subseteq RowsOf(w) \cup {i},
         NEW q \in Inserting(w), Inserting(w)' \subseteq Inserting(w) \ {q}
  PROVE  Cardinality(RowsOf(w)') + Cardinality(Inserting(w)') <= Cardinality(Procs) + failures'
<1> DEFINE f == Cardinality(RowsOf(w))
           f1 == Cardinality(RowsOf(w)')
           p == Cardinality(Inserting(w))
           p1 == Cardinality(Inserting(w)')
           n == Cardinality(Procs)
           e == failures
           e1 == failures'
<1>1. IsFiniteSet(RowsOf(w)) /\ f \in Nat /\ n \in Nat
      /\ e \in Nat /\ e1 \in Nat /\ e <= e1
  BY RowsFinite, ProcsFinite DEF Count
<1>2. IsFiniteSet(Inserting(w)) /\ p \in Nat
  BY SubsetOfProcs DEF Inserting
<1>3. f1 \in Nat /\ f1 <= f + 1
  <2> DEFINE u == Cardinality(RowsOf(w) \cup {i})
  <2>1. IsFiniteSet(RowsOf(w) \cup {i}) /\ u \in {f, f + 1}
    BY <1>1, FS_AddElement
  <2>2. f1 <= u
    BY <2>1, FS_Subset
  <2>3. f1 \in Nat
    BY <2>1, FS_Subset, FS_CardinalityType
  <2> HIDE DEF f, f1, u
  <2> QED BY <2>1, <2>2, <2>3, <1>1
<1>4. p1 \in Nat /\ p1 <= p - 1
  <2>1. IsFiniteSet(Inserting(w) \ {q}) /\ Cardinality(Inserting(w) \ {q}) = p - 1
    BY <1>2, FS_RemoveElement
  <2> QED BY <2>1, FS_Subset, FS_CardinalityType
<1>5. f + p <= n + e
  BY DEF SlotsInv
<1> HIDE DEF f, f1, p, p1, n, e, e1
<1>6. f1 + p1 <= n + e1
  BY <1>1, <1>2, <1>3, <1>4, <1>5
<1> QED BY <1>6 DEF f1, p1, n, e1

(***************************************************************************)
(* and when one comes to insert by a failure.                              *)
(***************************************************************************)
LEMMA FailureInserts ==
  ASSUME TypeOK, SlotsInv, Count, failures' = failures + 1, NEW w \in 0..MaxWeek,
         RowsOf(w)' = RowsOf(w), NEW q, Inserting(w)' \subseteq Inserting(w) \cup {q}
  PROVE  Cardinality(RowsOf(w)') + Cardinality(Inserting(w)') <= Cardinality(Procs) + failures'
<1> DEFINE f == Cardinality(RowsOf(w))
           p == Cardinality(Inserting(w))
           p1 == Cardinality(Inserting(w)')
           u == Cardinality(Inserting(w) \cup {q})
           n == Cardinality(Procs)
<1>1. f \in Nat /\ n \in Nat /\ failures \in Nat
  BY RowsFinite, ProcsFinite DEF Count
<1>2. IsFiniteSet(Inserting(w)) /\ p \in Nat
  BY SubsetOfProcs DEF Inserting
<1>3. IsFiniteSet(Inserting(w) \cup {q}) /\ u \in {p, p + 1}
  BY <1>2, FS_AddElement
<1>4. p1 \in Nat /\ p1 <= u
  BY <1>3, FS_Subset, FS_CardinalityType
<1>5. f + p <= n + failures
  BY DEF SlotsInv
<1> HIDE DEF f, p, p1, u, n
<1>6. f + p1 <= n + failures'
  BY <1>1, <1>2, <1>3, <1>4, <1>5
<1> QED BY <1>6 DEF f, p1, n

-----------------------------------------------------------------------------
(***************************************************************************)
(* The three kinds of steps a goroutine takes.                             *)
(***************************************************************************)
OpensKept == RowIds' = RowIds /\ \A i \in RowIds : rows'[i].opens = rows[i].opens

LEMMA OthersMove ==
  ASSUME TypeOK, NEW p \in Procs, NEW s, Continue(p, s)
  PROVE  proc'[p] = s /\ \A q \in Procs \ {p} : proc'[q] = proc[q]
  BY DEF TypeOK, Continue

LEMMA SettleStep ==
  ASSUME TypeOK, SlotsInv, Count, NEW p \in Procs, NEW s, Continue(p, s), Quiet(s), OpensKept
  PROVE  SlotsInv'
<1>1. ASSUME NEW w \in 0..MaxWeek
      PROVE  RowsOf(w)' = RowsOf(w) /\ Inserting(w)' \subseteq Inserting(w)
  BY OthersMove DEF OpensKept, RowsOf, Inserting, Quiet
<1> QED BY <1>1, FewerInsert DEF SlotsInv

LEMMA ClaimStep ==
  ASSUME TypeOK, SlotsInv, Count, NEW p \in Procs, NEW s, Continue(p, s),
         s.week = proc[p].week, RowsOf(s.week) = {}, rows' = rows
  PROVE  SlotsInv'
<1>1. \A w : RowsOf(w)' = RowsOf(w)
  BY DEF RowsOf, RowIds
<1>2. ASSUME NEW w, w # s.week
      PROVE  Inserting(w)' \subseteq Inserting(w)
  BY <1>2, OthersMove DEF Inserting, Quiet
<1> QED BY <1>1, <1>2, FewerInsert, FirstInsert DEF SlotsInv

LEMMA FileStep ==
  ASSUME TypeOK, SlotsInv, Count, NEW p \in Procs, ~Quiet(proc[p]), NEW s, Continue(p, s), Quiet(s),
         NEW current, rows' = Append(rows, NewRow(proc[p].week, current))
  PROVE  SlotsInv'
<1> DEFINE i == Len(rows) + 1
<1>1. RowIds = 1..Len(rows) /\ Len(rows) \in Nat /\ RowIds' = RowIds \cup {i}
  BY DEF TypeOK, RowIds
<1>2. rows'[i].opens = proc[p].week /\ \A j \in RowIds : rows'[j] = rows[j]
  BY <1>1 DEF TypeOK, NewRow
<1> HIDE DEF i
<1>3. \A w : RowsOf(w)' \subseteq RowsOf(w) \cup {i} /\ Inserting(w)' \subseteq Inserting(w) \ {p}
  BY <1>1, <1>2, OthersMove DEF RowsOf, Inserting, Quiet
<1>4. p \in Inserting(proc[p].week)
  BY DEF Inserting
<1>5. ASSUME NEW w, w # proc[p].week
      PROVE  RowsOf(w)' = RowsOf(w)
  BY <1>1, <1>2, <1>5 DEF RowsOf
<1>6. ASSUME NEW w \in 0..MaxWeek
      PROVE  Cardinality(RowsOf(w)') + Cardinality(Inserting(w)') <= Cardinality(Procs) + failures'
  <2>1. CASE w = proc[p].week
    BY <1>3, <1>4, <2>1, InsertCounts
  <2>2. CASE w # proc[p].week
    BY <1>3, <1>5, <2>2, FewerInsert
  <2> QED BY <2>1, <2>2
<1> QED BY <1>6 DEF SlotsInv

LEMMA SlotsStep ==
  ASSUME WeeksInv, SlotsInv, [Next]_vars
  PROVE  SlotsInv'
<1>0. TypeOK /\ Count
  <2>1. failures' = failures \/ failures' = failures + 1
    BY DEF Next, vars, Call, Tick, Advance, Restart, Statement, StatementFails, SelectCurrent,
       ComputeWindow, FindWeek, FlipCurrent, InsertWeek, SelectDue, CloseRow, TellOwners,
       LatestRow, FindLastMonday, InsertLastMonday, Go
  <2>2. failures \in Nat /\ TypeOK
    BY BoundAssumption DEF WeeksInv, TypeOK
  <2> QED BY <2>1, <2>2 DEF Count
<1>1. ASSUME NEW p \in Procs, NEW s, Continue(p, s), Quiet(s), UNCHANGED rows
      PROVE  SlotsInv'
  BY <1>0, <1>1, SettleStep DEF OpensKept, RowIds
<1>2. \A p \in Procs : proc[p] \in ProcState
  BY <1>0 DEF TypeOK
<1>3. ASSUME NEW p \in Procs,
             Call(p) \/ SelectCurrent(p) \/ ComputeWindow(p) \/ SelectDue(p) \/ LatestRow(p)
      PROVE  SlotsInv'
  <2>1. PICK s : Continue(p, s) /\ Quiet(s)
    <3>1. CASE Call(p)
      BY <1>2, <3>1, MovedQuiet DEF Call
    <3>2. CASE SelectCurrent(p)
      BY <1>2, <3>2, ReturnedQuiet, MovedQuiet DEF SelectCurrent
    <3>3. CASE ComputeWindow(p)
      BY <1>2, <3>3, MovedQuiet DEF ComputeWindow
    <3>4. CASE SelectDue(p)
      BY <1>2, <3>4, ReturnedQuiet, MovedQuiet DEF SelectDue, Listed
    <3>5. CASE LatestRow(p)
      BY <1>2, <3>5, ReturnedQuiet, MovedQuiet DEF LatestRow
    <3> QED BY <1>3, <3>1, <3>2, <3>3, <3>4, <3>5
  <2> QED BY <1>1, <1>3, <2>1 DEF Call, SelectCurrent, ComputeWindow, SelectDue, LatestRow
<1>4. ASSUME NEW p \in Procs, FindWeek(p) \/ FindLastMonday(p)
      PROVE  SlotsInv'
  <2>1. CASE RowsOf(proc[p].week) = {}
    <3>1. PICK at \in {"insert", "insertLast"} : Continue(p, [proc[p] EXCEPT !.at = at])
      BY <1>4, <2>1 DEF FindWeek, FindLastMonday
    <3>2. [proc[p] EXCEPT !.at = at].week = proc[p].week
      BY <1>2 DEF ProcState
    <3> QED BY <1>0, <1>4, <2>1, <3>1, <3>2, ClaimStep DEF FindWeek, FindLastMonday
  <2>2. CASE RowsOf(proc[p].week) # {}
    <3>1. PICK s : Continue(p, s) /\ Quiet(s)
      <4>1. CASE FindWeek(p)
        BY <1>2, <2>2, <4>1, ReturnedQuiet, MovedQuiet DEF FindWeek
      <4>2. CASE FindLastMonday(p)
        BY <1>2, <2>2, <4>2, ReturnedQuiet DEF FindLastMonday
      <4> QED BY <1>4, <4>1, <4>2
    <3> QED BY <1>1, <1>4, <3>1 DEF FindWeek, FindLastMonday
  <2> QED BY <2>1, <2>2
<1>5. ASSUME NEW p \in Procs, InsertWeek(p) \/ InsertLastMonday(p)
      PROVE  SlotsInv'
  <2>1. ~Quiet(proc[p])
    BY <1>5 DEF InsertWeek, InsertLastMonday, Go, Quiet
  <2>2. PICK s : Continue(p, s) /\ Quiet(s)
    BY <1>2, <1>5, ReturnedQuiet, MovedQuiet DEF InsertWeek, InsertLastMonday
  <2> QED BY <1>0, <1>5, <2>1, <2>2, FileStep DEF InsertWeek, InsertLastMonday
<1>6. ASSUME NEW p \in Procs, FlipCurrent(p) \/ CloseRow(p) \/ TellOwners(p)
      PROVE  SlotsInv'
  <2>1. PICK s : Continue(p, s) /\ Quiet(s)
    <3>1. CASE FlipCurrent(p)
      BY <1>2, <3>1, ReturnedQuiet DEF FlipCurrent
    <3>2. CASE CloseRow(p)
      BY <1>2, <3>2, MovedQuiet DEF CloseRow
    <3>3. CASE TellOwners(p)
      <4>1. Quiet([proc[p] EXCEPT !.at = "update",
                                  !.due = proc[p].due \ {FirstOf(proc[p].due)}])
        BY <1>2, MovedQuiet
      <4>2. Quiet(Closed(proc[p]))
        BY <1>2, ReturnedQuiet
      <4> QED BY <3>3, <4>1, <4>2 DEF TellOwners, Listed
    <3> QED BY <1>6, <3>1, <3>2, <3>3
  <2>2. OpensKept
    <3>1. \A i \in RowIds : rows[i] \in WeekRow
      BY <1>0, Numbers
    <3>2. CASE FlipCurrent(p)
      BY <1>0, <3>1, <3>2 DEF FlipCurrent, OpensKept, RowIds, WeekRow, TypeOK
    <3>3. CASE CloseRow(p)
      BY <1>0, <3>1, <3>3 DEF CloseRow, OpensKept, RowIds, WeekRow, TypeOK
    <3>4. CASE TellOwners(p)
      <4>1. PICK i : rows' = [rows EXCEPT ![i].owed = FALSE]
        BY <3>4 DEF TellOwners
      <4> QED BY <1>0, <3>1, <4>1 DEF OpensKept, RowIds, WeekRow, TypeOK
    <3> QED BY <1>6, <3>2, <3>3, <3>4
  <2> QED BY <1>0, <2>1, <2>2, SettleStep
<1>7. CASE Tick
  <2>1. Scheduler \in Procs
    BY DEF Procs
  <2>2. PICK s : Continue(Scheduler, s) /\ Quiet(s)
    BY <1>2, <1>7, <2>1, MovedQuiet DEF Tick
  <2> QED BY <1>1, <1>7, <2>1, <2>2 DEF Tick
<1>7a. ASSUME NEW p \in Procs, StatementFails(p)
       PROVE  SlotsInv'
  <2>1. PICK s : Continue(p, s)
    BY <1>7a DEF StatementFails
  <2>2. ASSUME NEW w \in 0..MaxWeek
        PROVE  RowsOf(w)' = RowsOf(w) /\ Inserting(w)' \subseteq Inserting(w) \cup {p}
    BY <1>0, <1>7a, <2>1, OthersMove DEF StatementFails, RowsOf, RowIds, Inserting
  <2>3. failures' = failures + 1
    BY <1>7a DEF StatementFails
  <2> QED BY <1>0, <2>2, <2>3, FailureInserts DEF SlotsInv
<1>8. CASE Restart \/ Advance \/ UNCHANGED vars
  <2>1. ASSUME NEW w \in 0..MaxWeek
        PROVE  RowsOf(w)' = RowsOf(w) /\ Inserting(w)' \subseteq Inserting(w)
    BY <1>8 DEF Restart, Advance, vars, RowsOf, RowIds, Inserting, Quiet, Idle
  <2> QED BY <1>0, <2>1, FewerInsert DEF SlotsInv
<1> QED BY <1>3, <1>4, <1>5, <1>6, <1>7, <1>7a, <1>8 DEF Next, Statement

(***************************************************************************)
(* A Monday never has more rows than there are goroutines and failed       *)
(* statements, however their lookups and insertions interleave, and        *)
(* whatever restarts.                                                      *)
(***************************************************************************)
THEOREM RowsAlwaysBounded == Spec => []RowsBounded
<1>1. ASSUME Init PROVE SlotsInv
  <2>1. ASSUME NEW w \in 0..MaxWeek
        PROVE  RowsOf(w) = {} /\ Inserting(w) = {}
    BY <1>1 DEF Init, RowsOf, RowIds, Inserting, Quiet, Idle
  <2>2. Cardinality({}) = 0 /\ Cardinality(Procs) \in Nat /\ failures = 0
    BY <1>1, FS_EmptySet, ProcsFinite DEF Init
  <2>3. 0 + 0 <= Cardinality(Procs) + failures
    BY <2>2
  <2> QED BY <2>1, <2>2, <2>3 DEF SlotsInv
<1>2. WeeksInv /\ SlotsInv /\ [Next]_vars => (WeeksInv /\ SlotsInv)'
  BY WeeksStep, SlotsStep
<1>3. ASSUME WeeksInv, SlotsInv PROVE RowsBounded
  <2> SUFFICES ASSUME NEW w \in 0..MaxWeek
               PROVE  Cardinality(RowsOf(w)) <= Cardinality(Procs) + failures
    BY DEF RowsBounded
  <2>1. /\ Cardinality(RowsOf(w)) \in Nat /\ Cardinality(Inserting(w)) \in Nat
        /\ Cardinality(Procs) \in Nat /\ failures \in Nat
    BY <1>3, RowsFinite, ProcsFinite, SubsetOfProcs, BoundAssumption
    DEF WeeksInv, TypeOK, Inserting
  <2>2. Cardinality(RowsOf(w)) + Cardinality(Inserting(w)) <= Cardinality(Procs) + failures
    BY <1>3 DEF SlotsInv
  <2> QED BY <2>1, <2>2
<1> QED BY WeeksInit, <1>1, <1>2, <1>3, PTL DEF Spec
=============================================================================
