----------------------------- MODULE PayoutWeeks -----------------------------
(***************************************************************************)
(* The weekly cycle of payouts: table v2_weeks, EnsureCurrentWeek,         *)
(* CloseDue and GetOrCreateWeek, called by request goroutines at any time  *)
(* and by the scheduler once a minute.  None of them is a transaction, so  *)
(* each statement is a step, and each may fail.                            *)
(*                                                                         *)
(* Time is cut where the code can tell the difference: slots 4n and 4n+1   *)
(* are the window of week n (Monday 00:00 to 23:00 in WEEK_TZ) in two      *)
(* parts, slots 4n+2 and 4n+3 the rest of that week.  The window is        *)
(* computed in WEEK_TZ, but its end is stored without a zone and compared  *)
(* with the wall clock of the server, which is Ahead slots in front: by 1, *)
(* the server sees the end in the middle of the window, by 2, from its     *)
(* beginning; by -1, it sees it later in the same week.                    *)
(***************************************************************************)
EXTENDS Integers, Sequences, FiniteSets

CONSTANTS
  Callers,    \* goroutines that ask for the current week
  Scheduler,  \* the goroutine of Run
  Ahead,      \* slots by which the server's wall clock is ahead of WEEK_TZ
  MaxWeek,    \* bound on time: the last week
  MaxRows,    \* bound on the number of week rows
  MaxFaults   \* bound on the number of restarts and failed statements together

ASSUME SchedulerAssumption == Scheduler \notin Callers
ASSUME CallersAssumption == IsFiniteSet(Callers)
ASSUME AheadAssumption == Ahead \in -1..2
ASSUME BoundAssumption == MaxWeek \in Nat /\ MaxRows \in Nat /\ MaxFaults \in Nat

VARIABLES
  now,      \* current slot
  rows,     \* v2_weeks in id order
  proc,     \* where each goroutine is, and its locals
  crashes,  \* number of restarts so far
  failures  \* history: how many statements failed

vars == <<now, rows, proc, crashes, failures>>

Procs == Callers \cup {Scheduler}

MutMonday(t) == (t + 1) \div 4

Monday(t) == t \div 4

ClosesAt(week) == 4 * week + 2

(***************************************************************************)
(* currentWindow: is the last Monday's window still open?                  *)
(***************************************************************************)
InWindow(t) == t < ClosesAt(Monday(t))

(***************************************************************************)
(* closes_at against time.Now(): the wall time of WEEK_TZ in the column,   *)
(* the wall time of the server in the query.                               *)
(***************************************************************************)
Elapsed(week) == ClosesAt(week) <= now + Ahead

(***************************************************************************)
(* "owed" is a history field: the week was made current, and its owners    *)
(* had no report (OnWeekClosed) since.                                     *)
(***************************************************************************)
WeekRow == [opens : 0..MaxWeek, current : BOOLEAN, owed : BOOLEAN]

NewRow(week, current) == [opens |-> week, current |-> current, owed |-> current]

RowIds == DOMAIN rows

MutAccepting(i) == rows[i].current

Accepting(i) == rows[i].current /\ ~Elapsed(rows[i].opens)

MutDueThisWeek ==
  {i \in RowIds : /\ rows[i].current /\ rows[i].opens = Monday(now)
                  /\ Elapsed(rows[i].opens)}

MutDueRows == {i \in RowIds : rows[i].current}

DueRows == {i \in RowIds : rows[i].current /\ Elapsed(rows[i].opens)}

(***************************************************************************)
(* A goroutine: at is its next statement, job what it does once            *)
(* EnsureCurrentWeek returns, ok the result EnsureCurrentWeek will return  *)
(* after CloseDue, week the Monday it computed, row the row it found, due  *)
(* the rows CloseDue still has to close.                                   *)
(***************************************************************************)
Idle == [at |-> "idle", job |-> "call", ok |-> FALSE, week |-> 0, row |-> 0, due |-> {}]

ProcState ==
  [at : {"idle", "select", "window", "find", "flip", "insert", "due", "update",
         "tell", "last", "findLast", "insertLast"},
   job : {"call", "page", "tick", "tickAgain", "close"},
   ok : BOOLEAN, week : 0..MaxWeek, row : 0..MaxRows, due : SUBSET (1..MaxRows)]

(***************************************************************************)
(* What follows EnsureCurrentWeek: a tick that found the window open runs  *)
(* it a second time and then always CloseDue; a page or a lot that got no  *)
(* week falls back to the latest row.                                      *)
(***************************************************************************)
Returned(p, ok) ==
  CASE p.job = "tick" /\ ok -> [Idle EXCEPT !.at = "select", !.job = "tickAgain"]
    [] p.job = "tick" /\ ~ok -> [Idle EXCEPT !.at = "due", !.job = "close"]
    [] p.job = "tickAgain" -> [Idle EXCEPT !.at = "due", !.job = "close"]
    [] p.job = "page" /\ ~ok -> [Idle EXCEPT !.at = "last"]
    [] OTHER -> Idle

Closed(p) == IF p.job = "close" THEN Idle ELSE Returned(p, p.ok)

Go(p, at) == /\ proc[p].at = at
             /\ UNCHANGED <<now, crashes, failures>>

Continue(p, state) == proc' = [proc EXCEPT ![p] = state]

Init ==
  /\ now \in 0..3
  /\ rows = <<>>
  /\ proc = [p \in Procs |-> Idle]
  /\ crashes = 0
  /\ failures = 0

Call(p) ==
  /\ Go(p, "idle") /\ p \in Callers
  /\ \E job \in {"call", "page"} : Continue(p, [Idle EXCEPT !.at = "select", !.job = job])
  /\ UNCHANGED rows

Tick ==
  /\ Go(Scheduler, "idle")
  /\ Continue(Scheduler, [Idle EXCEPT !.at = "select", !.job = "tick"])
  /\ UNCHANGED rows

SelectCurrent(p) ==
  /\ Go(p, "select")
  /\ Continue(p, IF \E i \in RowIds : Accepting(i) THEN Returned(proc[p], TRUE)
                 ELSE [proc[p] EXCEPT !.at = "window"])
  /\ UNCHANGED rows

ComputeWindow(p) ==
  /\ Go(p, "window")
  /\ Continue(p, IF InWindow(now)
                   THEN [proc[p] EXCEPT !.at = "find", !.week = Monday(now)]
                   ELSE [proc[p] EXCEPT !.at = "due", !.ok = FALSE])
  /\ UNCHANGED rows

RowsOf(week) == {i \in RowIds : rows[i].opens = week}

FirstOf(S) == CHOOSE i \in S : \A j \in S : i <= j

MutFindWeek(p) ==
  /\ Go(p, "find")
  /\ Continue(p, [proc[p] EXCEPT !.at = "insert"])
  /\ UNCHANGED rows

FindWeek(p) ==
  LET found == RowsOf(proc[p].week) IN
  /\ Go(p, "find")
  /\ Continue(p, IF found = {} THEN [proc[p] EXCEPT !.at = "insert"]
                 ELSE IF rows[FirstOf(found)].current THEN Returned(proc[p], TRUE)
                 ELSE [proc[p] EXCEPT !.at = "flip", !.row = FirstOf(found)])
  /\ UNCHANGED rows

FlipCurrent(p) ==
  /\ Go(p, "flip")
  /\ rows' = [rows EXCEPT ![proc[p].row].current = TRUE, ![proc[p].row].owed = TRUE]
  /\ Continue(p, Returned(proc[p], TRUE))

InsertWeek(p) ==
  /\ Go(p, "insert")
  /\ Len(rows) < MaxRows
  /\ rows' = Append(rows, NewRow(proc[p].week, TRUE))
  /\ Continue(p, [Idle EXCEPT !.at = "due", !.job = proc[p].job, !.ok = TRUE])

(***************************************************************************)
(* CloseDue.  The list is read once; each row is then updated (whatever    *)
(* others did to it meanwhile) and reported.                               *)
(***************************************************************************)
Listed(p, list) == IF list = {} THEN Closed(p) ELSE [p EXCEPT !.at = "update", !.due = list]

SelectDue(p) ==
  /\ Go(p, "due")
  /\ Continue(p, Listed(proc[p], DueRows))
  /\ UNCHANGED rows

CloseRow(p) ==
  LET i == FirstOf(proc[p].due) IN
  /\ Go(p, "update")
  /\ rows' = [rows EXCEPT ![i].current = FALSE]
  /\ Continue(p, [proc[p] EXCEPT !.at = "tell"])

MutTellOwners(p) ==
  LET i == FirstOf(proc[p].due) IN
  /\ Go(p, "tell")
  /\ IF p = Scheduler THEN rows' = [rows EXCEPT ![i].owed = FALSE] ELSE UNCHANGED rows
  /\ Continue(p, Listed(proc[p], proc[p].due \ {i}))

TellOwners(p) ==
  LET i == FirstOf(proc[p].due) IN
  /\ Go(p, "tell")
  /\ rows' = [rows EXCEPT ![i].owed = FALSE]
  /\ Continue(p, Listed(proc[p], proc[p].due \ {i}))

(***************************************************************************)
(* GetOrCreateWeek when no week is accepting: the latest row, or else the  *)
(* row of the last Monday, created with is_current = 0.                    *)
(***************************************************************************)
LatestRow(p) ==
  /\ Go(p, "last")
  /\ Continue(p, IF rows # <<>> THEN Idle
                 ELSE [Idle EXCEPT !.at = "findLast", !.week = Monday(now)])
  /\ UNCHANGED rows

FindLastMonday(p) ==
  /\ Go(p, "findLast")
  /\ Continue(p, IF RowsOf(proc[p].week) # {} THEN Idle
                 ELSE [proc[p] EXCEPT !.at = "insertLast"])
  /\ UNCHANGED rows

InsertLastMonday(p) ==
  /\ Go(p, "insertLast")
  /\ Len(rows) < MaxRows
  /\ rows' = Append(rows, NewRow(proc[p].week, FALSE))
  /\ Continue(p, Idle)

(***************************************************************************)
(* A statement that fails.  The errors of the lookups are taken for "no    *)
(* such row"; those of the UPDATEs are dropped, and the goroutine goes on  *)
(* as if they had been done; a list of due weeks may break off; after a    *)
(* failed INSERT there is no week.                                         *)
(***************************************************************************)
AfterFailure(p) ==
  CASE p.at = "select" -> [p EXCEPT !.at = "window"]
    [] p.at = "find" -> [p EXCEPT !.at = "insert"]
    [] p.at = "flip" -> Returned(p, TRUE)
    [] p.at = "insert" -> Returned(p, FALSE)
    [] p.at = "update" -> [p EXCEPT !.at = "tell"]
    [] p.at = "last" -> [Idle EXCEPT !.at = "findLast", !.week = Monday(now)]
    [] p.at = "findLast" -> [p EXCEPT !.at = "insertLast"]
    [] OTHER -> Idle

Failing == {"select", "find", "flip", "insert", "update", "last", "findLast", "insertLast"}

StatementFails(p) ==
  /\ crashes + failures < MaxFaults
  /\ \/ proc[p].at \in Failing /\ Continue(p, AfterFailure(proc[p]))
     \/ proc[p].at = "due" /\ \E list \in SUBSET DueRows : Continue(p, Listed(proc[p], list))
  /\ failures' = failures + 1
  /\ UNCHANGED <<now, rows, crashes>>

-----------------------------------------------------------------------------
Advance ==
  /\ now < 4 * MaxWeek + 3
  /\ now' = now + 1
  /\ UNCHANGED <<rows, proc, crashes, failures>>

Restart ==
  /\ crashes + failures < MaxFaults
  /\ crashes' = crashes + 1
  /\ proc' = [p \in Procs |-> Idle]
  /\ UNCHANGED <<now, rows, failures>>

Statement(p) ==
  \/ SelectCurrent(p) \/ ComputeWindow(p) \/ FindWeek(p) \/ FlipCurrent(p)
  \/ InsertWeek(p) \/ SelectDue(p) \/ CloseRow(p) \/ TellOwners(p)
  \/ LatestRow(p) \/ FindLastMonday(p) \/ InsertLastMonday(p)

Next ==
  \/ \E p \in Procs : Call(p) \/ Statement(p) \/ StatementFails(p)
  \/ Tick
  \/ Advance
  \/ Restart

Spec == Init /\ [][Next]_vars

(***************************************************************************)
(* Statements complete, the ticker of Run fires for as long as the process *)
(* lives, and time passes.                                                 *)
(***************************************************************************)
FairSpec ==
  /\ Spec
  /\ \A p \in Callers : WF_vars(Statement(p))
  /\ WF_vars(Tick \/ Statement(Scheduler))
  /\ WF_vars(Advance)

-----------------------------------------------------------------------------
(***************************************************************************)
(* Type invariant.                                                         *)
(***************************************************************************)
TypeOK ==
  /\ now \in 0..(4 * MaxWeek + 3)
  /\ rows \in Seq(WeekRow) /\ Len(rows) <= MaxRows
  /\ proc \in [Procs -> ProcState]
  /\ crashes \in 0..MaxFaults /\ failures \in 0..MaxFaults

(***************************************************************************)
(* No row is closed whose end the server's clock has not reached, although *)
(* CloseDue works from a list that was read earlier and other goroutines   *)
(* open and reopen weeks meanwhile (service.go, CloseDue).                 *)
(***************************************************************************)
NoEarlyClose ==
  [][\A i \in RowIds : rows[i].current /\ ~rows'[i].current => Elapsed(rows[i].opens)]_vars

(***************************************************************************)
(* The promise of Run (scheduler.go): a week is closed on Monday at 23:00  *)
(* of WEEK_TZ, never before.  It holds where the server's wall clock is    *)
(* not ahead of that zone's.                                               *)
(***************************************************************************)
ClosedAfterWindow ==
  [][\A i \in RowIds :
       rows[i].current /\ ~rows'[i].current => ClosesAt(rows[i].opens) <= now]_vars

(***************************************************************************)
(* All rows that accept payouts belong to one and the same Monday, the one *)
(* of the present, whatever goroutine opened them and when it had looked   *)
(* at the clock (service.go, EnsureCurrentWeek).                           *)
(***************************************************************************)
OneAcceptingMonday ==
  \A i \in RowIds : Accepting(i) => rows[i].opens = Monday(now)

(***************************************************************************)
(* EnsureCurrentWeek looks the week up and inserts it in two statements,   *)
(* and inserts it too when the lookup fails: a Monday may get several      *)
(* rows, but no more than there are goroutines and failed statements.      *)
(***************************************************************************)
RowsBounded ==
  \A w \in 0..MaxWeek : Cardinality(RowsOf(w)) <= Cardinality(Procs) + failures

(***************************************************************************)
(* Every week that was opened is closed in the end, even if the process    *)
(* was down when its window ended (scheduler.go, tick).                    *)
(***************************************************************************)
WeeksClose == <>[](\A i \in RowIds : ~rows[i].current)

(***************************************************************************)
(* While the process stays up, every week is reported to the owners after  *)
(* it was opened, whoever closes it.                                       *)
(***************************************************************************)
WeeksReported == <>[](crashes = 0 => \A i \in RowIds : ~rows[i].owed)

(***************************************************************************)
(* Each week is a row of v2_weeks (comment of Service, service.go): a      *)
(* Monday has at most one row.                                             *)
(***************************************************************************)
OneRowPerWeek == \A w \in 0..MaxWeek : Cardinality(RowsOf(w)) <= 1
=============================================================================
