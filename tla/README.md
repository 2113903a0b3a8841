# Verification of the Delta Client media portal

TLA+ models of the portal's request desk, weekly cycle, login, ban list,
applications, uploads and maintenance mode, and of the pages of the cabinet and
of the administrators; TLC configurations that check them on small instances;
and TLAPS proofs of every safety property those runs check, of two refinements
among them, for every instance.

Paths are relative to the repository: `src/internal/payouts/requests.go` is
written `payouts/requests.go`, and `src/web/static/js/cabinet.js` is
`cabinet.js`.

## 1. The system

One Go process serves HTTP (a goroutine per request), runs a scheduler
goroutine (one tick a minute) and a Telegram loop (one update at a time). All
lasting state is in SQL tables, reached through a pool of five connections;
apart from the pop of a key on SQLite no handler uses a transaction, so a
handler is a sequence of atomic statements and anything may happen between two
of them. In memory there are only the copy of the ban list, the counters of the
rate limiter and what goroutines hold in locals. A browser page talks to the
server with `fetch`, polls, and keeps a few values in `localStorage`.

| Component | State | Operations | Interacts with |
|---|---|---|---|
| Request intake (`payouts/requests.go`, `handlers/cabinet.go`) | `v2_requests` | `SubmitPayout`, `SubmitLot`, `SubmitGiveaway`, `HandlePaste`, all through `Create` | weeks (which week, is it open), desk |
| Payout desk (`handlers/admin_payouts.go`) | status, text and reference of a request | `DecidePayoutInternal`, `Service.Decide`, `tgNotifyPayout` | key pool, Telegram |
| Key pool (`database/subkeys.go`) | `v2_sub_keys` | `AddKeys`, `DeleteSubscriptionKey`, `PopKey` | desk |
| Payout weeks (`payouts/service.go`, `scheduler.go`) | `v2_weeks`, the clock | `EnsureCurrentWeek`, `CloseDue`, `GetOrCreateWeek`, `tick` | intake, owners' reports |
| Login and sessions (`auth/*`, `telegram/callbacks.go`, `users.go`) | `v2_login_attempts`, `v2_sessions`, `v2_accounts`, `v2_tg_users` | `Login`, `AttemptStatus`, `callback2FA`, `Session`, `Cleanup`, `mapUser` | Telegram, settings, roster |
| Bans (`bans/service.go`, `middleware/security.go`) | `v2_bans`, maps in memory | `Add`, `Update`, `Remove`, `Reload`, lookups | every request |
| Applications (`handlers/public.go`, `mod.go`, `cabinet.go`, `admin.go`) | `v2_media_apps`, `v2_hwid_requests`, `v2_discord_bans`, `v2_ideas_bugs` | submit, decide (site, Telegram) | Telegram verdicts |
| Cabinet page (`cabinet.js`, `auth.js`, `app.js`, `api.js`) | account shown, timers, fetches under way, `localStorage` | load, poll, ping, log out, reload | sessions, requests |
| Cabinet forms and uploads (`cabinet.js`, `uploads/uploads.go`) | tabs and body of the page, files picked, parts on the disk | tabs, pick, submit, `uploadFileChunked`, `ReceiveChunk` with its merge | applications, intake |
| Login dialog (`auth.js`) | dialog, interval, counters in `localStorage` | send a code, wait for its attempt, poll, close | login |
| Administrators' page (`admin.js`, `ui.js`) | category, body, week, dialog, log's timer | render, filter, decide, edit stock, bans and accounts | desk, applications, pool, bans, roster |
| Accounts roster (`handlers/admin_accounts.go`) | `v2_accounts` | `DeleteAccount`, `ToggleAccount` | administrators' page, login |
| Maintenance (`main.go`, `handlers/admin.go`, `public.go`; `app.js`, `public.js`, `auth.js`) | two settings; view, account, countdown of a page | `ToggleMaintenance`, the lapse of a period, `loadSiteConfig`, `updateMaintenanceView` | login, every view |
| Rate limiting, audit and statistics, crypto transfers, migrations, public application form, tools | | | not modelled, see section 7 |

What is hard: check-then-act on tables without transactions (limits, duplicates,
single attempt, single week); decisions raced by several administrators on the
site and in Telegram; a key taken from the stock before the decision that uses
it; a clock read before a statement that depends on it; a copy in memory built
outside the mutex; crashes that lose goroutines and keep tables; messages that
arrive late or never; handlers that go on after their client gave up; answers
that overtake each other in the browser and draw into whatever is shown by then.
`PROJECT.json` lists these hazards one by one, with the line where each bites
and the properties that cover it.

## 2. Modules

`EXTENDS` is the composition; a module that composes others shares their tables.

| Module | Models | Composes |
|---|---|---|
| `RequestTable` | `v2_requests` and the statements on it | |
| `KeyPool` | `v2_sub_keys`, stocking, deletion, `PopKey` | `RequestTable` |
| `Intake` | `Create` as read week / count / insert, for concurrent submitters | `RequestTable` |
| `Desk` | `DecidePayoutInternal` as read / pop / update / notify, for concurrent deciders | `KeyPool` |
| `PayoutDesk` | intake, desk, stock, weeks and crashes together | `Intake`, `Desk` |
| `RequestLedger` | abstract specification: submit once, issue a key once, decide once | |
| `PayoutWeeks` | the statements of the weekly cycle, the clock, restarts | |
| `LoginFlow` | codes, attempts, confirmation in Telegram, sessions | |
| `SignInLedger` | abstract specification: ask once, answer once, grant what was answered with yes | |
| `BanCache` | the ban table, `Reload`, the installed copy and its lookups | |
| `Applications` | media applications, HWID resets, Discord bans, ideas and bugs | |
| `CabinetPage` | one page of the cabinet in a browser | |
| `Uploads` | one file in chunks: client, handlers, parts, merge | |
| `CabinetForms` | the cabinet's tabs, forms and lists in one body, and their submissions | `Uploads` |
| `LoginDialog` | the login dialog of one page | |
| `AdminPage` | categories, tables, filter bars, weeks and the log's timer of one page | |
| `AdminDesk` | the decisions, windows, stock and accounts of that page, up to the database | |
| `Maintenance` | the settings with their writers, and one page that follows them | |
| `PayoutDeskProofs`, `PayoutWeeksProofs`, `LoginFlowProofs`, `BanCacheProofs`, `ApplicationsProofs`, `MaintenanceProofs` | theorems about the module of that name | |
| `CabinetProofs` | theorems about `CabinetPage` and `CabinetForms` | both |
| `AdminProofs` | theorems about `AdminPage` and `AdminDesk` | both |
| `MC*` | constants and symmetry for TLC | |

How state and actions correspond to the code:

* **A process is a record of where it is and its locals.** `sub`, `dec`,
  `proc`, `handler` and `admin` map a goroutine to the statement it runs next
  and to the values it read before. One action is one SQL statement with the
  code that runs without interruption around it, so every interleaving of the
  handlers' statements is explored. `Decide` in the payout desk is one action
  because it is one guarded `UPDATE`; `decideMedia` is two because it is a
  `SELECT` and an unguarded `UPDATE`.
* **Rows are records** with the fields the decisions look at. An id is a member
  of an unordered set (a serial id is only an identity) except in `BanCache`
  and `PayoutWeeks`, where the order of rows decides which one wins.
* **Texts are members of small sets.** The free text `want` of a request is the
  set of stems it contains, since that is all the decision tests. A typed reason
  may be empty, a text, or a code that is also in the stock.
* **Time is cut where the code compares it.** `PayoutWeeks` has four slots per
  week, two halves of the window and two of the rest, because there are two
  clocks: windows are computed in `WEEK_TZ`, but their ends are stored without a
  zone and compared with the server's wall time, which is `Ahead` slots in front
  (or behind). `LoginFlow` has fresh and stale attempts, and live, idle and
  expired sessions.
* **A page is what it shows and what it waits for.** A request of a script is a
  record from its start to its answer (`fetches`, `orders`, `lists`, `polls`,
  `loads`), and the answer's action does what the code after the `await` does, to
  the variables as they are by then. `AdminPage` and `AdminDesk` are two views of
  one script: what is drawn where, and what a press of a button comes to.
* **Errors are alternatives of the action**: an empty stock, a refused
  duplicate, a message Telegram does not deliver, a reload that fails or breaks
  off. So are failed statements, above all those whose error the code drops: a
  duplicate count that fails has counted none and the row is inserted
  (`Intake`, `Applications`), a lookup of a Monday that fails is followed by the
  insert (`PayoutWeeks`), older attempts that could not be put out stay beside the
  new one (`LoginFlow`), a setting is not written or read as empty
  (`Maintenance`). The bounds of section 3 count these failures.
* **History fields** record facts the properties speak of; no guard of the code
  depends on them. They are `auto` of a request; `miscounts` in the intake and the
  applications; `owed` of a week, `failures` and `crashes`; `by`, `said`, `via`,
  `codeOnly`, `crowd` and `missed` in the login; `alone`, `whole`, `settled` and
  `faulty` in the ban list; `writes` and `told` in the applications; `version` and
  `told` in the cabinet page; `mixed` in the administrators' page; `seen` and
  `excused` at their desk; `wrong` in the login dialog; and of a part, that it is
  torn `late`. `crashes` and the failures also bound how often a fault happens.

Abstractions the reader should know:

* `Applications` abstracts the recipient of a verdict to one Telegram handle;
  the code sends the verdict on a Discord ban or an idea to the first account
  with the nickname. `last_incoming_at`, which a rejection clears, is read
  nowhere and is left out. The second half of the duplicate check (same
  channel) is one more reason to refuse, chosen freely. The settings and the
  usernames the bot knows, which others change at any time, are answers chosen
  freely where they are read.
* `BanCache` gives a ban an address form and one other field that stands for
  channel, user id, Telegram and Discord. The reason shown is named by the ban it
  comes from.
* `LoginFlow` leaves out the developer branch that approves by itself, and the
  deletion of an account. The two-factor setting is an answer chosen freely at
  each login.
* `CabinetPage` has one account, of a role chosen at the start, and one page;
  the other tabs of the browser end and begin sessions, and poll. The account's
  sessions in the browser are one: none, or one the server accepts. The answer
  of a fetch other than a poll is one step with its arrival, because a session
  that has ended stays ended and nothing can tell the moments apart.
* `Uploads` keeps of a part which attempt has created it and not yet written it,
  and whether it is whole. A request is received in one step, and its part is
  created, which empties it, in a later one: the form is parsed and the chunk
  opened in between (`uploads.go:85-124`), and the client may have given up by
  then. A handler may fail at any step. The removal of a part is assumed to
  succeed.
* `CabinetForms` has one submission for each of `Submissions`, two kinds of
  form, with files and without, and one body. Picked files are only counted. A
  form that was replaced while its submission runs is `gone`; there is one such
  form at a time. The reset of `#payMethod`, which a form without files does by
  a global id, is left out.
* `LoginDialog` knows of the server only the state of the attempts, and folds the
  question for the browser's position into sending a code.
* `AdminPage` keeps of a drawn table whose it is, whose filter bar is above it,
  and the week of the payouts and of the summary. Only requests started by
  `renderAdminCategory` are caught when they fail; the others leave the body.
* `AdminDesk` knows a text by the item it was typed for. The server's side is the
  condition under which it accepts, the detailed handlers being in the desk,
  applications, pool and ban modules; deletion and switching of accounts are
  statement by statement. Account creation and new codes are left out.
* `Maintenance`: administrators, moderators, testers and the bypass address are
  all `staff`. The two settings are written in two steps and read in one, whose
  answer may also be what a failed read makes of them (`HealthMisreads`). One
  lapse of a period is under way at a time, since lapses all write the same. A
  login before the first configuration has loaded, and the path in the address
  bar, are left out.

## 3. Properties

**Payout desk.** `DecisionFinal`: a decided request keeps verdict and text.
`AutoKeyReserved`: a key popped for a request that was then approved with it
stays issued to that request. `KeyApprovalHasKey`: no approval that hands over a
key lacks one. `NoticeTruthful`: the applicant is told once at most, and what the
row says. `LedgerSpec`: the desk implements `RequestLedger` under the mapping
status -> verdict, the pool's holders -> holders, popped texts -> given keys.

**Intake.** `PendingBounded`: the limits can be exceeded by the submissions that
passed the check together and by one for each duplicate count that failed, and by
no more; with one submitter and no failure they are exact.

**Weeks.** `OneAcceptingMonday`, `RowsBounded`, `NoEarlyClose`: a goroutine that
looked at the clock, or at a list, long ago cannot open a past week for payouts,
multiply rows beyond the goroutines that raced and the statements that failed, or
close a week whose end the server's clock has not reached. That clock may differ
from `WEEK_TZ`; that no week closes inside its window (`ClosedAfterWindow`) is
proved where it is not ahead, and refuted where it is. `WeeksClose`,
`WeeksReported`: every opened week is closed in the end, also after a restart or a
failed statement; without a restart it is reported.

**Login.** `SessionsConfirmed`: a session that did not come from the code alone
belongs to the account of an attempt that the user it was sent to confirmed.
`LedgerSpec`: the login implements `SignInLedger`, where statuses and ages are
gone and only who asked, what was answered and what was granted are left.
`DecidedByLinkedUser`: who may decide, whatever is relinked meanwhile.
`ActiveBounded`: an account has no more pending attempts than logins that stood
together between putting out the older ones and inserting their own, and one for
each time that putting them out failed. `DecidedOnce`, that a decision is only
ever followed by an expiry, is proved and not run.

**Bans.** `LookupsAgree`: three lookups that walk the maps differently agree
with each other and with what the listed bans cover. `SettledCopyCurrent`: after
a change nobody else's overlapped, with a whole reload, the copy is the table.

**Applications.** `OverwritesBounded`: only overlapping decisions overwrite each
other. `NoticesMatchDecisions`: no more messages than decisions, and those of an
application decided once agree with the record. `PendingPerHandle`: as
`PendingBounded`, for the applications of one handle.

**Cabinet page.** `AnnouncedOnce`: no decision is announced twice, unless an
overtaken answer put the remembered statuses back. `SeenPendingAnnounced`: a
decision on a request that was seen pending is announced. `DeadSessionNoticed`:
a page whose session ended elsewhere finds out. `StrayWatchersStop`: the watcher
of a signed-out account stops, although `handleSessionExpired` leaves that of
media accounts running.

**Forms and uploads.** `FileWhole`: every path filed with a request names a file
merged from all its chunks, each complete, whatever was lost, sent again, or
worked on by two handlers at once, unless a handler that its client had given up
by then created a part again. That this happens is section 8's; without the
exception the property is `FileComplete`. `FormBoundOnce`: one press submits once,
although forms are bound after answers that come when another tab is open.
`SubmitEnds`: every submission ends, filed or with an error.

**Administrators' page.** `OnePoller`, `StrayPollerStops`: the log has one timer,
which its handle can stop, and a timer started after the log was left stops by
itself. `WeekSettles`: a summary is saved under the week whose text is shown,
once all payouts that were asked for have come. `DecisionAsConfirmed`: what is
sent is what the window said in which it was confirmed, with the text typed
there. `RosterRemains`: deletions leave an active administrator, unless two
overlapped or one was switched off.

**Maintenance.** `VisitorHeld`: who is not staff sees only the maintenance screen
as long as the page knows of one. `ToldEndMet`: a visitor who waits for an end the
page was told leaves the screen or learns of another end, or of none. Who is told
of none stays for ever (`NobodyStays` fails: section 8).

**Login dialog.** `LockAfterThreeEntries` is what the messages say, and fails:
section 8.

The modules of the server and `CabinetPage` have one type invariant besides (that
of the intake is checked as a part of the desk's); in the others types are part
of the proved invariants. Every property of a passing run has
a mutant of the code (the operators named `Mut...`) that violates it; they are
listed in `PROJECT.json`.

## 4. Runs

| Run | Instance | Distinct states | Shows |
|---|---|---|---|
| `payout_desk` | 2 requests (payouts, giveaways), 2 keys, 1 submitter, 2 deciders, 1 week | 1,538,681 | desk properties and the ledger refinement |
| `intake` | 4 rows, 2 submitters, payouts and giveaways, 2 weeks, 1 failed count | 845,331 | the bounds on pending requests |
| `payout_weeks` | 1 caller and the scheduler, 2 weeks of 4 slots, the server 1 slot ahead, 5 rows, 1 restart or failed statement | 1,359,449 | safety and liveness of the weeks |
| `login` | 1 account, 2 users, 2 attempts, 2 handlers, 1 session, 1 failed expiry | 826,972 | login properties and the sign-in ledger |
| `bans` | 2 administrators, 2 bans of 3 colliding forms, 3 addresses | 27,417 | lookups and currency of the copy |
| `applications` | 3 rows, 2 submitters, 2 deciders, 3 writes, 1 failed count | 1,750,887 | application properties |
| `cabinet_page` | 1 request, decided without and then with a comment; 1 poll at a time | 82,684 | page properties |
| `cabinet_forms` | 1 submission, 2 files of 2 chunks, 2 attempts, 1 list on its way | 181,485 | files, one handler, an end |
| `admin_page` | 2 requests under way, every category | 36,976 | timer and weeks |
| `admin_desk` | an application, a payout in USDT, a key lot, 2 accounts, 1 ban, 1 idea, 2 orders | 1,619,392 | confirmed decisions, the roster |
| `maintenance` | moments 0 to 2, 1 toggle and 1 lapse at a time, 2 questions | 349,125 | the screen holds visitors, and ends when it said |
| `login_lock` | 2 attempts, 1 code under way, 3 questions under way | violated | two wrong entries lock the browser |

Eight more configurations have TLC find the counterexamples of section 8, by hand:
`tlc -config IntakeLimit.cfg MCIntake.tla`, and likewise `WeekRows.cfg` and
`WeekZone.cfg` with `PayoutWeeks`, `LoginSingle.cfg` with `MCLoginFlow`,
`BanStale.cfg` with `MCBanCache`, `ApplicationsFinal.cfg` with `MCApplications`,
`FileComplete.cfg` with `CabinetForms`, and `MaintenanceStays.cfg` with
`Maintenance`.

Why the bounds are enough. The hazards are races of two: two deciders, two
submitters, two handlers, two reloads. The instances have two of the racing
process and as many rows as make a third, different, situation possible: a
second key and request to mix them up, a third pending payout, a second week so
that a stale clock matters, two attempts of which one is old, a subnet that
overlaps a host ban. One failure is as many as change what a race can do, since
each adds one to a bound that is proved for any number. `Intake` needs four
rows to exceed the limit of two by the two goroutines or by one and the failed
count; `PayoutWeeks` needs four rows to give two goroutines one each in two
weeks, and a fifth for a failed lookup. With the server one slot ahead its
clock reaches a week's end in the middle of the window, the case in which
closing and opening compete. The two runs of requests have a shape that is
served from the stock (a giveaway key) and one that is not (a payout, which
needs the open window); a lot differs from them only in its stock and in its
duplicate check, and the proofs have every shape. The key that the
administrators may type is one of the stock's. `applications` has one row more
than its two submitters, which the failed count can fill. In `CabinetPage` one
poll of the page is under way at a time, and it can be overtaken by a poll of
another tab. A chunk is sent three times in the code and twice in
`cabinet_forms`: two attempts give two handlers on one part, one of them
abandoned, and two merges. The run has one submission at a time, and the proof
of `FileWhole` any number. `admin_page` needs two answers to overtake each
other, and `admin_desk` two orders to have two accounts deleted at once. In
`maintenance` two moments give a period that is prolonged while the page waits
for its first end.

Bounds are constants named in the modules (`MaxWeek`, `MaxRows`, `MaxFaults`,
`MaxMiscounts`, `MaxMissed`, `MaxBans`, `MaxWrites`, `MaxPolls`, `MaxLogins`,
`MaxFetches`, `MaxOrders`, `MaxLists`, `MaxFiles`, `MaxTime`, `MaxHandlers`,
`MaxLoads`, and the sets of ids) and appear in guards.
`bans` is checked without deadlock detection, because with every id used and
every ban removed an administrator has nothing left to do; all others include
it. Symmetry is declared on interchangeable processes and ids, and only in runs
without liveness properties.

## 5. Fairness

`PayoutWeeks`, `CabinetPage`, `CabinetForms`, `AdminPage` and `Maintenance` check
liveness, under `FairSpec`.

* Weeks: every statement a goroutine is at completes (weak fairness of
  `Statement`: the database answers, and fails at most `MaxFaults` times), the
  ticker of `Run` fires as long as the process lives and the scheduler is not at a
  statement (weak fairness of `Tick` or the scheduler's `Statement`), and time
  passes (`Advance`). Nobody is obliged to ask
  for the current week, so `Call` has no fairness: the scheduler alone has to
  close it. After a restart `main` starts the scheduler again, so `Tick` stays
  fair.
* Page: its interval timers fire (weak fairness of `WatcherTick` and
  `HeartTick`), and no poll or ping hangs for ever (weak fairness of their
  ends: arrival, refusal, or failure). Strong fairness of the answer and the
  arrival of polls, and of the refusal of pings, says that not every single one
  of the endlessly repeated requests fails; without a network that works now
  and then nothing can be noticed. Decisions, sign-ins, logouts and reloads are
  not fair.
* Forms: a submission goes on (weak fairness of `Progress`): its requests are
  answered or time out, and the server's handlers run. Nobody has to press,
  pick or change a tab.
* Administrators' page: the interval fires (`PollTick`). Answers need not come.
* Maintenance: the clock and the countdown go on, and each question ends, with an
  answer or without (`LoadSiteConfig`). Strong fairness of a rightly read answer
  (`Health`) says that the database does not fail every time it is asked. Nothing
  else is fair: a handler's second write may never happen, and a period may be
  prolonged as often as there are moments for it.

## 6. Proofs

Checked by TLAPS for any sets and bounds that satisfy the modules' assumptions.

* `PayoutDeskProofs`: `TypeCorrect`, `KeysReserved`, `ApprovalsCarryKeys`,
  `DecisionsFinal`. The invariant is `KeyInv`: types, `PoolConsistent` (a
  key that is not in the table is not issued), `DeciderInv` (what a decider holds
  in its locals: a request that exists and, after the pop, a key issued to it),
  and the two properties. `DeciderInv` is the strengthening that matters: the
  key is safe between pop and update only because it is already marked as
  issued, and two deciders of one request hold two different keys, of which the
  loser's stays issued to the request for good.
  `DeskImplementsLedger` follows from `KeyInv`: every action of the
  desk is a submission, an issue, a decision or a stutter of the ledger.
  `NoticesTruthful` needs `NoticeInv`: a decider about to notify is the one that
  decided, holds what the row says, and nobody has notified yet.
  `PendingAlwaysBounded` (of the intake by itself, with `IntakeTypeCorrect`) and
  `DeskPendingBounded` (of the composed system) rest on `CountInv`: a goroutine
  that passed the check and has not inserted counts like a pending row, and the
  two together stay below the limit plus the number of goroutines and of failed
  counts.
* `PayoutWeeksProofs`: `WeeksTypeCorrect`, `OneMondayAlways`,
  `NeverClosedEarly`, `NeverClosedInWindow`, `RowsAlwaysBounded`. `WeeksInv`
  says what a goroutine remembers and may rely on: the Monday it computed is
  not ahead of the present one, and the rows it is about to close exist and are
  over by the server's clock, which only goes on. `NeverClosedInWindow` is the
  second step: where that clock is not ahead of `WEEK_TZ`, over means that the
  window is. `SlotsInv` counts rows, goroutines about to insert one and failed
  statements, as `CountInv` does.
* `BanCacheProofs`: `BanTypeCorrect`, `CopyCurrent`, `LookupsAgreeAlways`. The
  invariant `CopyInv` ties a reload that nobody overlapped to the table: its
  snapshot, if it was read whole, is still the table when it is installed. The
  agreement of the lookups is a lemma about any list of bans, without the
  invariant except for its type.
* `LoginFlowProofs`: `LoginTypeCorrect`, `SessionsAlwaysConfirmed`,
  `AlwaysDecidedByLinkedUser`, `AlwaysDecidedOnce`. `LoginInv` says what a
  handler holds may still be relied on for: an attempt that was never used, or
  approved, names nobody, or its recipient, as who decided (`RowsFit`); one
  handler sends its message, before anybody can have decided it (`SendsOnce`);
  and who is about to create a session does so for an attempt that
  was confirmed (`CreatesConfirmed`). A confirmation may expire but is never taken
  back, which is why a row read long ago is enough.
  `LoginImplementsLedger` maps each action to an ask, an answer, a grant, an end
  of sessions or a stutter; expiry, ageing and the unguarded write of a late poll
  are all stutters. Besides `LoginInv` it needs that the slot of a session that
  ended is blank. `ActiveAlwaysBounded` rests on `ActiveInv`, which counts as
  `CountInv` does: putting out the older attempts leaves none, and from then on a
  handler about to insert one counts like one, so that together they are at most
  the handlers that ever stood there at once; where it fails they stay, and the
  failure is counted.
* `ApplicationsProofs`: `TypeCorrect`, `OverwritesOnlyOverlap`, `NoticesAgree`,
  `PendingBounded`. `OverwriteInv` counts a decider that has read a row undecided
  like a decision already written; nobody comes to that point once the row is
  decided, so the two are never more than the deciders. `NoticeInv` adds the
  messages on their way and the deciders about to send one to those delivered,
  and says of a row decided once that all of them carry its verdict. `PendingInv`
  is `CountInv` for the applicants.
* `CabinetProofs`, of the page: `PageTypeCorrect`, `AnnouncedOnceAlways`. `PageInv`
  says that what the browser remembers and every answer on its way are copies of
  states the table was in, so that a request is never remembered as decided more
  often than it was. Of the forms: `FilesWhole`, `FormsBoundOnce`. `UploadInv`
  holds of every upload: parts of earlier chunks are not torn (`EarlierIntact`),
  handlers work for attempts that were sent, once each (`AttemptsSent`), at most
  one of them is awaited (`OneAwaited`), and that one has read nothing torn and
  left its own part so (`AwaitedFits`); `StepsFit` says which handlers merge and
  answer. The fourth is the point: an abandoned handler may merge a part that is
  being written again, and then no answer names its file; and if it empties one
  that is read, then it is the abandoned one that tore it.
* `MaintenanceProofs`: `VisitorHeldAlways`; the property is inductive once the
  lemmas about `updateMaintenanceView` are there.
* `AdminProofs`, of the page: `OnePollerAlways`, where `PollerInv` adds the types,
  and `WeekSettlesAlways`. `WeekInv` is the property with the types: it says
  nothing while payouts are on their way, so what has to be shown is that the last
  of them to arrive, and only a draft of the same week, restores it. Of the desk:
  `SentAsConfirmed`, because whatever puts a caller into the shared dialog puts
  its title there in the same step and empties the text (`ConfirmInv`: an open
  dialog shows what it will resolve to, and a window's text was typed for its
  item); and `RosterNeverEmptied`, because an order that has counted the
  administrators has still counted right (`RosterInv`), or what made it wrong is
  one of the two excuses.

Four theorems say what the code gives where nothing overlaps or fails, and so what
its missing transactions and dropped errors cost: with one submitter and no failed
count the payout limit is two (`TwoPendingWithOneSubmitter`), without overlapping
logins and failed expiries a login attempt is the only active one
(`SingleWithoutOverlap`), with one decider a decided application stays decided
(`FinalWithOneDecider`), and with a server's clock not ahead of `WEEK_TZ` a week
closes after its window (`NeverClosedInWindow`). Otherwise the excess is bounded
(`PendingAlwaysBounded`, `PendingBounded`, `ActiveAlwaysBounded`,
`RowsAlwaysBounded`, `OverwritesOnlyOverlap`). Section 8 has the counterexamples.

Assumptions on constants are the named `ASSUME`s of the modules, and TLC
evaluates them on every run. They say that the sets of goroutines and accounts
that are counted are finite, that the "nobody" values are not members, that
bounds are numbers, and, in `AdminDesk`, that there is an administrator: the page
is an administrator's. Every safety property of a passing run is proved. Only
model-checked are the liveness properties (`WeeksClose`, `WeeksReported`,
`SeenPendingAnnounced`, `DeadSessionNoticed`, `StrayWatchersStop`,
`StrayPollerStops`, `ToldEndMet`, `SubmitEnds`): fairness and `ENABLED` are
beyond the prover. `LoginDialog`, whose one property fails, has no theorem.

## 7. What is not modelled, and why

* The server's rate limiting and lock-out: counters over windows of the clock,
  planned. That twice the limit passes around the end of a fixed window follows
  from `middleware/security.go:92` without a model.
* Creating accounts, new codes and the bootstrap account; a second account in the
  same browser; the public application form with its captcha: planned.
* `cryptobot.go`: `Transfer` has no caller.
* Audit log, statistics and charts: written and shown, never read by a decision,
  except for the count of failed logins.
* Configuration, connection and migrations: run once; the constraints of the
  schema are in the tables' modules.
* Validation: pure predicates on texts. Rendering, translation, the forms'
  layout, style sheets: no state of the system.
* Tools: not part of the running system. `SubmitSubscription` is not routed.

## 8. Where code and text disagree

Recorded as findings. The first is the violation of a run; of the others a run
shows how far they go, and the configuration in brackets has TLC find them.

1. `auth.js:154`, «максимум 3 неверных ввода»: the dialog counts every answer that
   says an attempt was denied or expired, and asks every second without waiting,
   so that one wrong code and one denied attempt can lock the browser
   (`login_lock`).
2. `payouts/requests.go:23`, two undecided payouts at most: three are possible
   when two submissions count before either inserts (`IntakeLimit.cfg`), or when a
   count fails, whose error is dropped.
3. `payouts/service.go:15`, each week is a row: a Monday may get two, since
   `opens_at` is not unique (`WeekRows.cfg`) and a lookup that failed is taken for
   one that found nothing.
4. `auth/service.go:165`, a single active attempt per account: two logins at
   once leave two (`LoginSingle.cfg`), and so does one whose `UPDATE` failed. No
   more than logins overlapping and failures is proved.
5. `middleware/security.go:15`, any request of a banned address is blocked: an
   overtaken reload forgets a ban until the next change or restart
   (`BanStale.cfg`).
6. `handlers/admin.go:357`, an application that was decided is not decided
   again: the second of two concurrent decisions overwrites the first
   (`ApplicationsFinal.cfg`). With one decider it is true, and proved.
7. `payouts/service.go:14`, Monday 00:00 to 23:00 in `WEEK_TZ`: the end is stored
   without a zone and compared with the server's wall time (`service.go:58,108`), so
   a server whose zone is ahead closes the week inside its window, and one behind
   later (`WeekZone.cfg`). With the same zone it is true, and proved.
8. `uploads/uploads.go:171` answers `completed`: a handler whose client gave up may
   reach `os.Create` (line 124) after the repeated chunk was written, and empty the
   part that is merged into the file the answer names (`FileComplete.cfg`).
9. `public.js:86`: a page told of maintenance without an end, between the two writes
   of a switch-on or after the second failed, never asks again, and its visitor
   stays on the screen though the site is open (`MaintenanceStays.cfg`).

Noted while reading, not modelled: `tools/e2e/main.go:128-132` expects a second
payout in a week to be refused, the limit is two; the repository's README
describes two-factor login as mandatory, the default of the setting is off; it
describes a USDT transfer on approval, and nothing calls `Transfer`; the comment
on the rate limiter says sliding window, the window is fixed; an administrator
who resets a code leaves the account's sessions alive.

Noted while modelling the pages, true of the models and not stated as
properties:

* `admin.js:82` calls the filter bar global, over all tables: after media
  applications have been drawn and another table with statuses is opened before
  its answer, the bar above it may be that of another category, and typing there
  draws that one.
* The accounts' button switches what the database holds, not what the table
  shows: pressed on a table that is out of date, it switches back on an account
  another administrator has just switched off.
* A request that finds the period over switches maintenance off (`main.go:139`)
  even if it was just switched on again, since `on` is written before the new
  end. When the configuration fails to load the page shows the site as open.
* Removing a picked file while another is uploaded skips a file; a second press
  while the first submission runs is emptied by the first's success; a late list
  of requests replaces the form that was opened meanwhile; when the answer of the
  last chunk is lost, sending it again fails although the file is there.

## 9. Plan

Done, in this order: request table, key pool, desk, intake and their ledger
(what hands out money and keys), weeks, login, bans, applications, cabinet page;
then uploads and forms, the login dialog, the administrators' page and desk with
the roster's deletions, maintenance; the sign-in ledger; proofs of every safety
property the runs check, and of both ledgers.

Left:

1. Proofs: an abstract specification of the weekly cycle or of the applications'
   verdicts, and its refinement.
2. The server's rate limiting and lock-out with their windows.
3. The rest of the roster (creation, new codes, bootstrap), composed with the
   sessions of `LoginFlow`.
4. A second account in the browser, once the page's instance can afford it, and
   the public application form.
