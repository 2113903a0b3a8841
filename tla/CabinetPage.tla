------------------------------ MODULE CabinetPage ------------------------------
(***************************************************************************)
(* The cabinet in a browser (auth.js, cabinet.js) of one account: whether  *)
(* the page believes it is signed in, the heartbeat that keeps the session *)
(* alive, and the watcher that polls the account's requests and announces  *)
(* decisions.  Between an await and its continuation anything may happen:  *)
(* fetches fail, and answers overtake each other.  A continuation runs     *)
(* without interruption.  Other tabs of the browser share the cookie,      *)
(* "remember me" and the list of what was seen, and do with them what this *)
(* page does.                                                              *)
(***************************************************************************)
EXTENDS Integers, FiniteSets, Sequences, Functions

CONSTANTS
  Requests,      \* the account's requests
  NoComment,     \* the empty comment of an administrator
  Comments,      \* the comments of a request's first, second, ... decision;
                 \* their number bounds that of the decisions
  MaxPolls       \* bound on the page's unfinished polls

ASSUME PollsAssumption == MaxPolls \in Nat
ASSUME CommentsAssumption == Comments \in Seq(Range(Comments))

VARIABLES
  role,      \* of the account, never changed
  rows,      \* the requests in the database
  cookie,    \* the server accepts the session in the cookie
  remember,  \* localStorage: delta_remember
  seen,      \* localStorage: the requests as a watcher saw them last
  page,      \* CURRENT_ACCOUNT is set; the timers of heartbeat and watcher
  fetches,   \* the page's unfinished fetches
  told       \* history: announcements, see Announce

vars == <<role, rows, cookie, remember, seen, page, fetches, told>>

local == <<role, remember, seen, told>>

(***************************************************************************)
(* version is a history field: the number of decisions so far.             *)
(***************************************************************************)
Absent == [status |-> "absent", comment |-> NoComment, version |-> 0]

Pending == [Absent EXCEPT !.status = "pending"]

RequestRow == [status : {"absent", "pending", "decided"},
               comment : {NoComment} \cup Range(Comments), version : 0..Len(Comments)]

Lists == [Requests -> RequestRow]

NothingSeen == [r \in Requests |-> Absent]

(***************************************************************************)
(* live: the server accepts the session that the fetch was sent with.      *)
(***************************************************************************)
Fetch == [kind : {"requests", "me", "ping", "logout", "forget"}, live : BOOLEAN,
          answered : BOOLEAN, list : Lists]

Page == [signedIn : BOOLEAN, heart : BOOLEAN, watching : BOOLEAN]

BlankPage == [signedIn |-> FALSE, heart |-> FALSE, watching |-> FALSE]

Init ==
  /\ role \in {"moderator", "media"}
  /\ rows = NothingSeen
  /\ cookie = FALSE
  /\ remember = "unset"
  /\ seen = NothingSeen
  /\ page = BlankPage
  /\ fetches = {}
  /\ told = [r \in Requests |-> 0]

-----------------------------------------------------------------------------
(***************************************************************************)
(* A poll of the requests has its answer.  A first list is only            *)
(* remembered; later a decision is announced when the request was seen     *)
(* pending, or when it has a new comment.  told counts the announcements   *)
(* of a request since the last time an old answer put it back to an        *)
(* earlier state.                                                          *)
(***************************************************************************)
MutIsNewsAgain(old, row) == old # Absent /\ row.status = "decided"

MutIsNews(old, row) ==
  row.status = "decided" /\ row.comment \notin {NoComment, old.comment}

IsNews(old, row) ==
  /\ old # Absent /\ row.status = "decided"
  /\ \/ old.status = "pending"
     \/ row.comment \notin {NoComment, old.comment}

Remember(list) ==
  seen' = [r \in Requests |-> IF list[r] = Absent THEN seen[r] ELSE list[r]]

Announce(list) ==
  told' = [r \in Requests |->
    LET before == IF list[r].version < seen[r].version THEN 0 ELSE told[r]
    IN IF list[r] = Absent THEN told[r]
       ELSE IF IsNews(seen[r], list[r]) THEN before + 1 ELSE before]

-----------------------------------------------------------------------------
(***************************************************************************)
(* Outside the page: requests are submitted and decided (those without a   *)
(* guard on the status again, see Applications); the session ends by an    *)
(* administrator, by expiry or by another tab; other tabs sign in and poll.*)
(***************************************************************************)
MutSubmit(r) ==
  /\ rows[r] = Absent
  /\ rows' = [rows EXCEPT ![r] = [Absent EXCEPT !.status = "new"]]
  /\ UNCHANGED <<cookie, local, page, fetches>>

Submit(r) ==
  /\ rows[r] = Absent
  /\ rows' = [rows EXCEPT ![r] = Pending]
  /\ UNCHANGED <<cookie, local, page, fetches>>

Decide(r) ==
  /\ rows[r] # Absent /\ rows[r].version < Len(Comments)
  /\ LET version == rows[r].version + 1 IN
       rows' = [rows EXCEPT ![r] =
         [status |-> "decided", comment |-> Comments[version], version |-> version]]
  /\ UNCHANGED <<cookie, local, page, fetches>>

Ended(fs) == {IF f.answered THEN f ELSE [f EXCEPT !.live = FALSE] : f \in fs}

SessionEnds ==
  /\ cookie
  /\ cookie' = FALSE
  /\ fetches' = Ended(fetches)
  /\ remember' \in {remember, "unset"}
  /\ UNCHANGED <<role, rows, seen, told, page>>

SignInElsewhere ==
  /\ cookie' = TRUE
  /\ remember' \in {"yes", "no"}
  /\ UNCHANGED <<role, rows, seen, page, fetches, told>>

PollElsewhere ==
  /\ cookie
  /\ Announce(rows) /\ Remember(rows)
  /\ UNCHANGED <<role, rows, cookie, remember, page, fetches>>

-----------------------------------------------------------------------------
Sent(kind) == [kind |-> kind, live |-> cookie, answered |-> FALSE, list |-> NothingSeen]

(***************************************************************************)
(* The bound on the fetches: MaxPolls polls, one ping, and one of the      *)
(* fetches the user causes.                                                *)
(***************************************************************************)
UserKinds == {"me", "logout", "forget"}

UnderWay(kinds) == {f \in fetches : f.kind \in kinds}

Room(kind) ==
  IF kind = "requests" THEN Cardinality(UnderWay({kind})) < MaxPolls
  ELSE UnderWay(IF kind = "ping" THEN {kind} ELSE UserKinds) = {}

(***************************************************************************)
(* A login was accepted and its answer has set the cookie (LoginFlow has   *)
(* the details); loadSession asks who is signed in.                        *)
(***************************************************************************)
SignIn ==
  /\ ~page.signedIn /\ Room("me")
  /\ cookie' = TRUE
  /\ remember' \in {"yes", "no"}
  /\ fetches' = fetches \cup {[Sent("me") EXCEPT !.live = TRUE]}
  /\ UNCHANGED <<role, rows, seen, page, told>>

(***************************************************************************)
(* showView("cabinet") and loadSession start the watcher anew; it polls at *)
(* once and then at every tick of its timer.  A watcher, or a heartbeat,   *)
(* that finds nobody signed in stops itself.                               *)
(***************************************************************************)
OpenCabinet ==
  /\ page.signedIn /\ Room("requests")
  /\ page' = [page EXCEPT !.watching = TRUE]
  /\ fetches' = fetches \cup {Sent("requests")}
  /\ UNCHANGED <<rows, cookie, local>>

MutWatcherTick ==
  /\ page.watching /\ Room("requests")
  /\ fetches' = fetches \cup {Sent("requests")}
  /\ UNCHANGED <<rows, cookie, local, page>>

WatcherTick ==
  /\ page.watching
  /\ IF page.signedIn
       THEN Room("requests") /\ fetches' = fetches \cup {Sent("requests")} /\ UNCHANGED page
       ELSE page' = [page EXCEPT !.watching = FALSE] /\ UNCHANGED fetches
  /\ UNCHANGED <<rows, cookie, local>>

HeartTick ==
  /\ page.heart
  /\ IF page.signedIn
       THEN Room("ping") /\ fetches' = fetches \cup {Sent("ping")} /\ UNCHANGED page
       ELSE page' = [page EXCEPT !.heart = FALSE] /\ UNCHANGED fetches
  /\ UNCHANGED <<rows, cookie, local>>

LogOut ==
  /\ page.signedIn /\ Room("logout")
  /\ fetches' = fetches \cup {Sent("logout")}
  /\ UNCHANGED <<rows, cookie, local, page>>

(***************************************************************************)
(* The page is loaded (F5, or another visit): without "remember me" it     *)
(* logs out first, with it it asks who is signed in.  The answers to the   *)
(* fetches of the old page are lost.                                       *)
(***************************************************************************)
Reload ==
  /\ page' = BlankPage
  /\ fetches' = CASE remember = "no" -> {Sent("forget")}
                  [] remember = "yes" -> {Sent("me")}
                  [] remember = "unset" -> {}
  /\ UNCHANGED <<rows, cookie, local>>

-----------------------------------------------------------------------------
(***************************************************************************)
(* A poll is answered; the answer arrives later.  The other answers are    *)
(* one step with their arrival: a session that has ended stays ended, so   *)
(* nothing could tell the two moments apart.                               *)
(***************************************************************************)
Answer(f) ==
  /\ f \in fetches /\ f.kind = "requests" /\ f.live /\ ~f.answered
  /\ fetches' = (fetches \ {f}) \cup {[f EXCEPT !.answered = TRUE, !.list = rows]}
  /\ UNCHANGED <<rows, cookie, local, page>>

PollArrives(f) ==
  /\ f \in fetches /\ f.answered
  /\ fetches' = fetches \ {f}
  /\ IF page.signedIn THEN Announce(f.list) /\ Remember(f.list) ELSE UNCHANGED <<seen, told>>
  /\ UNCHANGED <<role, rows, cookie, remember, page>>

(***************************************************************************)
(* handleSessionExpired, on any 401 but that of /api/me, also on one that  *)
(* is late: the account is signed out, and of the two watchers only that   *)
(* of moderators is stopped.                                               *)
(***************************************************************************)
MutSessionExpired == UNCHANGED page

SessionExpired ==
  IF page.signedIn
    THEN page' = [BlankPage EXCEPT !.watching = page.watching /\ role = "media"]
    ELSE UNCHANGED page

Refused(f) ==
  /\ f \in fetches /\ f.kind \in {"requests", "ping"} /\ ~f.live
  /\ fetches' = fetches \ {f}
  /\ SessionExpired
  /\ UNCHANGED <<rows, cookie, local>>

(***************************************************************************)
(* loadSession: the heartbeat and the watcher are started, and the watcher *)
(* polls at once; a refusal or a failure signs the page out.               *)
(***************************************************************************)
SessionLoaded(f) ==
  /\ f \in fetches /\ f.kind = "me" /\ f.live
  /\ page' = [signedIn |-> TRUE, heart |-> TRUE, watching |-> TRUE]
  /\ fetches' = (fetches \ {f}) \cup {Sent("requests")}
  /\ UNCHANGED <<rows, cookie, local>>

NoSessionLoaded(f) ==
  /\ f \in fetches /\ f.kind = "me"
  /\ page' = BlankPage
  /\ fetches' = fetches \ {f}
  /\ UNCHANGED <<rows, cookie, local>>

(***************************************************************************)
(* After /api/logout, whether it was answered (which ends the session and  *)
(* clears the cookie) or not.  The button stops the timers; the logout of  *)
(* a page being loaded ("forget") does not.                                *)
(***************************************************************************)
LoggedOut(f) ==
  /\ f \in fetches /\ f.kind \in {"logout", "forget"}
  /\ page' = IF f.kind = "logout" THEN BlankPage ELSE [page EXCEPT !.signedIn = FALSE]
  /\ remember' = "unset"
  /\ \/ cookie' = FALSE /\ fetches' = Ended(fetches \ {f})
     \/ cookie' = cookie /\ fetches' = fetches \ {f}
  /\ UNCHANGED <<role, rows, seen, told>>

(***************************************************************************)
(* A poll or a ping fails, or a ping is accepted: nothing changes.         *)
(***************************************************************************)
Dropped(f) ==
  /\ f \in fetches /\ f.kind \in {"requests", "ping"}
  /\ fetches' = fetches \ {f}
  /\ UNCHANGED <<rows, cookie, local, page>>

Next ==
  \/ \E r \in Requests : Submit(r) \/ Decide(r)
  \/ SessionEnds \/ SignInElsewhere \/ PollElsewhere
  \/ SignIn \/ OpenCabinet \/ WatcherTick \/ HeartTick \/ LogOut \/ Reload
  \/ \E f \in fetches :
       \/ Answer(f) \/ PollArrives(f) \/ Refused(f) \/ SessionLoaded(f)
       \/ NoSessionLoaded(f) \/ LoggedOut(f) \/ Dropped(f)

Spec == Init /\ [][Next]_vars

(***************************************************************************)
(* The timers of the page fire, no poll or ping hangs for ever, and of     *)
(* those the page goes on sending not all fail.                            *)
(***************************************************************************)
FairSpec ==
  /\ Spec
  /\ WF_vars(HeartTick) /\ WF_vars(WatcherTick)
  /\ \A kind \in {"requests", "ping"} :
       WF_vars(\E f \in UnderWay({kind}) : PollArrives(f) \/ Refused(f) \/ Dropped(f))
  /\ SF_vars(\E f \in fetches : Answer(f))
  /\ SF_vars(\E f \in fetches : PollArrives(f))
  /\ SF_vars(\E f \in UnderWay({"ping"}) : Refused(f))

-----------------------------------------------------------------------------
(***************************************************************************)
(* Type invariant.                                                         *)
(***************************************************************************)
TypeOK ==
  /\ role \in {"moderator", "media"}
  /\ rows \in Lists
  /\ cookie \in BOOLEAN
  /\ remember \in {"unset", "yes", "no"}
  /\ seen \in Lists
  /\ page \in Page
  /\ \A f \in fetches : f \in Fetch
  /\ told \in [Requests -> Nat]

(***************************************************************************)
(* Overlapping polls, other tabs and reloads do not announce a decision    *)
(* twice: a request is announced as often as it was decided, unless an     *)
(* answer that was overtaken put the remembered state back (cabinet.js,    *)
(* pollModRequestsAndNotify and pollMediaRequestsAndNotify).               *)
(***************************************************************************)
AnnouncedOnce == \A r \in Requests : told[r] <= rows[r].version

(***************************************************************************)
(* A request the browser remembers as pending is announced once it is      *)
(* decided, as long as the page is signed in with a session the server     *)
(* accepts and its watcher runs (cabinet.js, the two pollers).             *)
(***************************************************************************)
Watched == cookie /\ page.signedIn /\ page.watching

SeenPendingAnnounced ==
  \A r \in Requests :
    (seen[r] = Pending /\ rows[r].status = "decided" /\ told[r] = 0)
      ~> (told[r] > 0 \/ ~Watched)

(***************************************************************************)
(* A page that shows an account whose session has ended (in another tab,   *)
(* by an administrator, by expiry) finds out (auth.js,                     *)
(* startSessionHeartbeat and handleSessionExpired).                        *)
(***************************************************************************)
DeadSessionNoticed == (page.signedIn /\ ~cookie) ~> (~page.signedIn \/ cookie)

(***************************************************************************)
(* A watcher of an account that is signed out stops, although the watcher  *)
(* of media is not stopped when the session expires (auth.js,              *)
(* handleSessionExpired).                                                  *)
(***************************************************************************)
StrayWatchersStop ==
  (page.watching /\ ~page.signedIn) ~> (~page.watching \/ page.signedIn)
=============================================================================
